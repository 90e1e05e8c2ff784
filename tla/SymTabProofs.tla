---------------------------- MODULE SymTabProofs ----------------------------
(***************************************************************************)
(* The symbol tables are at all times a tree as calculate_offsets takes it *)
(* and every tied identifier has a symbol there, in any program whose      *)
(* declarations are as the grammar makes them.  The walk does not keep the *)
(* table of the moment where it could be looked up: it opens one, goes     *)
(* through what is below, and leaves by the parent link.  So the invariant *)
(* is about the tables, and about what is left to walk.                    *)
(***************************************************************************)
EXTENDS SymTab, PlainStyle, SequenceTheorems, FiniteSetTheorems, WellFoundedInduction,
        TLAPS

IsSequence(s) == \E S : s \in Seq(S)
Steps == {"L", "R"}

-----------------------------------------------------------------------------
(* Numbers and sequences.                                                  *)

(* A set of numbers has a least one.                                       *)
LEMMA LeastOf ==
  ASSUME NEW S, S \subseteq Nat, S # {}
  PROVE  Least(S) \in S /\ \A j \in S : Least(S) <= j
<1>1. PICK m \in S : \A k \in S : <<k, m>> \notin OpToRel(<, Nat)
      BY WFMin, NatLessThanWellFounded, Zenon
<1>2. \A k \in S : ~(k < m)
      <2>1. m \in Nat /\ \A k \in S : k \in Nat
            OBVIOUS
      <2>2. QED
            BY <1>1, <2>1, Zenon DEF OpToRel
<1>3. \A k \in S : m <= k
      BY <1>2
<1>4. QED
      BY <1>3 DEF Least

(* A set of numbers that has a bound has a greatest one.                   *)
LEMMA GreatestOf ==
  ASSUME NEW b \in Nat, NEW S, S \subseteq 0..b, S # {}
  PROVE  \E k \in S : \A j \in S : j <= k
<1>1. PICK D : D = {b - j : j \in S}
      OBVIOUS
<1>2. D \subseteq Nat /\ D # {}
      <2>1. \A j \in S : b - j \in Nat
            OBVIOUS
      <2>2. QED
            BY <1>1, <2>1
<1>3. PICK m : m = Least(D)
      OBVIOUS
<1>4. m \in D /\ \A j \in D : m <= j
      BY <1>2, <1>3, LeastOf
<1>5. PICK k \in S : m = b - k
      BY <1>1, <1>4
<1>6. ASSUME NEW j \in S PROVE j <= k
      <2>1. b - j \in D
            BY <1>1
      <2>2. m <= b - j /\ j \in Nat /\ k \in Nat
            BY <1>4, <2>1
      <2>3. QED
            BY <1>5, <2>2
<1>7. QED
      BY <1>6

(* The elements of two sequences in one.                                   *)
LEMMA Concatenation ==
  ASSUME NEW s, IsSequence(s), NEW u, IsSequence(u)
  PROVE  /\ IsSequence(s \o u)
         /\ Len(s) \in Nat /\ Len(u) \in Nat /\ Len(s \o u) = Len(s) + Len(u)
         /\ \A i \in 1..Len(s) : (s \o u)[i] = s[i]
         /\ \A i \in 1..Len(u) : (s \o u)[Len(s) + i] = u[i]
<1>1. PICK S : s \in Seq(S)
      BY DEF IsSequence
<1>2. PICK U : u \in Seq(U)
      BY DEF IsSequence
<1>3. s \in Seq(S \cup U) /\ u \in Seq(S \cup U)
      BY <1>1, <1>2
<1>4. s \o u \in Seq(S \cup U)
      BY <1>3
<1>5. QED
      BY <1>3, <1>4 DEF IsSequence

(* The walk after a step: new work in place of the first item.             *)
LEMMA Shifted ==
  ASSUME IsSequence(walk), walk # <<>>, NEW new, IsSequence(new), Then(new)
  PROVE  \E k, q \in Nat :
           /\ k = Len(new) /\ Len(walk) = q + 1 /\ Len(walk') = k + q /\ IsSequence(walk')
           /\ \A i \in 1..k : walk'[i] = new[i]
           /\ \A j \in 1..q : walk'[k + j] = walk[j + 1]
           /\ Head(walk) = walk[1]
<1>1. PICK S : walk \in Seq(S)
      BY DEF IsSequence
<1>2. /\ Tail(walk) \in Seq(S) /\ Len(Tail(walk)) + 1 = Len(walk) /\ Len(Tail(walk)) \in Nat
      /\ \A j \in 1..Len(Tail(walk)) : Tail(walk)[j] = walk[j + 1]
      /\ Head(walk) = walk[1]
      BY <1>1
<1>3. IsSequence(Tail(walk))
      BY <1>2 DEF IsSequence
<1>4. walk' = new \o Tail(walk)
      BY DEF Then
<1>5. \A tl : IsSequence(tl) =>
        /\ IsSequence(new \o tl) /\ Len(new) \in Nat /\ Len(new \o tl) = Len(new) + Len(tl)
        /\ \A i \in 1..Len(new) : (new \o tl)[i] = new[i]
        /\ \A j \in 1..Len(tl) : (new \o tl)[Len(new) + j] = tl[j]
      BY Concatenation
<1>6. /\ IsSequence(walk') /\ Len(new) \in Nat /\ Len(walk') = Len(new) + Len(Tail(walk))
      /\ \A i \in 1..Len(new) : walk'[i] = new[i]
      /\ \A j \in 1..Len(Tail(walk)) : walk'[Len(new) + j] = Tail(walk)[j]
      BY <1>3, <1>4, <1>5, Zenon
<1>7. QED
      BY <1>2, <1>6

-----------------------------------------------------------------------------
(* Paths.                                                                  *)

(* The part of a path down to some level.                                  *)
LEMMA PartPath ==
  ASSUME NEW S, NEW n \in Seq(S), NEW k \in 0..Len(n)
  PROVE  /\ SubSeq(n, 1, k) \in Seq(S) /\ Len(SubSeq(n, 1, k)) = k
         /\ \A i \in 1..k : SubSeq(n, 1, k)[i] = n[i]
<1>1. /\ Len(n) \in Nat /\ k \in Nat /\ \A i \in 1..k : n[i] \in S
      BY ElementOfSeq
<1>2. QED
      BY <1>1, SubSeqProperties

(* One element more, and the path above.                                   *)
LEMMA ChildPath ==
  ASSUME NEW S, NEW n \in Seq(S), NEW d \in S
  PROVE  /\ Append(n, d) \in Seq(S) /\ Len(Append(n, d)) = Len(n) + 1
         /\ Append(n, d)[Len(n) + 1] = d
         /\ \A k \in 0..Len(n) : SubSeq(Append(n, d), 1, k) = SubSeq(n, 1, k)
         /\ SubSeq(n, 1, Len(n)) = n
         /\ Parent(Append(n, d)) = n
<1>1. /\ Append(n, d) \in Seq(S) /\ Len(Append(n, d)) = Len(n) + 1
      /\ \A i \in 1..Len(n) : Append(n, d)[i] = n[i]
      /\ Append(n, d)[Len(n) + 1] = d /\ Len(n) \in Nat
      BY AppendProperties
<1>2. ASSUME NEW k \in 0..Len(n) PROVE SubSeq(Append(n, d), 1, k) = SubSeq(n, 1, k)
      <2>1. /\ SubSeq(n, 1, k) \in Seq(S) /\ Len(SubSeq(n, 1, k)) = k
            /\ \A i \in 1..k : SubSeq(n, 1, k)[i] = n[i]
            BY PartPath
      <2>2. k \in 0..Len(Append(n, d))
            BY <1>1
      <2>3. /\ SubSeq(Append(n, d), 1, k) \in Seq(S) /\ Len(SubSeq(Append(n, d), 1, k)) = k
            /\ \A i \in 1..k : SubSeq(Append(n, d), 1, k)[i] = Append(n, d)[i]
            BY <1>1, <2>2, PartPath
      <2>4. \A i \in 1..k : SubSeq(Append(n, d), 1, k)[i] = SubSeq(n, 1, k)[i]
            BY <1>1, <2>1, <2>3
      <2>5. QED
            BY <2>1, <2>3, <2>4, SeqEqual
<1>3. SubSeq(n, 1, Len(n)) = n
      BY SubSeqFull
<1>4. Parent(Append(n, d)) = n
      <2>1. Len(Append(n, d)) - 1 = Len(n) /\ Len(n) \in 0..Len(n)
            BY <1>1
      <2>2. QED
            BY <1>2, <1>3, <2>1 DEF Parent
<1>5. QED
      BY <1>1, <1>2, <1>3, <1>4

(* A path is its parent's with one element more.                           *)
LEMMA ParentPath ==
  ASSUME NEW S, NEW n \in Seq(S), n # <<>>
  PROVE  /\ Len(n) - 1 \in 0..Len(n) /\ Len(n) \in Nat /\ Len(n) >= 1
         /\ Parent(n) \in Seq(S) /\ Len(Parent(n)) = Len(n) - 1
         /\ n[Len(n)] \in S /\ n = Append(Parent(n), n[Len(n)])
<1>1. Len(n) \in Nat /\ Len(n) # 0
      BY EmptySeq
<1>2. PICK m : m = Len(n)
      OBVIOUS
<1>3. m \in Nat /\ m - 1 \in 0..m /\ m >= 1 /\ m \in 1..m
      BY <1>1, <1>2
<1>4. /\ Parent(n) \in Seq(S) /\ Len(Parent(n)) = m - 1
      /\ \A i \in 1..(m - 1) : Parent(n)[i] = n[i]
      BY <1>2, <1>3, PartPath DEF Parent
<1>5. n[m] \in S
      BY <1>2, <1>3, ElementOfSeq
<1>6. PICK a : a = Append(Parent(n), n[m])
      OBVIOUS
<1>7. /\ a \in Seq(S) /\ Len(a) = m /\ a[m] = n[m]
      /\ \A i \in 1..(m - 1) : a[i] = n[i]
      BY <1>3, <1>4, <1>5, <1>6, AppendProperties
<1>8. a = n
      <2>1. \A i \in 1..m : a[i] = n[i]
            BY <1>3, <1>7
      <2>2. QED
            BY <1>2, <1>7, <2>1, SeqEqual
<1>9. QED
      BY <1>2, <1>3, <1>4, <1>5, <1>6, <1>8

-----------------------------------------------------------------------------
(* Nodes.                                                                  *)

(* A node of the tree, and a place where a child could be.                 *)
IsPlace(n) == IsPath(tree, n)
IsNode(n)  == IsPlace(n) /\ ~IsNull(n)

(* What is known of a place.                                               *)
LEMMA PlaceFacts ==
  ASSUME NEW n, IsPlace(n)
  PROVE  /\ n \in Paths /\ n \in Seq(Steps) /\ Len(n) \in Nat
         /\ At[n] = NodeAt(tree, n) /\ (IsNull(n) <=> Missing(tree, n))
BY DEF IsPlace, IsPath, Paths, Steps, At, IsNull, Missing

(* A node's children are places.                                           *)
LEMMA ChildPlaces ==
  ASSUME NEW n, IsNode(n)
  PROVE  IsPlace(Left(n)) /\ IsPlace(Right(n))
<1>1. n \in Seq(Steps) /\ "L" \in Steps /\ "R" \in Steps /\ ~Missing(tree, n) /\ IsPath(tree, n)
      BY PlaceFacts DEF IsNode, Steps, IsPlace
<1>2. ASSUME NEW d \in Steps PROVE IsPath(tree, Append(n, d))
      <2>1. PICK m, c : m = Len(n) /\ c = Append(n, d)
            OBVIOUS
      <2>2. /\ c \in Seq(Steps) /\ Len(c) = m + 1 /\ m \in Nat
            /\ \A k \in 0..m : SubSeq(c, 1, k) = SubSeq(n, 1, k)
            /\ SubSeq(n, 1, m) = n
            BY <1>1, <2>1, ChildPath, LenProperties
      <2>3. \A k \in 0..(m - 1) : ~Missing(tree, SubSeq(n, 1, k))
            BY <1>1, <2>1 DEF IsPath
      <2>4. ~Missing(tree, SubSeq(n, 1, m))
            BY <1>1, <2>2
      <2>5. \A k \in 0..m : k \in 0..(m - 1) \/ k = m
            BY <2>2
      <2>6. \A k \in 0..m : ~Missing(tree, SubSeq(c, 1, k))
            BY <2>2, <2>3, <2>4, <2>5
      <2>7. Len(c) - 1 = m
            BY <2>2
      <2>8. IsPath(tree, c)
            BY <2>2, <2>6, <2>7 DEF IsPath, Steps
      <2>9. QED
            BY <2>1, <2>8
<1>3. QED
      BY <1>1, <1>2 DEF Left, Right, IsPlace

(* And so is every node above.                                             *)
LEMMA PartPlaces ==
  ASSUME NEW n, IsPlace(n), NEW k \in 0..(Len(n) - 1)
  PROVE  IsNode(SubSeq(n, 1, k))
<1>1. PICK m, p : m = Len(n) /\ p = SubSeq(n, 1, k)
      OBVIOUS
<1>2. n \in Seq(Steps) /\ m \in Nat /\ k \in 0..m /\ k \in 0..(m - 1) /\ k \in Nat
      BY <1>1, PlaceFacts
<1>3. p \in Seq(Steps) /\ Len(p) = k /\ \A i \in 1..k : p[i] = n[i]
      BY <1>1, <1>2, PartPath
<1>4. ASSUME NEW j \in 0..k PROVE SubSeq(p, 1, j) = SubSeq(n, 1, j)
      <2>1. j \in 0..Len(p) /\ j \in 0..Len(n) /\ \A i \in 1..j : i \in 1..k
            BY <1>1, <1>2, <1>3
      <2>2. /\ SubSeq(p, 1, j) \in Seq(Steps) /\ Len(SubSeq(p, 1, j)) = j
            /\ \A i \in 1..j : SubSeq(p, 1, j)[i] = p[i]
            BY <1>3, <2>1, PartPath
      <2>3. /\ SubSeq(n, 1, j) \in Seq(Steps) /\ Len(SubSeq(n, 1, j)) = j
            /\ \A i \in 1..j : SubSeq(n, 1, j)[i] = n[i]
            BY <1>2, <2>1, PartPath
      <2>4. \A i \in 1..j : SubSeq(p, 1, j)[i] = SubSeq(n, 1, j)[i]
            BY <1>3, <2>1, <2>2, <2>3
      <2>5. QED
            BY <2>2, <2>3, <2>4, SeqEqual
<1>5. \A j \in 0..(m - 1) : ~Missing(tree, SubSeq(n, 1, j))
      BY <1>1 DEF IsPlace, IsPath
<1>6. \A j \in 0..(k - 1) : j \in 0..k /\ j \in 0..(m - 1)
      BY <1>2
<1>7. \A j \in 0..(k - 1) : ~Missing(tree, SubSeq(p, 1, j))
      BY <1>4, <1>5, <1>6
<1>8. IsPlace(p)
      BY <1>3, <1>7 DEF IsPlace, IsPath, Steps
<1>9. ~Missing(tree, p)
      BY <1>1, <1>2, <1>5
<1>10. QED
       BY <1>1, <1>8, <1>9, PlaceFacts DEF IsNode

(* What is above a node is above its children, and so is it.               *)
LEMMA ChildBelow ==
  ASSUME NEW n, IsNode(n), NEW s, Below(n, s) \/ At[n].subtype = s
  PROVE  Below(Left(n), s) /\ Below(Right(n), s)
<1>1. n \in Seq(Steps) /\ "L" \in Steps /\ "R" \in Steps /\ At[n] = NodeAt(tree, n)
      BY PlaceFacts DEF IsNode, Steps
<1>2. ASSUME NEW d \in Steps PROVE Below(Append(n, d), s)
      <2>1. PICK m, c : m = Len(n) /\ c = Append(n, d)
            OBVIOUS
      <2>2. /\ c \in Seq(Steps) /\ Len(c) = m + 1 /\ m \in Nat
            /\ \A k \in 0..m : SubSeq(c, 1, k) = SubSeq(n, 1, k)
            /\ SubSeq(n, 1, m) = n
            BY <1>1, <2>1, ChildPath, LenProperties
      <2>3. PICK k \in 0..m : NodeAt(tree, SubSeq(n, 1, k)).subtype = s
            <3>1. CASE Below(n, s)
                  <4>1. PICK k \in 0..(m - 1) : NodeAt(tree, SubSeq(n, 1, k)).subtype = s
                        BY <2>1, <3>1 DEF Below, is_below_subtype
                  <4>2. k \in 0..m
                        BY <2>2
                  <4>3. QED
                        BY <4>1, <4>2
            <3>2. CASE At[n].subtype = s
                  <4>1. m \in 0..m
                        BY <2>2
                  <4>2. QED
                        BY <1>1, <2>2, <3>2, <4>1
            <3>3. QED
                  BY <3>1, <3>2
      <2>4. Len(c) - 1 = m /\ SubSeq(c, 1, k) = SubSeq(n, 1, k)
            BY <2>2
      <2>5. QED
            BY <2>1, <2>3, <2>4 DEF Below, is_below_subtype
<1>3. QED
      BY <1>1, <1>2 DEF Left, Right

(* The root.                                                               *)
LEMMA RootPlace == IsPlace(<<>>)
<1>1. Len(<<>>) = 0 /\ 0..(0 - 1) = {} /\ <<>> \in Seq({"L", "R"})
      OBVIOUS
<1>2. QED
      BY <1>1 DEF IsPlace, IsPath

(* What the hypothesis says of a node.                                     *)
LEMMA DeclaredNode ==
  ASSUME Declarable(tree), NEW n, IsNode(n)
  PROVE  /\ DeclaredAt(tree, n)
         /\ At[n].type = "TYPE" => At[n].subtype \in TYPEBITS
         /\ At[n].subtype = "FUNCTION_DECL" =>
              /\ At[n].type = "LIST" /\ At[Left(n)].type = "IDENTIFIER" /\ IsNode(Left(n))
         /\ At[n].subtype = "LIST_BLOCK" => ~Below(n, "FUNCTION_DECL")
         /\ At[n].subtype = "ARRAY_DECL" /\ ~IsNull(Right(n)) =>
              At[Right(n)].const_value \in Nat
<1>1. IsPlace(n) /\ n \in Seq({"L", "R"}) /\ ~Missing(tree, n) /\ At[n] = NodeAt(tree, n)
      BY PlaceFacts DEF IsNode, Steps
<1>2. DeclaredAt(tree, n)
      BY <1>1 DEF Declarable, IsPlace
<1>3. IsPlace(Left(n)) /\ IsPlace(Right(n))
      BY ChildPlaces
<1>4. /\ At[Left(n)] = NodeAt(tree, Left(n)) /\ At[Right(n)] = NodeAt(tree, Right(n))
      /\ (IsNull(Right(n)) <=> Missing(tree, Right(n)))
      BY <1>3, PlaceFacts
<1>5. At[Left(n)].type = "IDENTIFIER" => ~IsNull(Left(n))
      BY DEF IsNull, NULL
<1>6. QED
      BY <1>1, <1>2, <1>3, <1>4, <1>5 DEF DeclaredAt, TypeWords, TYPEBITS, Below, IsNode
-----------------------------------------------------------------------------
(* Tables.                                                                 *)

Numbers == Nat \ {0}

IsSymbol(s)     == "dims" \in DOMAIN s /\ s.dims \in Seq(Nat)
GoodSymbols(s)  == IsSequence(s) /\ \A k \in 1..Len(s) : IsSymbol(s[k])
Valid(ts, id)   == id[1] \in DOMAIN ts /\ id[2] \in 1..Len(ts[id[1]].symbols)
IsRef(ts, id)   == id = NoSymbol \/ Valid(ts, id)

(* The paths of the tables, and how many are below each.                   *)
IsFamily(ts) ==
  /\ <<>> \in DOMAIN ts
  /\ \A p \in DOMAIN ts : p \in Seq(Numbers) /\ \A k \in 0..Len(p) : SubSeq(p, 1, k) \in DOMAIN ts
  /\ \A p \in DOMAIN ts : ts[p].children \in Nat
  /\ \A p \in DOMAIN ts : \A k \in Numbers : Append(p, k) \in DOMAIN ts <=> k <= ts[p].children

IsTable(t) ==
  /\ {"name", "tablefor", "symbols", "children"} \subseteq DOMAIN t
  /\ GoodSymbols(t.symbols)

GoodTables(ts) ==
  /\ IsFamily(ts)
  /\ \A p \in DOMAIN ts : IsTable(ts[p]) /\ IsRef(ts, ts[p].tablefor)
  /\ ts[<<>>].tablefor = NoSymbol

(* us has all the tables and symbols of ts.                                *)
Grown(ts, us) ==
  /\ DOMAIN ts \subseteq DOMAIN us
  /\ \A p \in DOMAIN ts : 1..Len(ts[p].symbols) \subseteq 1..Len(us[p].symbols)

(* A symbol that was there is still there.                                 *)
LEMMA GrownRef ==
  ASSUME NEW ts, NEW us, Grown(ts, us), NEW id, IsRef(ts, id)
  PROVE  IsRef(us, id)
BY DEF Grown, IsRef, Valid

(* And growth upon growth.                                                 *)
LEMMA GrownTwice ==
  ASSUME NEW ts, NEW us, NEW ws, Grown(ts, us), Grown(us, ws)
  PROVE  Grown(ts, ws)
<1>1. DOMAIN ts \subseteq DOMAIN ws
      BY DEF Grown
<1>2. ASSUME NEW p \in DOMAIN ts PROVE 1..Len(ts[p].symbols) \subseteq 1..Len(ws[p].symbols)
      <2>1. p \in DOMAIN us /\ 1..Len(ts[p].symbols) \subseteq 1..Len(us[p].symbols)
            BY DEF Grown
      <2>2. 1..Len(us[p].symbols) \subseteq 1..Len(ws[p].symbols)
            BY <2>1 DEF Grown
      <2>3. QED
            BY <2>1, <2>2, Zenon
<1>3. QED
      BY <1>1, <1>2 DEF Grown

(* Symbols with one of them changed.                                       *)
LEMMA SymbolChanged ==
  ASSUME NEW syms, GoodSymbols(syms), NEW b \in 1..Len(syms), NEW s, IsSymbol(s)
  PROVE  /\ GoodSymbols([syms EXCEPT ![b] = s])
         /\ 1..Len(syms) \subseteq 1..Len([syms EXCEPT ![b] = s])
         /\ [syms EXCEPT ![b] = s][b] = s
<1>1. PICK S : syms \in Seq(S)
      BY DEF GoodSymbols, IsSequence
<1>2. syms \in Seq(S \cup {s}) /\ s \in S \cup {s}
      BY <1>1, SeqMonotonic
<1>3. PICK us : us = [syms EXCEPT ![b] = s]
      OBVIOUS
<1>4. us \in Seq(S \cup {s}) /\ Len(us) = Len(syms)
      BY <1>2, <1>3, ExceptSeq
<1>5. \A j \in 1..Len(syms) : us[j] = IF j = b THEN s ELSE syms[j]
      BY <1>2, <1>3, ExceptSeq
<1>6. \A j \in 1..Len(syms) : IsSymbol(syms[j])
      BY DEF GoodSymbols
<1>7. \A j \in 1..Len(us) : IsSymbol(us[j])
      BY <1>4, <1>5, <1>6
<1>8. QED
      BY <1>3, <1>4, <1>5, <1>7 DEF GoodSymbols, IsSequence

(* Symbols and one more.                                                   *)
LEMMA SymbolAdded ==
  ASSUME NEW syms, GoodSymbols(syms), NEW s, IsSymbol(s)
  PROVE  /\ GoodSymbols(Append(syms, s))
         /\ 1..Len(syms) \subseteq 1..Len(Append(syms, s))
         /\ Len(syms) + 1 \in 1..Len(Append(syms, s))
<1>1. PICK S : syms \in Seq(S)
      BY DEF GoodSymbols, IsSequence
<1>2. syms \in Seq(S \cup {s}) /\ s \in S \cup {s}
      BY <1>1, SeqMonotonic
<1>3. PICK us, m : us = Append(syms, s) /\ m = Len(syms)
      OBVIOUS
<1>4. /\ us \in Seq(S \cup {s}) /\ Len(us) = m + 1 /\ m \in Nat
      /\ \A j \in 1..m : us[j] = syms[j]
      /\ us[m + 1] = s
      BY <1>2, <1>3, AppendProperties, LenProperties
<1>5. \A j \in 1..m : IsSymbol(syms[j])
      BY <1>3 DEF GoodSymbols
<1>6. \A j \in 1..(m + 1) : IsSymbol(us[j])
      <2>1. \A j \in 1..(m + 1) : j \in 1..m \/ j = m + 1
            BY <1>4
      <2>2. QED
            BY <1>4, <1>5, <2>1
<1>7. 1..m \subseteq 1..(m + 1) /\ m + 1 \in 1..(m + 1)
      BY <1>4
<1>8. GoodSymbols(us)
      BY <1>4, <1>6 DEF GoodSymbols, IsSequence
<1>9. QED
      BY <1>3, <1>4, <1>7, <1>8

(* The tables with other symbols in one of them, and with another symbol.  *)
WithSymbols(ts, a, syms) == [ts EXCEPT ![a].symbols = syms]
WithSymbol(ts, id, s)    == [ts EXCEPT ![id[1]].symbols[id[2]] = s]

(* What other symbols leave as it was.                                     *)
LEMMA SymbolsPut ==
  ASSUME NEW ts, GoodTables(ts), NEW a \in DOMAIN ts, NEW syms, GoodSymbols(syms),
         1..Len(ts[a].symbols) \subseteq 1..Len(syms),
         NEW us, us = WithSymbols(ts, a, syms)
  PROVE  GoodTables(us) /\ Grown(ts, us) /\ DOMAIN us = DOMAIN ts /\ us[a].symbols = syms
<1>1. DOMAIN us = DOMAIN ts
      BY DEF WithSymbols
<1>2. "symbols" \in DOMAIN ts[a] /\ {"name", "tablefor", "symbols", "children"} \subseteq DOMAIN ts[a]
      BY DEF GoodTables, IsTable
<1>3. us[a] = [ts[a] EXCEPT !.symbols = syms] /\ \A p \in DOMAIN ts : p # a => us[p] = ts[p]
      BY DEF WithSymbols
<1>4. /\ DOMAIN us[a] = DOMAIN ts[a] /\ us[a].symbols = syms
      /\ us[a].children = ts[a].children /\ us[a].tablefor = ts[a].tablefor
      BY <1>2, <1>3
<1>5. \A p \in DOMAIN ts : us[p].children = ts[p].children /\ us[p].tablefor = ts[p].tablefor
      BY <1>3, <1>4
<1>6. IsFamily(us)
      BY <1>1, <1>5 DEF GoodTables, IsFamily
<1>7. Grown(ts, us)
      <2>1. \A p \in DOMAIN ts : 1..Len(ts[p].symbols) \subseteq 1..Len(us[p].symbols)
            BY <1>3, <1>4
      <2>2. QED
            BY <1>1, <2>1 DEF Grown
<1>8. ASSUME NEW p \in DOMAIN us PROVE IsTable(us[p]) /\ IsRef(us, us[p].tablefor)
      <2>1. p \in DOMAIN ts /\ IsTable(ts[p]) /\ IsRef(ts, ts[p].tablefor)
            BY <1>1 DEF GoodTables
      <2>2. IsTable(us[p])
            <3>1. CASE p = a
                  BY <1>2, <1>4, <3>1 DEF IsTable
            <3>2. CASE p # a
                  BY <1>3, <2>1, <3>2
            <3>3. QED
                  BY <3>1, <3>2
      <2>3. IsRef(us, us[p].tablefor)
            BY <1>5, <1>7, <2>1, GrownRef
      <2>4. QED
            BY <2>2, <2>3
<1>9. us[<<>>].tablefor = NoSymbol
      BY <1>5 DEF GoodTables, IsFamily
<1>10. QED
       BY <1>1, <1>4, <1>6, <1>7, <1>8, <1>9 DEF GoodTables

(* With another symbol in place of one.                                    *)
LEMMA SymbolPut ==
  ASSUME NEW ts, GoodTables(ts), NEW id, Valid(ts, id), NEW s, IsSymbol(s),
         NEW us, us = WithSymbol(ts, id, s)
  PROVE  GoodTables(us) /\ Grown(ts, us) /\ DOMAIN us = DOMAIN ts /\ SymbolAt(us, id) = s
<1>1. PICK a, b : a = id[1] /\ b = id[2]
      OBVIOUS
<1>2. a \in DOMAIN ts /\ b \in 1..Len(ts[a].symbols) /\ GoodSymbols(ts[a].symbols)
      BY <1>1 DEF Valid, GoodTables, IsTable
<1>3. PICK old, syms : old = ts[a].symbols /\ syms = [old EXCEPT ![b] = s]
      OBVIOUS
<1>4. GoodSymbols(syms) /\ 1..Len(old) \subseteq 1..Len(syms) /\ syms[b] = s
      BY <1>2, <1>3, SymbolChanged
<1>5. us = WithSymbols(ts, a, syms)
      BY <1>1, <1>3 DEF WithSymbols, WithSymbol
<1>6. GoodTables(us) /\ Grown(ts, us) /\ DOMAIN us = DOMAIN ts /\ us[a].symbols = syms
      <2>1. 1..Len(ts[a].symbols) \subseteq 1..Len(syms)
            BY <1>3, <1>4
      <2>2. QED
            BY <1>2, <1>4, <1>5, <2>1, SymbolsPut
<1>7. QED
      BY <1>1, <1>4, <1>6 DEF SymbolAt

(* The symbol that a reference stands for.                                 *)
LEMMA RefSymbol ==
  ASSUME NEW ts, GoodTables(ts), NEW id, Valid(ts, id)
  PROVE  /\ IsSymbol(SymbolAt(ts, id)) /\ id[1] \in DOMAIN ts
         /\ IsSequence(ts[id[1]].symbols) /\ "symbols" \in DOMAIN ts[id[1]]
         /\ id[2] \in DOMAIN ts[id[1]].symbols
<1>1. PICK a, b : a = id[1] /\ b = id[2]
      OBVIOUS
<1>2. a \in DOMAIN ts /\ b \in 1..Len(ts[a].symbols) /\ GoodSymbols(ts[a].symbols)
      BY <1>1 DEF Valid, GoodTables, IsTable
<1>3. "symbols" \in DOMAIN ts[a]
      BY <1>2 DEF GoodTables, IsTable
<1>4. PICK S : ts[a].symbols \in Seq(S)
      BY <1>2 DEF GoodSymbols, IsSequence
<1>5. DOMAIN ts[a].symbols = 1..Len(ts[a].symbols)
      BY <1>4, LenProperties
<1>6. QED
      BY <1>1, <1>2, <1>3, <1>4, <1>5 DEF GoodSymbols, SymbolAt

(* A symbol with more dimensions.                                          *)
LEMMA DimensionsAdded ==
  ASSUME NEW ts, GoodTables(ts), NEW id, Valid(ts, id), NEW n, Dimensions(n) \in Seq(Nat)
  PROVE  /\ GoodTables(add_array_dimensions(ts, id, n)) /\ Grown(ts, add_array_dimensions(ts, id, n))
         /\ DOMAIN add_array_dimensions(ts, id, n) = DOMAIN ts
<1>1. PICK old, s, us : /\ old = SymbolAt(ts, id) /\ s = [old EXCEPT !.dims = @ \o Dimensions(n)]
                        /\ us = WithSymbol(ts, id, s)
      OBVIOUS
<1>2. IsSymbol(old)
      BY <1>1, RefSymbol
<1>3. IsSymbol(s)
      <2>1. "dims" \in DOMAIN old /\ old.dims \in Seq(Nat)
            BY <1>2 DEF IsSymbol
      <2>2. DOMAIN s = DOMAIN old /\ s.dims = old.dims \o Dimensions(n)
            BY <1>1, <2>1
      <2>3. old.dims \o Dimensions(n) \in Seq(Nat)
            BY <2>1, ConcatProperties
      <2>4. QED
            BY <2>1, <2>2, <2>3 DEF IsSymbol
<1>4. GoodTables(us) /\ Grown(ts, us) /\ DOMAIN us = DOMAIN ts
      BY <1>1, <1>3, SymbolPut
<1>5. add_array_dimensions(ts, id, n) = us
      BY <1>1 DEF add_array_dimensions, SymbolAt, WithSymbol
<1>6. QED
      BY <1>4, <1>5

(* A symbol that is changed otherwise has the dimensions it had.           *)
SameDims(s, old) == DOMAIN s = DOMAIN old /\ s.dims = old.dims

(* Such a change leaves the tables as they are.                            *)
LEMMA Flagged ==
  ASSUME NEW ts, GoodTables(ts), NEW id, Valid(ts, id), NEW s,
         SameDims(s, SymbolAt(ts, id)),
         NEW us, us = WithSymbol(ts, id, s)
  PROVE  GoodTables(us) /\ Grown(ts, us) /\ DOMAIN us = DOMAIN ts
<1>1. IsSymbol(SymbolAt(ts, id))
      BY RefSymbol
<1>2. IsSymbol(s)
      BY <1>1 DEF IsSymbol, SameDims
<1>3. QED
      BY <1>2, SymbolPut

(* append_symbol_param counts a parameter and moves nothing.               *)
LEMMA ParameterCounted ==
  ASSUME NEW ts, GoodTables(ts), Valid(ts, Owner)
  PROVE  /\ GoodTables(append_symbol_param(ts)) /\ Grown(ts, append_symbol_param(ts))
         /\ DOMAIN append_symbol_param(ts) = DOMAIN ts
<1>1. CASE OwnerInfo.params_inserted
      BY <1>1 DEF append_symbol_param, Grown
<1>2. CASE ~OwnerInfo.params_inserted
  <2>1. PICK id : id = Owner
        OBVIOUS
  <2>2. PICK old, s, us : /\ old = SymbolAt(ts, id) /\ s = [old EXCEPT !.params = @ + 1]
                          /\ us = WithSymbol(ts, id, s)
        OBVIOUS
  <2>3. IsSymbol(old)
        BY <2>1, <2>2, RefSymbol
  <2>4. SameDims(s, SymbolAt(ts, id)) /\ Valid(ts, id)
        BY <2>1, <2>2, <2>3 DEF IsSymbol, SameDims
  <2>5. GoodTables(us) /\ Grown(ts, us) /\ DOMAIN us = DOMAIN ts
        BY <2>2, <2>4, Flagged
  <2>6. PICK t, v, ws : /\ t = [SymbolAt(us, id) EXCEPT !.size = v]
                        /\ v = SymbolAt(ts, id).params + 1
                        /\ ws = WithSymbol(us, id, t)
        OBVIOUS
  <2>7. IsRef(ts, id) /\ Valid(us, id)
        BY <2>1, <2>5 DEF IsRef, Valid, Grown
  <2>8. IsSymbol(SymbolAt(us, id))
        BY <2>5, <2>7, RefSymbol
  <2>9. SameDims(t, SymbolAt(us, id))
        BY <2>6, <2>8 DEF IsSymbol, SameDims
  <2>10. GoodTables(ws) /\ Grown(us, ws) /\ DOMAIN ws = DOMAIN us
        BY <2>5, <2>6, <2>7, <2>9, Flagged
  <2>11. Grown(ts, ws)
        BY <2>5, <2>10, GrownTwice
  <2>12. append_symbol_param(ts) = ws
        <3>1. us = [ts EXCEPT ![id[1]].symbols[id[2]].params = @ + 1]
              BY <2>2 DEF WithSymbol, SymbolAt
        <3>2. ws = [us EXCEPT ![id[1]].symbols[id[2]].size = v]
              BY <2>6 DEF WithSymbol, SymbolAt
        <3>3. append_symbol_param(ts) =
                [ts EXCEPT ![id[1]].symbols[id[2]].params = @ + 1, ![id[1]].symbols[id[2]].size = v]
              BY <1>2, <2>1, <2>6 DEF append_symbol_param
        <3>4. QED
              BY <3>1, <3>2, <3>3
  <2>13. QED
        BY <2>5, <2>10, <2>11, <2>12
<1>3. QED
      BY <1>1, <1>2

(* A table below another one.                                              *)
Opened(ts, a, table) ==
  Put(Put(ts, a, [ts[a] EXCEPT !.children = @ + 1]), Append(a, ts[a].children + 1), table)

(* What a table below another one leaves as it was.                        *)
LEMMA TableAdded ==
  ASSUME NEW ts, GoodTables(ts), NEW a, a \in DOMAIN ts,
         NEW table, IsTable(table), table.children = 0, IsRef(ts, table.tablefor),
         NEW us, us = Opened(ts, a, table)
  PROVE  GoodTables(us) /\ Grown(ts, us) /\ Append(a, ts[a].children + 1) \in DOMAIN us
<1>1. PICK c, path, parent : /\ c = ts[a].children /\ path = Append(a, c + 1)
                             /\ parent = [ts[a] EXCEPT !.children = @ + 1]
      OBVIOUS
<1>2. c \in Nat /\ a \in Seq(Numbers) /\ c + 1 \in Numbers
      BY <1>1 DEF GoodTables, IsFamily, Numbers
<1>3. path \notin DOMAIN ts
      <2>1. path \in DOMAIN ts <=> c + 1 <= c
            BY <1>1, <1>2 DEF GoodTables, IsFamily
      <2>2. QED
            BY <1>2, <2>1
<1>4. DOMAIN us = DOMAIN ts \cup {path}
      BY <1>1 DEF Opened, Put
<1>5. us[path] = table
      BY <1>1 DEF Opened, Put
<1>6. us[a] = parent
      BY <1>1, <1>3 DEF Opened, Put
<1>7. \A p \in DOMAIN ts : p # a => us[p] = ts[p]
      BY <1>1, <1>3 DEF Opened, Put
<1>8. /\ parent.children = c + 1 /\ parent.tablefor = ts[a].tablefor
      /\ parent.symbols = ts[a].symbols /\ DOMAIN parent = DOMAIN ts[a]
      BY <1>1 DEF GoodTables, IsTable
<1>9. \A p \in DOMAIN ts : us[p].symbols = ts[p].symbols /\ us[p].tablefor = ts[p].tablefor
      BY <1>6, <1>7, <1>8
<1>10. Grown(ts, us)
      BY <1>4, <1>9 DEF Grown
<1>11. /\ path \in Seq(Numbers) /\ Parent(path) = a
       /\ \A k \in 0..Len(a) : SubSeq(path, 1, k) = SubSeq(a, 1, k)
       /\ Len(path) = Len(a) + 1 /\ path[Len(a) + 1] = c + 1 /\ Len(a) \in Nat
      BY <1>1, <1>2, ChildPath, LenProperties
<1>12. \A p \in DOMAIN us : p \in Seq(Numbers)
      BY <1>4, <1>11 DEF GoodTables, IsFamily
<1>13. ASSUME NEW p \in DOMAIN us, NEW k \in 0..Len(p) PROVE SubSeq(p, 1, k) \in DOMAIN us
      <2>1. CASE p \in DOMAIN ts
            BY <1>4, <2>1 DEF GoodTables, IsFamily
      <2>2. CASE p = path
            <3>1. k \in 0..Len(a) \/ k = Len(path)
                  BY <1>11, <2>2
            <3>2. CASE k \in 0..Len(a)
                  <4>1. SubSeq(a, 1, k) \in DOMAIN ts
                        BY <3>2 DEF GoodTables, IsFamily
                  <4>2. SubSeq(p, 1, k) = SubSeq(a, 1, k)
                        BY <1>11, <2>2, <3>2
                  <4>3. QED
                        BY <1>4, <4>1, <4>2
            <3>3. CASE k = Len(path)
                  <4>1. SubSeq(path, 1, Len(path)) = path
                        BY <1>11, SubSeqFull
                  <4>2. QED
                        BY <1>4, <2>2, <3>3, <4>1
            <3>4. QED
                  BY <3>1, <3>2, <3>3
      <2>3. QED
            BY <1>4, <2>1, <2>2
<1>14. \A p \in DOMAIN us : us[p].children \in Nat
      <2>1. ASSUME NEW p \in DOMAIN ts PROVE us[p].children \in Nat
            <3>1. CASE p = a
                  BY <1>2, <1>6, <1>8, <3>1
            <3>2. CASE p # a
                  BY <1>7, <3>2 DEF GoodTables, IsFamily
            <3>3. QED
                  BY <3>1, <3>2
      <2>2. QED
            BY <1>4, <1>5, <2>1
<1>15. ASSUME NEW p \in DOMAIN us, NEW k \in Numbers
       PROVE  Append(p, k) \in DOMAIN us <=> k <= us[p].children
      <2>1. /\ Parent(Append(p, k)) = p /\ Len(Append(p, k)) = Len(p) + 1
            /\ Append(p, k)[Len(p) + 1] = k /\ Len(p) \in Nat /\ p \in Seq(Numbers) /\ k \in Nat /\ k # 0
            BY <1>12, ChildPath, LenProperties DEF Numbers
      <2>2. CASE p = a
            <3>1. Append(p, k) \in DOMAIN ts <=> k <= c
                  BY <1>1, <2>2 DEF GoodTables, IsFamily
            <3>2. Append(p, k) = path <=> k = c + 1
                  <4>1. ASSUME Append(p, k) = path PROVE k = c + 1
                        BY <1>11, <2>1, <2>2, <4>1
                  <4>2. ASSUME k = c + 1 PROVE Append(p, k) = path
                        BY <1>1, <2>2, <4>2
                  <4>3. QED
                        BY <4>1, <4>2
            <3>3. us[p].children = c + 1
                  BY <1>6, <1>8, <2>2
            <3>4. k <= c + 1 <=> k <= c \/ k = c + 1
                  BY <1>2, <2>1
            <3>5. QED
                  BY <1>4, <3>1, <3>2, <3>3, <3>4
      <2>3. CASE p \in DOMAIN ts /\ p # a
            <3>1. Append(p, k) # path
                  BY <1>11, <2>1, <2>3
            <3>2. Append(p, k) \in DOMAIN ts <=> k <= ts[p].children
                  BY <2>3 DEF GoodTables, IsFamily
            <3>3. QED
                  BY <1>4, <1>7, <2>3, <3>1, <3>2
      <2>4. CASE p = path
            <3>1. Append(p, k) # path
                  BY <2>1, <2>4
            <3>2. Append(p, k) \notin DOMAIN ts
                  <4>1. ASSUME Append(p, k) \in DOMAIN ts PROVE FALSE
                        <5>1. Len(p) \in 0..Len(Append(p, k))
                              BY <2>1
                        <5>2. SubSeq(Append(p, k), 1, Len(p)) \in DOMAIN ts
                              BY <4>1, <5>1 DEF GoodTables, IsFamily
                        <5>3. SubSeq(Append(p, k), 1, Len(p)) = p
                              <6>1. /\ \A j \in 0..Len(p) : SubSeq(Append(p, k), 1, j) = SubSeq(p, 1, j)
                                    /\ SubSeq(p, 1, Len(p)) = p /\ Len(p) \in 0..Len(p)
                                    BY <2>1, ChildPath
                              <6>2. QED
                                    BY <6>1
                        <5>4. QED
                              BY <1>3, <2>4, <5>2, <5>3
                  <4>2. QED
                        BY <4>1
            <3>3. ~(k <= us[p].children)
                  BY <1>5, <2>1, <2>4
            <3>4. QED
                  BY <1>4, <3>1, <3>2, <3>3
      <2>5. QED
            BY <1>4, <2>2, <2>3, <2>4
<1>16. IsFamily(us)
      <2>1. <<>> \in DOMAIN us
            BY <1>4 DEF GoodTables, IsFamily
      <2>2. QED
            BY <2>1, <1>12, <1>13, <1>14, <1>15 DEF IsFamily
<1>17. ASSUME NEW p \in DOMAIN us PROVE IsTable(us[p]) /\ IsRef(us, us[p].tablefor)
      <2>1. CASE p = path
            BY <1>5, <1>10, <2>1, GrownRef
      <2>2. CASE p \in DOMAIN ts
            <3>1. IsTable(ts[p]) /\ IsRef(ts, ts[p].tablefor)
                  BY <2>2 DEF GoodTables
            <3>2. IsRef(us, us[p].tablefor)
                  BY <1>9, <1>10, <2>2, <3>1, GrownRef
            <3>3. IsTable(us[p])
                  <4>1. CASE p = a
                        BY <1>6, <1>8, <3>1, <4>1 DEF IsTable
                  <4>2. CASE p # a
                        BY <1>7, <2>2, <3>1, <4>2
                  <4>3. QED
                        BY <4>1, <4>2
            <3>4. QED
                  BY <3>2, <3>3
      <2>3. QED
            BY <1>4, <2>1, <2>2
<1>18. us[<<>>].tablefor = NoSymbol
      BY <1>9 DEF GoodTables, IsFamily
<1>19. QED
      BY <1>1, <1>4, <1>10, <1>16, <1>17, <1>18 DEF GoodTables

(* The number of children of a table is that of the tables below it.       *)
LEMMA ChildCount ==
  ASSUME NEW ts, GoodTables(ts), NEW p, p \in DOMAIN ts
  PROVE  ts[p].children = Cardinality({q \in DOMAIN ts : q # <<>> /\ Parent(q) = p})
<1>1. PICK c, below, f : /\ c = ts[p].children
                          /\ below = {q \in DOMAIN ts : q # <<>> /\ Parent(q) = p}
                          /\ f = [k \in 1..c |-> Append(p, k)]
      OBVIOUS
<1>2. /\ c \in Nat /\ p \in Seq(Numbers) /\ 1..c \subseteq Numbers
      /\ \A k \in Numbers : Append(p, k) \in DOMAIN ts <=> k <= c
      <2>1. IsFamily(ts)
            BY DEF GoodTables
      <2>2. c \in Nat /\ p \in Seq(Numbers)
            BY <1>1, <2>1 DEF IsFamily
      <2>3. \A k \in Numbers : Append(p, k) \in DOMAIN ts <=> k <= c
            BY <1>1, <2>1 DEF IsFamily
      <2>4. 1..c \subseteq Numbers
            BY <2>2 DEF Numbers
      <2>5. QED
            BY <2>2, <2>3, <2>4
<1>3. \A k \in Numbers : /\ Append(p, k) # <<>> /\ Parent(Append(p, k)) = p
                         /\ Append(p, k)[Len(p) + 1] = k
      BY <1>2, ChildPath, AppendProperties
<1>4. f \in [1..c -> below]
      <2>1. ASSUME NEW k \in 1..c PROVE Append(p, k) \in below
            BY <1>1, <1>2, <1>3
      <2>2. QED
            BY <1>1, <2>1
<1>5. \A k, j \in 1..c : f[k] = f[j] => k = j
      <2>1. \A k \in 1..c : f[k] = Append(p, k) /\ k \in Numbers
            BY <1>1, <1>2
      <2>2. ASSUME NEW k \in 1..c PROVE f[k][Len(p) + 1] = k
            BY <1>3, <2>1
      <2>3. QED
            BY <2>2
<1>6. ASSUME NEW q \in below PROVE \E k \in 1..c : f[k] = q
      <2>1. q \in DOMAIN ts /\ q # <<>> /\ Parent(q) = p
            BY <1>1
      <2>2. q \in Seq(Numbers)
            BY <2>1 DEF GoodTables, IsFamily
      <2>3. PICK k : k = q[Len(q)]
            OBVIOUS
      <2>4. k \in Numbers /\ q = Append(p, k)
            BY <2>1, <2>2, <2>3, ParentPath
      <2>5. k \in 1..c
            BY <1>2, <2>1, <2>4 DEF Numbers
      <2>6. QED
            BY <1>1, <2>4, <2>5
<1>7. ExistsBijection(1..c, below)
      BY <1>4, <1>5, <1>6 DEF ExistsBijection, Bijection, Injection, Surjection, IsInjective
<1>8. Cardinality(below) = c
      BY <1>2, <1>7, FS_CountingElements
<1>9. QED
      BY <1>1, <1>8

(* What find_symbol finds is there.                                        *)
LEMMA Found ==
  ASSUME GoodTables(tables), NEW path, path \in DOMAIN tables, NEW name
  PROVE  IsRef(tables, find_symbol(path, name))
<1>1. PICK m : m = Len(path)
      OBVIOUS
<1>2. PICK depths : depths = {k \in 0..m : Named(SubSeq(path, 1, k), name) # {}}
      OBVIOUS
<1>3. CASE depths = {}
      BY <1>1, <1>2, <1>3 DEF find_symbol, IsRef
<1>4. CASE depths # {}
  <2>1. path \in Seq(Numbers) /\ m \in Nat
        BY <1>1, LenProperties DEF GoodTables, IsFamily
  <2>2. depths \subseteq 0..m
        BY <1>2
  <2>3. \E k \in depths : \A j \in depths : j <= k
        BY <1>4, <2>1, <2>2, GreatestOf
  <2>4. PICK d : d = CHOOSE k \in depths : \A j \in depths : j <= k
        OBVIOUS
  <2>5. d \in depths
        BY <2>3, <2>4
  <2>6. PICK p : p = SubSeq(path, 1, d)
        OBVIOUS
  <2>7. p \in DOMAIN tables /\ Named(p, name) # {}
        BY <1>1, <1>2, <2>5, <2>6 DEF GoodTables, IsFamily
  <2>8. GoodSymbols(tables[p].symbols)
        BY <2>7 DEF GoodTables, IsTable
  <2>9. PICK S : tables[p].symbols \in Seq(S)
        BY <2>8 DEF GoodSymbols, IsSequence
  <2>10. DOMAIN tables[p].symbols = 1..Len(tables[p].symbols) /\ Len(tables[p].symbols) \in Nat
        BY <2>9, LenProperties
  <2>11. PICK N : N = Named(p, name)
        OBVIOUS
  <2>12. N \subseteq 1..Len(tables[p].symbols) /\ N # {}
        BY <2>7, <2>10, <2>11 DEF Named
  <2>13. N \subseteq Nat
        BY <2>10, <2>12
  <2>14. Least(N) \in 1..Len(tables[p].symbols)
        BY <2>12, <2>13, LeastOf
  <2>15. find_symbol(path, name) = <<p, Least(N)>>
        BY <1>1, <1>2, <1>4, <2>4, <2>6, <2>11 DEF find_symbol
  <2>16. Valid(tables, find_symbol(path, name))
        BY <2>7, <2>14, <2>15 DEF Valid
  <2>17. QED
        BY <2>16 DEF IsRef
<1>5. QED
      BY <1>3, <1>4

(* The least symbol of a name in a table, when there is one.               *)
LEMMA KnownSymbol ==
  ASSUME GoodTables(tables), NEW p, p \in DOMAIN tables, NEW name, Named(p, name) # {}
  PROVE  Valid(tables, <<p, Least(Named(p, name))>>)
<1>1. GoodSymbols(tables[p].symbols)
      BY DEF GoodTables, IsTable
<1>2. PICK S : tables[p].symbols \in Seq(S)
      BY <1>1 DEF GoodSymbols, IsSequence
<1>3. DOMAIN tables[p].symbols = 1..Len(tables[p].symbols) /\ Len(tables[p].symbols) \in Nat
      BY <1>2, LenProperties
<1>4. PICK N : N = Named(p, name)
      OBVIOUS
<1>5. N \subseteq 1..Len(tables[p].symbols) /\ N # {} /\ N \subseteq Nat
      BY <1>3, <1>4 DEF Named
<1>6. Least(N) \in 1..Len(tables[p].symbols)
      BY <1>5, LeastOf
<1>7. QED
      BY <1>4, <1>6 DEF Valid

(* The numbers in the array declarators above a name are dimensions.       *)
LEMMA DimensionNumbers ==
  ASSUME Declarable(tree), NEW n, IsNode(n),
         \A k \in DOMAIN DimensionNodes(n) : ~IsNull(DimensionNodes(n)[k])
  PROVE  Dimensions(n) \in Seq(Nat)
<1>1. PICK m : m = Len(n)
      OBVIOUS
<1>2. m \in Nat /\ IsPlace(n)
      BY <1>1, PlaceFacts DEF IsNode
<1>3. PICK levels : levels = {d \in 0..m : \A k \in 1..d : At[SubSeq(n, 1, m - k)].subtype = "ARRAY_DECL"}
      OBVIOUS
<1>4. PICK g \in levels : \A j \in levels : j <= g
      <2>1. levels \subseteq 0..m
            BY <1>3
      <2>2. 0 \in 0..m /\ 1..0 = {}
            BY <1>2
      <2>3. 0 \in levels
            BY <1>3, <2>2
      <2>4. QED
            BY <1>2, <2>1, <2>3, GreatestOf
<1>5. g \in 0..m /\ \A k \in 1..g : At[SubSeq(n, 1, m - k)].subtype = "ARRAY_DECL"
      BY <1>3
<1>6. g \in Nat /\ g <= m
      BY <1>2, <1>5
<1>7. levels \ {0} = 1..g
      <2>1. ASSUME NEW d \in levels \ {0} PROVE d \in 1..g
            <3>1. d \in 0..m /\ d # 0 /\ d <= g
                  BY <1>3, <1>4
            <3>2. QED
                  BY <1>2, <1>6, <3>1
      <2>2. ASSUME NEW d \in 1..g PROVE d \in levels \ {0}
            <3>1. d \in 0..m /\ d # 0 /\ \A k \in 1..d : k \in 1..g
                  BY <1>2, <1>6
            <3>2. QED
                  BY <1>3, <1>5, <3>1
      <2>3. QED
            BY <2>1, <2>2
<1>8. Cardinality(levels \ {0}) = g
      <2>1. Cardinality(1..g) = g
            BY <1>6, FS_Interval
      <2>2. QED
            BY <1>7, <2>1
<1>9. DimensionNodes(n) = [k \in 1..g |-> Right(SubSeq(n, 1, m - k))]
      BY <1>1, <1>3, <1>8 DEF DimensionNodes
<1>10. Dimensions(n) = [k \in 1..g |-> At[Right(SubSeq(n, 1, m - k))].const_value]
      BY <1>9 DEF Dimensions
<1>11. ASSUME NEW k \in 1..g PROVE At[Right(SubSeq(n, 1, m - k))].const_value \in Nat
      <2>1. PICK u : u = SubSeq(n, 1, m - k)
            OBVIOUS
      <2>2. m - k \in 0..(m - 1)
            BY <1>2, <1>6
      <2>3. IsNode(u)
            BY <1>1, <1>2, <2>1, <2>2, PartPlaces
      <2>4. At[u].subtype = "ARRAY_DECL"
            BY <1>5, <2>1
      <2>5. ~IsNull(Right(u))
            BY <1>9, <2>1
      <2>6. QED
            BY <2>1, <2>3, <2>4, <2>5, DeclaredNode
<1>12. QED
      BY <1>6, <1>10, <1>11
-----------------------------------------------------------------------------
(* The walk.                                                               *)

IsItem(w) ==
  /\ w.do \in {"enter", "middle", "leave"}
  /\ IsPlace(w.n)
  /\ w.do # "enter" => IsNode(w.n)

Declarator(n) == At[n].subtype = "FUNCTION_DECL"

(* The name of a function is tied to a symbol when its table is made.      *)
Tied(w, names, i) ==
  \/ Left(w[i].n) \in names
  \/ i >= 2 /\ w[i - 1] = Enter(Left(w[i].n))
  \/ i >= 4 /\ w[i - 3] = Middle(Left(w[i].n))

(* And its table, or one around or in it, is that of the moment from then  *)
(* on until the declarator is left.                                        *)
InTable(w, path, i) ==
  \/ i >= 3 /\ w[i - 2] = Middle(w[i].n) /\ w[i - 1] = Enter(Right(w[i].n))
  \/ path # Nowhere /\ \A j \in 1..(i - 1) : Below(w[j].n, "FUNCTION_DECL")

WalkOK(w, names, path) ==
  /\ IsSequence(w)
  /\ \A i \in 1..Len(w) :
       /\ IsItem(w[i])
       /\ w[i].do = "middle" /\ Declarator(w[i].n) => Tied(w, names, i)
       /\ w[i].do = "leave" /\ Declarator(w[i].n)  => InTable(w, path, i)

(* The item at the head of the walk.                                       *)
LEMMA HeadItem ==
  ASSUME NEW names, NEW path, WalkOK(walk, names, path), walk # <<>>
  PROVE  /\ Head(walk) = walk[1] /\ 1 \in 1..Len(walk) /\ IsItem(Head(walk))
         /\ IsPlace(Here) /\ (Head(walk).do # "enter" => IsNode(Here))
<1>1. PICK S : walk \in Seq(S)
      BY DEF WalkOK, IsSequence
<1>2. Head(walk) = walk[1] /\ Len(walk) \in Nat /\ Len(walk) # 0
      BY <1>1, EmptySeq
<1>3. 1 \in 1..Len(walk)
      BY <1>2
<1>4. IsItem(Head(walk))
      BY <1>2, <1>3 DEF WalkOK
<1>5. QED
      BY <1>2, <1>3, <1>4 DEF IsItem, Here

(* What a step puts in place of the first item: nothing, or the parts of a *)
(* node.                                                                   *)
IsNew(new) ==
  \/ new = <<>> /\ (Head(walk).do = "enter" => IsNull(Here))
  \/ new = Children(Here) /\ Head(walk).do = "enter" /\ IsNode(Here)

(* The items of a node's parts.                                            *)
LEMMA ChildItems ==
  ASSUME NEW n, IsNode(n)
  PROVE  /\ IsSequence(Children(n)) /\ Len(Children(n)) = 4
         /\ Children(n)[1] = Enter(Left(n)) /\ Children(n)[2] = Middle(n)
         /\ Children(n)[3] = Enter(Right(n)) /\ Children(n)[4] = Leave(n)
         /\ \A i \in 1..4 : IsItem(Children(n)[i])
<1>1. PICK a, b, c, d : a = Enter(Left(n)) /\ b = Middle(n) /\ c = Enter(Right(n)) /\ d = Leave(n)
      OBVIOUS
<1>2. IsItem(a) /\ IsItem(b) /\ IsItem(c) /\ IsItem(d)
      BY <1>1, ChildPlaces DEF IsItem, Enter, Middle, Leave, IsNode
<1>3. Children(n) = <<a, b, c, d>>
      BY <1>1 DEF Children
<1>4. <<a, b, c, d>> \in Seq({a, b, c, d})
      OBVIOUS
<1>5. PICK s : s = <<a, b, c, d>>
      OBVIOUS
<1>6. Len(s) = 4 /\ s[1] = a /\ s[2] = b /\ s[3] = c /\ s[4] = d
      BY <1>5
<1>7. \A i \in 1..4 : i = 1 \/ i = 2 \/ i = 3 \/ i = 4
      OBVIOUS
<1>8. \A i \in 1..4 : IsItem(s[i])
      BY <1>2, <1>6, <1>7
<1>9. IsSequence(s)
      BY <1>4, <1>5 DEF IsSequence
<1>10. QED
       BY <1>1, <1>3, <1>5, <1>6, <1>8, <1>9

(* The items of a step are items.                                          *)
LEMMA NewItems ==
  ASSUME NEW new, IsNew(new)
  PROVE  /\ IsSequence(new) /\ (Len(new) = 0 \/ Len(new) = 4)
         /\ \A i \in 1..Len(new) : IsItem(new[i])
         /\ Len(new) = 4 => /\ Head(walk).do = "enter" /\ IsNode(Here)
                            /\ new[1] = Enter(Left(Here)) /\ new[2] = Middle(Here)
                            /\ new[3] = Enter(Right(Here)) /\ new[4] = Leave(Here)
         /\ Len(new) = 0 => (Head(walk).do = "enter" => IsNull(Here))
<1>1. CASE new = <<>> /\ (Head(walk).do = "enter" => IsNull(Here))
      <2>1. Len(new) = 0 /\ 1..0 = {} /\ new \in Seq({})
            BY <1>1, EmptySeq
      <2>2. QED
            BY <1>1, <2>1 DEF IsSequence
<1>2. CASE new = Children(Here) /\ Head(walk).do = "enter" /\ IsNode(Here)
      <2>1. PICK n : n = Here
            OBVIOUS
      <2>2. IsNode(n) /\ new = Children(n)
            BY <1>2, <2>1
      <2>3. /\ IsSequence(new) /\ Len(new) = 4
            /\ new[1] = Enter(Left(n)) /\ new[2] = Middle(n)
            /\ new[3] = Enter(Right(n)) /\ new[4] = Leave(n)
            /\ \A i \in 1..4 : IsItem(new[i])
            BY <2>2, ChildItems
      <2>4. QED
            BY <1>2, <2>1, <2>3
<1>3. QED
      BY <1>1, <1>2 DEF IsNew

(* v is w with k items in place of the first, h.                           *)
Moved(w, v, k, q) ==
  /\ k \in Nat /\ q \in Nat /\ Len(w) = q + 1 /\ Len(v) = k + q
  /\ \A j \in 1..q : v[k + j] = w[j + 1]

Placed(v, k, h) ==
  \/ k = 0 /\ (h.do = "enter" => IsNull(h.n))
  \/ /\ k = 4 /\ h.do = "enter" /\ IsNode(h.n)
     /\ v[1] = Enter(Left(h.n)) /\ v[2] = Middle(h.n) /\ v[3] = Enter(Right(h.n)) /\ v[4] = Leave(h.n)

(* An identifier has a symbol once the walk has passed it.                 *)
Ties(h, names) == h.do = "middle" => h.n \in names \/ At[h.n].type # "IDENTIFIER"

(* The name of a function whose table is still to be made.                 *)
LEMMA StillTied ==
  ASSUME Declarable(tree), NEW w, NEW v, NEW k, NEW q, Moved(w, v, k, q), Placed(v, k, w[1]),
         NEW names, NEW more, names \subseteq more, Ties(w[1], more),
         NEW j \in 1..q, IsItem(w[j + 1]), w[j + 1].do = "middle", Declarator(w[j + 1].n),
         Tied(w, names, j + 1)
  PROVE  Tied(v, more, k + j)
<1>1. PICK n, l : n = w[j + 1].n /\ l = Left(n)
      OBVIOUS
<1>2. v[k + j] = w[j + 1] /\ k \in Nat /\ q \in Nat
      BY DEF Moved
<1>3. IsNode(n) /\ Declarator(n)
      BY <1>1 DEF IsItem
<1>4. At[l].type = "IDENTIFIER" /\ IsNode(l)
      BY <1>1, <1>3, DeclaredNode DEF Declarator
<1>5. CASE l \in names
      BY <1>1, <1>2, <1>5 DEF Tied
<1>6. CASE w[(j + 1) - 1] = Enter(l)
      <2>1. CASE j = 1
            <3>1. w[1] = Enter(l)
                  BY <1>6, <2>1
            <3>2. w[1].do = "enter" /\ w[1].n = l
                  BY <3>1 DEF Enter
            <3>3. k = 4 /\ v[2] = Middle(l)
                  BY <1>4, <3>2 DEF Placed, IsNode
            <3>4. k + j = 5 /\ (k + j) - 3 = 2 /\ k + j >= 4
                  BY <2>1, <3>3
            <3>5. QED
                  BY <1>1, <1>2, <3>3, <3>4 DEF Tied
      <2>2. CASE j # 1
            <3>1. j - 1 \in 1..q /\ (j - 1) + 1 = (j + 1) - 1 /\ k + (j - 1) = (k + j) - 1 /\ k + j >= 2
                  BY <1>2, <2>2
            <3>2. v[(k + j) - 1] = Enter(l)
                  BY <1>6, <3>1 DEF Moved
            <3>3. QED
                  BY <1>1, <1>2, <3>1, <3>2 DEF Tied
      <2>3. QED
            BY <2>1, <2>2
<1>7. CASE j + 1 >= 4 /\ w[(j + 1) - 3] = Middle(l)
      <2>1. CASE j = 3
            <3>1. w[1] = Middle(l)
                  BY <1>7, <2>1
            <3>2. w[1].do = "middle" /\ w[1].n = l
                  BY <3>1 DEF Middle
            <3>3. l \in more
                  BY <1>4, <3>2 DEF Ties
            <3>4. QED
                  BY <1>1, <1>2, <3>3 DEF Tied
      <2>2. CASE j # 3
            <3>1. j - 3 \in 1..q /\ (j - 3) + 1 = (j + 1) - 3 /\ k + (j - 3) = (k + j) - 3 /\ k + j >= 4
                  BY <1>2, <1>7, <2>2
            <3>2. v[(k + j) - 3] = Middle(l)
                  BY <1>7, <3>1 DEF Moved
            <3>3. QED
                  BY <1>1, <1>2, <3>1, <3>2 DEF Tied
      <2>3. QED
            BY <2>1, <2>2
<1>8. QED
      BY <1>1, <1>5, <1>6, <1>7 DEF Tied

(* The table of the moment is known to be there after a declarator, and    *)
(* stays there unless a block is left.                                     *)
Keeps(h, path, next) ==
  /\ h.do = "middle" /\ Declarator(h.n) => next # Nowhere
  /\ path # Nowhere /\ ~(h.do = "leave" /\ At[h.n].subtype = "LIST_BLOCK") => next # Nowhere

(* A declarator that is still to be left.                                  *)
LEMMA StillInTable ==
  ASSUME Declarable(tree), NEW w, NEW v, NEW k, NEW q, Moved(w, v, k, q), Placed(v, k, w[1]),
         IsItem(w[1]), NEW path, NEW next, Keeps(w[1], path, next),
         NEW j \in 1..q, IsItem(w[j + 1]), w[j + 1].do = "leave", Declarator(w[j + 1].n),
         InTable(w, path, j + 1)
  PROVE  InTable(v, next, k + j)
<1>1. PICK n : n = w[j + 1].n
      OBVIOUS
<1>2. v[k + j] = w[j + 1] /\ k \in Nat /\ q \in Nat /\ j \in Nat /\ j >= 1
      BY DEF Moved
<1>3. IsNode(n) /\ Declarator(n)
      BY <1>1 DEF IsItem
<1>4. CASE /\ j + 1 >= 3 /\ w[(j + 1) - 2] = Middle(n) /\ w[(j + 1) - 1] = Enter(Right(n))
      <2>1. CASE j = 2
            <3>1. w[1] = Middle(n) /\ w[2] = Enter(Right(n))
                  BY <1>4, <2>1
            <3>2. w[1].do = "middle" /\ w[1].n = n
                  BY <3>1 DEF Middle
            <3>3. k = 0 /\ next # Nowhere
                  BY <1>3, <3>2 DEF Placed, Keeps
            <3>4. v[1] = w[2]
                  <4>1. 1 \in 1..q /\ k + 1 = 1 /\ 1 + 1 = 2
                        BY <1>2, <2>1, <3>3
                  <4>2. QED
                        BY <4>1 DEF Moved
            <3>5. Below(Right(n), "FUNCTION_DECL")
                  BY <1>3, ChildBelow DEF Declarator
            <3>6. v[1].n = Right(n)
                  BY <3>1, <3>4 DEF Enter
            <3>7. \A i \in 1..((k + j) - 1) : i = 1
                  BY <2>1, <3>3
            <3>8. \A i \in 1..((k + j) - 1) : Below(v[i].n, "FUNCTION_DECL")
                  BY <3>5, <3>6, <3>7
            <3>9. QED
                  BY <3>3, <3>8 DEF InTable
      <2>2. CASE j # 2
            <3>1. /\ j - 2 \in 1..q /\ (j - 2) + 1 = (j + 1) - 2 /\ k + (j - 2) = (k + j) - 2
                  /\ j - 1 \in 1..q /\ (j - 1) + 1 = (j + 1) - 1 /\ k + (j - 1) = (k + j) - 1
                  /\ k + j >= 3
                  BY <1>2, <1>4, <2>2
            <3>2. v[(k + j) - 2] = Middle(n) /\ v[(k + j) - 1] = Enter(Right(n))
                  BY <1>4, <3>1 DEF Moved
            <3>3. QED
                  BY <1>1, <1>2, <3>1, <3>2 DEF InTable
      <2>3. QED
            BY <2>1, <2>2
<1>5. CASE path # Nowhere /\ \A i \in 1..((j + 1) - 1) : Below(w[i].n, "FUNCTION_DECL")
      <2>1. PICK m : m = w[1].n
            OBVIOUS
      <2>2. Below(m, "FUNCTION_DECL")
            <3>1. 1 \in 1..((j + 1) - 1)
                  BY <1>2
            <3>2. QED
                  BY <1>5, <2>1, <3>1
      <2>3. next # Nowhere
            <3>1. ~(w[1].do = "leave" /\ At[m].subtype = "LIST_BLOCK")
                  <4>1. ASSUME w[1].do = "leave", At[m].subtype = "LIST_BLOCK" PROVE FALSE
                        <5>1. IsNode(m)
                              BY <2>1, <4>1 DEF IsItem
                        <5>2. QED
                              BY <2>2, <4>1, <5>1, DeclaredNode
                  <4>2. QED
                        BY <4>1
            <3>2. QED
                  BY <1>5, <2>1, <3>1 DEF Keeps
      <2>4. ASSUME NEW i \in 1..((k + j) - 1) PROVE Below(v[i].n, "FUNCTION_DECL")
            <3>1. CASE i > k
                  <4>1. i - k \in 1..q /\ k + (i - k) = i /\ (i - k) + 1 \in 1..((j + 1) - 1)
                        BY <1>2, <3>1
                  <4>2. v[i] = w[(i - k) + 1]
                        BY <4>1 DEF Moved
                  <4>3. QED
                        BY <1>5, <4>1, <4>2
            <3>2. CASE i <= k
                  <4>1. k # 0 /\ i \in Nat /\ i >= 1
                        BY <1>2, <3>2
                  <4>2. /\ k = 4 /\ IsNode(m) /\ v[1] = Enter(Left(m)) /\ v[2] = Middle(m)
                        /\ v[3] = Enter(Right(m)) /\ v[4] = Leave(m)
                        BY <2>1, <4>1 DEF Placed
                  <4>3. Below(Left(m), "FUNCTION_DECL") /\ Below(Right(m), "FUNCTION_DECL")
                        BY <2>2, <4>2, ChildBelow
                  <4>4. v[1].n = Left(m) /\ v[2].n = m /\ v[3].n = Right(m) /\ v[4].n = m
                        BY <4>2 DEF Enter, Middle, Leave
                  <4>5. i = 1 \/ i = 2 \/ i = 3 \/ i = 4
                        BY <3>2, <4>1, <4>2
                  <4>6. QED
                        BY <2>2, <4>3, <4>4, <4>5
            <3>3. QED
                  BY <1>2, <3>1, <3>2
      <2>5. QED
            BY <2>3, <2>4 DEF InTable
<1>6. QED
      BY <1>1, <1>4, <1>5 DEF InTable

(* What is left to walk after a step.                                      *)
LEMMA WalkStep ==
  ASSUME Declarable(tree), NEW names, NEW path, WalkOK(walk, names, path), walk # <<>>,
         NEW new, IsNew(new), Then(new),
         NEW more, names \subseteq more, Ties(Head(walk), more),
         NEW next, Keeps(Head(walk), path, next)
  PROVE  WalkOK(walk', more, next)
<1>1. IsSequence(new) /\ IsSequence(walk)
      BY NewItems DEF WalkOK
<1>2. PICK k, q \in Nat :
        /\ k = Len(new) /\ Len(walk) = q + 1 /\ Len(walk') = k + q /\ IsSequence(walk')
        /\ \A i \in 1..k : walk'[i] = new[i]
        /\ \A j \in 1..q : walk'[k + j] = walk[j + 1]
        /\ Head(walk) = walk[1]
      BY <1>1, Shifted
<1>3. PICK w, v : w = walk /\ v = walk'
      OBVIOUS
<1>4. Moved(w, v, k, q)
      BY <1>2, <1>3 DEF Moved
<1>5. /\ (k = 0 \/ k = 4) /\ \A i \in 1..k : IsItem(new[i])
      /\ k = 4 => /\ Head(walk).do = "enter" /\ IsNode(Here)
                  /\ new[1] = Enter(Left(Here)) /\ new[2] = Middle(Here)
                  /\ new[3] = Enter(Right(Here)) /\ new[4] = Leave(Here)
      /\ k = 0 => (Head(walk).do = "enter" => IsNull(Here))
      BY <1>2, NewItems
<1>6. Placed(v, k, w[1])
      <2>1. Here = w[1].n /\ Head(walk) = w[1]
            BY <1>2, <1>3 DEF Here
      <2>2. k = 4 => v[1] = new[1] /\ v[2] = new[2] /\ v[3] = new[3] /\ v[4] = new[4]
            BY <1>2, <1>3
      <2>3. QED
            BY <1>5, <2>1, <2>2 DEF Placed
<1>7. Ties(w[1], more) /\ Keeps(w[1], path, next)
      BY <1>2, <1>3
<1>8. \A i \in 1..Len(w) : /\ IsItem(w[i])
                           /\ w[i].do = "middle" /\ Declarator(w[i].n) => Tied(w, names, i)
                           /\ w[i].do = "leave" /\ Declarator(w[i].n)  => InTable(w, path, i)
      BY <1>3 DEF WalkOK
<1>9. 1 \in 1..Len(w)
      BY <1>2, <1>3
<1>10. ASSUME NEW i \in 1..Len(v)
       PROVE  /\ IsItem(v[i])
              /\ v[i].do = "middle" /\ Declarator(v[i].n) => Tied(v, more, i)
              /\ v[i].do = "leave" /\ Declarator(v[i].n)  => InTable(v, next, i)
       <2>1. CASE i <= k
             <3>1. k = 4 /\ i \in 1..k
                   BY <1>2, <1>3, <1>5, <2>1
             <3>2. v[i] = new[i] /\ IsItem(v[i])
                   BY <1>2, <1>3, <1>5, <3>1
             <3>3. PICK m : m = w[1].n
                   OBVIOUS
             <3>4. v[1] = Enter(Left(m)) /\ v[2] = Middle(m) /\ v[3] = Enter(Right(m)) /\ v[4] = Leave(m)
                   BY <1>6, <3>1, <3>3 DEF Placed
             <3>5. i = 1 \/ i = 2 \/ i = 3 \/ i = 4
                   BY <3>1
             <3>6. /\ v[1].do = "enter" /\ v[3].do = "enter" /\ v[2].do = "middle" /\ v[4].do = "leave"
                   /\ v[2].n = m /\ v[4].n = m
                   BY <3>4 DEF Enter, Middle, Leave
             <3>7. Tied(v, more, 2)
                   <4>1. 2 - 1 = 1 /\ 2 >= 2
                         OBVIOUS
                   <4>2. QED
                         BY <3>4, <3>6, <4>1 DEF Tied
             <3>8. InTable(v, next, 4)
                   <4>1. 4 - 2 = 2 /\ 4 - 1 = 3 /\ 4 >= 3
                         OBVIOUS
                   <4>2. QED
                         BY <3>4, <3>6, <4>1 DEF InTable
             <3>9. v[i].do = "middle" => i = 2
                   BY <3>5, <3>6
             <3>10. v[i].do = "leave" => i = 4
                   BY <3>5, <3>6
             <3>11. QED
                   BY <3>2, <3>7, <3>8, <3>9, <3>10
       <2>2. CASE i > k
             <3>1. PICK j : j = i - k
                   OBVIOUS
             <3>2. j \in 1..q /\ i = k + j /\ j + 1 \in 1..Len(w)
                   BY <1>2, <1>3, <2>2, <3>1
             <3>3. v[k + j] = w[j + 1]
                   BY <1>4, <3>2 DEF Moved
             <3>4. /\ IsItem(w[j + 1])
                   /\ w[j + 1].do = "middle" /\ Declarator(w[j + 1].n) => Tied(w, names, j + 1)
                   /\ w[j + 1].do = "leave" /\ Declarator(w[j + 1].n)  => InTable(w, path, j + 1)
                   BY <1>8, <3>2
             <3>5. ASSUME w[j + 1].do = "middle", Declarator(w[j + 1].n) PROVE Tied(v, more, k + j)
                   <4>1. Tied(w, names, j + 1) /\ IsItem(w[j + 1])
                         BY <3>4, <3>5
                   <4>2. QED
                         BY <1>4, <1>6, <1>7, <3>2, <3>5, <4>1, StillTied
             <3>6. ASSUME w[j + 1].do = "leave", Declarator(w[j + 1].n) PROVE InTable(v, next, k + j)
                   <4>1. InTable(w, path, j + 1) /\ IsItem(w[j + 1]) /\ IsItem(w[1])
                         BY <1>8, <1>9, <3>4, <3>6
                   <4>2. QED
                         BY <1>4, <1>6, <1>7, <3>2, <3>6, <4>1, StillInTable
             <3>7. IsItem(v[i])
                   BY <3>2, <3>3, <3>4
             <3>8. v[i].do = "middle" /\ Declarator(v[i].n) => Tied(v, more, i)
                   BY <3>2, <3>3, <3>5
             <3>9. v[i].do = "leave" /\ Declarator(v[i].n) => InTable(v, next, i)
                   BY <3>2, <3>3, <3>6
             <3>10. QED
                   BY <3>7, <3>8, <3>9
       <2>3. QED
             BY <1>2, <1>3, <2>1, <2>2
<1>11. QED
       BY <1>2, <1>3, <1>10 DEF WalkOK
-----------------------------------------------------------------------------
(* The invariant.                                                          *)

BitsOK     == typearray \subseteq TYPEBITS \cup {"FUNCTION", "POINTER"} /\ pointer_depth \in Nat
SymbolsOK  == \A n \in DOMAIN symbol : IsRef(tables, symbol[n])
ErrorsOK   == (\A n \in errors : ~IsNull(n)) /\ crashed \in BOOLEAN
CurrentOK  == currenttable \in DOMAIN tables \cup {Nowhere}

StateOK ==
  /\ GoodTables(tables)
  /\ CurrentOK
  /\ BitsOK
  /\ SymbolsOK
  /\ ErrorsOK
  /\ WalkOK(walk, DOMAIN symbol, currenttable)

(* No table has the name of the NULL table.                                *)
LEMMA NowhereOutside ==
  ASSUME NEW ts, GoodTables(ts)
  PROVE  Nowhere \notin DOMAIN ts
<1>1. ASSUME Nowhere \in DOMAIN ts PROVE FALSE
      <2>1. Nowhere \in Seq(Numbers)
            BY <1>1 DEF GoodTables, IsFamily
      <2>2. Nowhere[1] = 0 /\ Len(Nowhere) = 1
            BY DEF Nowhere
      <2>3. 1 \in 1..Len(Nowhere)
            BY <2>2
      <2>4. Nowhere[1] \in Numbers
            BY <2>1, <2>3, ElementOfSeq
      <2>5. QED
            BY <2>2, <2>4 DEF Numbers
<1>2. QED
      BY <1>1

(* What is said of a walk depends on the tree, which stays.                *)
LEMMA SameTree ==
  ASSUME tree' = tree
  PROVE  /\ At' = At
         /\ (WalkOK(walk, DOMAIN symbol, currenttable))' <=> WalkOK(walk', DOMAIN symbol', currenttable')
         /\ (\A n \in errors : ~IsNull(n))' <=> (\A n \in errors' : ~IsNull(n))
<1>1. At' = At
      BY DEF At
<1>2. (\A n \in errors : ~IsNull(n))' <=> (\A n \in errors' : ~IsNull(n))
      BY <1>1 DEF IsNull
<1>3. (WalkOK(walk, DOMAIN symbol, currenttable))' <=> WalkOK(walk', DOMAIN symbol', currenttable')
      BY <1>1 DEF WalkOK, IsItem, IsPlace, IsNode, IsNull, Declarator, Tied, InTable, Below
<1>4. QED
      BY <1>1, <1>2, <1>3

(* A step that finds what it expects, and leaves what it should.           *)
LEMMA GoodStep ==
  ASSUME Declarable(tree), StateOK, walk # <<>>, NEW new, IsNew(new), Then(new), tree' = tree,
         GoodTables(tables'), currenttable' \in DOMAIN tables' \cup {Nowhere},
         Keeps(Head(walk), currenttable, currenttable'),
         BitsOK', SymbolsOK', DOMAIN symbol \subseteq DOMAIN symbol',
         Ties(Head(walk), DOMAIN symbol'),
         \A n \in errors' : ~IsNull(n), crashed' \in BOOLEAN
  PROVE  StateOK'
<1>1. WalkOK(walk, DOMAIN symbol, currenttable)
      BY DEF StateOK
<1>2. PICK names, path, more, next :
         /\ names = DOMAIN symbol /\ path = currenttable
         /\ more = DOMAIN symbol' /\ next = currenttable'
      OBVIOUS
<1>3. /\ WalkOK(walk, names, path) /\ names \subseteq more
      /\ Ties(Head(walk), more) /\ Keeps(Head(walk), path, next)
      BY <1>1, <1>2
<1>4. WalkOK(walk', more, next)
      BY <1>3, WalkStep
<1>5. (WalkOK(walk, DOMAIN symbol, currenttable))'
      BY <1>2, <1>4, SameTree
<1>6. ErrorsOK'
      <2>1. (\A n \in errors : ~IsNull(n))'
            BY SameTree
      <2>2. QED
            BY <2>1 DEF ErrorsOK
<1>7. CurrentOK' /\ GoodTables(tables)'
      BY DEF CurrentOK
<1>8. QED
      BY <1>5, <1>6, <1>7 DEF StateOK

(* The end at a NULL pointer.                                              *)
LEMMA CrashStep ==
  ASSUME StateOK, Crash
  PROVE  StateOK'
<1>1. /\ crashed' = TRUE /\ walk' = <<>> /\ tree' = tree /\ tables' = tables
      /\ currenttable' = currenttable /\ typearray' = typearray /\ pointer_depth' = pointer_depth
      /\ symbol' = symbol /\ errors' = errors
      BY DEF Crash, types
<1>2. WalkOK(<<>>, DOMAIN symbol', currenttable')
      <2>1. Len(<<>>) = 0 /\ 1..0 = {} /\ <<>> \in Seq({})
            OBVIOUS
      <2>2. QED
            BY <2>1 DEF WalkOK, IsSequence
<1>3. (WalkOK(walk, DOMAIN symbol, currenttable))'
      BY <1>1, <1>2, SameTree
<1>4. CurrentOK' /\ GoodTables(tables)' /\ BitsOK' /\ SymbolsOK'
      BY <1>1 DEF StateOK, CurrentOK, BitsOK, SymbolsOK
<1>5. ErrorsOK'
      <2>1. (\A n \in errors : ~IsNull(n))'
            BY <1>1, SameTree DEF StateOK, ErrorsOK
      <2>2. QED
            BY <1>1, <2>1 DEF ErrorsOK
<1>6. QED
      BY <1>3, <1>4, <1>5 DEF StateOK

(* A step that leaves the tables and what is tied to them.                 *)
LEMMA QuietStep ==
  ASSUME Declarable(tree), StateOK, walk # <<>>, NEW new, IsNew(new), Then(new), tree' = tree,
         tables' = tables, currenttable' = currenttable, symbol' = symbol, errors' = errors,
         crashed' = crashed, BitsOK',
         Head(walk).do = "middle" => At[Here].type # "IDENTIFIER" /\ ~Declarator(Here)
  PROVE  StateOK'
<1>1. GoodTables(tables') /\ currenttable' \in DOMAIN tables' \cup {Nowhere} /\ SymbolsOK'
      BY DEF StateOK, CurrentOK, SymbolsOK
<1>2. Keeps(Head(walk), currenttable, currenttable')
      BY DEF Keeps, Here
<1>3. DOMAIN symbol \subseteq DOMAIN symbol' /\ Ties(Head(walk), DOMAIN symbol')
      BY DEF Ties, Here
<1>4. \A n \in errors' : ~IsNull(n)
      BY DEF StateOK, ErrorsOK
<1>5. crashed' \in BOOLEAN
      BY DEF StateOK, ErrorsOK
<1>6. QED
      BY <1>1, <1>2, <1>3, <1>4, <1>5, GoodStep

(* What is known at a step.                                                *)
LEMMA AtHead ==
  ASSUME Declarable(tree), StateOK, walk # <<>>
  PROVE  /\ IsPlace(Here) /\ IsItem(Head(walk))
         /\ Head(walk).do # "enter" => IsNode(Here) /\ IsNew(<<>>)
         /\ IsNull(Here) => IsNew(<<>>)
         /\ Head(walk).do = "enter" /\ ~IsNull(Here) => IsNode(Here) /\ IsNew(Children(Here))
<1>1. WalkOK(walk, DOMAIN symbol, currenttable)
      BY DEF StateOK
<1>2. IsPlace(Here) /\ (Head(walk).do # "enter" => IsNode(Here)) /\ IsItem(Head(walk))
      BY <1>1, HeadItem
<1>3. QED
      BY <1>2 DEF IsNew, IsNode

(* The steps that change at most the type bits.                            *)
LEMMA OtherSteps ==
  ASSUME Declarable(tree), StateOK,
         \/ EnterNull \/ EnterNode \/ SetType \/ CountPointer \/ MiddleOther
         \/ LeaveDeclaration \/ LeavePointer \/ LeaveOther
  PROVE  StateOK'
<1>1. BitsOK
      BY DEF StateOK
<1>2. CASE EnterNull
      <2>1. walk # <<>> /\ IsNew(<<>>) /\ Head(walk).do = "enter"
            BY <1>2, AtHead DEF EnterNull, Doing
      <2>2. /\ Then(<<>>) /\ tree' = tree /\ tables' = tables /\ currenttable' = currenttable
            /\ symbol' = symbol /\ errors' = errors /\ crashed' = crashed
            BY <1>2 DEF EnterNull
      <2>3. BitsOK'
            BY <1>1, <1>2 DEF EnterNull, types, BitsOK
      <2>4. QED
            BY <2>1, <2>2, <2>3, QuietStep
<1>3. CASE EnterNode
      <2>1. walk # <<>> /\ IsNew(Children(Here)) /\ Head(walk).do = "enter"
            BY <1>3, AtHead DEF EnterNode, Doing
      <2>2. /\ Then(Children(Here)) /\ tree' = tree /\ tables' = tables /\ currenttable' = currenttable
            /\ symbol' = symbol /\ errors' = errors /\ crashed' = crashed
            BY <1>3 DEF EnterNode
      <2>3. BitsOK'
            <3>1. pointer_depth' = pointer_depth
                  BY <1>3 DEF EnterNode
            <3>2. \/ typearray' = typearray \cup {"FUNCTION"}
                  \/ typearray' = typearray \cup {"POINTER"}
                  \/ typearray' = typearray \cup {}
                  BY <1>3 DEF EnterNode
            <3>3. QED
                  BY <1>1, <3>1, <3>2 DEF BitsOK
      <2>4. QED
            BY <2>1, <2>2, <2>3, QuietStep
<1>4. CASE SetType
      <2>1. walk # <<>> /\ IsNew(<<>>) /\ Head(walk).do = "middle" /\ IsNode(Here)
            BY <1>4, AtHead DEF SetType, Doing
      <2>2. /\ Then(<<>>) /\ tree' = tree /\ tables' = tables /\ currenttable' = currenttable
            /\ symbol' = symbol /\ errors' = errors /\ crashed' = crashed
            BY <1>4 DEF SetType
      <2>3. At[Here].type = "TYPE"
            BY <1>4 DEF SetType
      <2>4. At[Here].subtype \in TYPEBITS
            BY <2>1, <2>3, DeclaredNode
      <2>5. BitsOK'
            BY <1>1, <1>4, <2>4 DEF SetType, BitsOK
      <2>6. At[Here].type # "IDENTIFIER" /\ ~Declarator(Here)
            BY <2>1, <2>3, DeclaredNode DEF Declarator
      <2>7. QED
            BY <2>1, <2>2, <2>5, <2>6, QuietStep
<1>5. CASE CountPointer
      <2>1. walk # <<>> /\ IsNew(<<>>) /\ Head(walk).do = "middle" /\ IsNode(Here)
            BY <1>5, AtHead DEF CountPointer, Doing
      <2>2. /\ Then(<<>>) /\ tree' = tree /\ tables' = tables /\ currenttable' = currenttable
            /\ symbol' = symbol /\ errors' = errors /\ crashed' = crashed
            BY <1>5 DEF CountPointer
      <2>3. At[Here].type = "UNARY_OP"
            BY <1>5 DEF CountPointer, IsPointer
      <2>4. BitsOK'
            BY <1>1, <1>5 DEF CountPointer, BitsOK
      <2>5. At[Here].type # "IDENTIFIER" /\ ~Declarator(Here)
            BY <2>1, <2>3, DeclaredNode DEF Declarator
      <2>6. QED
            BY <2>1, <2>2, <2>4, <2>5, QuietStep
<1>6. CASE MiddleOther
      <2>1. walk # <<>> /\ IsNew(<<>>) /\ Head(walk).do = "middle" /\ IsNode(Here)
            BY <1>6, AtHead DEF MiddleOther, Doing
      <2>2. /\ Then(<<>>) /\ tree' = tree /\ tables' = tables /\ currenttable' = currenttable
            /\ symbol' = symbol /\ errors' = errors /\ crashed' = crashed
            BY <1>6 DEF MiddleOther
      <2>3. BitsOK'
            BY <1>1, <1>6 DEF MiddleOther, types, BitsOK
      <2>4. At[Here].type # "IDENTIFIER" /\ ~Declarator(Here)
            BY <1>6 DEF MiddleOther, SubtypeIs, Declarator
      <2>5. QED
            BY <2>1, <2>2, <2>3, <2>4, QuietStep
<1>7. CASE LeaveDeclaration
      <2>1. walk # <<>> /\ IsNew(<<>>) /\ Head(walk).do = "leave"
            BY <1>7, AtHead DEF LeaveDeclaration, Doing
      <2>2. /\ Then(<<>>) /\ tree' = tree /\ tables' = tables /\ currenttable' = currenttable
            /\ symbol' = symbol /\ errors' = errors /\ crashed' = crashed
            BY <1>7 DEF LeaveDeclaration
      <2>3. BitsOK'
            BY <1>1, <1>7 DEF LeaveDeclaration, BitsOK
      <2>4. QED
            BY <2>1, <2>2, <2>3, QuietStep
<1>8. CASE LeavePointer
      <2>1. walk # <<>> /\ IsNew(<<>>) /\ Head(walk).do = "leave"
            BY <1>8, AtHead DEF LeavePointer, Doing
      <2>2. /\ Then(<<>>) /\ tree' = tree /\ tables' = tables /\ currenttable' = currenttable
            /\ symbol' = symbol /\ errors' = errors /\ crashed' = crashed
            BY <1>8 DEF LeavePointer
      <2>3. BitsOK'
            BY <1>1, <1>8 DEF LeavePointer, BitsOK
      <2>4. QED
            BY <2>1, <2>2, <2>3, QuietStep
<1>9. CASE LeaveOther
      <2>1. walk # <<>> /\ IsNew(<<>>) /\ Head(walk).do = "leave"
            BY <1>9, AtHead DEF LeaveOther, Doing
      <2>2. /\ Then(<<>>) /\ tree' = tree /\ tables' = tables /\ currenttable' = currenttable
            /\ symbol' = symbol /\ errors' = errors /\ crashed' = crashed
            BY <1>9 DEF LeaveOther
      <2>3. BitsOK'
            BY <1>1, <1>9 DEF LeaveOther, types, BitsOK
      <2>4. QED
            BY <2>1, <2>2, <2>3, QuietStep
<1>10. QED
       BY <1>2, <1>3, <1>4, <1>5, <1>6, <1>7, <1>8, <1>9

(* AddTable opens the table that Opened is.                                *)
LEMMA AddsTable ==
  ASSUME GoodTables(tables), currenttable \in DOMAIN tables,
         NEW table, IsTable(table), table.children = 0, IsRef(tables, table.tablefor), AddTable(table)
  PROVE  GoodTables(tables') /\ Grown(tables, tables') /\ currenttable' \in DOMAIN tables'
<1>1. PICK a, c, parent : /\ a = currenttable /\ c = tables[a].children
                          /\ parent = [tables[a] EXCEPT !.children = @ + 1]
      OBVIOUS
<1>2. "children" \in DOMAIN tables[a]
      BY <1>1 DEF GoodTables, IsTable
<1>3. parent.children = c + 1
      BY <1>1, <1>2
<1>4. tables' = Put(Put(tables, a, parent), Append(a, parent.children), table)
      BY <1>1 DEF AddTable
<1>5. tables' = Opened(tables, a, table)
      BY <1>1, <1>3, <1>4 DEF Opened
<1>6. currenttable' = Append(a, c + 1)
      BY <1>1, <1>3 DEF AddTable
<1>7. a \in DOMAIN tables
      BY <1>1
<1>8. PICK us : us = tables'
      OBVIOUS
<1>9. us = Opened(tables, a, table)
      BY <1>5, <1>8
<1>10. GoodTables(us) /\ Grown(tables, us) /\ Append(a, tables[a].children + 1) \in DOMAIN us
       BY <1>7, <1>9, TableAdded
<1>11. QED
       BY <1>1, <1>6, <1>8, <1>10

(* A new table is empty.                                                   *)
LEMMA EmptyTable ==
  ASSUME NEW name, NEW tablefor
  PROVE  /\ IsTable(NewTable(name, tablefor)) /\ NewTable(name, tablefor).children = 0
         /\ NewTable(name, tablefor).tablefor = tablefor
<1>1. PICK t : t = NewTable(name, tablefor)
      OBVIOUS
<1>2. /\ DOMAIN t = {"name", "tablefor", "symbols", "children"} /\ t.symbols = <<>>
      /\ t.children = 0 /\ t.tablefor = tablefor
      BY <1>1 DEF NewTable
<1>3. GoodSymbols(<<>>)
      <2>1. Len(<<>>) = 0 /\ 1..0 = {} /\ <<>> \in Seq({})
            OBVIOUS
      <2>2. QED
            BY <2>1 DEF GoodSymbols, IsSequence
<1>4. QED
      BY <1>1, <1>2, <1>3 DEF IsTable

(* A block opens a table.                                                  *)
LEMMA EnterBlockStep ==
  ASSUME Declarable(tree), StateOK, EnterBlock
  PROVE  StateOK'
<1>1. walk # <<>> /\ IsNew(Children(Here)) /\ Head(walk).do = "enter"
      BY AtHead DEF EnterBlock, Doing
<1>2. /\ Then(Children(Here)) /\ tree' = tree /\ typearray' = typearray /\ pointer_depth' = pointer_depth
      /\ symbol' = symbol /\ errors' = errors /\ crashed' = crashed
      BY DEF EnterBlock, types
<1>3. GoodTables(tables) /\ currenttable \in DOMAIN tables
      BY DEF EnterBlock, StateOK, CurrentOK
<1>4. PICK table : table = NewTable(NoName, NoSymbol)
      OBVIOUS
<1>5. IsTable(table) /\ table.children = 0 /\ IsRef(tables, table.tablefor)
      BY <1>4, EmptyTable DEF IsRef
<1>6. AddTable(table)
      BY <1>4 DEF EnterBlock
<1>7. GoodTables(tables') /\ Grown(tables, tables') /\ currenttable' \in DOMAIN tables'
      BY <1>3, <1>5, <1>6, AddsTable
<1>8. currenttable' # Nowhere
      BY <1>7, NowhereOutside
<1>9. Keeps(Head(walk), currenttable, currenttable') /\ Ties(Head(walk), DOMAIN symbol')
      BY <1>1, <1>8 DEF Keeps, Ties
<1>10. BitsOK' /\ SymbolsOK'
       <2>1. BitsOK'
             BY <1>2 DEF StateOK, BitsOK
       <2>2. \A id : IsRef(tables, id) => IsRef(tables', id)
             BY <1>7, GrownRef
       <2>3. SymbolsOK'
             BY <1>2, <2>2 DEF StateOK, SymbolsOK
       <2>4. QED
             BY <2>1, <2>3
<1>11. (\A n \in errors' : ~IsNull(n)) /\ crashed' \in BOOLEAN
       BY <1>2 DEF StateOK, ErrorsOK
<1>12. DOMAIN symbol \subseteq DOMAIN symbol' /\ currenttable' \in DOMAIN tables' \cup {Nowhere}
       BY <1>2, <1>7
<1>13. QED
       BY <1>1, <1>2, <1>7, <1>9, <1>10, <1>11, <1>12, GoodStep

(* A block is left by its parent link.                                     *)
LEMMA LeaveBlockStep ==
  ASSUME Declarable(tree), StateOK, LeaveBlock
  PROVE  StateOK'
<1>1. walk # <<>> /\ IsNew(<<>>) /\ Head(walk).do = "leave"
      BY AtHead DEF LeaveBlock, Doing
<1>2. /\ Then(<<>>) /\ tree' = tree /\ tables' = tables /\ typearray' = typearray
      /\ pointer_depth' = pointer_depth /\ symbol' = symbol /\ errors' = errors /\ crashed' = crashed
      BY DEF LeaveBlock, types
<1>3. GoodTables(tables') /\ currenttable \in DOMAIN tables
      BY <1>2 DEF LeaveBlock, StateOK, CurrentOK
<1>4. currenttable' \in DOMAIN tables' \cup {Nowhere}
      <2>1. CASE currenttable = <<>>
            BY <2>1 DEF LeaveBlock
      <2>2. CASE currenttable # <<>>
            <3>1. currenttable' = Parent(currenttable)
                  BY <2>2 DEF LeaveBlock
            <3>2. currenttable \in Seq(Numbers)
                  BY <1>2, <1>3 DEF GoodTables, IsFamily
            <3>3. Len(currenttable) - 1 \in 0..Len(currenttable)
                  BY <2>2, <3>2, ParentPath
            <3>4. SubSeq(currenttable, 1, Len(currenttable) - 1) \in DOMAIN tables
                  BY <1>2, <1>3, <3>3 DEF GoodTables, IsFamily
            <3>5. QED
                  BY <1>2, <3>1, <3>4 DEF Parent
      <2>3. QED
            BY <2>1, <2>2
<1>5. At[Here].subtype = "LIST_BLOCK"
      BY DEF LeaveBlock, SubtypeIs
<1>6. Keeps(Head(walk), currenttable, currenttable') /\ Ties(Head(walk), DOMAIN symbol')
      BY <1>1, <1>5 DEF Keeps, Ties, Here
<1>7. BitsOK' /\ SymbolsOK'
      BY <1>2 DEF StateOK, BitsOK, SymbolsOK
<1>8. (\A n \in errors' : ~IsNull(n)) /\ crashed' \in BOOLEAN
      BY <1>2 DEF StateOK, ErrorsOK
<1>9. DOMAIN symbol \subseteq DOMAIN symbol'
      BY <1>2
<1>10. QED
       BY <1>1, <1>2, <1>3, <1>4, <1>6, <1>7, <1>8, <1>9, GoodStep

(* The table of the moment at the end of a declarator.                     *)
LEMMA AtLeave ==
  ASSUME StateOK, walk # <<>>, Head(walk).do = "leave", Declarator(Here)
  PROVE  currenttable # Nowhere
<1>1. PICK names, path : names = DOMAIN symbol /\ path = currenttable
      OBVIOUS
<1>2. WalkOK(walk, names, path)
      BY <1>1 DEF StateOK
<1>3. Head(walk) = walk[1] /\ 1 \in 1..Len(walk)
      BY <1>2, HeadItem
<1>4. InTable(walk, path, 1)
      BY <1>2, <1>3 DEF WalkOK, Here
<1>5. ~(1 >= 3)
      OBVIOUS
<1>6. QED
      BY <1>1, <1>4, <1>5 DEF InTable

(* A function declarator is left.                                          *)
LEMMA CloseStep ==
  ASSUME Declarable(tree), StateOK, CloseFunction
  PROVE  StateOK'
<1>1. /\ walk # <<>> /\ IsNew(<<>>) /\ Head(walk).do = "leave" /\ Declarator(Here)
      BY AtHead DEF CloseFunction, Doing, SubtypeIs, Declarator
<1>2. /\ Then(<<>>) /\ tree' = tree /\ typearray' = typearray
      /\ pointer_depth' = pointer_depth /\ symbol' = symbol /\ errors' = errors /\ crashed' = crashed
      BY DEF CloseFunction, types
<1>3. currenttable # Nowhere /\ GoodTables(tables) /\ currenttable \in DOMAIN tables
      BY <1>1, AtLeave DEF StateOK, CurrentOK
<1>4. GoodTables(tables') /\ Grown(tables, tables') /\ currenttable' \in DOMAIN tables'
  <2>1. CASE OwnerInfo = NoFuncinfo
        BY <1>3, <2>1 DEF CloseFunction, Grown
  <2>2. CASE OwnerInfo # NoFuncinfo
    <3>1. Owner # NoSymbol
          BY <2>2 DEF OwnerInfo
    <3>2. Valid(tables, Owner)
          BY <1>3, <3>1 DEF GoodTables, Owner, IsRef
    <3>3. PICK id, old, s, us :
            /\ id = Owner /\ old = SymbolAt(tables, id)
            /\ s = [old EXCEPT !.funcinfo = [@ EXCEPT !.params_inserted = TRUE]]
            /\ us = WithSymbol(tables, id, s)
          OBVIOUS
    <3>4. IsSymbol(old) /\ Valid(tables, id)
          BY <1>3, <3>2, <3>3, RefSymbol
    <3>5. SameDims(s, SymbolAt(tables, id))
          BY <3>3, <3>4 DEF IsSymbol, SameDims
    <3>6. GoodTables(us) /\ Grown(tables, us) /\ DOMAIN us = DOMAIN tables
          BY <1>3, <3>3, <3>4, <3>5, Flagged
    <3>7. us = [tables EXCEPT ![id[1]].symbols[id[2]].funcinfo.params_inserted = TRUE]
          BY <3>3 DEF WithSymbol, SymbolAt
    <3>8. tables' = us
          BY <2>2, <3>3, <3>7 DEF CloseFunction
    <3>9. currenttable # <<>>
          BY <3>1 DEF StateOK, GoodTables, Owner
    <3>10. Parent(currenttable) \in DOMAIN tables
           <4>1. currenttable \in Seq(Numbers)
                 BY <1>3 DEF GoodTables, IsFamily
           <4>2. Len(currenttable) - 1 \in 0..Len(currenttable)
                 BY <3>9, <4>1, ParentPath
           <4>3. QED
                 BY <1>3, <4>2 DEF GoodTables, IsFamily, Parent
    <3>11. currenttable' = currenttable \/ currenttable' = Parent(currenttable)
           BY <2>2 DEF CloseFunction
    <3>12. QED
           BY <1>3, <3>6, <3>8, <3>10, <3>11
  <2>3. QED
        BY <2>1, <2>2
<1>5. currenttable' # Nowhere
      BY <1>4, NowhereOutside
<1>6. Keeps(Head(walk), currenttable, currenttable') /\ Ties(Head(walk), DOMAIN symbol')
      BY <1>1, <1>5 DEF Keeps, Ties
<1>7. BitsOK' /\ SymbolsOK'
      <2>1. BitsOK'
            BY <1>2 DEF StateOK, BitsOK
      <2>2. \A id : IsRef(tables, id) => IsRef(tables', id)
            BY <1>4, GrownRef
      <2>3. SymbolsOK'
            BY <1>2, <2>2 DEF StateOK, SymbolsOK
      <2>4. QED
            BY <2>1, <2>3
<1>8. (\A n \in errors' : ~IsNull(n)) /\ crashed' \in BOOLEAN
      BY <1>2 DEF StateOK, ErrorsOK
<1>9. DOMAIN symbol \subseteq DOMAIN symbol' /\ currenttable' \in DOMAIN tables' \cup {Nowhere}
      BY <1>2, <1>4
<1>10. QED
       BY <1>1, <1>2, <1>4, <1>6, <1>7, <1>8, <1>9, GoodStep

(* The name of a function is tied when its table is made.                  *)
LEMMA NameTied ==
  ASSUME StateOK, walk # <<>>, Head(walk).do = "middle", Declarator(Here)
  PROVE  Left(Here) \in DOMAIN symbol
<1>1. PICK names, path : names = DOMAIN symbol /\ path = currenttable
      OBVIOUS
<1>2. WalkOK(walk, names, path)
      BY <1>1 DEF StateOK
<1>3. Head(walk) = walk[1] /\ 1 \in 1..Len(walk)
      BY <1>2, HeadItem
<1>4. Tied(walk, names, 1)
      BY <1>2, <1>3 DEF WalkOK, Here
<1>5. ~(1 >= 2) /\ ~(1 >= 4)
      OBVIOUS
<1>6. QED
      BY <1>1, <1>3, <1>4, <1>5 DEF Tied, Here

(* The first of the tables that have a function's name.                    *)
LEMMA FoundTable ==
  ASSUME GoodTables(tables), NEW name, TablesOf(name) # {}
  PROVE  <<Least(TablesOf(name))>> \in DOMAIN tables
<1>1. PICK S, k, c : S = TablesOf(name) /\ k = Least(S) /\ c = tables[<<>>].children
      OBVIOUS
<1>2. c \in Nat /\ <<>> \in DOMAIN tables
      BY <1>1 DEF GoodTables, IsFamily
<1>3. S \subseteq 1..c /\ S # {} /\ S \subseteq Nat
      BY <1>1, <1>2 DEF TablesOf
<1>4. k \in 1..c
      BY <1>1, <1>3, LeastOf
<1>5. k \in Numbers /\ k <= c
      BY <1>2, <1>4 DEF Numbers
<1>6. Append(<<>>, k) \in DOMAIN tables
      BY <1>1, <1>2, <1>5 DEF GoodTables, IsFamily
<1>7. Append(<<>>, k) = <<k>>
      OBVIOUS
<1>8. QED
      BY <1>1, <1>6, <1>7

(* A function declarator opens its table.                                  *)
LEMMA OpenStep ==
  ASSUME Declarable(tree), StateOK, OpenFunction
  PROVE  StateOK'
<1>1. /\ walk # <<>> /\ IsNew(<<>>) /\ Head(walk).do = "middle" /\ Declarator(Here) /\ IsNode(Here)
      BY AtHead DEF OpenFunction, Doing, SubtypeIs, Declarator
<1>2. /\ Then(<<>>) /\ tree' = tree /\ typearray' = {}
      /\ pointer_depth' = pointer_depth /\ symbol' = symbol /\ crashed' = crashed
      BY DEF OpenFunction
<1>3. GoodTables(tables) /\ currenttable \in DOMAIN tables
      BY DEF OpenFunction, StateOK, CurrentOK
<1>4. PICK name, id : name = At[Left(Here)].string_data /\ id = symbol[Left(Here)]
      OBVIOUS
<1>5. IsRef(tables, id)
      BY <1>1, <1>4, NameTied DEF StateOK, SymbolsOK
<1>6. /\ GoodTables(tables') /\ Grown(tables, tables') /\ currenttable' \in DOMAIN tables'
      /\ errors' \subseteq errors \cup {Here}
      <2>1. CASE TablesOf(name) = {}
            <3>1. PICK table : table = NewTable(name, id)
                  OBVIOUS
            <3>2. IsTable(table) /\ table.children = 0 /\ IsRef(tables, table.tablefor)
                  BY <1>5, <3>1, EmptyTable
            <3>3. AddTable(table) /\ errors' = errors
                  BY <1>4, <2>1, <3>1 DEF OpenFunction
            <3>4. GoodTables(tables') /\ Grown(tables, tables') /\ currenttable' \in DOMAIN tables'
                  BY <1>3, <3>2, <3>3, AddsTable
            <3>5. QED
                  BY <3>3, <3>4
      <2>2. CASE TablesOf(name) # {}
            <3>1. /\ currenttable' = <<Least(TablesOf(name))>> /\ tables' = tables
                  /\ errors' \subseteq errors \cup {Here}
                  BY <1>4, <2>2 DEF OpenFunction
            <3>2. <<Least(TablesOf(name))>> \in DOMAIN tables
                  BY <1>3, <2>2, FoundTable
            <3>3. Grown(tables, tables')
                  BY <3>1 DEF Grown
            <3>4. QED
                  BY <1>3, <3>1, <3>2, <3>3
      <2>3. QED
            BY <2>1, <2>2
<1>7. currenttable' # Nowhere
      BY <1>6, NowhereOutside
<1>8. At[Here].type # "IDENTIFIER"
      BY <1>1, DeclaredNode DEF Declarator
<1>9. Keeps(Head(walk), currenttable, currenttable') /\ Ties(Head(walk), DOMAIN symbol')
      BY <1>7, <1>8 DEF Keeps, Ties, Here
<1>10. BitsOK' /\ SymbolsOK'
       <2>1. BitsOK'
             BY <1>2 DEF StateOK, BitsOK
       <2>2. \A i : IsRef(tables, i) => IsRef(tables', i)
             BY <1>6, GrownRef
       <2>3. SymbolsOK'
             BY <1>2, <2>2 DEF StateOK, SymbolsOK
       <2>4. QED
             BY <2>1, <2>3
<1>11. (\A n \in errors' : ~IsNull(n)) /\ crashed' \in BOOLEAN
       BY <1>1, <1>2, <1>6 DEF StateOK, ErrorsOK, IsNode
<1>12. DOMAIN symbol \subseteq DOMAIN symbol' /\ currenttable' \in DOMAIN tables' \cup {Nowhere}
       BY <1>2, <1>6
<1>13. QED
       BY <1>1, <1>2, <1>6, <1>9, <1>10, <1>11, <1>12, GoodStep

-----------------------------------------------------------------------------
(* Identifiers.                                                            *)

(* A step that ties an identifier.                                         *)
LEMMA TyingStep ==
  ASSUME Declarable(tree), StateOK, walk # <<>>, Head(walk).do = "middle",
         At[Here].type = "IDENTIFIER", currenttable # Nowhere, Then(<<>>), tree' = tree,
         currenttable' = currenttable, typearray' = typearray, pointer_depth' = pointer_depth,
         crashed' = crashed, NEW id, symbol' = Put(symbol, Here, id), IsRef(tables', id),
         GoodTables(tables'), Grown(tables, tables'), errors' \subseteq errors \cup {Here}
  PROVE  StateOK'
<1>1. IsNew(<<>>) /\ IsNode(Here)
      BY AtHead
<1>2. currenttable' \in DOMAIN tables' \cup {Nowhere}
      BY DEF StateOK, CurrentOK, Grown
<1>3. DOMAIN symbol' = DOMAIN symbol \cup {Here}
      BY DEF Put
<1>4. Keeps(Head(walk), currenttable, currenttable') /\ Ties(Head(walk), DOMAIN symbol')
      BY <1>3 DEF Keeps, Ties, Here
<1>5. BitsOK'
      BY DEF StateOK, BitsOK
<1>6. SymbolsOK'
      <2>1. ASSUME NEW n \in DOMAIN symbol' PROVE IsRef(tables', symbol'[n])
            <3>1. CASE n = Here
                  BY <3>1 DEF Put
            <3>2. CASE n # Here
                  <4>1. n \in DOMAIN symbol /\ symbol'[n] = symbol[n]
                        BY <1>3, <3>2 DEF Put
                  <4>2. IsRef(tables, symbol[n])
                        BY <4>1 DEF StateOK, SymbolsOK
                  <4>3. QED
                        BY <4>1, <4>2, GrownRef
            <3>3. QED
                  BY <3>1, <3>2
      <2>2. QED
            BY <2>1 DEF SymbolsOK
<1>7. (\A n \in errors' : ~IsNull(n)) /\ crashed' \in BOOLEAN
      BY <1>1 DEF StateOK, ErrorsOK, IsNode
<1>8. QED
      BY <1>1, <1>2, <1>3, <1>4, <1>5, <1>6, <1>7, GoodStep

(* What a declaration has counted before it enters its name.               *)
LEMMA CountedTables ==
  ASSUME StateOK, Declares
  PROVE  /\ GoodTables(Counted) /\ Grown(tables, Counted) /\ DOMAIN Counted = DOMAIN tables
         /\ currenttable \in DOMAIN tables /\ GoodTables(tables)
<1>1. GoodTables(tables) /\ currenttable \in DOMAIN tables
      BY DEF Declares, StateOK, CurrentOK
<1>2. CASE IsParameter(Here)
      <2>1. OwnerInfo # NoFuncinfo
            BY <1>2 DEF Declares
      <2>2. Owner # NoSymbol
            BY <2>1 DEF OwnerInfo
      <2>3. Valid(tables, Owner)
            BY <1>1, <2>2 DEF GoodTables, Owner, IsRef
      <2>4. QED
            BY <1>1, <1>2, <2>3, ParameterCounted DEF Counted
<1>3. CASE ~IsParameter(Here)
      BY <1>1, <1>3 DEF Counted, Grown
<1>4. QED
      BY <1>1, <1>2, <1>3

(* A declared identifier is tied to a symbol that insert_symbol left.      *)
LEMMA TieStep ==
  ASSUME Declarable(tree), StateOK, Declaring, NEW ts, NEW id, Tie(ts, id),
         GoodTables(ts), Grown(tables, ts), Valid(ts, id), errors' \subseteq errors \cup {Here}
  PROVE  StateOK'
<1>1. /\ walk # <<>> /\ Head(walk).do = "middle" /\ At[Here].type = "IDENTIFIER"
      /\ currenttable # Nowhere
      BY DEF Declaring, Declares, Doing
<1>2. /\ Then(<<>>) /\ tree' = tree /\ currenttable' = currenttable /\ typearray' = typearray
      /\ pointer_depth' = pointer_depth /\ crashed' = crashed /\ symbol' = Put(symbol, Here, id)
      /\ tables' = add_array_dimensions(ts, id, Here)
      BY DEF Tie, types
<1>3. PICK n, us : n = Here /\ us = tables'
      OBVIOUS
<1>4. IsNode(n)
      BY <1>1, <1>3, AtHead
<1>5. \A k \in DOMAIN DimensionNodes(n) : ~IsNull(DimensionNodes(n)[k])
      BY <1>3 DEF Declaring, HasDimensions
<1>6. Dimensions(n) \in Seq(Nat)
      BY <1>4, <1>5, DimensionNumbers
<1>7. us = add_array_dimensions(ts, id, n)
      BY <1>2, <1>3
<1>8. GoodTables(us) /\ Grown(ts, us)
      BY <1>6, <1>7, DimensionsAdded
<1>9. Grown(tables, us)
      BY <1>8, GrownTwice
<1>10. IsRef(us, id)
       BY <1>8, GrownRef DEF IsRef
<1>11. GoodTables(tables') /\ Grown(tables, tables') /\ IsRef(tables', id)
       BY <1>3, <1>8, <1>9, <1>10
<1>12. QED
       BY <1>1, <1>2, <1>11, TyingStep

(* A new name.                                                             *)
LEMMA DeclareNewStep ==
  ASSUME Declarable(tree), StateOK, DeclareNew
  PROVE  StateOK'
<1>1. PICK a, old, syms, s, us, m :
        /\ a = currenttable /\ old = Counted[a].symbols /\ s = NewSymbol(Here)
        /\ syms = Append(old, s) /\ us = WithSymbols(Counted, a, syms)
        /\ m = Len(tables[a].symbols)
      OBVIOUS
<1>2. Declaring /\ Declares /\ errors' \subseteq errors \cup {Here}
      BY DEF DeclareNew, Declaring
<1>3. /\ GoodTables(Counted) /\ Grown(tables, Counted) /\ DOMAIN Counted = DOMAIN tables
      /\ a \in DOMAIN tables /\ GoodTables(tables)
      BY <1>1, <1>2, CountedTables
<1>4. GoodSymbols(old) /\ GoodSymbols(tables[a].symbols)
      BY <1>1, <1>3 DEF GoodTables, IsTable
<1>5. IsSymbol(s)
      <2>1. "dims" \in DOMAIN s /\ s.dims = <<>>
            BY <1>1 DEF NewSymbol
      <2>2. <<>> \in Seq(Nat)
            BY EmptySeq
      <2>3. QED
            BY <2>1, <2>2 DEF IsSymbol
<1>6. GoodSymbols(syms) /\ 1..Len(old) \subseteq 1..Len(syms) /\ Len(old) + 1 \in 1..Len(syms)
      BY <1>1, <1>4, <1>5, SymbolAdded
<1>7. /\ GoodTables(us) /\ Grown(Counted, us) /\ DOMAIN us = DOMAIN Counted /\ us[a].symbols = syms
      <2>1. PICK ts : ts = Counted
            OBVIOUS
      <2>2. /\ GoodTables(ts) /\ a \in DOMAIN ts /\ 1..Len(ts[a].symbols) \subseteq 1..Len(syms)
            /\ us = WithSymbols(ts, a, syms)
            BY <1>1, <1>3, <1>6, <2>1
      <2>3. GoodTables(us) /\ Grown(ts, us) /\ DOMAIN us = DOMAIN ts /\ us[a].symbols = syms
            BY <1>6, <2>2, SymbolsPut
      <2>4. QED
            BY <2>1, <2>3
<1>8. Grown(tables, us)
      BY <1>3, <1>7, GrownTwice
<1>9. m \in Nat /\ Len(old) \in Nat /\ Len(syms) \in Nat
      <2>1. \A q : GoodSymbols(q) => Len(q) \in Nat
            <3>1. ASSUME NEW q, GoodSymbols(q) PROVE Len(q) \in Nat
                  <4>1. PICK S : q \in Seq(S)
                        BY <3>1 DEF GoodSymbols, IsSequence
                  <4>2. QED
                        BY <4>1, LenProperties
            <3>2. QED
                  BY <3>1
      <2>2. QED
            BY <1>1, <1>4, <1>6, <2>1
<1>10. m <= Len(old)
       <2>1. 1..m \subseteq 1..Len(old)
             BY <1>1, <1>3 DEF Grown
       <2>2. CASE m = 0
             BY <1>9, <2>2
       <2>3. CASE m # 0
             <3>1. m \in 1..m
                   BY <1>9, <2>3
             <3>2. m \in 1..Len(old)
                   BY <2>1, <3>1
             <3>3. QED
                   BY <1>9, <3>2
       <2>4. QED
             BY <2>2, <2>3
<1>11. m + 1 \in 1..Len(syms)
       BY <1>6, <1>9, <1>10
<1>12. PICK id : id = <<a, m + 1>>
       OBVIOUS
<1>13. id[1] = a /\ id[2] = m + 1
       BY <1>12
<1>14. Valid(us, id)
       BY <1>3, <1>7, <1>11, <1>13 DEF Valid
<1>15. us = [Counted EXCEPT ![currenttable].symbols = Append(@, NewSymbol(Here))]
       BY <1>1 DEF WithSymbols
<1>16. Tie(us, id)
       BY <1>1, <1>12, <1>15 DEF DeclareNew
<1>17. QED
       BY <1>2, <1>7, <1>8, <1>14, <1>16, TieStep

(* The symbol that has the name already.                                   *)
LEMMA KnownTied ==
  ASSUME StateOK, Declares, Known(Here) # {}
  PROVE  Valid(tables, <<currenttable, Least(Known(Here))>>)
         /\ Valid(Counted, <<currenttable, Least(Known(Here))>>)
<1>1. /\ Grown(tables, Counted) /\ currenttable \in DOMAIN tables /\ GoodTables(tables)
      BY CountedTables
<1>2. PICK p, name : p = currenttable /\ name = At[Here].string_data
      OBVIOUS
<1>3. Valid(tables, <<p, Least(Named(p, name))>>)
      BY <1>1, <1>2, KnownSymbol DEF Known
<1>4. PICK id : id = <<p, Least(Named(p, name))>>
      OBVIOUS
<1>5. Valid(Counted, id)
      BY <1>1, <1>3, <1>4 DEF Valid, Grown
<1>6. QED
      BY <1>2, <1>3, <1>4, <1>5 DEF Known

(* A name that the table has.                                              *)
LEMMA DeclareKnownStep ==
  ASSUME Declarable(tree), StateOK, DeclareDefinition \/ DeclareParameter \/ Redeclare
  PROVE  StateOK'
<1>1. /\ Declaring /\ Declares /\ Known(Here) # {} /\ errors' \subseteq errors \cup {Here}
      BY DEF DeclareDefinition, DeclareParameter, Redeclare, Declaring
<1>2. PICK id, k : id = <<currenttable, k>> /\ k = Least(Known(Here))
      OBVIOUS
<1>3. Valid(Counted, id) /\ GoodTables(Counted) /\ Grown(tables, Counted)
      BY <1>1, <1>2, KnownTied, CountedTables
<1>4. CASE DeclareParameter \/ Redeclare
      <2>1. Tie(Counted, id)
            BY <1>2, <1>4 DEF DeclareParameter, Redeclare
      <2>2. PICK ts : ts = Counted
            OBVIOUS
      <2>3. Tie(ts, id) /\ Valid(ts, id) /\ GoodTables(ts) /\ Grown(tables, ts)
            BY <1>3, <2>1, <2>2
      <2>4. QED
            BY <1>1, <2>3, TieStep
<1>5. CASE DeclareDefinition
      <2>1. PICK ts, old, s, us :
              /\ ts = Counted /\ old = SymbolAt(ts, id)
              /\ s = [old EXCEPT !.funcinfo = [@ EXCEPT !.is_defined = TRUE]]
              /\ us = WithSymbol(ts, id, s)
            OBVIOUS
      <2>2. IsSymbol(old) /\ Valid(ts, id) /\ GoodTables(ts) /\ Grown(tables, ts)
            BY <1>3, <2>1, RefSymbol
      <2>3. SameDims(s, SymbolAt(ts, id))
            BY <2>1, <2>2 DEF IsSymbol, SameDims
      <2>4. GoodTables(us) /\ Grown(ts, us)
            BY <2>1, <2>2, <2>3, Flagged
      <2>5. Grown(tables, us) /\ Valid(us, id)
            <3>1. Grown(tables, us)
                  BY <2>2, <2>4, GrownTwice
            <3>2. QED
                  BY <2>2, <2>4, <3>1 DEF Valid, Grown
      <2>6. id[1] = currenttable /\ id[2] = k
            BY <1>2
      <2>7. us = [Counted EXCEPT ![currenttable].symbols[k].funcinfo.is_defined = TRUE]
            BY <2>1, <2>6 DEF WithSymbol, SymbolAt
      <2>8. Tie(us, id)
            BY <1>2, <1>5, <2>7 DEF DeclareDefinition
      <2>9. QED
            BY <1>1, <2>4, <2>5, <2>8, TieStep
<1>6. QED
      BY <1>4, <1>5

(* Any other identifier.                                                   *)
LEMMA UseStep ==
  ASSUME Declarable(tree), StateOK, Use
  PROVE  StateOK'
<1>1. PICK id : id = find_symbol(currenttable, At[Here].string_data)
      OBVIOUS
<1>2. /\ walk # <<>> /\ Head(walk).do = "middle" /\ At[Here].type = "IDENTIFIER"
      /\ currenttable # Nowhere /\ Then(<<>>) /\ tree' = tree /\ currenttable' = currenttable
      /\ typearray' = typearray /\ pointer_depth' = pointer_depth /\ crashed' = crashed
      /\ tables' = tables
      BY DEF Use, Doing, types
<1>3. symbol' = Put(symbol, Here, id) /\ errors' \subseteq errors \cup {Here}
      BY <1>1 DEF Use
<1>4. GoodTables(tables) /\ currenttable \in DOMAIN tables
      BY <1>2 DEF StateOK, CurrentOK
<1>5. IsRef(tables', id) /\ GoodTables(tables') /\ Grown(tables, tables')
      BY <1>1, <1>2, <1>4, Found DEF Grown
<1>6. QED
      BY <1>2, <1>3, <1>5, TyingStep

-----------------------------------------------------------------------------
(* The theorems.                                                           *)

IInv == Declarable(tree) => StateOK

(* It holds at the start: the file scope, and the whole tree to walk.      *)
LEMMA InitInv == Init => IInv
<1> SUFFICES ASSUME Init, Declarable(tree) PROVE StateOK
    BY DEF IInv
<1>1. /\ walk = <<Enter(<<>>)>> /\ tables = [p \in {<<>>} |-> NewTable("file scope", NoSymbol)]
      /\ currenttable = <<>> /\ typearray = {} /\ pointer_depth = 0
      /\ symbol = [n \in {} |-> NoSymbol] /\ errors = {} /\ crashed = FALSE
      BY DEF Init, Start
<1>2. GoodTables(tables)
      <2>1. PICK r, t : r = <<>> /\ t = NewTable("file scope", NoSymbol)
            OBVIOUS
      <2>2. IsTable(t) /\ t.children = 0 /\ t.tablefor = NoSymbol
            BY <2>1, EmptyTable
      <2>3. DOMAIN tables = {r} /\ tables[r] = t
            BY <1>1, <2>1
      <2>4. r \in Seq(Numbers) /\ Len(r) = 0 /\ SubSeq(r, 1, 0) = r
            <3>1. r \in Seq(Numbers) /\ Len(r) = 0
                  BY <2>1, EmptySeq
            <3>2. SubSeq(r, 1, Len(r)) = r
                  BY <3>1, SubSeqFull
            <3>3. QED
                  BY <3>1, <3>2
      <2>5. \A k \in 0..Len(r) : SubSeq(r, 1, k) = r
            BY <2>4
      <2>6. ASSUME NEW k \in Numbers PROVE Append(r, k) # r /\ ~(k <= 0)
            <3>1. Len(Append(r, k)) = 1
                  BY <2>4, AppendProperties
            <3>2. ~(k <= 0)
                  BY DEF Numbers
            <3>3. QED
                  BY <2>4, <3>1, <3>2
      <2>7. IsFamily(tables)
            <3>1. \A p \in DOMAIN tables : p = r /\ tables[p].children = 0
                  BY <2>2, <2>3
            <3>2. \A p \in DOMAIN tables : p \in Seq(Numbers)
                  BY <2>4, <3>1
            <3>3. \A p \in DOMAIN tables : \A k \in 0..Len(p) : SubSeq(p, 1, k) \in DOMAIN tables
                  BY <2>3, <2>5, <3>1
            <3>4. \A p \in DOMAIN tables : \A k \in Numbers :
                    Append(p, k) \in DOMAIN tables <=> k <= tables[p].children
                  BY <2>3, <2>6, <3>1
            <3>5. <<>> \in DOMAIN tables
                  BY <2>1, <2>3
            <3>6. \A p \in DOMAIN tables : tables[p].children \in Nat
                  BY <3>1
            <3>7. QED
                  BY <3>2, <3>3, <3>4, <3>5, <3>6 DEF IsFamily
      <2>8. QED
            BY <2>1, <2>2, <2>3, <2>7 DEF GoodTables, IsRef
<1>3. CurrentOK
      BY <1>1 DEF CurrentOK
<1>4. BitsOK /\ SymbolsOK /\ ErrorsOK
      BY <1>1 DEF BitsOK, SymbolsOK, ErrorsOK
<1>5. WalkOK(walk, DOMAIN symbol, currenttable)
      <2>1. PICK e, w : e = Enter(<<>>) /\ w = <<e>>
            OBVIOUS
      <2>2. w \in Seq({e}) /\ Len(w) = 1 /\ w[1] = e
            BY <2>1
      <2>3. e.do = "enter" /\ IsItem(e)
            BY <2>1, RootPlace DEF IsItem, Enter
      <2>4. walk = w
            BY <1>1, <2>1
      <2>5. \A i \in 1..Len(w) : w[i] = e
            BY <2>2
      <2>6. IsSequence(w)
            BY <2>2 DEF IsSequence
      <2>7. QED
            BY <2>3, <2>4, <2>5, <2>6 DEF WalkOK
<1>6. QED
      BY <1>2, <1>3, <1>4, <1>5 DEF StateOK

(* And every step keeps it.                                                *)
LEMMA NextInv == IInv /\ [Next]_vars => IInv'
<1> SUFFICES ASSUME IInv, [Next]_vars PROVE IInv'
    OBVIOUS
<1>1. tree' = tree
      BY DEF Next, vars, EnterNull, EnterBlock, EnterNode, SetType, CountPointer, NowhereCrash,
             DeclareCrash, DimensionCrash, Crash, DeclareNew, DeclareDefinition, DeclareParameter,
             Redeclare, Tie, Use, OpenFunction, OpenCrash, MiddleOther, CloseFunction,
             LeaveDeclaration, LeavePointer, LeaveBlock, LeaveOther
<1>2. ASSUME Declarable(tree) PROVE StateOK'
  <2>1. StateOK
        BY <1>2 DEF IInv
  <2>2. CASE UNCHANGED vars
        <3>1. /\ walk' = walk /\ tables' = tables /\ currenttable' = currenttable
              /\ typearray' = typearray /\ pointer_depth' = pointer_depth
              /\ symbol' = symbol /\ errors' = errors /\ crashed' = crashed
              BY <2>2 DEF vars, types
        <3>2. (WalkOK(walk, DOMAIN symbol, currenttable))'
              BY <1>1, <2>1, <3>1, SameTree DEF StateOK
        <3>3. CurrentOK' /\ GoodTables(tables)' /\ BitsOK' /\ SymbolsOK'
              BY <2>1, <3>1 DEF StateOK, CurrentOK, BitsOK, SymbolsOK
        <3>4. ErrorsOK'
              <4>1. (\A n \in errors : ~IsNull(n))'
                    BY <1>1, <2>1, <3>1, SameTree DEF StateOK, ErrorsOK
              <4>2. QED
                    BY <2>1, <3>1, <4>1 DEF StateOK, ErrorsOK
        <3>5. QED
              BY <3>2, <3>3, <3>4 DEF StateOK
  <2>3. CASE \/ EnterNull \/ EnterNode \/ SetType \/ CountPointer \/ MiddleOther
             \/ LeaveDeclaration \/ LeavePointer \/ LeaveOther
        BY <1>2, <2>1, <2>3, OtherSteps
  <2>4. CASE NowhereCrash \/ DeclareCrash \/ DimensionCrash \/ OpenCrash
        <3>1. Crash
              BY <2>4 DEF NowhereCrash, DeclareCrash, DimensionCrash, OpenCrash
        <3>2. QED
              BY <2>1, <3>1, CrashStep
  <2>5. CASE EnterBlock
        BY <1>2, <2>1, <2>5, EnterBlockStep
  <2>6. CASE DeclareNew
        BY <1>2, <2>1, <2>6, DeclareNewStep
  <2>7. CASE DeclareDefinition \/ DeclareParameter \/ Redeclare
        BY <1>2, <2>1, <2>7, DeclareKnownStep
  <2>8. CASE Use
        BY <1>2, <2>1, <2>8, UseStep
  <2>9. CASE OpenFunction
        BY <1>2, <2>1, <2>9, OpenStep
  <2>10. CASE CloseFunction
        BY <1>2, <2>1, <2>10, CloseStep
  <2>11. CASE LeaveBlock
        BY <1>2, <2>1, <2>11, LeaveBlockStep
  <2>12. QED
        BY <2>2, <2>3, <2>4, <2>5, <2>6, <2>7, <2>8, <2>9, <2>10, <2>11 DEF Next
<1>3. (Declarable(tree))' <=> Declarable(tree)
      BY <1>1
<1>4. QED
      BY <1>2, <1>3 DEF IInv

(* It says what calculate_offsets needs.                                   *)
LEMMA GoodTree ==
  ASSUME NEW ts, GoodTables(ts)
  PROVE  IsTree(ts)
<1>1. <<>> \in DOMAIN ts
      BY DEF GoodTables, IsFamily
<1>2. ASSUME NEW p \in DOMAIN ts
      PROVE  /\ p \in Seq(Nat) /\ ts[p].children \in Nat
             /\ \A k \in 1..ts[p].children : Append(p, k) \in DOMAIN ts
             /\ Len(ts[p].symbols) \in Nat
             /\ \A k \in 1..Len(ts[p].symbols) : ts[p].symbols[k].dims \in Seq(Nat)
      <2>1. p \in Seq(Numbers) /\ Numbers \subseteq Nat
            BY DEF GoodTables, IsFamily, Numbers
      <2>2. p \in Seq(Nat)
            BY <2>1, SeqMonotonic
      <2>3. /\ ts[p].children \in Nat
            /\ \A k \in Numbers : Append(p, k) \in DOMAIN ts <=> k <= ts[p].children
            BY DEF GoodTables, IsFamily
      <2>4. \A k \in 1..ts[p].children : k \in Numbers /\ k <= ts[p].children
            BY <2>3 DEF Numbers
      <2>5. \A k \in 1..ts[p].children : Append(p, k) \in DOMAIN ts
            BY <2>3, <2>4
      <2>6. GoodSymbols(ts[p].symbols)
            BY DEF GoodTables, IsTable
      <2>7. PICK S : ts[p].symbols \in Seq(S)
            BY <2>6 DEF GoodSymbols, IsSequence
      <2>8. Len(ts[p].symbols) \in Nat
            BY <2>7, LenProperties
      <2>9. \A k \in 1..Len(ts[p].symbols) : ts[p].symbols[k].dims \in Seq(Nat)
            BY <2>6 DEF GoodSymbols, IsSymbol
      <2>10. QED
             BY <2>2, <2>3, <2>5, <2>8, <2>9
<1>3. QED
      BY <1>1, <1>2 DEF IsTree

(* And that the variables have their types.                                *)
LEMMA GoodTypes ==
  ASSUME Declarable(tree), StateOK
  PROVE  TypeOK
<1>1. /\ GoodTables(tables) /\ CurrentOK /\ BitsOK /\ SymbolsOK /\ ErrorsOK
      BY DEF StateOK
<1>2. tree.subtype = "FILESCOPE"
      BY DEF Declarable
<1>3. \A p \in DOMAIN tables : tables[p].children = Cardinality({q \in DOMAIN tables :
                                 q # <<>> /\ Parent(q) = p})
      BY <1>1, ChildCount
<1>4. \A n \in DOMAIN symbol : symbol[n] # NoSymbol =>
        symbol[n][2] \in DOMAIN tables[symbol[n][1]].symbols
      <2>1. ASSUME NEW n \in DOMAIN symbol, symbol[n] # NoSymbol
            PROVE  symbol[n][2] \in DOMAIN tables[symbol[n][1]].symbols
            <3>1. Valid(tables, symbol[n])
                  BY <1>1, <2>1 DEF SymbolsOK, IsRef
            <3>2. QED
                  BY <1>1, <3>1, RefSymbol
      <2>2. QED
            BY <2>1
<1>5. QED
      BY <1>1, <1>2, <1>3, <1>4 DEF TypeOK, CurrentOK, BitsOK, ErrorsOK

(***************************************************************************)
(* The variables of build_symbol_tables have their types, of whatever      *)
(* size the program is: every symbol that an identifier is tied to is in   *)
(* the table that it is said to be in, the table of the moment is there    *)
(* unless it is the NULL table, and each table has as many children as     *)
(* there are tables whose parent it is.                                    *)
(***************************************************************************)
THEOREM TypeCorrect == Spec => [](Declarable(tree) => TypeOK)
<1>1. IInv => (Declarable(tree) => TypeOK)
      BY GoodTypes DEF IInv
<1>2. QED
      BY <1>1, InitInv, NextInv, PTL DEF Spec

(***************************************************************************)
(* The tables are a tree as calculate_offsets takes it, at all times: also *)
(* when errors were printed, and when a NULL pointer ended the walk.       *)
(***************************************************************************)
THEOREM AlwaysLaysOut == Spec => [](Declarable(tree) => LaysOut)
<1>1. IInv => (Declarable(tree) => LaysOut)
      BY GoodTree DEF IInv, StateOK, LaysOut
<1>2. QED
      BY <1>1, InitInv, NextInv, PTL DEF Spec

-----------------------------------------------------------------------------
(***************************************************************************)
(* The rest of this module is about the walk of a tidy program, for the    *)
(* theorems of ScopeProofs on what the tables contain.  The walk is a list *)
(* of work that grows and shrinks, so it is shown to follow the tree: what *)
(* is left of it is determined by its head, and what is done is all that   *)
(* stands before that (Past).                                              *)
(***************************************************************************)

-----------------------------------------------------------------------------
(* Nodes by their paths.                                                   *)

(* Induction over the numbers, for a set.                                  *)
LEMMA Counting ==
  ASSUME NEW Good, 0 \in Good, \A n \in Nat : n \in Good => n + 1 \in Good
  PROVE  Nat \subseteq Good
<1>1. PICK Bad : Bad = Nat \ Good
      OBVIOUS
<1>2. ASSUME Bad # {} PROVE FALSE
      <2>1. Bad \subseteq Nat
            BY <1>1
      <2>2. PICK m : m \in Bad /\ \A j \in Bad : m <= j
            BY <1>2, <2>1, LeastOf
      <2>3. m \in Nat /\ m # 0 /\ m - 1 \in Nat /\ (m - 1) + 1 = m /\ ~(m <= m - 1)
            BY <1>1, <2>2
      <2>4. m - 1 \notin Bad
            BY <2>2, <2>3
      <2>5. m - 1 \in Good
            BY <1>1, <2>3, <2>4
      <2>6. (m - 1) + 1 \in Good
            BY <2>3, <2>5
      <2>7. QED
            BY <1>1, <2>2, <2>3, <2>6
<1>3. QED
      BY <1>1, <1>2

(* The nodes on the way down p, as NodeAt has them.                        *)
ChildOf(t, d) == IF d = "L" THEN t.left ELSE t.right
OnWay(f, t, p, n) == f = [k \in 0..n |-> IF k = 0 THEN t ELSE ChildOf(f[k - 1], p[k])]

(* There is such a function: NodeAt does not choose from nothing.          *)
LEMMA WayExists ==
  ASSUME NEW t, NEW p, NEW n \in Nat
  PROVE  \E f : OnWay(f, t, p, n)
<1>1. PICK Good : Good = {k \in Nat : \E f : OnWay(f, t, p, k)}
      OBVIOUS
<1>2. 0 \in Good
      <2>1. PICK f : f = [k \in 0..0 |-> t]
            OBVIOUS
      <2>2. f = [k \in 0..0 |-> IF k = 0 THEN t ELSE ChildOf(f[k - 1], p[k])]
            <3>1. \A k \in 0..0 : k = 0
                  OBVIOUS
            <3>2. QED
                  BY <2>1, <3>1
      <2>3. QED
            BY <1>1, <2>2 DEF OnWay
<1>3. ASSUME NEW m \in Nat, m \in Good PROVE m + 1 \in Good
      <2>1. PICK f : OnWay(f, t, p, m)
            BY <1>1, <1>3
      <2>2. PICK c : c = ChildOf(f[m], p[m + 1])
            OBVIOUS
      <2>3. PICK g : g = [k \in 0..(m + 1) |-> IF k <= m THEN f[k] ELSE c]
            OBVIOUS
      <2>4. ASSUME NEW k \in 0..(m + 1)
            PROVE  g[k] = IF k = 0 THEN t ELSE ChildOf(g[k - 1], p[k])
            <3>1. CASE k <= m
                  <4>1. k \in 0..m /\ g[k] = f[k]
                        BY <2>3, <2>4, <3>1
                  <4>2. f[k] = IF k = 0 THEN t ELSE ChildOf(f[k - 1], p[k])
                        BY <2>1, <4>1 DEF OnWay
                  <4>3. k # 0 => k - 1 \in 0..(m + 1) /\ k - 1 <= m /\ g[k - 1] = f[k - 1]
                        BY <2>3, <4>1
                  <4>4. QED
                        BY <4>1, <4>2, <4>3
            <3>2. CASE k = m + 1
                  <4>1. k # 0 /\ k - 1 = m /\ m \in 0..(m + 1) /\ m <= m /\ ~(k <= m)
                        BY <3>2
                  <4>2. g[m] = f[m] /\ g[k] = c
                        BY <2>3, <4>1
                  <4>3. QED
                        BY <2>2, <3>2, <4>1, <4>2
            <3>3. QED
                  BY <2>4, <3>1, <3>2
      <2>5. g = [k \in 0..(m + 1) |-> IF k = 0 THEN t ELSE ChildOf(g[k - 1], p[k])]
            BY <2>3, <2>4
      <2>6. OnWay(g, t, p, m + 1)
            BY <2>5 DEF OnWay
      <2>7. QED
            BY <1>1, <2>6
<1>4. Nat \subseteq Good
      BY <1>2, <1>3, Counting
<1>5. QED
      BY <1>1, <1>4

(* What is at the end of the way is the node.                              *)
LEMMA WayEnd ==
  ASSUME NEW t, NEW p \in Seq(Steps)
  PROVE  \E f : OnWay(f, t, p, Len(p)) /\ NodeAt(t, p) = f[Len(p)]
<1>1. Len(p) \in Nat
      BY LenProperties
<1>2. PICK f : OnWay(f, t, p, Len(p))
      BY <1>1, WayExists
<1>3. PICK at : at = CHOOSE g : g = [k \in 0..Len(p) |->
                        IF k = 0 THEN t ELSE IF p[k] = "L" THEN g[k - 1].left ELSE g[k - 1].right]
      OBVIOUS
<1>4. NodeAt(t, p) = at[Len(p)]
      BY <1>3 DEF NodeAt
<1>5. f = [k \in 0..Len(p) |->
             IF k = 0 THEN t ELSE IF p[k] = "L" THEN f[k - 1].left ELSE f[k - 1].right]
      BY <1>2 DEF OnWay, ChildOf
<1>6. at = [k \in 0..Len(p) |->
             IF k = 0 THEN t ELSE IF p[k] = "L" THEN at[k - 1].left ELSE at[k - 1].right]
      BY <1>3, <1>5
<1>7. OnWay(at, t, p, Len(p))
      BY <1>6 DEF OnWay, ChildOf
<1>8. QED
      BY <1>4, <1>7

(* The root, and a child from its parent.                                  *)
LEMMA NodeAtFacts ==
  /\ \A t : NodeAt(t, <<>>) = t
  /\ \A t : \A p \in Seq(Steps) : \A d \in Steps : NodeAt(t, Append(p, d)) = ChildOf(NodeAt(t, p), d)
<1>1. ASSUME NEW t PROVE NodeAt(t, <<>>) = t
      <2>1. <<>> \in Seq(Steps) /\ Len(<<>>) = 0 /\ 0 \in 0..0
            BY EmptySeq
      <2>2. PICK f : OnWay(f, t, <<>>, 0) /\ NodeAt(t, <<>>) = f[0]
            BY <2>1, WayEnd
      <2>3. QED
            BY <2>1, <2>2 DEF OnWay
<1>2. ASSUME NEW t, NEW p \in Seq(Steps), NEW d \in Steps
      PROVE  NodeAt(t, Append(p, d)) = ChildOf(NodeAt(t, p), d)
      <2>1. PICK n, q : n = Len(p) /\ q = Append(p, d)
            OBVIOUS
      <2>2. n \in Nat /\ q \in Seq(Steps) /\ Len(q) = n + 1 /\ q[n + 1] = d /\ \A k \in 1..n : q[k] = p[k]
            BY <2>1, LenProperties, AppendProperties
      <2>3. PICK f : OnWay(f, t, p, n) /\ NodeAt(t, p) = f[n]
            BY <2>1, WayEnd
      <2>4. PICK g : OnWay(g, t, q, n + 1) /\ NodeAt(t, q) = g[n + 1]
            BY <2>2, WayEnd
      <2>5. PICK Good : Good = {k \in Nat : k <= n => f[k] = g[k]}
            OBVIOUS
      <2>6. 0 \in Good
            <3>1. 0 \in 0..n /\ 0 \in 0..(n + 1)
                  BY <2>2
            <3>2. f[0] = t /\ g[0] = t
                  BY <2>3, <2>4, <3>1 DEF OnWay
            <3>3. QED
                  BY <2>5, <3>2
      <2>7. ASSUME NEW k \in Nat, k \in Good PROVE k + 1 \in Good
            <3>1. CASE k + 1 <= n
                  <4>1. /\ k + 1 \in 0..n /\ k + 1 \in 0..(n + 1) /\ k + 1 \in 1..n /\ k + 1 # 0
                        /\ (k + 1) - 1 = k /\ k <= n
                        BY <2>2, <3>1
                  <4>2. f[k + 1] = ChildOf(f[k], p[k + 1]) /\ g[k + 1] = ChildOf(g[k], q[k + 1])
                        BY <2>3, <2>4, <4>1 DEF OnWay
                  <4>3. f[k] = g[k]
                        BY <2>5, <2>7, <4>1
                  <4>4. QED
                        BY <2>2, <2>5, <4>1, <4>2, <4>3
            <3>2. CASE ~(k + 1 <= n)
                  BY <2>5, <3>2
            <3>3. QED
                  BY <3>1, <3>2
      <2>8. f[n] = g[n]
            <3>1. Nat \subseteq Good
                  BY <2>6, <2>7, Counting
            <3>2. QED
                  BY <2>2, <2>5, <3>1
      <2>9. g[n + 1] = ChildOf(g[n], d)
            <3>1. n + 1 \in 0..(n + 1) /\ n + 1 # 0 /\ (n + 1) - 1 = n
                  BY <2>2
            <3>2. QED
                  BY <2>2, <2>4, <3>1 DEF OnWay
      <2>10. QED
             BY <2>1, <2>3, <2>4, <2>8, <2>9
<1>3. QED
      BY <1>1, <1>2

(* It does not matter which of three paths are joined first.               *)
LEMMA ThreeJoined ==
  ASSUME NEW a \in Seq(Steps), NEW b \in Seq(Steps), NEW c \in Seq(Steps)
  PROVE  (a \o b) \o c = a \o (b \o c)
BY ConcatAssociative

(* Equal nodes have equal nodes below them.                                *)
LEMMA SameBelow ==
  ASSUME NEW t, NEW p \in Seq(Steps), NEW q \in Seq(Steps), NodeAt(t, p) = NodeAt(t, q)
  PROVE  \A r \in Seq(Steps) : NodeAt(t, p \o r) = NodeAt(t, q \o r)
<1>1. PICK Good : Good = {n \in Nat : \A r \in Seq(Steps) : Len(r) = n =>
                                        NodeAt(t, p \o r) = NodeAt(t, q \o r)}
      OBVIOUS
<1>2. 0 \in Good
      <2>1. \A r \in Seq(Steps) : Len(r) = 0 => r = <<>>
            BY EmptySeq
      <2>2. p \o <<>> = p /\ q \o <<>> = q
            BY ConcatEmptySeq
      <2>3. QED
            BY <1>1, <2>1, <2>2
<1>3. ASSUME NEW n \in Nat, n \in Good PROVE n + 1 \in Good
      <2>1. ASSUME NEW r \in Seq(Steps), Len(r) = n + 1 PROVE NodeAt(t, p \o r) = NodeAt(t, q \o r)
            <3>1. r # <<>>
                  <4>1. n + 1 # 0
                        OBVIOUS
                  <4>2. QED
                        BY <2>1, <4>1, EmptySeq
            <3>2. PICK s, d : s = Parent(r) /\ d = r[Len(r)]
                  OBVIOUS
            <3>3. s \in Seq(Steps) /\ Len(s) = n /\ d \in Steps /\ r = Append(s, d)
                  <4>1. /\ Len(r) - 1 \in 0..Len(r) /\ Parent(r) \in Seq(Steps) /\ Len(Parent(r)) = Len(r) - 1
                        /\ r[Len(r)] \in Steps /\ r = Append(Parent(r), r[Len(r)])
                        BY <3>1, ParentPath
                  <4>2. QED
                        BY <2>1, <3>2, <4>1
            <3>4. p \o r = Append(p \o s, d) /\ q \o r = Append(q \o s, d)
                  <4>1. <<d>> \in Seq(Steps) /\ p \o s \in Seq(Steps) /\ q \o s \in Seq(Steps)
                        BY <3>3, ConcatProperties
                  <4>2. /\ Append(s, d) = s \o <<d>> /\ Append(p \o s, d) = (p \o s) \o <<d>>
                        /\ Append(q \o s, d) = (q \o s) \o <<d>>
                        BY <3>3, <4>1, AppendIsConcat
                  <4>3. (p \o s) \o <<d>> = p \o (s \o <<d>>) /\ (q \o s) \o <<d>> = q \o (s \o <<d>>)
                        <5>1. PICK w : w = <<d>>
                              OBVIOUS
                        <5>2. w \in Seq(Steps) /\ s \in Seq(Steps)
                              BY <3>3, <4>1, <5>1
                        <5>3. (p \o s) \o w = p \o (s \o w)
                              BY <5>2, ThreeJoined
                        <5>4. (q \o s) \o w = q \o (s \o w)
                              BY <5>2, ThreeJoined
                        <5>5. QED
                              BY <5>1, <5>3, <5>4
                  <4>4. QED
                        BY <3>3, <4>2, <4>3
            <3>5. p \o s \in Seq(Steps) /\ q \o s \in Seq(Steps)
                  BY <3>3, ConcatProperties
            <3>6. NodeAt(t, p \o s) = NodeAt(t, q \o s)
                  BY <1>1, <1>3, <3>3
            <3>7. /\ NodeAt(t, Append(p \o s, d)) = ChildOf(NodeAt(t, p \o s), d)
                  /\ NodeAt(t, Append(q \o s, d)) = ChildOf(NodeAt(t, q \o s), d)
                  BY <3>3, <3>5, NodeAtFacts
            <3>8. QED
                  BY <3>4, <3>6, <3>7
      <2>2. QED
            BY <1>1, <2>1
<1>4. Nat \subseteq Good
      BY <1>2, <1>3, Counting
<1>5. QED
      <2>1. \A r \in Seq(Steps) : Len(r) \in Nat
            BY LenProperties
      <2>2. QED
            BY <1>1, <1>4, <2>1
-----------------------------------------------------------------------------
(* The order of the walk.                                                  *)

(* What is done at a node, and the way to it, in the order of the walk:    *)
(* enter, what is to the left, middle, what is to the right, leave.        *)
Code(w, i) ==
  IF i <= Len(w.n) THEN (IF w.n[i] = "L" THEN 1 ELSE 3)
  ELSE IF w.do = "enter" THEN 0 ELSE IF w.do = "middle" THEN 2 ELSE 4

(* v comes before w in the walk.                                           *)
Past(v, w) ==
  \E k \in 1..(Len(v.n) + 1) :
     /\ k <= Len(w.n) + 1
     /\ \A i \in 1..(k - 1) : Code(v, i) = Code(w, i)
     /\ Code(v, k) < Code(w, k)

OnPath(v) == v.n \in Seq(Steps)

(* The codes of a way are odd, that of its end is even.                    *)
LEMMA CodeFacts ==
  ASSUME NEW v, OnPath(v)
  PROVE  /\ Len(v.n) \in Nat
         /\ \A i \in 1..Len(v.n) : Code(v, i) \in {1, 3} /\ (Code(v, i) = 1 <=> v.n[i] = "L")
         /\ Code(v, Len(v.n) + 1) \in {0, 2, 4}
         /\ \A i \in 1..(Len(v.n) + 1) : Code(v, i) \in 0..4
<1>1. PICK m : m = Len(v.n)
      OBVIOUS
<1>2. m \in Nat
      BY <1>1, LenProperties DEF OnPath
<1>3. \A i \in 1..m : Code(v, i) \in {1, 3} /\ (Code(v, i) = 1 <=> v.n[i] = "L")
      <2>1. \A i \in 1..m : i <= m
            BY <1>2
      <2>2. QED
            BY <1>1, <2>1 DEF Code
<1>4. ~(m + 1 <= m)
      BY <1>2
<1>5. Code(v, m + 1) \in {0, 2, 4}
      BY <1>1, <1>4 DEF Code
<1>6. \A i \in 1..(m + 1) : i \in 1..m \/ i = m + 1
      BY <1>2
<1>7. \A i \in 1..(m + 1) : Code(v, i) \in 0..4
      <2>1. \A c : c \in {1, 3} \/ c \in {0, 2, 4} => c \in 0..4
            OBVIOUS
      <2>2. QED
            BY <1>3, <1>5, <1>6, <2>1
<1>8. QED
      BY <1>1, <1>2, <1>3, <1>5, <1>7

(* Nothing comes before itself.                                            *)
LEMMA PastIrreflexive ==
  ASSUME NEW v, OnPath(v)
  PROVE  ~Past(v, v)
<1>1. \A i \in 1..(Len(v.n) + 1) : Code(v, i) \in 0..4
      BY CodeFacts
<1>2. \A c \in 0..4 : ~(c < c)
      OBVIOUS
<1>3. QED
      BY <1>1, <1>2 DEF Past

(* What comes before something that comes before w comes before w.         *)
LEMMA PastTransitive ==
  ASSUME NEW u, NEW v, NEW w, OnPath(u), OnPath(v), OnPath(w), Past(u, v), Past(v, w)
  PROVE  Past(u, w)
<1>1. PICK a, b, c : a = Len(u.n) + 1 /\ b = Len(v.n) + 1 /\ c = Len(w.n) + 1
      OBVIOUS
<1>2. /\ a \in Nat /\ b \in Nat /\ c \in Nat
      /\ \A i \in 1..a : Code(u, i) \in 0..4
      /\ \A i \in 1..b : Code(v, i) \in 0..4
      /\ \A i \in 1..c : Code(w, i) \in 0..4
      BY <1>1, CodeFacts
<1>3. PICK j \in 1..a : /\ j <= b /\ \A i \in 1..(j - 1) : Code(u, i) = Code(v, i)
                        /\ Code(u, j) < Code(v, j)
      BY <1>1 DEF Past
<1>4. PICK k \in 1..b : /\ k <= c /\ \A i \in 1..(k - 1) : Code(v, i) = Code(w, i)
                        /\ Code(v, k) < Code(w, k)
      BY <1>1 DEF Past
<1>5. /\ j \in Nat /\ k \in Nat /\ j >= 1 /\ k >= 1 /\ j <= a /\ j <= b /\ k <= b /\ k <= c
      BY <1>2, <1>3, <1>4
<1>6. CASE j <= k
      <2>1. j \in 1..a /\ j \in 1..b /\ j \in 1..c /\ k \in 1..c
            BY <1>2, <1>5, <1>6
      <2>2. \A i \in 1..(j - 1) : i \in 1..(k - 1)
            BY <1>5, <1>6
      <2>3. \A i \in 1..(j - 1) : Code(u, i) = Code(w, i)
            BY <1>3, <1>4, <2>2
      <2>4. Code(u, j) < Code(w, j)
            <3>1. Code(v, j) <= Code(w, j)
                  <4>1. CASE j = k
                        BY <1>2, <1>4, <2>1, <4>1
                  <4>2. CASE j # k
                        <5>1. j \in 1..(k - 1)
                              BY <1>5, <1>6, <4>2
                        <5>2. QED
                              BY <1>2, <1>4, <2>1, <5>1
                  <4>3. QED
                        BY <4>1, <4>2
            <3>2. Code(u, j) \in 0..4 /\ Code(v, j) \in 0..4 /\ Code(w, j) \in 0..4
                  BY <1>2, <2>1
            <3>3. QED
                  BY <1>3, <3>1, <3>2
      <2>5. QED
            BY <1>1, <2>1, <2>3, <2>4, <1>5, <1>6 DEF Past
<1>7. CASE k < j
      <2>1. k \in 1..a /\ k \in 1..(j - 1)
            BY <1>2, <1>5, <1>7
      <2>2. \A i \in 1..(k - 1) : i \in 1..(j - 1)
            BY <1>5, <1>7
      <2>3. \A i \in 1..(k - 1) : Code(u, i) = Code(w, i)
            BY <1>3, <1>4, <2>2
      <2>4. Code(u, k) < Code(w, k)
            BY <1>3, <1>4, <2>1
      <2>5. QED
            BY <1>1, <1>5, <2>1, <2>3, <2>4 DEF Past
<1>8. QED
      BY <1>5, <1>6, <1>7

(* So of two items one at most comes before the other.                     *)
LEMMA PastAsymmetric ==
  ASSUME NEW v, NEW w, OnPath(v), OnPath(w), Past(v, w)
  PROVE  ~Past(w, v) /\ v # w
BY PastIrreflexive, PastTransitive

-----------------------------------------------------------------------------
(* Paths and what is below them.                                           *)

(* The order of paths: at or below.                                        *)
LEMMA BelowOrder ==
  /\ \A n \in Seq(Steps) : AtOrBelow(n, n) /\ AtOrBelow(n, <<>>)
  /\ \A n, m, l \in Seq(Steps) : AtOrBelow(n, m) /\ AtOrBelow(m, l) => AtOrBelow(n, l)
  /\ \A n, m \in Seq(Steps) : AtOrBelow(n, m) /\ AtOrBelow(m, n) => m = n
  /\ \A n, m \in Seq(Steps) : IsWithin(n, m) <=> AtOrBelow(n, m) /\ n # m
  /\ \A n, m \in Seq(Steps) :
       AtOrBelow(n, m) <=> Len(m) <= Len(n) /\ \A i \in 1..Len(m) : n[i] = m[i]
<1>1. ASSUME NEW n \in Seq(Steps), NEW m \in Seq(Steps)
      PROVE  AtOrBelow(n, m) <=> Len(m) <= Len(n) /\ \A i \in 1..Len(m) : n[i] = m[i]
      <2>1. PICK a, b : a = Len(n) /\ b = Len(m)
            OBVIOUS
      <2>2. a \in Nat /\ b \in Nat
            BY <2>1, LenProperties
      <2>3. CASE b <= a
            <3>1. b \in 0..Len(n)
                  BY <2>1, <2>2, <2>3
            <3>2. PICK s : s = SubSeq(n, 1, b)
                  OBVIOUS
            <3>3. s \in Seq(Steps) /\ Len(s) = b /\ \A i \in 1..b : s[i] = n[i]
                  BY <3>1, <3>2, PartPath
            <3>4. s = m <=> \A i \in 1..b : n[i] = m[i]
                  <4>1. ASSUME \A i \in 1..b : n[i] = m[i] PROVE s = m
                        BY <2>1, <3>3, <4>1, SeqEqual
                  <4>2. QED
                        BY <3>3, <4>1
            <3>5. QED
                  BY <2>1, <2>3, <3>2, <3>4 DEF AtOrBelow
      <2>4. CASE ~(b <= a)
            BY <2>1, <2>4 DEF AtOrBelow
      <2>5. QED
            BY <2>3, <2>4
<1>2. \A n \in Seq(Steps) : Len(n) \in Nat
      BY LenProperties
<1>3. \A n \in Seq(Steps) : AtOrBelow(n, n)
      BY <1>1, <1>2
<1>4. \A n \in Seq(Steps) : AtOrBelow(n, <<>>)
      <2>1. PICK e : e = <<>>
            OBVIOUS
      <2>2. e \in Seq(Steps) /\ Len(e) = 0 /\ \A i \in 1..Len(e) : FALSE
            BY <2>1
      <2>3. ASSUME NEW n \in Seq(Steps) PROVE AtOrBelow(n, e)
            <3>1. Len(e) <= Len(n) /\ \A i \in 1..Len(e) : n[i] = e[i]
                  BY <1>2, <2>2
            <3>2. QED
                  BY <1>1, <2>2, <3>1
      <2>4. QED
            BY <2>1, <2>3
<1>5. ASSUME NEW n \in Seq(Steps), NEW m \in Seq(Steps), NEW l \in Seq(Steps),
             AtOrBelow(n, m), AtOrBelow(m, l)
      PROVE  AtOrBelow(n, l)
      <2>1. Len(l) <= Len(m) /\ Len(m) <= Len(n) /\ \A i \in 1..Len(l) : i \in 1..Len(m)
            BY <1>1, <1>2, <1>5
      <2>2. QED
            BY <1>1, <1>2, <1>5, <2>1
<1>6. ASSUME NEW n \in Seq(Steps), NEW m \in Seq(Steps), AtOrBelow(n, m), AtOrBelow(m, n)
      PROVE  m = n
      <2>1. Len(n) = Len(m) /\ \A i \in 1..Len(m) : m[i] = n[i]
            BY <1>1, <1>2, <1>6
      <2>2. QED
            BY <2>1, SeqEqual
<1>7. ASSUME NEW n \in Seq(Steps), NEW m \in Seq(Steps)
      PROVE  IsWithin(n, m) <=> AtOrBelow(n, m) /\ n # m
      <2>1. Len(n) \in Nat /\ Len(m) \in Nat
            BY <1>2
      <2>2. AtOrBelow(n, m) /\ Len(n) = Len(m) => n = m
            BY <1>1, SeqEqual
      <2>3. QED
            BY <2>1, <2>2 DEF IsWithin, AtOrBelow, Prefix
<1>8. QED
      BY <1>1, <1>3, <1>4, <1>5, <1>6, <1>7

(* A node's children are below it, and what is below it is at or below one *)
(* of them.                                                                *)
LEMMA BelowChildren ==
  ASSUME NEW m \in Seq(Steps)
  PROVE  /\ Left(m) \in Seq(Steps) /\ Right(m) \in Seq(Steps)
         /\ Len(Left(m)) = Len(m) + 1 /\ Len(Right(m)) = Len(m) + 1 /\ Len(m) \in Nat
         /\ Parent(Left(m)) = m /\ Parent(Right(m)) = m
         /\ Left(m)[Len(m) + 1] = "L" /\ Right(m)[Len(m) + 1] = "R"
         /\ Left(m) # <<>> /\ Right(m) # <<>> /\ Left(m) # Right(m)
         /\ \A n \in Seq(Steps) :
              /\ AtOrBelow(n, Left(m)) <=> IsWithin(n, m) /\ n[Len(m) + 1] = "L"
              /\ AtOrBelow(n, Right(m)) <=> IsWithin(n, m) /\ n[Len(m) + 1] = "R"
              /\ IsWithin(n, m) => n[Len(m) + 1] \in Steps /\ Len(n) >= Len(m) + 1
<1>1. "L" \in Steps /\ "R" \in Steps /\ \A d \in Steps : d = "L" \/ d = "R"
      BY DEF Steps
<1>2. PICK b : b = Len(m)
      OBVIOUS
<1>3. b \in Nat
      BY <1>2, LenProperties
<1>4. ASSUME NEW d \in Steps
      PROVE  /\ Append(m, d) \in Seq(Steps) /\ Len(Append(m, d)) = b + 1
             /\ Append(m, d)[b + 1] = d /\ Parent(Append(m, d)) = m
             /\ \A i \in 1..b : Append(m, d)[i] = m[i]
      BY <1>2, ChildPath, AppendProperties
<1>5. ASSUME NEW d \in Steps, NEW n \in Seq(Steps)
      PROVE  AtOrBelow(n, Append(m, d)) <=> IsWithin(n, m) /\ n[b + 1] = d
      <2>1. PICK c, a : c = Append(m, d) /\ a = Len(n)
            OBVIOUS
      <2>2. /\ c \in Seq(Steps) /\ Len(c) = b + 1 /\ a \in Nat /\ c[b + 1] = d
            /\ \A i \in 1..b : c[i] = m[i]
            BY <1>4, <2>1, LenProperties
      <2>3. AtOrBelow(n, c) <=> b + 1 <= a /\ \A i \in 1..(b + 1) : n[i] = c[i]
            <3>1. AtOrBelow(n, c) <=> Len(c) <= Len(n) /\ \A i \in 1..Len(c) : n[i] = c[i]
                  BY <2>2, BelowOrder
            <3>2. Len(c) = b + 1 /\ Len(n) = a
                  BY <2>1, <2>2
            <3>3. QED
                  BY <3>1, <3>2
      <2>4. \A i : i \in 1..(b + 1) <=> i \in 1..b \/ i = b + 1
            BY <1>3
      <2>5. (\A i \in 1..(b + 1) : n[i] = c[i]) <=> (\A i \in 1..b : n[i] = m[i]) /\ n[b + 1] = d
            BY <2>2, <2>4
      <2>6. IsWithin(n, m) <=> b < a /\ \A i \in 1..b : n[i] = m[i]
            <3>1. AtOrBelow(n, m) <=> b <= a /\ \A i \in 1..b : n[i] = m[i]
                  BY <1>2, <2>1, BelowOrder
            <3>2. IsWithin(n, m) <=> b < a /\ SubSeq(n, 1, b) = m
                  BY <1>2, <2>1 DEF IsWithin, Prefix
            <3>3. AtOrBelow(n, m) <=> b <= a /\ SubSeq(n, 1, b) = m
                  BY <1>2, <2>1 DEF AtOrBelow
            <3>4. b < a => b <= a
                  BY <1>3, <2>2
            <3>5. QED
                  BY <3>1, <3>2, <3>3, <3>4
      <2>7. b + 1 <= a <=> b < a
            BY <1>3, <2>2
      <2>8. QED
            BY <2>1, <2>3, <2>5, <2>6, <2>7
<1>6. ASSUME NEW n \in Seq(Steps), IsWithin(n, m) PROVE n[b + 1] \in Steps /\ Len(n) >= b + 1
      <2>1. b < Len(n) /\ Len(n) \in Nat
            BY <1>2, <1>6, LenProperties DEF IsWithin
      <2>2. b + 1 \in 1..Len(n) /\ Len(n) >= b + 1
            BY <1>3, <2>1
      <2>3. QED
            BY <2>2, ElementOfSeq
<1>7. Left(m) # <<>> /\ Right(m) # <<>> /\ Left(m) # Right(m)
      <2>1. Len(<<>>) = 0 /\ b + 1 # 0 /\ "L" # "R"
            BY <1>3
      <2>2. QED
            BY <1>1, <1>4, <2>1 DEF Left, Right
<1>8. QED
      BY <1>1, <1>2, <1>3, <1>4, <1>5, <1>6, <1>7 DEF Left, Right

(* So what is below a child is below the node.                             *)
LEMMA BelowChild ==
  ASSUME NEW m \in Seq(Steps), NEW n \in Seq(Steps), AtOrBelow(n, Left(m)) \/ AtOrBelow(n, Right(m))
  PROVE  AtOrBelow(n, m)
<1>1. IsWithin(n, m)
      BY BelowChildren
<1>2. QED
      BY <1>1, BelowOrder

(* Of what is above one node the lower is at or below the higher.          *)
LEMMA AboveOne ==
  ASSUME NEW n \in Seq(Steps), NEW a \in Seq(Steps), NEW b \in Seq(Steps),
         AtOrBelow(n, a), AtOrBelow(n, b)
  PROVE  AtOrBelow(a, b) \/ AtOrBelow(b, a)
<1>1. /\ Len(a) <= Len(n) /\ \A i \in 1..Len(a) : n[i] = a[i]
      /\ Len(b) <= Len(n) /\ \A i \in 1..Len(b) : n[i] = b[i]
      BY BelowOrder
<1>2. Len(a) \in Nat /\ Len(b) \in Nat
      BY LenProperties
<1>3. CASE Len(a) <= Len(b)
      <2>1. \A i \in 1..Len(a) : i \in 1..Len(b)
            BY <1>2, <1>3
      <2>2. QED
            BY <1>1, <1>3, <2>1, BelowOrder
<1>4. CASE Len(b) <= Len(a)
      <2>1. \A i \in 1..Len(b) : i \in 1..Len(a)
            BY <1>2, <1>4
      <2>2. QED
            BY <1>1, <1>4, <2>1, BelowOrder
<1>5. QED
      BY <1>2, <1>3, <1>4

(* Of two paths one is at or below the other, or one comes first.          *)
LEMMA Apart ==
  ASSUME NEW m \in Seq(Steps), NEW n \in Seq(Steps)
  PROVE  AtOrBelow(m, n) \/ AtOrBelow(n, m) \/ Before(m, n) \/ Before(n, m)
<1>1. PICK a, b : a = Len(m) /\ b = Len(n)
      OBVIOUS
<1>2. a \in Nat /\ b \in Nat
      BY <1>1, LenProperties
<1>3. PICK D : D = {k \in 1..a : k <= b /\ m[k] # n[k]}
      OBVIOUS
<1>4. D \subseteq Nat
      BY <1>2, <1>3
<1>5. CASE D = {}
      <2>1. CASE a <= b
            <3>1. \A i \in 1..a : m[i] = n[i]
                  BY <1>2, <1>3, <1>5, <2>1
            <3>2. AtOrBelow(n, m)
                  BY <1>1, <2>1, <3>1, BelowOrder
            <3>3. QED
                  BY <3>2
      <2>2. CASE b <= a
            <3>1. \A i \in 1..b : m[i] = n[i]
                  <4>1. \A i \in 1..b : i \in 1..a /\ i <= b
                        BY <1>2, <2>2
                  <4>2. QED
                        BY <1>3, <1>5, <4>1
            <3>2. AtOrBelow(m, n)
                  BY <1>1, <2>2, <3>1, BelowOrder
            <3>3. QED
                  BY <3>2
      <2>3. QED
            BY <1>2, <2>1, <2>2
<1>6. CASE D # {}
      <2>1. PICK k : k = Least(D)
            OBVIOUS
      <2>2. k \in D /\ \A j \in D : k <= j
            BY <1>4, <1>6, <2>1, LeastOf
      <2>3. k \in 1..a /\ k <= b /\ m[k] # n[k] /\ k \in Nat /\ k \in 1..b
            BY <1>2, <1>3, <2>2
      <2>4. \A i \in 1..(k - 1) : m[i] = n[i]
            <3>1. ASSUME NEW i \in 1..(k - 1), m[i] # n[i] PROVE FALSE
                  <4>1. i \in 1..a /\ i <= b /\ i < k
                        BY <1>2, <2>3, <3>1
                  <4>2. i \in D
                        BY <1>3, <3>1, <4>1
                  <4>3. QED
                        BY <1>2, <2>2, <2>3, <4>1, <4>2
            <3>2. QED
                  BY <3>1
      <2>5. Prefix(m, k - 1) = Prefix(n, k - 1)
            <3>1. k - 1 \in 0..Len(m) /\ k - 1 \in 0..Len(n)
                  BY <1>1, <1>2, <2>3
            <3>2. PICK s, t : s = SubSeq(m, 1, k - 1) /\ t = SubSeq(n, 1, k - 1)
                  OBVIOUS
            <3>3. /\ s \in Seq(Steps) /\ Len(s) = k - 1 /\ \A i \in 1..(k - 1) : s[i] = m[i]
                  /\ t \in Seq(Steps) /\ Len(t) = k - 1 /\ \A i \in 1..(k - 1) : t[i] = n[i]
                  BY <3>1, <3>2, PartPath
            <3>4. \A i \in 1..(k - 1) : s[i] = t[i]
                  BY <2>4, <3>3
            <3>5. s = t
                  BY <3>3, <3>4, SeqEqual
            <3>6. QED
                  BY <3>2, <3>5 DEF Prefix
      <2>6. m[k] \in Steps /\ n[k] \in Steps
            BY <1>1, <2>3, ElementOfSeq
      <2>7. (m[k] = "L" /\ n[k] = "R") \/ (m[k] = "R" /\ n[k] = "L")
            BY <2>3, <2>6 DEF Steps
      <2>8. k \in 1..Len(m) /\ k <= Len(n) /\ k \in 1..Len(n) /\ k <= Len(m)
            BY <1>1, <1>2, <2>3
      <2>9. Before(m, n) \/ Before(n, m)
            BY <2>5, <2>7, <2>8 DEF Before
      <2>10. QED
            BY <2>9
<1>7. QED
      BY <1>5, <1>6

(* What Before says, element by element.                                   *)
LEMMA BeforeAt ==
  ASSUME NEW m \in Seq(Steps), NEW n \in Seq(Steps)
  PROVE  Before(m, n) <=> \E k \in 1..Len(m) : /\ k <= Len(n) /\ m[k] = "L" /\ n[k] = "R"
                                               /\ \A i \in 1..(k - 1) : m[i] = n[i]
<1>1. ASSUME NEW k \in 1..Len(m), k <= Len(n)
      PROVE  Prefix(m, k - 1) = Prefix(n, k - 1) <=> \A i \in 1..(k - 1) : m[i] = n[i]
      <2>1. Len(m) \in Nat /\ Len(n) \in Nat
            BY LenProperties
      <2>2. k - 1 \in 0..Len(m) /\ k - 1 \in 0..Len(n)
            BY <1>1, <2>1
      <2>3. PICK s, t : s = SubSeq(m, 1, k - 1) /\ t = SubSeq(n, 1, k - 1)
            OBVIOUS
      <2>4. /\ s \in Seq(Steps) /\ Len(s) = k - 1 /\ \A i \in 1..(k - 1) : s[i] = m[i]
            /\ t \in Seq(Steps) /\ Len(t) = k - 1 /\ \A i \in 1..(k - 1) : t[i] = n[i]
            BY <2>2, <2>3, PartPath
      <2>5. (\A i \in 1..(k - 1) : m[i] = n[i]) => s = t
            BY <2>4, SeqEqual
      <2>6. s = t => \A i \in 1..(k - 1) : m[i] = n[i]
            BY <2>4
      <2>7. QED
            BY <2>3, <2>5, <2>6 DEF Prefix
<1>2. QED
      BY <1>1 DEF Before

(* Of two paths that are apart, all that is below the first comes first.   *)
LEMMA PastBefore ==
  ASSUME NEW v, NEW w, OnPath(v), OnPath(w), NEW m \in Seq(Steps), NEW n \in Seq(Steps),
         Before(m, n), AtOrBelow(v.n, m), AtOrBelow(w.n, n)
  PROVE  Past(v, w) /\ Before(v.n, w.n)
<1>1. PICK a, b : a = v.n /\ b = w.n
      OBVIOUS
<1>2. PICK k \in 1..Len(m) : /\ k <= Len(n) /\ m[k] = "L" /\ n[k] = "R"
                             /\ \A i \in 1..(k - 1) : m[i] = n[i]
      BY BeforeAt
<1>3. Len(m) \in Nat /\ Len(n) \in Nat /\ Len(a) \in Nat /\ Len(b) \in Nat
      BY <1>1, LenProperties DEF OnPath
<1>4. /\ Len(m) <= Len(a) /\ \A i \in 1..Len(m) : a[i] = m[i]
      /\ Len(n) <= Len(b) /\ \A i \in 1..Len(n) : b[i] = n[i]
      BY <1>1, BelowOrder DEF OnPath
<1>5. /\ k \in 1..Len(a) /\ k \in 1..Len(b) /\ k \in 1..Len(n)
      /\ \A i \in 1..(k - 1) : i \in 1..Len(m) /\ i \in 1..Len(n) /\ i \in 1..Len(a) /\ i \in 1..Len(b)
      BY <1>2, <1>3, <1>4
<1>6. a[k] = "L" /\ b[k] = "R" /\ \A i \in 1..(k - 1) : a[i] = b[i]
      BY <1>2, <1>4, <1>5
<1>7. \A i \in 1..k : i <= Len(a) /\ i <= Len(b)
      BY <1>3, <1>5
<1>8. \A i \in 1..(k - 1) : Code(v, i) = Code(w, i)
      <2>1. \A i \in 1..(k - 1) : i \in 1..k
            BY <1>5
      <2>2. QED
            BY <1>1, <1>6, <1>7, <2>1 DEF Code
<1>9. Code(v, k) = 1 /\ Code(w, k) = 3
      <2>1. k <= Len(a) /\ k <= Len(b)
            BY <1>3, <1>5
      <2>2. QED
            BY <1>1, <1>6, <2>1 DEF Code
<1>10. k \in 1..(Len(v.n) + 1) /\ k <= Len(w.n) + 1
       BY <1>1, <1>3, <1>5
<1>11. Past(v, w)
       <2>1. 1 < 3
             OBVIOUS
       <2>2. QED
             BY <1>8, <1>9, <1>10, <2>1 DEF Past
<1>12. Before(a, b)
       <2>1. a \in Seq(Steps) /\ b \in Seq(Steps) /\ k <= Len(b)
             BY <1>1, <1>3, <1>5 DEF OnPath
       <2>2. QED
             BY <1>5, <1>6, <2>1, BeforeAt
<1>13. QED
       BY <1>1, <1>11, <1>12

(* The codes of two items agree as far as a path that both are below.      *)
LEMMA SameWay ==
  ASSUME NEW v, NEW w, OnPath(v), OnPath(w), NEW m \in Seq(Steps),
         AtOrBelow(v.n, m), AtOrBelow(w.n, m)
  PROVE  \A i \in 1..Len(m) : Code(v, i) = Code(w, i)
<1>1. PICK a, b : a = v.n /\ b = w.n
      OBVIOUS
<1>2. Len(m) \in Nat /\ Len(a) \in Nat /\ Len(b) \in Nat
      BY <1>1, LenProperties DEF OnPath
<1>3. /\ Len(m) <= Len(a) /\ \A i \in 1..Len(m) : a[i] = m[i]
      /\ Len(m) <= Len(b) /\ \A i \in 1..Len(m) : b[i] = m[i]
      BY <1>1, BelowOrder DEF OnPath
<1>4. \A i \in 1..Len(m) : i <= Len(a) /\ i <= Len(b)
      BY <1>2, <1>3
<1>5. QED
      BY <1>1, <1>3, <1>4 DEF Code

(* The first code after that way decides.                                  *)
LEMMA PastFrom ==
  ASSUME NEW v, NEW w, OnPath(v), OnPath(w), NEW m \in Seq(Steps),
         AtOrBelow(v.n, m), AtOrBelow(w.n, m), Code(v, Len(m) + 1) < Code(w, Len(m) + 1)
  PROVE  Past(v, w)
<1>1. PICK k : k = Len(m) + 1
      OBVIOUS
<1>2. Len(m) \in Nat /\ Len(v.n) \in Nat /\ Len(w.n) \in Nat
      BY LenProperties DEF OnPath
<1>3. Len(m) <= Len(v.n) /\ Len(m) <= Len(w.n)
      BY DEF AtOrBelow
<1>4. k \in 1..(Len(v.n) + 1) /\ k <= Len(w.n) + 1
      BY <1>1, <1>2, <1>3
<1>5. \A i \in 1..(k - 1) : Code(v, i) = Code(w, i)
      <2>1. \A i \in 1..(k - 1) : i \in 1..Len(m)
            BY <1>1, <1>2
      <2>2. QED
            BY <2>1, SameWay
<1>6. QED
      BY <1>1, <1>4, <1>5 DEF Past

(* The code after the way to m: that of m itself, or of the child that is  *)
(* the next on the way.                                                    *)
LEMMA CodeAfter ==
  ASSUME NEW m \in Seq(Steps)
  PROVE  /\ OnPath(Enter(m)) /\ OnPath(Middle(m)) /\ OnPath(Leave(m))
         /\ Enter(m).n = m /\ Middle(m).n = m /\ Leave(m).n = m
         /\ Code(Enter(m), Len(m) + 1) = 0 /\ Code(Middle(m), Len(m) + 1) = 2
         /\ Code(Leave(m), Len(m) + 1) = 4
         /\ \A v : OnPath(v) /\ AtOrBelow(v.n, Left(m)) => Code(v, Len(m) + 1) = 1
         /\ \A v : OnPath(v) /\ AtOrBelow(v.n, Right(m)) => Code(v, Len(m) + 1) = 3
<1>1. Len(m) \in Nat
      BY LenProperties
<1>2. ~(Len(m) + 1 <= Len(m))
      BY <1>1
<1>3. /\ Code(Enter(m), Len(m) + 1) = 0 /\ Code(Middle(m), Len(m) + 1) = 2
      /\ Code(Leave(m), Len(m) + 1) = 4
      BY <1>2 DEF Code, Enter, Middle, Leave
<1>4. ASSUME NEW v, OnPath(v), AtOrBelow(v.n, Left(m)) PROVE Code(v, Len(m) + 1) = 1
      <2>1. PICK a : a = v.n
            OBVIOUS
      <2>2. a[Len(m) + 1] = "L" /\ Len(a) >= Len(m) + 1
            BY <1>4, <2>1, BelowChildren DEF OnPath
      <2>3. Len(a) \in Nat
            BY <1>4, <2>1, LenProperties DEF OnPath
      <2>4. Len(m) + 1 <= Len(a)
            BY <1>1, <2>2, <2>3
      <2>5. QED
            BY <2>1, <2>2, <2>4 DEF Code
<1>5. ASSUME NEW v, OnPath(v), AtOrBelow(v.n, Right(m)) PROVE Code(v, Len(m) + 1) = 3
      <2>1. PICK a : a = v.n
            OBVIOUS
      <2>2. a[Len(m) + 1] = "R" /\ Len(a) >= Len(m) + 1
            BY <1>5, <2>1, BelowChildren DEF OnPath
      <2>3. Len(a) \in Nat
            BY <1>5, <2>1, LenProperties DEF OnPath
      <2>4. Len(m) + 1 <= Len(a) /\ "R" # "L"
            BY <1>1, <2>2, <2>3
      <2>5. QED
            BY <2>1, <2>2, <2>4 DEF Code
<1>6. QED
      BY <1>3, <1>4, <1>5 DEF OnPath, Enter, Middle, Leave

(* A node is entered before what is to the left of it, and so on.          *)
LEMMA PastAtNode ==
  ASSUME NEW m \in Seq(Steps)
  PROVE  /\ Past(Enter(m), Middle(m)) /\ Past(Middle(m), Leave(m)) /\ Past(Enter(m), Leave(m))
         /\ \A v : OnPath(v) /\ AtOrBelow(v.n, Left(m)) =>
              Past(Enter(m), v) /\ Past(v, Middle(m)) /\ Past(v, Leave(m))
         /\ \A v : OnPath(v) /\ AtOrBelow(v.n, Right(m)) =>
              Past(Enter(m), v) /\ Past(Middle(m), v) /\ Past(v, Leave(m))
<1>1. PICK e, i, l, b : e = Enter(m) /\ i = Middle(m) /\ l = Leave(m) /\ b = Len(m) + 1
      OBVIOUS
<1>2. /\ OnPath(e) /\ OnPath(i) /\ OnPath(l) /\ e.n = m /\ i.n = m /\ l.n = m
      /\ Code(e, b) = 0 /\ Code(i, b) = 2 /\ Code(l, b) = 4
      BY <1>1, CodeAfter
<1>3. AtOrBelow(m, m)
      BY BelowOrder
<1>4. 0 < 2 /\ 2 < 4 /\ 0 < 4 /\ 0 < 1 /\ 1 < 2 /\ 1 < 4 /\ 0 < 3 /\ 2 < 3 /\ 3 < 4
      OBVIOUS
<1>5. \A u, w : OnPath(u) /\ OnPath(w) /\ AtOrBelow(u.n, m) /\ AtOrBelow(w.n, m)
                /\ Code(u, b) < Code(w, b) => Past(u, w)
      BY <1>1, PastFrom
<1>6. Past(e, i) /\ Past(i, l) /\ Past(e, l)
      BY <1>2, <1>3, <1>4, <1>5
<1>7. ASSUME NEW v, OnPath(v), AtOrBelow(v.n, Left(m))
      PROVE  Past(e, v) /\ Past(v, i) /\ Past(v, l)
      <2>1. Code(v, b) = 1
            BY <1>1, <1>7, CodeAfter
      <2>2. AtOrBelow(v.n, m)
            BY <1>7, BelowChild DEF OnPath
      <2>3. QED
            BY <1>2, <1>3, <1>4, <1>5, <1>7, <2>1, <2>2
<1>8. ASSUME NEW v, OnPath(v), AtOrBelow(v.n, Right(m))
      PROVE  Past(e, v) /\ Past(i, v) /\ Past(v, l)
      <2>1. Code(v, b) = 3
            BY <1>1, <1>8, CodeAfter
      <2>2. AtOrBelow(v.n, m)
            BY <1>8, BelowChild DEF OnPath
      <2>3. QED
            BY <1>2, <1>3, <1>4, <1>5, <1>8, <2>1, <2>2
<1>9. QED
      BY <1>1, <1>6, <1>7, <1>8

-----------------------------------------------------------------------------
(* The items of nodes, and those that the walk has done.                   *)

NodePaths == {n \in Seq(Steps) : IsNode(n)}
Visits    == UNION {{Enter(n), Middle(n), Leave(n)} : n \in NodePaths}
Done(w)   == {v \in Visits : w = <<>> \/ Past(v, Head(w))}

(* An item is an item of its node.                                         *)
LEMMA VisitFacts ==
  ASSUME NEW v \in Visits
  PROVE  /\ OnPath(v) /\ IsNode(v.n) /\ v.n \in Seq(Steps)
         /\ v = Enter(v.n) \/ v = Middle(v.n) \/ v = Leave(v.n)
BY DEF Visits, NodePaths, OnPath, Enter, Middle, Leave

(* The items of a node are items.                                          *)
LEMMA NodeVisits ==
  ASSUME NEW n, IsNode(n)
  PROVE  /\ Enter(n) \in Visits /\ Middle(n) \in Visits /\ Leave(n) \in Visits
         /\ n \in Seq(Steps)
<1>1. n \in Seq(Steps)
      BY PlaceFacts DEF IsNode
<1>2. QED
      BY <1>1 DEF Visits, NodePaths

(* The three items of a node are not the same, nor are those of two.       *)
LEMMA VisitsDiffer ==
  /\ \A m, n : Enter(m) # Middle(n) /\ Enter(m) # Leave(n) /\ Middle(m) # Leave(n)
  /\ \A m, n : /\ Enter(m) = Enter(n) => m = n
               /\ Middle(m) = Middle(n) => m = n
               /\ Leave(m) = Leave(n) => m = n
<1>1. ASSUME NEW m
      PROVE  /\ Enter(m).do = "enter" /\ Middle(m).do = "middle" /\ Leave(m).do = "leave"
             /\ Enter(m).n = m /\ Middle(m).n = m /\ Leave(m).n = m
      BY DEF Enter, Middle, Leave
<1>2. ASSUME NEW m, NEW n
      PROVE  /\ Enter(m) # Middle(n) /\ Enter(m) # Leave(n) /\ Middle(m) # Leave(n)
             /\ Enter(m) = Enter(n) => m = n
             /\ Middle(m) = Middle(n) => m = n
             /\ Leave(m) = Leave(n) => m = n
      <2>1. "enter" # "middle" /\ "enter" # "leave" /\ "middle" # "leave"
            OBVIOUS
      <2>2. QED
            BY <1>1, <2>1
<1>3. QED
      BY <1>2

(* Of the items at or below a node it is left last.                        *)
LEMMA LeftLast ==
  ASSUME NEW v \in Visits, NEW m \in Seq(Steps), AtOrBelow(v.n, m)
  PROVE  v = Leave(m) \/ Past(v, Leave(m))
<1>1. OnPath(v) /\ v.n \in Seq(Steps) /\ (v = Enter(v.n) \/ v = Middle(v.n) \/ v = Leave(v.n))
      BY VisitFacts
<1>2. CASE v.n = m
      BY <1>1, <1>2, PastAtNode
<1>3. CASE v.n # m
      <2>1. IsWithin(v.n, m)
            BY <1>1, <1>3, BelowOrder
      <2>2. AtOrBelow(v.n, Left(m)) \/ AtOrBelow(v.n, Right(m))
            BY <1>1, <2>1, BelowChildren DEF Steps
      <2>3. QED
            BY <1>1, <2>2, PastAtNode
<1>4. QED
      BY <1>2, <1>3

(* And it is entered first.                                                *)
LEMMA EnteredFirst ==
  ASSUME NEW v \in Visits, NEW m \in Seq(Steps), AtOrBelow(v.n, m)
  PROVE  v = Enter(m) \/ Past(Enter(m), v)
<1>1. OnPath(v) /\ v.n \in Seq(Steps) /\ (v = Enter(v.n) \/ v = Middle(v.n) \/ v = Leave(v.n))
      BY VisitFacts
<1>2. CASE v.n = m
      BY <1>1, <1>2, PastAtNode
<1>3. CASE v.n # m
      <2>1. IsWithin(v.n, m)
            BY <1>1, <1>3, BelowOrder
      <2>2. AtOrBelow(v.n, Left(m)) \/ AtOrBelow(v.n, Right(m))
            BY <1>1, <2>1, BelowChildren DEF Steps
      <2>3. QED
            BY <1>1, <2>2, PastAtNode
<1>4. QED
      BY <1>2, <1>3

(* What is done next after h. Past(v, g) holds of h and of what is before  *)
(* it, of the items of nodes: there is no other between the two.           *)
Follows(h, g) ==
  \/ h.do = "middle" /\ g = Enter(Right(h.n))
  \/ h.do # "middle" /\ h.n # <<>> /\ h.n = Left(Parent(h.n)) /\ g = Middle(Parent(h.n))
  \/ h.do # "middle" /\ h.n # <<>> /\ h.n = Right(Parent(h.n)) /\ g = Leave(Parent(h.n))

Adjacent(h, g) == \A v \in Visits : Past(v, g) <=> Past(v, h) \/ v = h

(* An item that agrees with h on the way to its node, and with g until     *)
(* there.                                                                  *)
LEMMA PastCases ==
  ASSUME NEW v \in Visits, NEW g, NEW h, OnPath(g), OnPath(h), NEW m \in Seq(Steps),
         AtOrBelow(g.n, m), AtOrBelow(h.n, m), Past(v, g)
  PROVE  Past(v, h) \/ AtOrBelow(v.n, m)
<1>1. OnPath(v)
      BY VisitFacts
<1>2. PICK k \in 1..(Len(v.n) + 1) : /\ k <= Len(g.n) + 1
                                     /\ \A i \in 1..(k - 1) : Code(v, i) = Code(g, i)
                                     /\ Code(v, k) < Code(g, k)
      BY DEF Past
<1>3. Len(v.n) \in Nat /\ Len(g.n) \in Nat /\ Len(h.n) \in Nat /\ Len(m) \in Nat /\ k \in Nat
      BY <1>1, LenProperties DEF OnPath
<1>4. Len(m) <= Len(g.n) /\ Len(m) <= Len(h.n)
      BY DEF AtOrBelow
<1>5. \A i \in 1..Len(m) : Code(g, i) = Code(h, i)
      BY SameWay
<1>6. CASE k <= Len(m)
      <2>1. k \in 1..Len(m) /\ \A i \in 1..(k - 1) : i \in 1..Len(m)
            BY <1>3, <1>6
      <2>2. k <= Len(h.n) + 1
            BY <1>3, <1>4, <1>6
      <2>3. Code(v, k) < Code(h, k) /\ \A i \in 1..(k - 1) : Code(v, i) = Code(h, i)
            BY <1>2, <1>5, <2>1
      <2>4. QED
            BY <2>2, <2>3 DEF Past
<1>7. CASE ~(k <= Len(m))
      <2>1. PICK a, b : a = v.n /\ b = g.n
            OBVIOUS
      <2>2. Len(m) <= Len(a) /\ \A i \in 1..Len(m) : i \in 1..(k - 1) /\ i <= Len(a) /\ i <= Len(b)
            BY <1>3, <1>4, <1>7, <2>1
      <2>3. ASSUME NEW i \in 1..Len(m) PROVE a[i] = m[i]
            <3>1. i <= Len(a) /\ i <= Len(b) /\ Code(v, i) = Code(g, i)
                  BY <1>2, <2>2
            <3>2. (a[i] = "L") <=> (b[i] = "L")
                  BY <2>1, <3>1 DEF Code
            <3>3. i \in 1..Len(a) /\ i \in 1..Len(b)
                  BY <1>3, <2>1, <3>1
            <3>4. a[i] \in Steps /\ b[i] \in Steps
                  BY <1>1, <2>1, <3>3, ElementOfSeq DEF OnPath
            <3>5. a[i] = b[i]
                  BY <3>2, <3>4 DEF Steps
            <3>6. b[i] = m[i]
                  BY <2>1, BelowOrder DEF OnPath
            <3>7. QED
                  BY <3>5, <3>6
      <2>4. a \in Seq(Steps)
            BY <1>1, <2>1 DEF OnPath
      <2>5. AtOrBelow(a, m)
            BY <2>2, <2>3, <2>4, BelowOrder
      <2>6. QED
            BY <2>1, <2>5
<1>8. QED
      BY <1>6, <1>7

(* Where an item is that comes before one at m, of those at or below m.    *)
LEMMA BelowCases ==
  ASSUME NEW v \in Visits, NEW m \in Seq(Steps), AtOrBelow(v.n, m)
  PROVE  v = Enter(m) \/ v = Middle(m) \/ v = Leave(m)
         \/ AtOrBelow(v.n, Left(m)) \/ AtOrBelow(v.n, Right(m))
<1>1. v.n \in Seq(Steps) /\ (v = Enter(v.n) \/ v = Middle(v.n) \/ v = Leave(v.n))
      BY VisitFacts
<1>2. v.n = m \/ IsWithin(v.n, m)
      BY <1>1, BelowOrder
<1>3. IsWithin(v.n, m) => AtOrBelow(v.n, Left(m)) \/ AtOrBelow(v.n, Right(m))
      BY <1>1, BelowChildren DEF Steps
<1>4. QED
      BY <1>1, <1>2, <1>3

(* A node is followed by what is to the left of it, if it is one.          *)
LEMMA AfterEnter ==
  ASSUME NEW m \in Seq(Steps)
  PROVE  Adjacent(Enter(m), Enter(Left(m)))
<1>1. PICK h, g : h = Enter(m) /\ g = Enter(Left(m))
      OBVIOUS
<1>2. /\ OnPath(h) /\ OnPath(g) /\ h.n = m /\ g.n = Left(m) /\ Left(m) \in Seq(Steps)
      /\ AtOrBelow(g.n, m) /\ AtOrBelow(h.n, m) /\ AtOrBelow(g.n, Left(m))
      <2>1. Left(m) \in Seq(Steps)
            BY BelowChildren
      <2>2. AtOrBelow(m, m) /\ AtOrBelow(Left(m), Left(m))
            BY <2>1, BelowOrder
      <2>3. AtOrBelow(Left(m), m)
            BY <2>1, <2>2, BelowChildren, BelowOrder
      <2>4. OnPath(h) /\ OnPath(g) /\ h.n = m /\ g.n = Left(m)
            BY <1>1, <2>1, CodeAfter
      <2>5. QED
            BY <2>1, <2>2, <2>3, <2>4
<1>3. Past(h, g)
      BY <1>1, <1>2, PastAtNode
<1>4. ASSUME NEW v \in Visits, Past(v, g) PROVE Past(v, h) \/ v = h
      <2>1. OnPath(v)
            BY VisitFacts
      <2>2. CASE ~AtOrBelow(v.n, m)
            BY <1>2, <1>4, <2>2, PastCases
      <2>3. CASE v = Middle(m) \/ v = Leave(m)
            <3>1. Past(g, v)
                  BY <1>2, <2>3, PastAtNode
            <3>2. QED
                  BY <1>2, <1>4, <2>1, <3>1, PastAsymmetric
      <2>4. CASE AtOrBelow(v.n, Right(m))
            <3>1. Past(g, Middle(m)) /\ Past(Middle(m), v) /\ OnPath(Middle(m))
                  BY <1>2, <2>1, <2>4, PastAtNode, CodeAfter
            <3>2. Past(g, v)
                  BY <1>2, <2>1, <3>1, PastTransitive
            <3>3. QED
                  BY <1>2, <1>4, <2>1, <3>2, PastAsymmetric
      <2>5. CASE AtOrBelow(v.n, Left(m))
            <3>2. g = v \/ Past(g, v)
                  BY <1>1, <1>2, <2>5, EnteredFirst
            <3>3. QED
                  BY <1>2, <1>4, <2>1, <3>2, PastAsymmetric
      <2>6. QED
            BY <1>1, <1>2, <2>2, <2>3, <2>4, <2>5, BelowCases
<1>5. ASSUME NEW v \in Visits, Past(v, h) \/ v = h PROVE Past(v, g)
      BY <1>2, <1>3, <1>5, VisitFacts, PastTransitive
<1>6. QED
      BY <1>1, <1>4, <1>5 DEF Adjacent

(* And by itself, when what is to the left is done.                        *)
LEMMA AfterLeft ==
  ASSUME NEW m \in Seq(Steps), NEW h, OnPath(h), AtOrBelow(h.n, Left(m)),
         \A v \in Visits : AtOrBelow(v.n, Left(m)) => Past(v, h) \/ v = h
  PROVE  Adjacent(h, Middle(m))
<1>1. PICK g : g = Middle(m)
      OBVIOUS
<1>2. Left(m) \in Seq(Steps) /\ OnPath(g) /\ g.n = m /\ AtOrBelow(g.n, m)
      <2>1. Left(m) \in Seq(Steps) /\ AtOrBelow(m, m)
            BY BelowChildren, BelowOrder
      <2>2. QED
            BY <1>1, <2>1, CodeAfter
<1>3. AtOrBelow(h.n, m)
      BY BelowChild DEF OnPath
<1>4. Past(h, g)
      BY <1>1, PastAtNode
<1>5. ASSUME NEW v \in Visits, Past(v, g) PROVE Past(v, h) \/ v = h
      <2>1. OnPath(v)
            BY VisitFacts
      <2>2. CASE ~AtOrBelow(v.n, m)
            BY <1>2, <1>3, <1>5, <2>2, PastCases
      <2>3. CASE v = Middle(m) \/ v = Leave(m)
            BY <1>1, <1>2, <1>5, <2>1, <2>3, PastAtNode, PastAsymmetric
      <2>4. CASE v = Enter(m)
            BY <2>4, PastAtNode
      <2>5. CASE AtOrBelow(v.n, Right(m))
            BY <1>1, <1>2, <1>5, <2>1, <2>5, PastAtNode, PastAsymmetric
      <2>6. CASE AtOrBelow(v.n, Left(m))
            BY <2>6
      <2>7. QED
            BY <2>2, <2>3, <2>4, <2>5, <2>6, BelowCases
<1>6. ASSUME NEW v \in Visits, Past(v, h) \/ v = h PROVE Past(v, g)
      BY <1>2, <1>4, <1>6, VisitFacts, PastTransitive
<1>7. QED
      BY <1>1, <1>5, <1>6 DEF Adjacent

(* Then by what is to the right of it.                                     *)
LEMMA AfterMiddle ==
  ASSUME NEW m \in Seq(Steps)
  PROVE  Adjacent(Middle(m), Enter(Right(m)))
<1>1. PICK h, g : h = Middle(m) /\ g = Enter(Right(m))
      OBVIOUS
<1>2. /\ OnPath(h) /\ OnPath(g) /\ h.n = m /\ g.n = Right(m) /\ Right(m) \in Seq(Steps)
      /\ AtOrBelow(g.n, m) /\ AtOrBelow(h.n, m) /\ AtOrBelow(g.n, Right(m))
      <2>1. Right(m) \in Seq(Steps)
            BY BelowChildren
      <2>2. AtOrBelow(m, m) /\ AtOrBelow(Right(m), Right(m))
            BY <2>1, BelowOrder
      <2>3. AtOrBelow(Right(m), m)
            BY <2>1, <2>2, BelowChildren, BelowOrder
      <2>4. OnPath(h) /\ OnPath(g) /\ h.n = m /\ g.n = Right(m)
            BY <1>1, <2>1, CodeAfter
      <2>5. QED
            BY <2>1, <2>2, <2>3, <2>4
<1>3. Past(h, g)
      BY <1>1, <1>2, PastAtNode
<1>4. ASSUME NEW v \in Visits, Past(v, g) PROVE Past(v, h) \/ v = h
      <2>1. OnPath(v)
            BY VisitFacts
      <2>2. CASE ~AtOrBelow(v.n, m)
            BY <1>2, <1>4, <2>2, PastCases
      <2>3. CASE v = Leave(m)
            BY <1>2, <1>4, <2>1, <2>3, PastAtNode, PastAsymmetric
      <2>4. CASE v = Enter(m) \/ v = Middle(m) \/ AtOrBelow(v.n, Left(m))
            BY <1>1, <2>1, <2>4, PastAtNode
      <2>5. CASE AtOrBelow(v.n, Right(m))
            <3>1. g = v \/ Past(g, v)
                  BY <1>1, <1>2, <2>5, EnteredFirst
            <3>2. QED
                  BY <1>2, <1>4, <2>1, <3>1, PastAsymmetric
      <2>6. QED
            BY <2>2, <2>3, <2>4, <2>5, BelowCases
<1>5. ASSUME NEW v \in Visits, Past(v, h) \/ v = h PROVE Past(v, g)
      BY <1>2, <1>3, <1>5, VisitFacts, PastTransitive
<1>6. QED
      BY <1>1, <1>4, <1>5 DEF Adjacent

(* And it is left when that is done.                                       *)
LEMMA AfterRight ==
  ASSUME NEW m \in Seq(Steps), NEW h, OnPath(h), AtOrBelow(h.n, Right(m)),
         \A v \in Visits : AtOrBelow(v.n, Right(m)) => Past(v, h) \/ v = h
  PROVE  Adjacent(h, Leave(m))
<1>1. PICK g : g = Leave(m)
      OBVIOUS
<1>2. Right(m) \in Seq(Steps) /\ OnPath(g) /\ g.n = m /\ AtOrBelow(g.n, m)
      <2>1. Right(m) \in Seq(Steps) /\ AtOrBelow(m, m)
            BY BelowChildren, BelowOrder
      <2>2. QED
            BY <1>1, <2>1, CodeAfter
<1>3. AtOrBelow(h.n, m)
      BY BelowChild DEF OnPath
<1>4. Past(h, g)
      BY <1>1, PastAtNode
<1>5. ASSUME NEW v \in Visits, Past(v, g) PROVE Past(v, h) \/ v = h
      <2>1. OnPath(v)
            BY VisitFacts
      <2>2. CASE ~AtOrBelow(v.n, m)
            BY <1>2, <1>3, <1>5, <2>2, PastCases
      <2>3. CASE v = Leave(m)
            BY <1>1, <1>2, <1>5, <2>1, <2>3, PastAsymmetric
      <2>4. CASE v = Enter(m) \/ v = Middle(m)
            BY <2>4, PastAtNode
      <2>5. CASE AtOrBelow(v.n, Left(m))
            BY <2>1, <2>5, PastAtNode, PastTransitive, CodeAfter
      <2>6. CASE AtOrBelow(v.n, Right(m))
            BY <2>6
      <2>7. QED
            BY <2>2, <2>3, <2>4, <2>5, <2>6, BelowCases
<1>6. ASSUME NEW v \in Visits, Past(v, h) \/ v = h PROVE Past(v, g)
      BY <1>2, <1>4, <1>6, VisitFacts, PastTransitive
<1>7. QED
      BY <1>1, <1>5, <1>6 DEF Adjacent

-----------------------------------------------------------------------------
(* The walk follows the tree, so what is left of it follows from its head. *)

Linked(w) ==
  /\ IsSequence(w)
  /\ \A i \in 1..Len(w) : \E n \in Seq(Steps) : w[i] = Enter(n) \/ w[i] = Middle(n) \/ w[i] = Leave(n)
  /\ \A i \in 1..(Len(w) - 1) : Follows(w[i], w[i + 1])
  /\ Len(w) # 0 => w[Len(w)].n = <<>> /\ w[Len(w)].do # "middle"

(* The item after the head comes next, when nothing is put before it.      *)
LEMMA NextItem ==
  ASSUME NEW n \in Seq(Steps), NEW h, h = Enter(n) \/ h = Middle(n) \/ h = Leave(n),
         h = Enter(n) => ~IsNode(n), NEW g, Follows(h, g)
  PROVE  Adjacent(h, g)
<1>1. h.n = n /\ OnPath(h) /\ AtOrBelow(n, n)
      BY CodeAfter, BelowOrder
<1>2. CASE h.do = "middle" /\ g = Enter(Right(h.n))
      <2>1. h = Middle(n)
            BY <1>2 DEF Enter, Leave
      <2>2. QED
            BY <1>1, <1>2, <2>1, AfterMiddle
<1>3. CASE h.do # "middle" /\ h.n # <<>>
      <2>1. h = Enter(n) \/ h = Leave(n)
            BY <1>3 DEF Middle
      <2>2. ASSUME NEW v \in Visits, AtOrBelow(v.n, n) PROVE Past(v, h) \/ v = h
            <3>1. CASE h = Leave(n)
                  BY <2>2, <3>1, LeftLast
            <3>2. CASE h = Enter(n)
                  <4>1. IsNode(v.n) /\ v.n \in Seq(Steps) /\ ~IsNode(n)
                        BY <3>2, VisitFacts
                  <4>2. v.n # n
                        BY <4>1
                  <4>3. PICK k : k = Len(n) /\ SubSeq(v.n, 1, k) = n
                        BY <2>2 DEF AtOrBelow
                  <4>4. Len(n) \in Nat /\ Len(v.n) \in Nat /\ IsWithin(v.n, n)
                        BY <2>2, <4>1, <4>2, BelowOrder, LenProperties
                  <4>5. k \in 0..(Len(v.n) - 1)
                        BY <4>3, <4>4 DEF IsWithin
                  <4>6. IsNode(n)
                        BY <4>1, <4>3, <4>5, PartPlaces DEF IsNode
                  <4>7. QED
                        BY <4>1, <4>6
            <3>3. QED
                  BY <2>1, <3>1, <3>2
      <2>3. PICK p : p = Parent(n)
            OBVIOUS
      <2>4. p \in Seq(Steps)
            BY <1>1, <1>3, <2>3, ParentPath
      <2>5. CASE n = Left(p) /\ g = Middle(p)
            BY <1>1, <2>2, <2>4, <2>5, AfterLeft
      <2>6. CASE n = Right(p) /\ g = Leave(p)
            BY <1>1, <2>2, <2>4, <2>6, AfterRight
      <2>7. QED
            BY <1>1, <1>3, <2>3, <2>5, <2>6 DEF Follows
<1>4. QED
      BY <1>2, <1>3 DEF Follows

(* What is done grows by the head of the walk.                             *)
LEMMA DoneGrows ==
  ASSUME NEW w, NEW x, w # <<>>, x # <<>>, Adjacent(Head(w), Head(x))
  PROVE  Done(x) = Done(w) \cup ({Head(w)} \cap Visits)
BY DEF Done, Adjacent

(* A step of the walk.                                                     *)
LEMMA LinkedStep ==
  ASSUME IsNode(<<>>), Linked(walk), walk # <<>>, NEW new, IsNew(new), Then(new)
  PROVE  /\ Linked(walk')
         /\ Done(walk') = Done(walk) \cup ({Head(walk)} \cap Visits)
<1>1. IsSequence(new) /\ IsSequence(walk)
      BY NewItems DEF Linked
<1>2. PICK k, q \in Nat :
        /\ k = Len(new) /\ Len(walk) = q + 1 /\ Len(walk') = k + q /\ IsSequence(walk')
        /\ \A i \in 1..k : walk'[i] = new[i]
        /\ \A j \in 1..q : walk'[k + j] = walk[j + 1]
        /\ Head(walk) = walk[1]
      BY <1>1, Shifted
<1>3. PICK w, v, h : w = walk /\ v = walk' /\ h = Head(walk)
      OBVIOUS
<1>4. /\ Len(w) = q + 1 /\ Len(v) = k + q /\ IsSequence(v) /\ h = w[1]
      /\ \A i \in 1..k : v[i] = new[i]
      /\ \A j \in 1..q : v[k + j] = w[j + 1]
      /\ Linked(w) /\ h = Head(w) /\ Here = h.n
      BY <1>2, <1>3 DEF Here
<1>5. /\ (k = 0 \/ k = 4)
      /\ k = 4 => /\ h.do = "enter" /\ IsNode(h.n)
                  /\ new[1] = Enter(Left(h.n)) /\ new[2] = Middle(h.n)
                  /\ new[3] = Enter(Right(h.n)) /\ new[4] = Leave(h.n)
      /\ k = 0 => (h.do = "enter" => IsNull(h.n))
      BY <1>2, <1>3, <1>4, NewItems
<1>6. PICK n \in Seq(Steps) : h = Enter(n) \/ h = Middle(n) \/ h = Leave(n)
      <2>1. 1 \in 1..Len(w)
            BY <1>4
      <2>2. QED
            BY <1>4, <2>1 DEF Linked
<1>7. h.n = n /\ (h.do = "enter" => h = Enter(n))
      BY <1>6 DEF Enter, Middle, Leave
<1>8. \A i \in 1..q : Follows(w[i], w[i + 1])
      BY <1>4 DEF Linked
<1>9. w[q + 1].n = <<>> /\ w[q + 1].do # "middle"
      BY <1>4 DEF Linked
<1>10. \A x : IsSequence(x) /\ Len(x) # 0 => x # <<>> /\ Head(x) = x[1]
       <2>1. ASSUME NEW x, IsSequence(x), Len(x) # 0 PROVE x # <<>> /\ Head(x) = x[1]
             <3>1. PICK S : x \in Seq(S)
                   BY <2>1 DEF IsSequence
             <3>2. QED
                   BY <2>1, <3>1, EmptySeq
       <2>2. QED
             BY <2>1
<1>11. CASE k = 0
  <2>1. Len(v) = q /\ \A j \in 1..q : v[j] = w[j + 1]
        BY <1>4, <1>11
  <2>2. Linked(v)
        <3>1. \A i \in 1..Len(v) : \E m \in Seq(Steps) :
                v[i] = Enter(m) \/ v[i] = Middle(m) \/ v[i] = Leave(m)
              <4>1. \A i \in 1..q : i + 1 \in 1..Len(w)
                    BY <1>4
              <4>2. QED
                    BY <1>4, <2>1, <4>1 DEF Linked
        <3>2. \A i \in 1..(Len(v) - 1) : Follows(v[i], v[i + 1])
              <4>1. ASSUME NEW i \in 1..(q - 1) PROVE Follows(v[i], v[i + 1])
                    <5>1. i \in 1..q /\ i + 1 \in 1..q
                          OBVIOUS
                    <5>2. v[i] = w[i + 1] /\ v[i + 1] = w[(i + 1) + 1]
                          BY <2>1, <5>1
                    <5>3. QED
                          BY <1>8, <5>1, <5>2
              <4>2. QED
                    BY <2>1, <4>1
        <3>3. Len(v) # 0 => v[Len(v)].n = <<>> /\ v[Len(v)].do # "middle"
              <4>1. q # 0 => q \in 1..q
                    OBVIOUS
              <4>2. QED
                    BY <1>9, <2>1, <4>1
        <3>4. QED
              BY <1>4, <3>1, <3>2, <3>3 DEF Linked
  <2>3. h = Enter(n) => ~IsNode(n)
        <3>1. h = Enter(n) => h.do = "enter"
              BY DEF Enter
        <3>2. QED
              BY <1>5, <1>7, <1>11, <3>1 DEF IsNode
  <2>4. Done(v) = Done(w) \cup ({h} \cap Visits)
        <3>1. CASE q # 0
              <4>1. 1 \in 1..q
                    BY <3>1
              <4>2. Follows(h, w[2]) /\ v[1] = w[2]
                    BY <1>4, <1>8, <2>1, <4>1
              <4>3. Adjacent(h, v[1])
                    BY <1>6, <2>3, <4>2, NextItem
              <4>4. v # <<>> /\ Head(v) = v[1] /\ w # <<>>
                    BY <1>3, <1>4, <1>10, <2>1, <3>1
              <4>5. QED
                    BY <1>4, <4>3, <4>4, DoneGrows
        <3>2. CASE q = 0
              <4>1. v = <<>>
                    BY <1>4, <2>1, <3>2, EmptySeq DEF IsSequence
              <4>2. n = <<>> /\ h.do # "middle"
                    BY <1>4, <1>7, <1>9, <3>2
              <4>3. h = Leave(<<>>)
                    <5>1. h # Enter(n)
                          BY <2>3, <4>2
                    <5>2. h # Middle(n)
                          BY <4>2 DEF Middle
                    <5>3. QED
                          BY <1>6, <4>2, <5>1, <5>2
              <4>4. h \in Visits
                    BY <4>3, NodeVisits
              <4>5. \A x \in Visits : Past(x, h) \/ x = h
                    <5>1. ASSUME NEW x \in Visits PROVE Past(x, h) \/ x = h
                          <6>1. AtOrBelow(x.n, <<>>) /\ <<>> \in Seq(Steps)
                                BY <4>2, BelowOrder, VisitFacts
                          <6>2. QED
                                BY <4>3, <6>1, LeftLast
                    <5>2. QED
                          BY <5>1
              <4>6. w # <<>> /\ Head(w) = h
                    BY <1>3, <1>4
              <4>7. QED
                    BY <4>1, <4>4, <4>5, <4>6 DEF Done
        <3>3. QED
              BY <3>1, <3>2
  <2>5. QED
        BY <1>3, <2>2, <2>4
<1>12. CASE k = 4
  <2>1. /\ v[1] = Enter(Left(n)) /\ v[2] = Middle(n) /\ v[3] = Enter(Right(n)) /\ v[4] = Leave(n)
        /\ h = Enter(n) /\ Len(v) = q + 4 /\ \A j \in 1..q : v[4 + j] = w[j + 1]
        <3>1. 1 \in 1..4 /\ 2 \in 1..4 /\ 3 \in 1..4 /\ 4 \in 1..4
              OBVIOUS
        <3>2. QED
              BY <1>4, <1>5, <1>7, <1>12, <3>1
  <2>2. /\ Left(n) \in Seq(Steps) /\ Right(n) \in Seq(Steps) /\ Left(n) # <<>> /\ Right(n) # <<>>
        /\ Parent(Left(n)) = n /\ Parent(Right(n)) = n
        BY BelowChildren
  <2>3. Linked(v)
        <3>1. ASSUME NEW i \in 1..Len(v)
              PROVE  \E m \in Seq(Steps) : v[i] = Enter(m) \/ v[i] = Middle(m) \/ v[i] = Leave(m)
              <4>1. CASE i = 1 \/ i = 2 \/ i = 3 \/ i = 4
                    BY <2>1, <2>2, <4>1
              <4>2. CASE ~(i = 1 \/ i = 2 \/ i = 3 \/ i = 4)
                    <5>1. PICK j \in 1..q : i = 4 + j /\ j + 1 \in 1..Len(w)
                          <6>1. i - 4 \in 1..q /\ i = 4 + (i - 4) /\ (i - 4) + 1 \in 1..Len(w)
                                BY <1>4, <2>1, <4>2
                          <6>2. QED
                                BY <6>1
                    <5>2. v[i] = w[j + 1]
                          BY <2>1, <5>1
                    <5>3. QED
                          BY <1>4, <5>1, <5>2 DEF Linked
              <4>3. QED
                    BY <4>1, <4>2
        <3>2. ASSUME NEW i \in 1..(Len(v) - 1) PROVE Follows(v[i], v[i + 1])
              <4>1. CASE i = 1
                    <5>1. v[i].do # "middle" /\ v[i].n = Left(n) /\ v[i + 1] = Middle(n)
                          BY <2>1, <4>1 DEF Enter
                    <5>2. QED
                          BY <2>2, <5>1 DEF Follows
              <4>2. CASE i = 2
                    <5>1. v[i].do = "middle" /\ v[i].n = n /\ v[i + 1] = Enter(Right(n))
                          BY <2>1, <4>2 DEF Middle
                    <5>2. QED
                          BY <5>1 DEF Follows
              <4>3. CASE i = 3
                    <5>1. v[i].do # "middle" /\ v[i].n = Right(n) /\ v[i + 1] = Leave(n)
                          BY <2>1, <4>3 DEF Enter
                    <5>2. QED
                          BY <2>2, <5>1 DEF Follows
              <4>4. CASE i = 4
                    <5>1. 1 \in 1..q
                          BY <2>1, <4>4
                    <5>2. v[i + 1] = w[2] /\ Follows(h, w[2])
                          BY <1>4, <1>8, <2>1, <4>4, <5>1
                    <5>3. h.do # "middle" /\ h.n = n /\ v[i].do # "middle" /\ v[i].n = n
                          BY <2>1, <4>4 DEF Enter, Leave
                    <5>4. QED
                          BY <5>2, <5>3 DEF Follows
              <4>5. CASE ~(i = 1 \/ i = 2 \/ i = 3 \/ i = 4)
                    <5>1. PICK j \in 1..q : i = 4 + j /\ j + 1 \in 1..q /\ i + 1 = 4 + (j + 1)
                          <6>1. /\ i - 4 \in 1..q /\ i = 4 + (i - 4) /\ (i - 4) + 1 \in 1..q
                                /\ i + 1 = 4 + ((i - 4) + 1)
                                BY <2>1, <4>5
                          <6>2. QED
                                BY <6>1
                    <5>2. v[i] = w[j + 1] /\ v[i + 1] = w[(j + 1) + 1]
                          BY <2>1, <5>1
                    <5>3. QED
                          BY <1>8, <5>1, <5>2
              <4>6. QED
                    BY <4>1, <4>2, <4>3, <4>4, <4>5
        <3>3. v[Len(v)].n = <<>> /\ v[Len(v)].do # "middle"
              <4>1. CASE q = 0
                    <5>1. Len(v) = 4 /\ q + 1 = 1
                          BY <2>1, <4>1
                    <5>2. v[Len(v)] = Leave(n) /\ h.n = <<>>
                          BY <1>4, <1>9, <2>1, <5>1
                    <5>3. QED
                          BY <1>7, <5>2 DEF Leave
              <4>2. CASE q # 0
                    <5>1. q \in 1..q /\ Len(v) = 4 + q
                          BY <2>1, <4>2
                    <5>2. v[Len(v)] = w[q + 1]
                          BY <2>1, <5>1
                    <5>3. QED
                          BY <1>9, <5>2
              <4>3. QED
                    BY <4>1, <4>2
        <3>4. QED
              BY <1>4, <3>1, <3>2, <3>3 DEF Linked
  <2>4. Done(v) = Done(w) \cup ({h} \cap Visits)
        <3>1. v # <<>> /\ Head(v) = v[1] /\ w # <<>>
              <4>1. Len(v) # 0
                    BY <2>1
              <4>2. QED
                    BY <1>3, <1>4, <1>10, <4>1
        <3>2. Adjacent(h, v[1])
              BY <2>1, AfterEnter
        <3>3. QED
              BY <1>4, <3>1, <3>2, DoneGrows
  <2>5. QED
        BY <1>3, <2>3, <2>4
<1>13. QED
       BY <1>5, <1>11, <1>12
-----------------------------------------------------------------------------
(* Nodes and what is above them.                                           *)

(* What is strictly below m is at or below m with its parent.              *)
LEMMA WithinParent ==
  ASSUME NEW n \in Seq(Steps), NEW m \in Seq(Steps)
  PROVE  /\ IsWithin(n, m) => n # <<>> /\ Parent(n) \in Seq(Steps) /\ AtOrBelow(Parent(n), m)
         /\ n # <<>> => Parent(n) \in Seq(Steps) /\ IsWithin(n, Parent(n))
                        /\ (n = Left(Parent(n)) \/ n = Right(Parent(n)))
<1>1. ASSUME n # <<>>
      PROVE  /\ Parent(n) \in Seq(Steps) /\ IsWithin(n, Parent(n))
             /\ (n = Left(Parent(n)) \/ n = Right(Parent(n)))
             /\ AtOrBelow(n, m) /\ n # m => AtOrBelow(Parent(n), m)
      <2>1. PICK p, d : p = Parent(n) /\ d = n[Len(n)]
            OBVIOUS
      <2>2. p \in Seq(Steps) /\ n = Append(p, d) /\ d \in Steps /\ Len(p) = Len(n) - 1 /\ Len(n) \in Nat
            BY <1>1, <2>1, ParentPath
      <2>3. n = Left(p) \/ n = Right(p)
            BY <2>2 DEF Left, Right, Steps
      <2>4. AtOrBelow(n, n)
            BY BelowOrder
      <2>5. IsWithin(n, p)
            <3>1. AtOrBelow(n, Left(p)) \/ AtOrBelow(n, Right(p))
                  BY <2>3, <2>4
            <3>2. n \in Seq(Steps) /\ p \in Seq(Steps)
                  BY <1>1, <2>2
            <3>3. QED
                  BY <3>1, <3>2, BelowChildren
      <2>6. ASSUME AtOrBelow(n, m), n # m PROVE AtOrBelow(p, m)
            <3>1. AtOrBelow(n, p)
                  BY <2>2, <2>5, BelowOrder
            <3>2. AtOrBelow(p, m) \/ AtOrBelow(m, p)
                  BY <2>2, <2>6, <3>1, AboveOne
            <3>3. CASE AtOrBelow(m, p) /\ ~AtOrBelow(p, m)
                  <4>1. Len(p) <= Len(m) /\ Len(m) <= Len(n) /\ Len(m) \in Nat
                        BY <2>6, <3>3, LenProperties DEF AtOrBelow
                  <4>2. IsWithin(n, m)
                        BY <2>6, BelowOrder
                  <4>3. Len(m) < Len(n)
                        BY <4>2 DEF IsWithin
                  <4>4. Len(m) = Len(p)
                        BY <2>2, <4>1, <4>3
                  <4>5. m = p
                        <5>1. SubSeq(m, 1, Len(m)) = p
                              BY <3>3, <4>4 DEF AtOrBelow
                        <5>2. QED
                              BY <5>1, SubSeqFull
                  <4>6. QED
                        BY <4>5, <2>2, BelowOrder
            <3>4. QED
                  BY <3>2, <3>3
      <2>7. QED
            BY <2>1, <2>2, <2>3, <2>5, <2>6
<1>2. IsWithin(n, m) => n # <<>> /\ AtOrBelow(n, m) /\ n # m
      <2>1. IsWithin(n, m) => AtOrBelow(n, m) /\ n # m
            BY BelowOrder
      <2>2. ASSUME IsWithin(n, m), n = <<>> PROVE FALSE
            <3>1. Len(m) < 0 /\ Len(m) \in Nat
                  BY <2>2, LenProperties DEF IsWithin
            <3>2. QED
                  BY <3>1
      <2>3. QED
            BY <2>1, <2>2
<1>3. QED
      BY <1>1, <1>2

(* What is above a place is a node.                                        *)
LEMMA NodeAbove ==
  ASSUME NEW n, IsPlace(n), NEW m \in Seq(Steps), IsWithin(n, m)
  PROVE  IsNode(m)
<1>1. n \in Seq(Steps) /\ Len(n) \in Nat /\ Len(m) \in Nat
      BY PlaceFacts, LenProperties
<1>2. Len(m) \in 0..(Len(n) - 1) /\ SubSeq(n, 1, Len(m)) = m
      BY <1>1 DEF IsWithin, Prefix
<1>3. QED
      BY <1>2, PartPlaces

(* A node is below what some node above it is.                             *)
LEMMA AboveNode ==
  ASSUME NEW n, IsPlace(n), NEW s, Below(n, s)
  PROVE  \E m \in Seq(Steps) : IsNode(m) /\ IsWithin(n, m) /\ At[m].subtype = s
<1>1. PICK k \in 0..(Len(n) - 1) : NodeAt(tree, SubSeq(n, 1, k)).subtype = s
      BY DEF Below, is_below_subtype
<1>2. PICK m : m = SubSeq(n, 1, k)
      OBVIOUS
<1>3. n \in Seq(Steps) /\ Len(n) \in Nat
      BY PlaceFacts
<1>4. k \in 0..Len(n) /\ k \in Nat /\ k < Len(n)
      BY <1>3
<1>5. m \in Seq(Steps) /\ Len(m) = k
      BY <1>2, <1>3, <1>4, PartPath
<1>6. IsWithin(n, m)
      BY <1>2, <1>4, <1>5 DEF IsWithin, Prefix
<1>7. IsNode(m) /\ At[m] = NodeAt(tree, m)
      BY <1>5, <1>6, NodeAbove, PlaceFacts DEF IsNode
<1>8. QED
      BY <1>1, <1>2, <1>5, <1>6, <1>7

(* A node is below what a node above it is.                                *)
LEMMA BelowNode ==
  ASSUME NEW n \in Seq(Steps), NEW m, IsNode(m), IsWithin(n, m)
  PROVE  Below(n, At[m].subtype)
<1>1. m \in Seq(Steps) /\ At[m] = NodeAt(tree, m)
      BY PlaceFacts DEF IsNode
<1>2. Len(n) \in Nat /\ Len(m) \in Nat
      BY <1>1, LenProperties
<1>3. Len(m) \in 0..(Len(n) - 1) /\ SubSeq(n, 1, Len(m)) = m
      BY <1>2 DEF IsWithin, Prefix
<1>4. QED
      BY <1>1, <1>3 DEF Below, is_below_subtype

(* And so is what is at or below it.                                       *)
LEMMA StillBelow ==
  ASSUME NEW n \in Seq(Steps), NEW m, IsPlace(m), AtOrBelow(n, m), NEW s, Below(m, s)
  PROVE  Below(n, s)
<1>1. PICK l \in Seq(Steps) : IsNode(l) /\ IsWithin(m, l) /\ At[l].subtype = s
      BY AboveNode
<1>2. m \in Seq(Steps)
      BY PlaceFacts
<1>3. AtOrBelow(m, l) /\ m # l
      BY <1>1, <1>2, BelowOrder
<1>4. AtOrBelow(n, l)
      BY <1>2, <1>3, BelowOrder
<1>5. n # l
      BY <1>2, <1>3, BelowOrder
<1>6. IsWithin(n, l)
      BY <1>4, <1>5, BelowOrder
<1>7. QED
      BY <1>1, <1>6, BelowNode

(* The innermost node around n with one of the subtypes.                   *)
LEMMA NearestFacts ==
  ASSUME NEW n \in Seq(Steps), n # <<>>, NEW S
  PROVE  /\ Nearest(n, S) \in Seq(Steps) /\ IsWithin(n, Nearest(n, S))
         /\ Nearest(n, S) = <<>> \/ At[Nearest(n, S)].subtype \in S
         /\ \A l \in Seq(Steps) : IsWithin(n, l) /\ At[l].subtype \in S => AtOrBelow(Nearest(n, S), l)
<1>1. PICK a : a = Len(n)
      OBVIOUS
<1>2. a \in Nat /\ a # 0
      BY <1>1, EmptySeq, LenProperties
<1>3. PICK depths : depths = {k \in 0..(a - 1) : k = 0 \/ At[Prefix(n, k)].subtype \in S}
      OBVIOUS
<1>4. \E k \in depths : \A j \in depths : j <= k
      <2>1. depths \subseteq 0..a /\ 0 \in depths
            BY <1>2, <1>3
      <2>2. QED
            BY <1>2, <2>1, GreatestOf
<1>5. PICK k : k = CHOOSE i \in depths : \A j \in depths : j <= i
      OBVIOUS
<1>6. k \in depths /\ \A j \in depths : j <= k
      BY <1>4, <1>5
<1>7. PICK m : m = SubSeq(n, 1, k)
      OBVIOUS
<1>8. Nearest(n, S) = m
      BY <1>1, <1>3, <1>5, <1>7 DEF Nearest, Prefix
<1>9. k \in 0..(a - 1) /\ k \in 0..Len(n) /\ k \in Nat
      BY <1>1, <1>2, <1>3, <1>6
<1>10. m \in Seq(Steps) /\ Len(m) = k
       BY <1>7, <1>9, PartPath
<1>11. IsWithin(n, m)
       BY <1>1, <1>2, <1>7, <1>9, <1>10 DEF IsWithin, Prefix
<1>12. m = <<>> \/ At[m].subtype \in S
       <2>1. k = 0 => m = <<>>
             BY <1>10, EmptySeq
       <2>2. QED
             BY <1>3, <1>6, <1>7, <2>1 DEF Prefix
<1>13. ASSUME NEW l \in Seq(Steps), IsWithin(n, l), At[l].subtype \in S PROVE AtOrBelow(m, l)
       <2>1. PICK j : j = Len(l)
             OBVIOUS
       <2>2. j \in Nat /\ j < a /\ SubSeq(n, 1, j) = l
             BY <1>1, <1>13, <2>1, LenProperties DEF IsWithin, Prefix
       <2>3. j \in depths
             <3>1. j \in 0..(a - 1) /\ Prefix(n, j) = l
                   BY <1>2, <2>2 DEF Prefix
             <3>2. At[Prefix(n, j)].subtype \in S
                   BY <1>13, <3>1
             <3>3. QED
                   BY <1>3, <3>1, <3>2
       <2>4. j <= k
             BY <1>6, <2>3
       <2>5. AtOrBelow(n, m) /\ AtOrBelow(n, l)
             BY <1>10, <1>11, <1>13, BelowOrder
       <2>6. AtOrBelow(m, l) \/ AtOrBelow(l, m)
             BY <1>10, <2>5, AboveOne
       <2>7. CASE AtOrBelow(l, m)
             <3>1. k <= j
                   BY <1>10, <2>1, <2>7 DEF AtOrBelow
             <3>2. j = k
                   BY <1>9, <2>2, <2>4, <3>1
             <3>3. l = m
                   BY <1>7, <2>2, <3>2
             <3>4. QED
                   BY <1>10, <3>3, BelowOrder
       <2>8. QED
             BY <2>6, <2>7
<1>14. QED
       BY <1>8, <1>10, <1>11, <1>12, <1>13
-----------------------------------------------------------------------------
(* Functions, blocks and identifiers of a tidy program.                    *)

Declarators == {h \in NodePaths : At[h].subtype = "FUNCTION_DECL"}
Names       == {Left(h) : h \in Declarators}
Blocks      == {b \in NodePaths : IsInnerBlock(b)}
Functions   == {Region[h] : h \in Declarators}
Definitions == {Region[h] : h \in {g \in Declarators : Below(g, "FUNCTION_SPEC")}}
Keys        == Functions \cup Blocks
Identifiers == {n \in NodePaths : At[n].type = "IDENTIFIER"}

(* The declarator of a function's part of the program.                     *)
Header(s) == CHOOSE h \in Declarators : Region[h] = s

(* The items at which the table of a function or a block is entered and    *)
(* left.                                                                   *)
Opener(s) == IF s \in Blocks THEN Enter(s) ELSE Middle(Header(s))
Closer(s) == IF s \in Definitions THEN Leave(Right(s)) ELSE Leave(s)

ScopeOf(d) ==
  IF IsParameter(d) THEN Region[Nearest(d, {"FUNCTION_DECL"})]
  ELSE IF Below(d, "FUNCTION_SPEC") THEN <<>>
  ELSE BlockScope[Nearest(d, {"LIST_BLOCK"})]

(* What the hypothesis says of a node.                                     *)
LEMMA TidyNode ==
  ASSUME Tidy(tree), NEW n, IsNode(n)
  PROVE  /\ n \in Seq(Steps)
         /\ At[n].type = "IDENTIFIER" =>
              /\ At[n].subtype = "NONE" /\ IsNull(Left(n)) /\ IsNull(Right(n))
              /\ Below(n, "FUNCTION_SPEC") => Below(n, "FUNCTION_DECL")
              /\ Below(n, "FUNCTION_DECL") =>
                   \/ n = Left(Parent(n)) /\ At[Parent(n)].subtype = "FUNCTION_DECL"
                   \/ IsParameter(n)
         /\ At[n].subtype = "FUNCTION_DECL" =>
              IsDeclared(n) /\ ~Below(n, "FUNCTION_DECL") /\ ~Below(n, "LIST_BLOCK")
         /\ At[n].subtype = "PARAM_DECL" => Below(n, "FUNCTION_DECL")
         /\ At[n].subtype = "FUNCTION_SPEC" =>
              n # <<>> /\ n = Left(Parent(n)) /\ At[Parent(n)].subtype = "FUNCTION_DEF"
         /\ At[n].subtype = "FUNCTION_DEF" =>
              /\ ~Below(n, "FUNCTION_DEF") /\ ~Below(n, "DECL") /\ ~Below(n, "FUNCTION_SPEC")
              /\ ~Below(n, "FUNCTION_DECL") /\ ~Below(n, "LIST_BLOCK")
              /\ At[Left(n)].subtype = "FUNCTION_SPEC" /\ At[Right(n)].subtype = "LIST_BLOCK"
         /\ At[n].subtype = "LIST_BLOCK" =>
              Below(n, "FUNCTION_DEF") /\ ~Below(n, "FUNCTION_SPEC") /\ ~Below(n, "DECL")
<1>1. n \in Seq(Steps) /\ n \in Paths /\ ~Missing(tree, n) /\ IsPath(tree, n) /\ n \in Seq({"L", "R"})
      BY PlaceFacts DEF IsNode, IsPlace, IsPath
<1>2. TidyAt(tree, n)
      BY <1>1 DEF Tidy
<1>3. Left(n) \in Paths /\ Right(n) \in Paths
      BY <1>1, BelowChildren DEF Paths, Steps
<1>4. n # <<>> => Parent(n) \in Paths
      BY <1>1, WithinParent DEF Paths, Steps
<1>5. /\ At[n] = NodeAt(tree, n) /\ At[Left(n)] = NodeAt(tree, Left(n))
      /\ At[Right(n)] = NodeAt(tree, Right(n))
      /\ n # <<>> => At[Parent(n)] = NodeAt(tree, Parent(n))
      BY <1>1, <1>3, <1>4 DEF At
<1>6. n = Left(Parent(n)) => n # <<>>
      <2>1. Parent(<<>>) = <<>>
            BY SubSeqEmpty DEF Parent
      <2>2. <<>> \in Seq(Steps)
            BY EmptySeq
      <2>3. Left(<<>>) # <<>>
            BY <2>2, BelowChildren
      <2>4. QED
            BY <2>1, <2>3
<1>7. At[n].type = "IDENTIFIER" =>
              /\ At[n].subtype = "NONE" /\ IsNull(Left(n)) /\ IsNull(Right(n))
              /\ Below(n, "FUNCTION_SPEC") => Below(n, "FUNCTION_DECL")
              /\ Below(n, "FUNCTION_DECL") =>
                   \/ n = Left(Parent(n)) /\ At[Parent(n)].subtype = "FUNCTION_DECL"
                   \/ IsParameter(n)
      BY <1>2, <1>5, <1>6 DEF TidyAt, IsIdentifier, Subtype, Under, Below, Missing, IsNull, IsParameter
<1>8. At[n].subtype = "FUNCTION_DECL" =>
              IsDeclared(n) /\ ~Below(n, "FUNCTION_DECL") /\ ~Below(n, "LIST_BLOCK")
      BY <1>2, <1>5 DEF TidyAt, Subtype, Under, Below, IsDeclared
<1>9. At[n].subtype = "PARAM_DECL" => Below(n, "FUNCTION_DECL")
      BY <1>2, <1>5 DEF TidyAt, Subtype, Under, Below
<1>10. At[n].subtype = "FUNCTION_SPEC" =>
              n # <<>> /\ n = Left(Parent(n)) /\ At[Parent(n)].subtype = "FUNCTION_DEF"
      BY <1>2, <1>5 DEF TidyAt, Subtype, Under, Below
<1>11. At[n].subtype = "FUNCTION_DEF" =>
              /\ ~Below(n, "FUNCTION_DEF") /\ ~Below(n, "DECL") /\ ~Below(n, "FUNCTION_SPEC")
              /\ ~Below(n, "FUNCTION_DECL") /\ ~Below(n, "LIST_BLOCK")
              /\ At[Left(n)].subtype = "FUNCTION_SPEC" /\ At[Right(n)].subtype = "LIST_BLOCK"
      BY <1>2, <1>5 DEF TidyAt, Subtype, Under, Below
<1>12. At[n].subtype = "LIST_BLOCK" =>
              Below(n, "FUNCTION_DEF") /\ ~Below(n, "FUNCTION_SPEC") /\ ~Below(n, "DECL")
      BY <1>2, <1>5 DEF TidyAt, Subtype, Under, Below
<1>13. QED
      BY <1>1, <1>7, <1>8, <1>9, <1>10, <1>11, <1>12

(* A definition has one declarator left of its body.                       *)
LEMMA TidySpec ==
  ASSUME Tidy(tree), NEW m, IsNode(m), At[m].subtype = "FUNCTION_SPEC"
  PROVE  \E h \in Declarators : \A g \in Declarators : AtOrBelow(g, m) <=> g = h
<1>1. PICK nodes : nodes = {n \in Seq({"L", "R"}) : IsPath(tree, n) /\ ~Missing(tree, n)}
      OBVIOUS
<1>2. \A n : n \in nodes <=> n \in NodePaths
      BY <1>1, PlaceFacts DEF NodePaths, IsNode, IsPlace, Steps
<1>3. \A n \in nodes : At[n] = NodeAt(tree, n)
      BY <1>1 DEF At, Paths
<1>4. OneDeclarator(tree, nodes)
      BY <1>1 DEF Tidy
<1>5. m \in nodes
      BY <1>2, PlaceFacts DEF NodePaths, IsNode
<1>6. PICK h \in nodes : \A g \in nodes : Subtype(tree, g) = "FUNCTION_DECL" /\ AtOrBelow(g, m) <=> g = h
      BY <1>3, <1>4, <1>5 DEF OneDeclarator, Subtype
<1>7. h \in Declarators
      BY <1>2, <1>3, <1>6 DEF Declarators, Subtype
<1>8. QED
      BY <1>2, <1>3, <1>6, <1>7 DEF Declarators, Subtype
-----------------------------------------------------------------------------
(* The root is a node, of a subtype of its own.                            *)
LEMMA TidyRoot ==
  ASSUME Tidy(tree)
  PROVE  /\ IsNode(<<>>) /\ At[<<>>].subtype = "FILESCOPE" /\ <<>> \in Seq(Steps)
         /\ Declarable(tree)
<1>1. Declarable(tree)
      BY DEF Tidy
<1>2. tree.subtype = "FILESCOPE"
      BY <1>1 DEF Declarable
<1>3. At[<<>>] = tree
      BY NodeAtFacts, RootPlace, PlaceFacts
<1>4. IsPlace(<<>>)
      BY RootPlace
<1>5. <<>> \in Seq(Steps)
      BY EmptySeq
<1>6. tree # NULL
      BY <1>2 DEF NULL
<1>7. QED
      BY <1>1, <1>2, <1>3, <1>4, <1>5, <1>6 DEF IsNode, IsNull

(* A declarator is in no other, and has its name on its left.              *)
LEMMA DeclaratorFacts ==
  ASSUME Tidy(tree), NEW h \in Declarators
  PROVE  /\ IsNode(h) /\ h \in Seq(Steps) /\ h \in Paths /\ h # <<>>
         /\ At[h].subtype = "FUNCTION_DECL" /\ At[h].type = "LIST"
         /\ Left(h) \in Identifiers /\ Left(h) \in Names /\ Left(h) \in Seq(Steps)
         /\ IsDeclared(h) /\ ~Below(h, "LIST_BLOCK") /\ ~Below(h, "FUNCTION_DECL")
         /\ \A g \in Declarators : AtOrBelow(g, h) => g = h
<1>1. IsNode(h) /\ h \in Seq(Steps) /\ At[h].subtype = "FUNCTION_DECL"
      BY DEF Declarators, NodePaths
<1>2. h \in Paths
      BY <1>1 DEF Paths, Steps
<1>3. h # <<>>
      BY <1>1, TidyRoot
<1>4. At[h].type = "LIST" /\ At[Left(h)].type = "IDENTIFIER" /\ IsNode(Left(h))
      BY <1>1, TidyRoot, DeclaredNode
<1>5. Left(h) \in Seq(Steps)
      BY <1>1, BelowChildren
<1>6. Left(h) \in Identifiers /\ Left(h) \in Names
      BY <1>4, <1>5 DEF Identifiers, NodePaths, Names
<1>7. IsDeclared(h) /\ ~Below(h, "LIST_BLOCK") /\ ~Below(h, "FUNCTION_DECL")
      BY <1>1, TidyNode
<1>8. ASSUME NEW g \in Declarators, AtOrBelow(g, h) PROVE g = h
      <2>1. IsNode(g) /\ g \in Seq(Steps) /\ At[g].subtype = "FUNCTION_DECL"
            BY DEF Declarators, NodePaths
      <2>2. ~Below(g, "FUNCTION_DECL")
            BY <2>1, TidyNode
      <2>3. IsWithin(g, h) \/ g = h
            BY <1>1, <1>8, <2>1, BelowOrder
      <2>4. IsWithin(g, h) => Below(g, "FUNCTION_DECL")
            BY <1>1, <2>1, BelowNode
      <2>5. QED
            BY <2>2, <2>3, <2>4
<1>9. QED
      BY <1>1, <1>2, <1>3, <1>4, <1>5, <1>6, <1>7, <1>8

(* What is below the head of a definition is in one, which is the nearest. *)
LEMMA SpecFacts ==
  ASSUME Tidy(tree), NEW n, IsPlace(n), Below(n, "FUNCTION_SPEC")
  PROVE  \E D \in NodePaths :
           /\ At[D].subtype = "FUNCTION_DEF" /\ Nearest(n, {"FUNCTION_DEF"}) = D
           /\ IsWithin(n, Left(D))
<1>1. PICK m \in Seq(Steps) : IsNode(m) /\ IsWithin(n, m) /\ At[m].subtype = "FUNCTION_SPEC"
      BY AboveNode
<1>2. m # <<>> /\ m = Left(Parent(m)) /\ At[Parent(m)].subtype = "FUNCTION_DEF"
      BY <1>1, TidyNode
<1>3. PICK D : D = Parent(m)
      OBVIOUS
<1>4. D \in Seq(Steps) /\ IsWithin(m, D)
      BY <1>1, <1>2, <1>3, WithinParent
<1>5. IsNode(D)
      BY <1>1, <1>4, NodeAbove DEF IsNode
<1>6. n \in Seq(Steps)
      BY PlaceFacts
<1>7. IsWithin(n, D)
      <2>1. AtOrBelow(n, m) /\ AtOrBelow(m, D) /\ n # m
            BY <1>1, <1>4, <1>6, BelowOrder
      <2>2. AtOrBelow(n, D)
            BY <1>1, <1>4, <1>6, <2>1, BelowOrder
      <2>3. n # D
            BY <1>1, <1>6, <2>1, BelowOrder
      <2>4. QED
            BY <1>4, <1>6, <2>2, <2>3, BelowOrder
<1>8. n # <<>>
      BY <1>4, <1>6, <1>7, WithinParent
<1>9. PICK N : N = Nearest(n, {"FUNCTION_DEF"})
      OBVIOUS
<1>10. /\ N \in Seq(Steps) /\ IsWithin(n, N)
       /\ N = <<>> \/ At[N].subtype = "FUNCTION_DEF"
       /\ AtOrBelow(N, D)
       BY <1>2, <1>3, <1>4, <1>6, <1>7, <1>8, <1>9, NearestFacts
<1>11. N # <<>>
       <2>1. AtOrBelow(<<>>, D) => D = <<>>
             BY <1>4, TidyRoot, BelowOrder
       <2>2. D # <<>>
             BY <1>2, <1>3, TidyRoot
       <2>3. QED
             BY <1>10, <2>1, <2>2
<1>12. IsNode(N)
       BY <1>10, NodeAbove
<1>13. N = D
       <2>1. IsWithin(N, D) => Below(N, At[D].subtype)
             BY <1>5, <1>10, BelowNode
       <2>2. ~Below(N, "FUNCTION_DEF")
             BY <1>10, <1>11, <1>12, TidyNode
       <2>3. QED
             BY <1>2, <1>3, <1>4, <1>10, <2>1, <2>2, BelowOrder
<1>14. QED
       BY <1>1, <1>2, <1>3, <1>4, <1>5, <1>9, <1>13 DEF NodePaths

(* The parts of the program that declarators stand for.                    *)
LEMMA RegionFacts ==
  ASSUME Tidy(tree), NEW h \in Declarators
  PROVE  /\ ~Below(h, "FUNCTION_SPEC") => Region[h] = h
         /\ Below(h, "FUNCTION_SPEC") =>
              \E D \in NodePaths : /\ At[D].subtype = "FUNCTION_DEF" /\ Region[h] = D
                                   /\ AtOrBelow(h, Left(D))
<1>1. IsNode(h) /\ h \in Paths /\ h \in Seq(Steps)
      BY DeclaratorFacts
<1>2. ~Below(h, "FUNCTION_SPEC") => Region[h] = h
      BY <1>1 DEF Region
<1>3. Below(h, "FUNCTION_SPEC") => Region[h] = Nearest(h, {"FUNCTION_DEF"})
      BY <1>1 DEF Region
<1>4. \A D \in NodePaths : IsWithin(h, Left(D)) => AtOrBelow(h, Left(D))
      <2>1. \A D \in NodePaths : Left(D) \in Seq(Steps)
            BY BelowChildren DEF NodePaths
      <2>2. QED
            BY <1>1, <2>1, BelowOrder
<1>5. QED
      BY <1>1, <1>2, <1>3, <1>4, SpecFacts DEF IsNode

(* A node that defines a function is the part of its one declarator.       *)
LEMMA DefinitionNode ==
  ASSUME Tidy(tree), NEW D \in NodePaths, At[D].subtype = "FUNCTION_DEF"
  PROVE  /\ IsNode(Left(D)) /\ IsNode(Right(D)) /\ D # <<>>
         /\ At[Left(D)].subtype = "FUNCTION_SPEC" /\ At[Right(D)].subtype = "LIST_BLOCK"
         /\ D \in Definitions
         /\ \E h \in Declarators : /\ AtOrBelow(h, Left(D)) /\ Below(h, "FUNCTION_SPEC") /\ Region[h] = D
                                   /\ \A g \in Declarators : AtOrBelow(g, D) => g = h
<1>1. IsNode(D) /\ D \in Seq(Steps)
      BY DEF NodePaths
<1>2. At[Left(D)].subtype = "FUNCTION_SPEC" /\ At[Right(D)].subtype = "LIST_BLOCK"
      BY <1>1, TidyNode
<1>3. IsNode(Left(D)) /\ IsNode(Right(D))
      BY <1>1, <1>2, ChildPlaces DEF IsNode, IsNull, NULL
<1>4. D # <<>>
      BY TidyRoot
<1>5. PICK h \in Declarators : \A g \in Declarators : AtOrBelow(g, Left(D)) <=> g = h
      BY <1>2, <1>3, TidySpec
<1>6. AtOrBelow(h, Left(D)) /\ h \in Seq(Steps) /\ IsNode(h) /\ At[h].subtype = "FUNCTION_DECL"
      BY <1>5, DeclaratorFacts
<1>7. Left(D) \in Seq(Steps) /\ Right(D) \in Seq(Steps)
      BY <1>1, BelowChildren
<1>8. Below(h, "FUNCTION_SPEC")
      <2>1. IsWithin(h, Left(D))
            BY <1>2, <1>6, <1>7, BelowOrder
      <2>2. QED
            BY <1>2, <1>3, <1>6, <2>1, BelowNode
<1>9. Region[h] = D
      <2>1. PICK E \in NodePaths : At[E].subtype = "FUNCTION_DEF" /\ Region[h] = E /\ AtOrBelow(h, Left(E))
            BY <1>8, RegionFacts
      <2>2. E \in Seq(Steps) /\ IsNode(E)
            BY DEF NodePaths
      <2>3. AtOrBelow(h, E) /\ AtOrBelow(h, D)
            BY <1>1, <1>6, <2>1, <2>2, BelowChildren, BelowOrder
      <2>4. AtOrBelow(E, D) \/ AtOrBelow(D, E)
            BY <1>1, <1>6, <2>2, <2>3, AboveOne
      <2>5. ~IsWithin(E, D)
            <3>1. IsWithin(E, D) => Below(E, "FUNCTION_DEF")
                  BY <1>1, <2>2, BelowNode
            <3>2. QED
                  BY <2>1, <2>2, <3>1, TidyNode
      <2>6. ~IsWithin(D, E)
            <3>1. IsWithin(D, E) => Below(D, "FUNCTION_DEF")
                  BY <1>1, <2>1, <2>2, BelowNode
            <3>2. QED
                  BY <1>1, <3>1, TidyNode
      <2>7. E = D
            BY <1>1, <2>2, <2>4, <2>5, <2>6, BelowOrder
      <2>8. QED
            BY <2>1, <2>7
<1>10. ASSUME NEW g \in Declarators, AtOrBelow(g, D) PROVE g = h
       <2>1. g \in Seq(Steps) /\ IsNode(g) /\ At[g].subtype = "FUNCTION_DECL" /\ ~Below(g, "LIST_BLOCK")
             BY DeclaratorFacts
       <2>2. IsWithin(g, D)
             BY <1>1, <1>10, <2>1, BelowOrder
       <2>3. AtOrBelow(g, Left(D)) \/ AtOrBelow(g, Right(D))
             <3>1. Len(D) + 1 \in 1..Len(g)
                   <4>1. Len(D) < Len(g) /\ Len(D) \in Nat /\ Len(g) \in Nat
                         BY <1>1, <2>1, <2>2, LenProperties DEF IsWithin
                   <4>2. QED
                         BY <4>1
             <3>2. g[Len(D) + 1] \in Steps
                   BY <2>1, <3>1, ElementOfSeq
             <3>3. QED
                   BY <1>1, <2>1, <2>2, <3>2, BelowChildren DEF Steps
       <2>4. ~AtOrBelow(g, Right(D))
             <3>1. IsWithin(g, Right(D)) => Below(g, "LIST_BLOCK")
                   BY <1>2, <1>3, <2>1, BelowNode
             <3>2. QED
                   BY <1>2, <1>7, <2>1, <3>1, BelowOrder
       <2>5. QED
             BY <1>5, <2>3, <2>4
<1>11. D \in Definitions
       BY <1>8, <1>9 DEF Definitions
<1>12. QED
       BY <1>2, <1>3, <1>4, <1>6, <1>8, <1>9, <1>10, <1>11
-----------------------------------------------------------------------------
(* The parts of the program that have tables.                              *)

(* A definition: its node and its one declarator.                          *)
LEMMA DefinitionFacts ==
  ASSUME Tidy(tree), NEW D \in Definitions
  PROVE  /\ D \in NodePaths /\ IsNode(D) /\ D \in Seq(Steps) /\ D # <<>>
         /\ At[D].subtype = "FUNCTION_DEF" /\ D \notin Blocks /\ D \in Functions /\ D \notin Declarators
         /\ IsNode(Left(D)) /\ IsNode(Right(D))
         /\ At[Left(D)].subtype = "FUNCTION_SPEC" /\ At[Right(D)].subtype = "LIST_BLOCK"
         /\ Header(D) \in Declarators /\ Region[Header(D)] = D /\ Below(Header(D), "FUNCTION_SPEC")
         /\ AtOrBelow(Header(D), Left(D)) /\ AtOrBelow(Header(D), D)
         /\ \A g \in Declarators : AtOrBelow(g, D) \/ Region[g] = D => g = Header(D)
<1>1. PICK g \in Declarators : Below(g, "FUNCTION_SPEC") /\ D = Region[g]
      BY DEF Definitions
<1>2. PICK E \in NodePaths : At[E].subtype = "FUNCTION_DEF" /\ Region[g] = E /\ AtOrBelow(g, Left(E))
      BY <1>1, RegionFacts
<1>3. D \in NodePaths /\ At[D].subtype = "FUNCTION_DEF"
      BY <1>1, <1>2
<1>4. IsNode(D) /\ D \in Seq(Steps)
      BY <1>3 DEF NodePaths
<1>5. /\ IsNode(Left(D)) /\ IsNode(Right(D)) /\ D # <<>>
      /\ At[Left(D)].subtype = "FUNCTION_SPEC" /\ At[Right(D)].subtype = "LIST_BLOCK"
      BY <1>3, DefinitionNode
<1>6. PICK h \in Declarators : /\ AtOrBelow(h, Left(D)) /\ Below(h, "FUNCTION_SPEC") /\ Region[h] = D
                               /\ \A f \in Declarators : AtOrBelow(f, D) => f = h
      BY <1>3, DefinitionNode
<1>7. ASSUME NEW f \in Declarators, Region[f] = D PROVE f = h
      <2>1. f \in Seq(Steps) /\ At[f].subtype = "FUNCTION_DECL"
            BY DeclaratorFacts
      <2>2. Below(f, "FUNCTION_SPEC")
            <3>1. ~Below(f, "FUNCTION_SPEC") => Region[f] = f
                  BY RegionFacts
            <3>2. QED
                  BY <1>3, <1>7, <2>1, <3>1
      <2>3. PICK F \in NodePaths : Region[f] = F /\ AtOrBelow(f, Left(F))
            BY <2>2, RegionFacts
      <2>4. AtOrBelow(f, D)
            <3>1. AtOrBelow(f, Left(D))
                  BY <1>7, <2>3
            <3>2. IsWithin(f, D)
                  BY <1>4, <2>1, <3>1, BelowChildren
            <3>3. QED
                  BY <1>4, <2>1, <3>2, BelowOrder
      <2>5. QED
            BY <1>6, <2>4
<1>8. Header(D) = h
      BY <1>6, <1>7 DEF Header
<1>9. AtOrBelow(h, D)
      <2>1. h \in Seq(Steps)
            BY DeclaratorFacts
      <2>2. IsWithin(h, D)
            BY <1>4, <1>6, <2>1, BelowChildren
      <2>3. QED
            BY <1>4, <2>1, <2>2, BelowOrder
<1>10. D \notin Blocks /\ D \notin Declarators
       BY <1>3 DEF Blocks, IsInnerBlock, Declarators
<1>11. D \in Functions
       BY <1>1 DEF Functions
<1>12. QED
       BY <1>3, <1>4, <1>5, <1>6, <1>7, <1>8, <1>9, <1>10, <1>11

(* A function is a definition or a prototype, which is its own declarator. *)
LEMMA FunctionFacts ==
  ASSUME Tidy(tree), NEW s \in Functions
  PROVE  /\ s \in NodePaths /\ IsNode(s) /\ s \in Seq(Steps) /\ s # <<>> /\ s \notin Blocks /\ s \in Keys
         /\ Header(s) \in Declarators /\ Region[Header(s)] = s /\ AtOrBelow(Header(s), s)
         /\ \A g \in Declarators : AtOrBelow(g, s) \/ Region[g] = s => g = Header(s)
         /\ s \in Definitions \/ s \in Declarators
         /\ s \in Definitions <=> Below(Header(s), "FUNCTION_SPEC")
         /\ s \notin Definitions => s = Header(s)
<1>1. s \in Keys
      BY DEF Keys
<1>2. CASE s \in Definitions
      BY <1>1, <1>2, DefinitionFacts
<1>3. CASE s \notin Definitions
      <2>1. PICK h \in Declarators : s = Region[h]
            BY DEF Functions
      <2>2. ~Below(h, "FUNCTION_SPEC")
            BY <1>3, <2>1 DEF Definitions
      <2>3. s = h
            BY <2>1, <2>2, RegionFacts
      <2>4. /\ IsNode(s) /\ s \in Seq(Steps) /\ s # <<>> /\ At[s].subtype = "FUNCTION_DECL"
            /\ \A g \in Declarators : AtOrBelow(g, s) => g = s
            BY <2>3, DeclaratorFacts
      <2>5. s \notin Blocks
            BY <2>4 DEF Blocks, IsInnerBlock
      <2>6. ASSUME NEW g \in Declarators, Region[g] = s PROVE g = s
            <3>1. ~Below(g, "FUNCTION_SPEC")
                  BY <1>3, <2>6 DEF Definitions
            <3>2. QED
                  BY <2>6, <3>1, RegionFacts
      <2>7. Header(s) = s
            BY <2>1, <2>3, <2>6 DEF Header
      <2>8. AtOrBelow(s, s)
            BY <2>4, BelowOrder
      <2>9. QED
            BY <1>1, <1>3, <2>1, <2>2, <2>3, <2>4, <2>5, <2>6, <2>7, <2>8 DEF NodePaths
<1>4. QED
      BY <1>2, <1>3

(* A block is in the body of a definition.                                 *)
LEMMA BlockFacts ==
  ASSUME Tidy(tree), NEW b \in Blocks
  PROVE  /\ b \in NodePaths /\ IsNode(b) /\ b \in Seq(Steps) /\ b # <<>> /\ b \notin Functions /\ b \in Keys
         /\ At[b].subtype = "LIST_BLOCK" /\ At[Parent(b)].subtype # "FUNCTION_DEF"
         /\ b \notin Definitions
         /\ \E D \in Definitions : IsWithin(b, Right(D))
<1>1. /\ b \in NodePaths /\ IsNode(b) /\ b \in Seq(Steps) /\ At[b].subtype = "LIST_BLOCK"
      /\ At[Parent(b)].subtype # "FUNCTION_DEF" /\ b \in Keys
      BY DEF Blocks, IsInnerBlock, NodePaths, Keys
<1>2. b # <<>>
      BY <1>1, TidyRoot
<1>3. b \notin Functions
      BY FunctionFacts
<1>4. Below(b, "FUNCTION_DEF") /\ ~Below(b, "FUNCTION_SPEC")
      BY <1>1, TidyNode
<1>5. PICK D \in Seq(Steps) : IsNode(D) /\ IsWithin(b, D) /\ At[D].subtype = "FUNCTION_DEF"
      BY <1>1, <1>4, AboveNode DEF IsNode
<1>6. D \in NodePaths
      BY <1>5 DEF NodePaths
<1>7. /\ D \in Definitions /\ IsNode(Left(D)) /\ At[Left(D)].subtype = "FUNCTION_SPEC"
      BY <1>5, <1>6, DefinitionNode
<1>8. Left(D) \in Seq(Steps) /\ Right(D) \in Seq(Steps)
      BY <1>5, BelowChildren
<1>9. AtOrBelow(b, Left(D)) \/ AtOrBelow(b, Right(D))
      BY <1>1, <1>5, BelowChildren DEF Steps
<1>10. ~AtOrBelow(b, Left(D))
       <2>1. b # Left(D)
             BY <1>1, <1>7
       <2>2. IsWithin(b, Left(D)) => Below(b, "FUNCTION_SPEC")
             BY <1>1, <1>7, BelowNode
       <2>3. QED
             BY <1>1, <1>4, <1>8, <2>1, <2>2, BelowOrder
<1>11. b # Right(D)
       <2>1. Parent(Right(D)) = D
             BY <1>5, BelowChildren
       <2>2. QED
             BY <1>1, <1>5, <2>1
<1>12. IsWithin(b, Right(D))
       BY <1>1, <1>8, <1>9, <1>10, <1>11, BelowOrder
<1>13. b \notin Definitions
       BY <1>3, DefinitionFacts
<1>14. QED
       BY <1>1, <1>2, <1>3, <1>7, <1>12, <1>13

(* A part with a table is a node.                                          *)
LEMMA KeyFacts ==
  ASSUME Tidy(tree), NEW s \in Keys
  PROVE  /\ s \in NodePaths /\ IsNode(s) /\ s \in Seq(Steps) /\ s # <<>>
         /\ s \in Blocks \/ (s \in Functions /\ (s \in Definitions \/ s \in Declarators))
         /\ s \in Blocks <=> s \notin Functions
         /\ At[s].subtype \in {"LIST_BLOCK", "FUNCTION_DEF", "FUNCTION_DECL"}
<1>1. CASE s \in Blocks
      BY <1>1, BlockFacts
<1>2. CASE s \in Functions
      <2>1. s \in NodePaths /\ IsNode(s) /\ s \in Seq(Steps) /\ s # <<>> /\ s \notin Blocks
            BY <1>2, FunctionFacts
      <2>2. s \in Definitions \/ s \in Declarators
            BY <1>2, FunctionFacts
      <2>3. s \in Definitions => At[s].subtype = "FUNCTION_DEF"
            BY DefinitionFacts
      <2>4. s \in Declarators => At[s].subtype = "FUNCTION_DECL"
            BY DEF Declarators
      <2>5. QED
            BY <1>2, <2>1, <2>2, <2>3, <2>4
<1>3. QED
      BY <1>1, <1>2 DEF Keys

(* What is in another part: a block, in a block or in the body of a        *)
(* definition.                                                             *)
LEMMA KeysNest ==
  ASSUME Tidy(tree), NEW s \in Keys, NEW t \in Keys, IsWithin(s, t)
  PROVE  s \in Blocks /\ (t \in Blocks \/ (t \in Definitions /\ IsWithin(s, Right(t))))
<1>1. /\ IsNode(s) /\ s \in Seq(Steps) /\ IsNode(t) /\ t \in Seq(Steps)
      /\ s \in Blocks \/ (s \in Functions /\ (s \in Definitions \/ s \in Declarators))
      /\ t \in Blocks \/ (t \in Functions /\ (t \in Definitions \/ t \in Declarators))
      BY KeyFacts
<1>2. Below(s, At[t].subtype)
      BY <1>1, BelowNode
<1>3. t \in Blocks => At[t].subtype = "LIST_BLOCK"
      BY BlockFacts
<1>4. t \in Definitions => At[t].subtype = "FUNCTION_DEF"
      BY DefinitionFacts
<1>5. t \in Declarators => At[t].subtype = "FUNCTION_DECL"
      BY DEF Declarators
<1>6. s \notin Definitions
      <2>1. s \in Definitions => At[s].subtype = "FUNCTION_DEF"
            BY DefinitionFacts
      <2>2. QED
            BY <1>1, <1>2, <1>3, <1>4, <1>5, <2>1, TidyNode
<1>7. s \notin Functions
      <2>1. SUFFICES ASSUME s \in Functions PROVE FALSE
            OBVIOUS
      <2>2. s \in Declarators /\ Header(s) = s /\ Region[s] = s
            BY <1>6, <2>1, FunctionFacts
      <2>3. ~Below(s, "FUNCTION_DECL") /\ ~Below(s, "LIST_BLOCK")
            BY <2>2, DeclaratorFacts
      <2>4. t \in Definitions
            BY <1>1, <1>2, <1>3, <1>5, <2>3
      <2>5. AtOrBelow(s, t)
            BY <1>1, BelowOrder
      <2>6. s = Header(t) /\ Region[Header(t)] = t
            BY <2>2, <2>4, <2>5, DefinitionFacts
      <2>7. s = t
            BY <2>2, <2>6
      <2>8. QED
            BY <1>1, <2>7, BelowOrder
<1>8. s \in Blocks
      BY <1>1, <1>7
<1>9. ASSUME t \in Definitions PROVE IsWithin(s, Right(t))
      <2>1. PICK D \in Definitions : IsWithin(s, Right(D))
            BY <1>8, BlockFacts
      <2>2. D \in Seq(Steps) /\ IsNode(D) /\ At[D].subtype = "FUNCTION_DEF"
            BY DefinitionFacts
      <2>3. At[t].subtype = "FUNCTION_DEF"
            BY <1>9, DefinitionFacts
      <2>4. Right(D) \in Seq(Steps) /\ AtOrBelow(Right(D), D)
            <3>1. Right(D) \in Seq(Steps)
                  BY <2>2, BelowChildren
            <3>2. AtOrBelow(Right(D), Right(D))
                  BY <3>1, BelowOrder
            <3>3. IsWithin(Right(D), D)
                  BY <2>2, <3>1, <3>2, BelowChildren
            <3>4. QED
                  BY <2>2, <3>1, <3>3, BelowOrder
      <2>5. AtOrBelow(s, Right(D))
            BY <1>1, <2>1, <2>4, BelowOrder
      <2>6. AtOrBelow(s, D) /\ AtOrBelow(s, t)
            BY <1>1, <2>2, <2>4, <2>5, BelowOrder
      <2>7. AtOrBelow(D, t) \/ AtOrBelow(t, D)
            BY <1>1, <2>2, <2>6, AboveOne
      <2>8. ~IsWithin(D, t) /\ ~IsWithin(t, D)
            <3>1. IsWithin(D, t) => Below(D, "FUNCTION_DEF")
                  BY <1>1, <2>2, <2>3, BelowNode
            <3>2. IsWithin(t, D) => Below(t, "FUNCTION_DEF")
                  BY <1>1, <2>2, <2>3, BelowNode
            <3>3. ~Below(D, "FUNCTION_DEF") /\ ~Below(t, "FUNCTION_DEF")
                  BY <1>1, <2>2, <2>3, TidyNode
            <3>4. QED
                  BY <3>1, <3>2, <3>3
      <2>9. D = t
            BY <1>1, <2>2, <2>7, <2>8, BelowOrder
      <2>10. QED
             BY <2>1, <2>9
<1>10. ASSUME t \notin Blocks PROVE t \in Definitions
       <2>1. t \in Declarators => ~Below(s, "FUNCTION_DECL")
             BY <1>1, <1>8, TidyRoot, DeclaredNode, BlockFacts
       <2>2. QED
             BY <1>1, <1>2, <1>5, <1>10, <2>1
<1>11. QED
       BY <1>8, <1>9, <1>10

(* Where a table is entered and left.                                      *)
LEMMA KeyTimes ==
  ASSUME Tidy(tree), NEW s \in Keys
  PROVE  /\ Opener(s) \in Visits /\ Closer(s) \in Visits /\ Past(Opener(s), Closer(s))
         /\ AtOrBelow(Opener(s).n, s) /\ AtOrBelow(Closer(s).n, s)
         /\ s \in Blocks => Opener(s) = Enter(s) /\ Closer(s) = Leave(s)
         /\ s \in Definitions => Opener(s) = Middle(Header(s)) /\ Closer(s) = Leave(Right(s))
         /\ s \in Functions \ Definitions => Opener(s) = Middle(s) /\ Closer(s) = Leave(s)
<1>1. IsNode(s) /\ s \in Seq(Steps) /\ AtOrBelow(s, s)
      BY KeyFacts, BelowOrder
<1>2. /\ Enter(s) \in Visits /\ Leave(s) \in Visits /\ Middle(s) \in Visits
      /\ Enter(s).n = s /\ Leave(s).n = s /\ Middle(s).n = s
      BY <1>1, NodeVisits, CodeAfter
<1>3. CASE s \in Blocks
      <2>1. Opener(s) = Enter(s) /\ Closer(s) = Leave(s) /\ s \notin Definitions /\ s \notin Functions
            BY <1>3, BlockFacts DEF Opener, Closer
      <2>2. QED
            BY <1>1, <1>2, <1>3, <2>1, PastAtNode
<1>4. CASE s \in Definitions
      <2>1. /\ Header(s) \in Declarators /\ AtOrBelow(Header(s), Left(s)) /\ AtOrBelow(Header(s), s)
            /\ IsNode(Right(s)) /\ s \notin Blocks
            BY <1>4, DefinitionFacts
      <2>2. PICK o, c : o = Middle(Header(s)) /\ c = Leave(Right(s))
            OBVIOUS
      <2>3. Opener(s) = o /\ Closer(s) = c
            BY <1>4, <2>1, <2>2 DEF Opener, Closer
      <2>4. IsNode(Header(s)) /\ Header(s) \in Seq(Steps) /\ Right(s) \in Seq(Steps)
            BY <1>1, <2>1, DeclaratorFacts, BelowChildren
      <2>5. o \in Visits /\ c \in Visits /\ OnPath(o) /\ OnPath(c) /\ o.n = Header(s) /\ c.n = Right(s)
            BY <2>1, <2>2, <2>4, NodeVisits, CodeAfter
      <2>6. AtOrBelow(Right(s), Right(s)) /\ AtOrBelow(Right(s), s)
            <3>1. AtOrBelow(Right(s), Right(s))
                  BY <2>4, BelowOrder
            <3>2. IsWithin(Right(s), s)
                  BY <1>1, <2>4, <3>1, BelowChildren
            <3>3. QED
                  BY <1>1, <2>4, <3>1, <3>2, BelowOrder
      <2>7. Past(o, Middle(s)) /\ Past(Middle(s), c)
            BY <1>1, <2>1, <2>5, <2>6, PastAtNode
      <2>8. OnPath(Middle(s))
            BY <1>1, CodeAfter
      <2>9. Past(o, c)
            BY <2>5, <2>7, <2>8, PastTransitive
      <2>10. QED
            BY <1>4, <2>1, <2>2, <2>3, <2>5, <2>6, <2>9
<1>5. CASE s \in Functions /\ s \notin Definitions
      <2>1. s \notin Blocks /\ Header(s) = s
            BY <1>5, FunctionFacts
      <2>2. Opener(s) = Middle(s) /\ Closer(s) = Leave(s)
            BY <1>5, <2>1 DEF Opener, Closer
      <2>3. QED
            BY <1>1, <1>2, <1>5, <2>1, <2>2, PastAtNode
<1>6. QED
      BY <1>3, <1>4, <1>5 DEF Keys

(* Tables are entered and left one by one.                                 *)
LEMMA KeysDiffer ==
  ASSUME Tidy(tree), NEW s \in Keys, NEW t \in Keys
  PROVE  /\ Opener(s) = Opener(t) => s = t
         /\ Closer(s) = Closer(t) => s = t
         /\ Opener(s) # Closer(t)
<1>1. /\ s \in Blocks \/ s \in Definitions \/ s \in Functions \ Definitions
      /\ t \in Blocks \/ t \in Definitions \/ t \in Functions \ Definitions
      BY DEF Keys
<1>2. \A r \in Keys : \/ r \in Blocks /\ Opener(r) = Enter(r) /\ Closer(r) = Leave(r)
                      \/ r \in Definitions /\ Opener(r) = Middle(Header(r)) /\ Closer(r) = Leave(Right(r))
                      \/ r \in Functions \ Definitions /\ Opener(r) = Middle(r) /\ Closer(r) = Leave(r)
      BY KeyTimes DEF Keys
<1>3. \A r \in Functions : Region[Header(r)] = r /\ (r \notin Definitions => Header(r) = r)
      BY FunctionFacts
<1>4. \A r \in Definitions : r \in Functions /\ r \in Seq(Steps)
      BY DefinitionFacts
<1>5. Opener(s) = Opener(t) => s = t
      BY <1>2, <1>3, <1>4, VisitsDiffer
<1>6. Opener(s) # Closer(t)
      BY <1>2, VisitsDiffer
<1>7. Closer(s) = Closer(t) => s = t
      <2>1. \A r \in Definitions : Parent(Right(r)) = r /\ At[r].subtype = "FUNCTION_DEF" /\ At[Right(r)].subtype = "LIST_BLOCK"
            BY <1>4, BelowChildren, DefinitionFacts
      <2>2. ASSUME NEW r \in Keys, NEW q \in Keys, r \in Definitions, q \notin Definitions
            PROVE  Closer(r) # Closer(q)
            <3>1. Closer(r) = Leave(Right(r))
                  BY <2>2, KeyTimes
            <3>2. Closer(q) = Leave(q)
                  BY <2>2, KeyTimes DEF Keys
            <3>3. At[Right(r)].subtype = "LIST_BLOCK" /\ At[Parent(Right(r))].subtype = "FUNCTION_DEF"
                  BY <2>1, <2>2
            <3>4. q \in Blocks => At[Parent(q)].subtype # "FUNCTION_DEF"
                  BY BlockFacts
            <3>5. q \in Functions => At[q].subtype = "FUNCTION_DECL"
                  BY <2>2, FunctionFacts DEF Declarators
            <3>6. q # Right(r)
                  BY <3>3, <3>4, <3>5 DEF Keys
            <3>7. QED
                  BY <3>1, <3>2, <3>6, VisitsDiffer
      <2>3. \A r, q \in Definitions : Right(r) = Right(q) => r = q
            BY <2>1
      <2>4. CASE s \in Definitions /\ t \in Definitions
            <3>1. Closer(s) = Leave(Right(s)) /\ Closer(t) = Leave(Right(t))
                  BY <2>4, KeyTimes
            <3>2. QED
                  BY <2>3, <2>4, <3>1, VisitsDiffer
      <2>5. CASE s \notin Definitions /\ t \notin Definitions
            <3>1. Closer(s) = Leave(s) /\ Closer(t) = Leave(t)
                  BY <2>5, KeyTimes DEF Keys
            <3>2. QED
                  BY <3>1, VisitsDiffer
      <2>6. QED
            BY <2>2, <2>4, <2>5
<1>8. QED
      BY <1>5, <1>6, <1>7

(* One part within another, and one before another.                        *)
LEMMA KeysOrder ==
  ASSUME Tidy(tree), NEW s \in Keys, NEW t \in Keys
  PROVE  /\ IsWithin(s, t) => Past(Opener(t), Opener(s)) /\ Past(Closer(s), Closer(t))
         /\ Before(s, t) => Past(Closer(s), Opener(t))
<1>1. /\ s \in Seq(Steps) /\ t \in Seq(Steps) /\ IsNode(s) /\ IsNode(t)
      /\ Opener(s) \in Visits /\ Closer(s) \in Visits /\ AtOrBelow(Opener(s).n, s) /\ AtOrBelow(Closer(s).n, s)
      /\ Opener(t) \in Visits /\ Closer(t) \in Visits /\ AtOrBelow(Opener(t).n, t) /\ AtOrBelow(Closer(t).n, t)
      BY KeyFacts, KeyTimes
<1>2. OnPath(Opener(s)) /\ OnPath(Closer(s)) /\ OnPath(Opener(t)) /\ OnPath(Closer(t))
      BY <1>1, VisitFacts
<1>3. Before(s, t) => Past(Closer(s), Opener(t))
      BY <1>1, <1>2, PastBefore
<1>4. ASSUME IsWithin(s, t), t \in Blocks PROVE Past(Opener(t), Opener(s)) /\ Past(Closer(s), Closer(t))
      <2>1. Opener(t) = Enter(t) /\ Closer(t) = Leave(t)
            BY <1>4, KeyTimes
      <2>2. s # t /\ AtOrBelow(s, t)
            BY <1>1, <1>4, BelowOrder
      <2>3. Opener(s).n \in Seq(Steps) /\ Closer(s).n \in Seq(Steps)
            BY <1>1, VisitFacts
      <2>4. AtOrBelow(Opener(s).n, t) /\ AtOrBelow(Closer(s).n, t)
            BY <1>1, <2>2, <2>3, BelowOrder
      <2>5. Opener(s) = Enter(t) \/ Past(Enter(t), Opener(s))
            BY <1>1, <2>4, EnteredFirst
      <2>6. Closer(s) = Leave(t) \/ Past(Closer(s), Leave(t))
            BY <1>1, <2>4, LeftLast
      <2>7. QED
            BY <2>1, <2>2, <2>5, <2>6, KeysDiffer
<1>5. ASSUME IsWithin(s, t), t \in Definitions, s \in Blocks, IsWithin(s, Right(t))
      PROVE Past(Opener(t), Opener(s)) /\ Past(Closer(s), Closer(t))
      <2>1. /\ Opener(t) = Middle(Header(t)) /\ Closer(t) = Leave(Right(t))
            /\ Opener(s) = Enter(s) /\ Closer(s) = Leave(s)
            BY <1>5, KeyTimes
      <2>2. /\ Header(t) \in Declarators /\ AtOrBelow(Header(t), Left(t)) /\ Right(t) \in Seq(Steps)
            /\ Header(t) \in Seq(Steps)
            BY <1>1, <1>5, DefinitionFacts, DeclaratorFacts, BelowChildren
      <2>3. AtOrBelow(s, Right(t))
            BY <1>1, <1>5, <2>2, BelowOrder
      <2>4. Enter(s).n = s /\ Leave(s).n = s /\ Middle(Header(t)).n = Header(t) /\ OnPath(Middle(t))
            BY <1>1, <2>2, CodeAfter
      <2>5. Past(Opener(t), Middle(t)) /\ Past(Middle(t), Opener(s))
            BY <1>1, <1>2, <2>1, <2>2, <2>3, <2>4, PastAtNode
      <2>6. Past(Opener(t), Opener(s))
            BY <1>2, <2>4, <2>5, PastTransitive
      <2>7. Closer(s) = Leave(Right(t)) \/ Past(Closer(s), Leave(Right(t)))
            BY <1>1, <2>1, <2>2, <2>3, <2>4, LeftLast
      <2>8. s # t
            BY <1>1, <1>5, BelowOrder
      <2>9. QED
            BY <2>1, <2>6, <2>7, <2>8, KeysDiffer
<1>6. QED
      BY <1>3, <1>4, <1>5, KeysNest
-----------------------------------------------------------------------------
(* Identifiers: names of functions, parameters and plain ones.             *)

(* The table of t is open at the middle of x.                              *)
Inside(x, t) == t \in Keys /\ Past(Opener(t), Middle(x)) /\ ~Past(Closer(t), Middle(x))

(* An identifier has no node below it.                                     *)
LEMMA IdentifierFacts ==
  ASSUME Tidy(tree), NEW x \in Identifiers
  PROVE  /\ IsNode(x) /\ x \in Seq(Steps) /\ x # <<>> /\ x \notin Keys
         /\ At[x].type = "IDENTIFIER" /\ At[x].subtype = "NONE"
         /\ Middle(x) \in Visits /\ OnPath(Middle(x)) /\ Middle(x).n = x
         /\ \A n \in NodePaths : AtOrBelow(n, x) => n = x
<1>1. IsNode(x) /\ x \in Seq(Steps) /\ At[x].type = "IDENTIFIER"
      BY DEF Identifiers, NodePaths
<1>2. At[x].subtype = "NONE" /\ IsNull(Left(x)) /\ IsNull(Right(x))
      BY <1>1, TidyNode
<1>3. x # <<>>
      BY <1>2, TidyRoot
<1>4. x \notin Keys
      BY <1>2, KeyFacts
<1>5. Middle(x) \in Visits /\ OnPath(Middle(x)) /\ Middle(x).n = x
      BY <1>1, NodeVisits, CodeAfter
<1>6. ASSUME NEW n \in NodePaths, AtOrBelow(n, x) PROVE n = x
      <2>1. SUFFICES ASSUME n # x PROVE FALSE
            OBVIOUS
      <2>2. n \in Seq(Steps) /\ IsNode(n)
            BY DEF NodePaths
      <2>3. IsWithin(n, x)
            BY <1>1, <1>6, <2>1, <2>2, BelowOrder
      <2>4. PICK c \in Seq(Steps) : (c = Left(x) \/ c = Right(x)) /\ AtOrBelow(n, c)
            BY <1>1, <2>2, <2>3, BelowChildren DEF Steps
      <2>5. ~IsNode(c)
            BY <1>2, <2>4 DEF IsNode
      <2>6. IsWithin(n, c) => IsNode(c)
            BY <2>2, NodeAbove DEF IsNode
      <2>7. QED
            BY <2>2, <2>4, <2>5, <2>6, BelowOrder
<1>7. QED
      BY <1>1, <1>2, <1>3, <1>4, <1>5, <1>6

(* What is open at an identifier is around it.                             *)
LEMMA InsideWithin ==
  ASSUME Tidy(tree), NEW x \in Identifiers, NEW t, Inside(x, t)
  PROVE  t \in Keys /\ IsWithin(x, t)
<1>1. t \in Keys /\ Past(Opener(t), Middle(x)) /\ ~Past(Closer(t), Middle(x))
      BY DEF Inside
<1>2. /\ x \in Seq(Steps) /\ x \notin Keys /\ OnPath(Middle(x)) /\ Middle(x).n = x
      /\ \A n \in NodePaths : AtOrBelow(n, x) => n = x
      BY IdentifierFacts
<1>3. t \in Seq(Steps) /\ t \in NodePaths
      BY <1>1, KeyFacts
<1>4. /\ Opener(t) \in Visits /\ Closer(t) \in Visits
      /\ AtOrBelow(Opener(t).n, t) /\ AtOrBelow(Closer(t).n, t)
      BY <1>1, KeyTimes
<1>5. OnPath(Opener(t)) /\ OnPath(Closer(t))
      BY <1>4, VisitFacts
<1>6. AtOrBelow(x, x)
      BY <1>2, BelowOrder
<1>7. ~Before(x, t)
      <2>1. Before(x, t) => Past(Middle(x), Opener(t))
            BY <1>2, <1>3, <1>4, <1>5, <1>6, PastBefore
      <2>2. QED
            BY <1>1, <1>2, <1>5, <2>1, PastAsymmetric
<1>8. ~Before(t, x)
      BY <1>1, <1>2, <1>3, <1>4, <1>5, <1>6, PastBefore
<1>9. ~AtOrBelow(t, x)
      BY <1>1, <1>2, <1>3
<1>10. AtOrBelow(x, t)
       BY <1>2, <1>3, <1>7, <1>8, <1>9, Apart
<1>11. QED
       BY <1>1, <1>2, <1>3, <1>10, BelowOrder

(* A name is declared at the file scope, where no table is open.           *)
LEMMA NameFacts ==
  ASSUME Tidy(tree), NEW h \in Declarators, NEW x, x = Left(h)
  PROVE  /\ x \in Identifiers /\ Parent(x) = h /\ IsDeclared(x) /\ ~IsParameter(x)
         /\ ScopeOf(x) = <<>> /\ \A t : ~Inside(x, t)
         /\ Below(x, "FUNCTION_SPEC") <=> Below(h, "FUNCTION_SPEC")
<1>1. /\ IsNode(h) /\ h \in Seq(Steps) /\ At[h].subtype = "FUNCTION_DECL" /\ x \in Identifiers
      /\ IsDeclared(h) /\ ~Below(h, "LIST_BLOCK") /\ ~Below(h, "FUNCTION_DECL")
      BY DeclaratorFacts
<1>2. Parent(x) = h /\ x \in Seq(Steps) /\ x # <<>> /\ IsNode(x)
      BY <1>1, BelowChildren, IdentifierFacts
<1>3. \A s : Below(h, s) => Below(x, s)
      BY <1>1, ChildBelow
<1>4. ASSUME NEW s, Below(x, s), s # "FUNCTION_DECL" PROVE Below(h, s)
      <2>1. PICK m \in Seq(Steps) : IsNode(m) /\ IsWithin(x, m) /\ At[m].subtype = s
            BY <1>2, <1>4, AboveNode DEF IsNode
      <2>2. AtOrBelow(h, m)
            BY <1>2, <2>1, WithinParent
      <2>3. IsWithin(h, m)
            BY <1>1, <1>4, <2>1, <2>2, BelowOrder
      <2>4. QED
            BY <1>1, <2>1, <2>3, BelowNode
<1>5. IsDeclared(x)
      BY <1>1, <1>3 DEF IsDeclared
<1>6. ~IsParameter(x)
      <2>1. SUFFICES ASSUME Below(h, "PARAM_DECL") PROVE FALSE
            BY <1>4 DEF IsParameter
      <2>2. PICK m \in Seq(Steps) : IsNode(m) /\ IsWithin(h, m) /\ At[m].subtype = "PARAM_DECL"
            BY <1>1, <2>1, AboveNode DEF IsNode
      <2>3. Below(m, "FUNCTION_DECL") /\ IsPlace(m)
            BY <2>2, TidyNode DEF IsNode
      <2>4. AtOrBelow(h, m)
            BY <1>1, <2>2, BelowOrder
      <2>5. QED
            BY <1>1, <2>3, <2>4, StillBelow
<1>7. ScopeOf(x) = <<>>
      <2>1. CASE Below(x, "FUNCTION_SPEC")
            BY <1>6, <2>1 DEF ScopeOf
      <2>2. CASE ~Below(x, "FUNCTION_SPEC")
            <3>1. PICK N : N = Nearest(x, {"LIST_BLOCK"})
                  OBVIOUS
            <3>2. N \in Seq(Steps) /\ IsWithin(x, N) /\ (N = <<>> \/ At[N].subtype = "LIST_BLOCK")
                  BY <1>2, <3>1, NearestFacts
            <3>3. IsNode(N)
                  BY <1>2, <3>2, NodeAbove DEF IsNode
            <3>4. N = <<>>
                  BY <1>2, <1>1, <1>4, <3>2, <3>3, BelowNode
            <3>5. <<>> \in Paths
                  BY TidyRoot DEF Paths, Steps
            <3>6. BlockScope[<<>>] = <<>>
                  BY <3>5 DEF BlockScope
            <3>7. QED
                  BY <1>6, <2>2, <3>1, <3>4, <3>6 DEF ScopeOf
      <2>3. QED
            BY <2>1, <2>2
<1>8. ASSUME NEW t, Inside(x, t) PROVE FALSE
      <2>1. t \in Keys /\ IsWithin(x, t)
            BY <1>1, <1>8, InsideWithin
      <2>2. t \in Seq(Steps) /\ IsNode(t)
            BY <2>1, KeyFacts
      <2>3. AtOrBelow(h, t)
            BY <1>2, <2>1, <2>2, WithinParent
      <2>4. t \notin Blocks
            <3>1. SUFFICES ASSUME t \in Blocks PROVE FALSE
                  OBVIOUS
            <3>2. At[t].subtype = "LIST_BLOCK"
                  BY <3>1, BlockFacts
            <3>3. IsWithin(h, t)
                  BY <1>1, <2>2, <2>3, <3>2, BelowOrder
            <3>4. QED
                  BY <1>1, <2>2, <3>2, <3>3, BelowNode
      <2>5. t \in Functions /\ Header(t) = h
            BY <2>1, <2>3, <2>4, FunctionFacts DEF Keys
      <2>6. Opener(t) = Middle(h)
            BY <2>4, <2>5 DEF Opener
      <2>7. OnPath(Middle(x)) /\ AtOrBelow(Middle(x).n, Left(h)) /\ OnPath(Middle(h))
            BY <1>1, <1>2, IdentifierFacts, BelowOrder, CodeAfter
      <2>8. Past(Middle(x), Middle(h))
            BY <1>1, <2>7, PastAtNode
      <2>9. QED
            BY <1>8, <2>6, <2>7, <2>8, PastAsymmetric DEF Inside
<1>9. Below(x, "FUNCTION_SPEC") <=> Below(h, "FUNCTION_SPEC")
      BY <1>3, <1>4
<1>10. QED
      BY <1>1, <1>2, <1>5, <1>6, <1>7, <1>8, <1>9

(* A parameter is right of its declarator, in whose table it is declared,  *)
(* the only one that is open.                                              *)
LEMMA ParameterFacts ==
  ASSUME Tidy(tree), NEW x \in Identifiers, IsParameter(x)
  PROVE  \E h \in Declarators :
           /\ AtOrBelow(x, Right(h)) /\ IsDeclared(x) /\ x \notin Names
           /\ Below(x, "FUNCTION_SPEC") <=> Below(h, "FUNCTION_SPEC")
           /\ ScopeOf(x) = Region[h] /\ Inside(x, Region[h])
           /\ \A t : Inside(x, t) => t = Region[h]
<1>1. /\ IsNode(x) /\ x \in Seq(Steps) /\ x # <<>> /\ OnPath(Middle(x)) /\ Middle(x).n = x
      BY IdentifierFacts
<1>2. PICK m \in Seq(Steps) : IsNode(m) /\ IsWithin(x, m) /\ At[m].subtype = "PARAM_DECL"
      BY <1>1, AboveNode DEF IsNode, IsParameter
<1>3. PICK h \in Seq(Steps) : IsNode(h) /\ IsWithin(m, h) /\ At[h].subtype = "FUNCTION_DECL"
      BY <1>2, TidyNode, AboveNode DEF IsNode
<1>4. h \in Declarators
      BY <1>3 DEF Declarators, NodePaths
<1>5. /\ Left(h) \in Identifiers /\ IsDeclared(h) /\ ~Below(h, "LIST_BLOCK") /\ ~Below(h, "FUNCTION_DECL")
      /\ \A g \in Declarators : AtOrBelow(g, h) => g = h
      BY <1>4, DeclaratorFacts
<1>6. Left(h) \in Seq(Steps) /\ Right(h) \in Seq(Steps) /\ Left(h) # Right(h)
      BY <1>3, BelowChildren
<1>7. AtOrBelow(m, Right(h))
      <2>1. AtOrBelow(m, Left(h)) \/ AtOrBelow(m, Right(h))
            BY <1>2, <1>3, BelowChildren DEF Steps
      <2>2. AtOrBelow(m, Left(h)) => m = Left(h)
            BY <1>2, <1>5, IdentifierFacts DEF NodePaths
      <2>3. m # Left(h)
            BY <1>2, <1>5, IdentifierFacts
      <2>4. QED
            BY <2>1, <2>2, <2>3
<1>8. AtOrBelow(x, Right(h)) /\ x # Right(h)
      <2>1. AtOrBelow(x, m) /\ x # m
            BY <1>1, <1>2, BelowOrder
      <2>2. AtOrBelow(x, Right(h))
            BY <1>1, <1>2, <1>6, <1>7, <2>1, BelowOrder
      <2>3. x # Right(h)
            BY <1>1, <1>2, <1>6, <1>7, <2>1, BelowOrder
      <2>4. QED
            BY <2>2, <2>3
<1>9. IsWithin(x, h) /\ AtOrBelow(x, h) /\ x # h
      <2>1. IsWithin(x, h)
            BY <1>1, <1>3, <1>8, BelowChildren
      <2>2. QED
            BY <1>1, <1>3, <2>1, BelowOrder
<1>10. \A s : Below(h, s) => Below(x, s)
       BY <1>1, <1>3, <1>9, StillBelow DEF IsNode
<1>11. IsDeclared(x)
       BY <1>5, <1>10 DEF IsDeclared
<1>12. ASSUME NEW g \in Declarators, IsWithin(x, g) PROVE g = h
       <2>1. g \in Seq(Steps) /\ \A f \in Declarators : AtOrBelow(f, g) => f = g
             BY DeclaratorFacts
       <2>2. AtOrBelow(g, h) \/ AtOrBelow(h, g)
             BY <1>1, <1>3, <1>9, <1>12, <2>1, AboveOne, BelowOrder
       <2>3. QED
             BY <1>4, <1>5, <2>1, <2>2
<1>13. x \notin Names
       <2>1. SUFFICES ASSUME NEW g \in Declarators, x = Left(g) PROVE FALSE
             BY DEF Names
       <2>2. g \in Seq(Steps)
             BY DeclaratorFacts
       <2>3. AtOrBelow(x, x)
             BY <1>1, BelowOrder
       <2>4. IsWithin(x, g)
             BY <1>1, <2>1, <2>2, <2>3, BelowChildren
       <2>5. x = Left(h)
             BY <1>12, <2>1, <2>4
       <2>6. AtOrBelow(x, Left(h))
             BY <2>3, <2>5
       <2>7. x[Len(h) + 1] = "L" /\ x[Len(h) + 1] = "R"
             BY <1>1, <1>3, <1>8, <2>6, BelowChildren
       <2>8. QED
             BY <2>7
<1>14. Below(x, "FUNCTION_SPEC") => Below(h, "FUNCTION_SPEC")
       <2>1. SUFFICES ASSUME Below(x, "FUNCTION_SPEC") PROVE Below(h, "FUNCTION_SPEC")
             OBVIOUS
       <2>2. PICK r \in Seq(Steps) : IsNode(r) /\ IsWithin(x, r) /\ At[r].subtype = "FUNCTION_SPEC"
             BY <1>1, <2>1, AboveNode DEF IsNode
       <2>3. PICK g \in Declarators : \A f \in Declarators : AtOrBelow(f, r) <=> f = g
             BY <2>2, TidySpec
       <2>4. AtOrBelow(g, r) /\ g \in Seq(Steps)
             BY <2>3, DeclaratorFacts
       <2>5. AtOrBelow(h, r) \/ AtOrBelow(r, h)
             BY <1>1, <1>3, <1>9, <2>2, AboveOne, BelowOrder
       <2>6. ~IsWithin(r, h)
             <3>1. IsWithin(r, h) => AtOrBelow(g, h) /\ g # h
                   BY <1>3, <2>2, <2>4, BelowOrder
             <3>2. QED
                   BY <1>5, <3>1
       <2>7. IsWithin(h, r)
             BY <1>3, <2>2, <2>5, <2>6, BelowOrder
       <2>8. QED
             BY <1>3, <2>2, <2>7, BelowNode
<1>15. Nearest(x, {"FUNCTION_DECL"}) = h
       <2>1. PICK N : N = Nearest(x, {"FUNCTION_DECL"})
             OBVIOUS
       <2>2. /\ N \in Seq(Steps) /\ IsWithin(x, N) /\ (N = <<>> \/ At[N].subtype = "FUNCTION_DECL")
             /\ AtOrBelow(N, h)
             BY <1>1, <1>3, <1>9, <2>1, NearestFacts
       <2>3. N # <<>>
             <3>1. h # <<>>
                   BY <1>4, DeclaratorFacts
             <3>2. AtOrBelow(h, <<>>)
                   BY <1>3, BelowOrder
             <3>3. QED
                   BY <1>3, <2>2, <3>1, <3>2, BelowOrder
       <2>4. N \in Declarators
             BY <1>1, <2>2, <2>3, NodeAbove DEF IsNode, Declarators, NodePaths
       <2>5. QED
             BY <1>5, <2>1, <2>2, <2>4
<1>16. ScopeOf(x) = Region[h]
       BY <1>15 DEF ScopeOf
<1>17. PICK s : s = Region[h]
       OBVIOUS
<1>18. s \in Functions /\ s \in Keys /\ Header(s) = h /\ s \in Seq(Steps)
       <2>1. s \in Functions
             BY <1>4, <1>17 DEF Functions
       <2>2. QED
             BY <1>4, <1>17, <2>1, FunctionFacts
<1>19. Past(Opener(s), Middle(x))
       <2>1. Opener(s) = Middle(h)
             BY <1>18, FunctionFacts DEF Opener
       <2>2. QED
             BY <1>1, <1>3, <1>8, <2>1, PastAtNode
<1>20. Past(Middle(x), Closer(s))
       <2>1. CASE s \in Definitions
             <3>1. AtOrBelow(h, Left(s)) /\ Left(s) \in Seq(Steps) /\ Right(s) \in Seq(Steps)
                   BY <1>18, <2>1, DefinitionFacts, BelowChildren
             <3>2. AtOrBelow(x, Left(s))
                   BY <1>1, <1>3, <1>9, <3>1, BelowOrder
             <3>3. Closer(s) = Leave(Right(s))
                   BY <1>18, <2>1, KeyTimes
             <3>4. OnPath(Leave(Right(s))) /\ AtOrBelow(Leave(Right(s)).n, Right(s)) /\ OnPath(Middle(s))
                   BY <1>18, <3>1, CodeAfter, BelowOrder
             <3>5. Past(Middle(x), Middle(s)) /\ Past(Middle(s), Leave(Right(s)))
                   BY <1>1, <1>18, <3>2, <3>4, PastAtNode
             <3>6. QED
                   BY <1>1, <3>3, <3>4, <3>5, PastTransitive
       <2>2. CASE s \notin Definitions
             <3>1. Closer(s) = Leave(h)
                   BY <1>18, <2>2, KeyTimes, FunctionFacts
             <3>2. QED
                   BY <1>1, <1>3, <1>8, <3>1, PastAtNode
       <2>3. QED
             BY <2>1, <2>2
<1>21. Inside(x, s)
       <2>1. OnPath(Closer(s))
             BY <1>18, KeyTimes, VisitFacts
       <2>2. QED
             BY <1>1, <1>18, <1>19, <1>20, <2>1, PastAsymmetric DEF Inside
<1>22. ASSUME NEW t, Inside(x, t) PROVE t = s
       <2>1. t \in Keys /\ IsWithin(x, t)
             BY <1>22, InsideWithin
       <2>2. t \in Seq(Steps) /\ IsNode(t)
             BY <2>1, KeyFacts
       <2>3. AtOrBelow(h, t) \/ AtOrBelow(t, h)
             BY <1>1, <1>3, <1>9, <2>1, <2>2, AboveOne, BelowOrder
       <2>4. ASSUME IsWithin(t, h) PROVE FALSE
             <3>1. Below(t, "FUNCTION_DECL")
                   BY <1>3, <2>2, <2>4, BelowNode
             <3>2. At[t].subtype \in {"LIST_BLOCK", "FUNCTION_DEF", "FUNCTION_DECL"}
                   BY <2>1, KeyFacts
             <3>3. QED
                   BY <2>2, <3>1, <3>2, TidyNode, TidyRoot, DeclaredNode
       <2>5. AtOrBelow(h, t)
             BY <1>3, <2>2, <2>3, <2>4, BelowOrder
       <2>6. t \notin Blocks
             <3>1. SUFFICES ASSUME t \in Blocks PROVE FALSE
                   OBVIOUS
             <3>2. At[t].subtype = "LIST_BLOCK"
                   BY <3>1, BlockFacts
             <3>3. IsWithin(h, t)
                   BY <1>3, <2>2, <2>5, <3>2, BelowOrder
             <3>4. QED
                   BY <1>5, <1>3, <2>2, <3>2, <3>3, BelowNode
       <2>7. t \in Functions
             BY <2>1, <2>6 DEF Keys
       <2>8. QED
             BY <1>4, <1>17, <2>5, <2>7, FunctionFacts
<1>23. QED
       BY <1>4, <1>8, <1>10, <1>11, <1>13, <1>14, <1>16, <1>17, <1>21, <1>22
-----------------------------------------------------------------------------
(* An identifier that is no name and no parameter is in no declarator.     *)
IsPlainId(x) == x \in Identifiers /\ x \notin Names /\ ~IsParameter(x)

(* Such an identifier is not below a declarator or the header of a         *)
(* definition.                                                             *)
LEMMA PlainFacts ==
  ASSUME Tidy(tree), NEW x, IsPlainId(x)
  PROVE  ~Below(x, "FUNCTION_DECL") /\ ~Below(x, "FUNCTION_SPEC")
<1>1. IsNode(x) /\ x \in Seq(Steps) /\ x # <<>> /\ At[x].type = "IDENTIFIER"
      BY IdentifierFacts DEF IsPlainId
<1>2. ASSUME Below(x, "FUNCTION_DECL") PROVE FALSE
      <2>1. x = Left(Parent(x)) /\ At[Parent(x)].subtype = "FUNCTION_DECL"
            BY <1>1, <1>2, TidyNode DEF IsPlainId
      <2>2. Parent(x) \in Seq(Steps) /\ IsWithin(x, Parent(x))
            BY <1>1, WithinParent
      <2>3. IsNode(Parent(x))
            BY <1>1, <2>2, NodeAbove DEF IsNode
      <2>4. Parent(x) \in Declarators
            BY <2>1, <2>2, <2>3 DEF Declarators, NodePaths
      <2>5. QED
            BY <2>1, <2>4 DEF Names, IsPlainId
<1>3. QED
      BY <1>1, <1>2, TidyNode

(* The blocks and the definition around it are open at it, and no other    *)
(* part is.                                                                *)
LEMMA PlainInside ==
  ASSUME Tidy(tree), NEW x, IsPlainId(x), NEW t \in Keys, IsWithin(x, t)
  PROVE  /\ Inside(x, t)
         /\ t \in Blocks \/ t \in Definitions
         /\ t \in Definitions => AtOrBelow(x, Right(t))
<1>1. /\ IsNode(x) /\ x \in Seq(Steps) /\ x # <<>> /\ At[x].subtype = "NONE" /\ x \in Identifiers
      /\ Middle(x) \in Visits /\ OnPath(Middle(x)) /\ Middle(x).n = x
      BY IdentifierFacts DEF IsPlainId
<1>2. ~Below(x, "FUNCTION_DECL") /\ ~Below(x, "FUNCTION_SPEC")
      BY PlainFacts
<1>3. t \in Seq(Steps) /\ IsNode(t) /\ OnPath(Closer(t))
      BY KeyFacts, KeyTimes, VisitFacts
<1>4. Below(x, At[t].subtype)
      BY <1>1, <1>3, BelowNode
<1>5. t \in Blocks \/ t \in Definitions
      BY <1>2, <1>4, KeyFacts DEF Declarators
<1>6. AtOrBelow(x, t) /\ x # t
      BY <1>1, <1>3, BelowOrder
<1>7. ASSUME t \in Definitions PROVE AtOrBelow(x, Right(t))
      <2>1. Left(t) \in Seq(Steps) /\ IsNode(Left(t)) /\ At[Left(t)].subtype = "FUNCTION_SPEC"
            BY <1>3, <1>7, BelowChildren, DefinitionFacts
      <2>2. IsWithin(x, Left(t)) => Below(x, "FUNCTION_SPEC")
            BY <1>1, <2>1, BelowNode
      <2>3. ~AtOrBelow(x, Left(t))
            BY <1>1, <1>2, <2>1, <2>2, BelowOrder
      <2>4. QED
            BY <1>1, <1>3, <2>3, BelowChildren DEF Steps
<1>8. Past(Opener(t), Middle(x)) /\ Past(Middle(x), Closer(t))
      <2>1. CASE t \in Blocks
            <3>1. Opener(t) = Enter(t) /\ Closer(t) = Leave(t)
                  BY <2>1, KeyTimes
            <3>2. Past(Enter(t), Middle(x))
                  BY <1>1, <1>3, <1>6, EnteredFirst, VisitsDiffer
            <3>3. Past(Middle(x), Leave(t))
                  BY <1>1, <1>3, <1>6, LeftLast, VisitsDiffer
            <3>4. QED
                  BY <3>1, <3>2, <3>3
      <2>2. CASE t \in Definitions
            <3>1. /\ Opener(t) = Middle(Header(t)) /\ Closer(t) = Leave(Right(t))
                  /\ Header(t) \in Declarators /\ AtOrBelow(Header(t), Left(t))
                  BY <2>2, KeyTimes, DefinitionFacts
            <3>2. OnPath(Middle(t)) /\ OnPath(Middle(Header(t))) /\ Middle(Header(t)).n = Header(t)
                  BY <1>3, <3>1, DeclaratorFacts, CodeAfter
            <3>3. Past(Middle(Header(t)), Middle(t)) /\ Past(Middle(t), Middle(x))
                  BY <1>1, <1>3, <1>7, <2>2, <3>1, <3>2, PastAtNode
            <3>4. Past(Middle(Header(t)), Middle(x))
                  BY <1>1, <3>2, <3>3, PastTransitive
            <3>5. Right(t) \in Seq(Steps)
                  BY <1>3, BelowChildren
            <3>6. Past(Middle(x), Leave(Right(t)))
                  BY <1>1, <1>7, <2>2, <3>5, LeftLast, VisitsDiffer
            <3>7. QED
                  BY <3>1, <3>4, <3>6
      <2>3. QED
            BY <1>5, <2>1, <2>2
<1>9. Inside(x, t)
      BY <1>1, <1>3, <1>8, PastAsymmetric DEF Inside
<1>10. QED
      BY <1>5, <1>7, <1>9

(* It is declared in the innermost of them.                                *)
LEMMA PlainScope ==
  ASSUME Tidy(tree), NEW x, IsPlainId(x)
  PROVE  /\ ScopeOf(x) = <<>> \/ (ScopeOf(x) \in Blocks \cup Definitions /\ Inside(x, ScopeOf(x)))
         /\ ScopeOf(x) \in Seq(Steps)
         /\ \A t : Inside(x, t) => AtOrBelow(ScopeOf(x), t)
<1>1. /\ IsNode(x) /\ x \in Seq(Steps) /\ x # <<>> /\ At[x].subtype = "NONE" /\ x \in Identifiers
      BY IdentifierFacts DEF IsPlainId
<1>2. PICK N : N = Nearest(x, {"LIST_BLOCK"})
      OBVIOUS
<1>3. /\ N \in Seq(Steps) /\ IsWithin(x, N) /\ (N = <<>> \/ At[N].subtype = "LIST_BLOCK")
      /\ \A l \in Seq(Steps) : IsWithin(x, l) /\ At[l].subtype = "LIST_BLOCK" => AtOrBelow(N, l)
      BY <1>1, <1>2, NearestFacts
<1>4. IsNode(N) /\ N \in Paths /\ AtOrBelow(N, N)
      BY <1>1, <1>3, NodeAbove, BelowOrder DEF IsNode, Paths, Steps
<1>5. ScopeOf(x) = BlockScope[N]
      <2>1. ~Below(x, "FUNCTION_SPEC")
            BY PlainFacts
      <2>2. QED
            BY <1>2, <2>1 DEF ScopeOf, IsPlainId
<1>6. ASSUME NEW t, Inside(x, t)
      PROVE  /\ t \in Keys /\ t \in Seq(Steps) /\ IsWithin(x, t) /\ (t \in Blocks \/ t \in Definitions)
             /\ t \in Blocks => AtOrBelow(N, t)
             /\ t \in Definitions => AtOrBelow(N, Right(t))
      <2>1. t \in Keys /\ IsWithin(x, t) /\ t \in Seq(Steps)
            BY <1>1, <1>6, InsideWithin, KeyFacts
      <2>2. /\ t \in Blocks \/ t \in Definitions
            /\ t \in Definitions => AtOrBelow(x, Right(t))
            BY <2>1, PlainInside
      <2>3. t \in Blocks => AtOrBelow(N, t)
            BY <1>3, <2>1, BlockFacts
      <2>4. ASSUME t \in Definitions PROVE AtOrBelow(N, Right(t))
            <3>1. Right(t) \in Seq(Steps) /\ At[Right(t)].subtype = "LIST_BLOCK"
                  BY <2>1, <2>4, BelowChildren, DefinitionFacts
            <3>2. IsWithin(x, Right(t))
                  BY <1>1, <2>2, <2>4, <3>1, BelowOrder
            <3>3. QED
                  BY <1>3, <3>1, <3>2
      <2>5. QED
            BY <2>1, <2>2, <2>3, <2>4
<1>7. CASE N = <<>>
      <2>1. ScopeOf(x) = <<>>
            BY <1>4, <1>5, <1>7 DEF BlockScope
      <2>2. ASSUME NEW t, Inside(x, t) PROVE FALSE
            <3>1. t \in Seq(Steps) /\ Right(t) \in Seq(Steps) /\ t # <<>> /\ Right(t) # <<>>
                  BY <1>6, <2>2, KeyFacts, BelowChildren
            <3>2. \A l \in Seq(Steps) : AtOrBelow(<<>>, l) => l = <<>>
                  BY TidyRoot, BelowOrder
            <3>3. QED
                  BY <1>6, <1>7, <2>2, <3>1, <3>2
      <2>3. QED
            BY <2>1, <2>2, TidyRoot
<1>8. CASE N \in Blocks
      <2>1. At[Parent(N)].subtype # "FUNCTION_DEF"
            BY <1>8, BlockFacts
      <2>2. ScopeOf(x) = N
            BY <1>4, <1>5, <2>1 DEF BlockScope
      <2>3. N \in Keys
            BY <1>8 DEF Keys
      <2>4. Inside(x, N)
            BY <1>3, <2>3, PlainInside
      <2>5. ASSUME NEW t, Inside(x, t) PROVE AtOrBelow(N, t)
            <3>1. Right(t) \in Seq(Steps) /\ AtOrBelow(Right(t), Right(t)) /\ t \in Seq(Steps)
                  BY <1>6, <2>5, BelowChildren, BelowOrder
            <3>2. AtOrBelow(N, Right(t)) => IsWithin(N, t)
                  BY <1>3, <3>1, BelowChildren
            <3>3. QED
                  BY <1>3, <1>6, <2>5, <3>1, <3>2, BelowOrder
      <2>6. QED
            BY <1>3, <1>8, <2>2, <2>4, <2>5
<1>9. CASE N # <<>> /\ N \notin Blocks
      <2>1. PICK D : D = Parent(N)
            OBVIOUS
      <2>2. At[D].subtype = "FUNCTION_DEF"
            BY <1>3, <1>4, <1>9, <2>1 DEF Blocks, IsInnerBlock, NodePaths
      <2>3. D \in Seq(Steps) /\ IsWithin(N, D)
            BY <1>3, <1>9, <2>1, WithinParent
      <2>4. IsNode(D)
            BY <1>4, <2>3, NodeAbove DEF IsNode
      <2>5. D \in Definitions /\ D \in Keys
            <3>1. D \in NodePaths
                  BY <2>3, <2>4 DEF NodePaths
            <3>2. D \in Definitions
                  BY <2>2, <3>1, DefinitionNode
            <3>3. QED
                  BY <3>2, DefinitionFacts DEF Keys
      <2>6. ScopeOf(x) = D
            BY <1>4, <1>5, <1>9, <2>1, <2>2 DEF BlockScope
      <2>7. IsWithin(x, D)
            <3>1. AtOrBelow(x, N) /\ AtOrBelow(N, D) /\ x # N
                  BY <1>1, <1>3, <2>3, BelowOrder
            <3>2. AtOrBelow(x, D)
                  BY <1>1, <1>3, <2>3, <3>1, BelowOrder
            <3>3. x # D
                  BY <1>1, <2>2
            <3>4. QED
                  BY <1>1, <2>3, <3>2, <3>3, BelowOrder
      <2>8. Inside(x, D)
            BY <2>5, <2>7, PlainInside
      <2>9. ASSUME NEW t, Inside(x, t) PROVE AtOrBelow(D, t)
            <3>1. /\ Right(t) \in Seq(Steps) /\ AtOrBelow(Right(t), Right(t)) /\ t \in Seq(Steps)
                  /\ Parent(Right(t)) = t /\ AtOrBelow(t, t)
                  BY <1>6, <2>9, BelowChildren, BelowOrder
            <3>2. CASE t \in Blocks
                  <4>1. IsWithin(N, t)
                        BY <1>3, <1>6, <1>9, <2>9, <3>1, <3>2, BelowOrder
                  <4>2. QED
                        BY <1>3, <2>1, <3>1, <4>1, WithinParent
            <3>3. CASE t \in Definitions
                  <4>1. IsWithin(N, t)
                        BY <1>3, <1>6, <2>9, <3>1, <3>3, BelowChildren
                  <4>2. QED
                        BY <1>3, <2>1, <3>1, <4>1, WithinParent
            <3>4. QED
                  BY <1>6, <2>9, <3>2, <3>3
      <2>10. QED
             BY <2>3, <2>5, <2>6, <2>8, <2>9
<1>10. QED
       BY <1>3, <1>7, <1>8, <1>9

(* Where an identifier is declared: the innermost part that is open at it. *)
LEMMA ScopeFacts ==
  ASSUME Tidy(tree), NEW x \in Identifiers
  PROVE  /\ ScopeOf(x) \in Seq(Steps) /\ (ScopeOf(x) = <<>> \/ Inside(x, ScopeOf(x)))
         /\ \A t : Inside(x, t) => AtOrBelow(ScopeOf(x), t)
         /\ x \in Names => ScopeOf(x) = <<>> /\ ~IsParameter(x) /\ IsDeclared(x)
         /\ IsParameter(x) => IsDeclared(x) /\ x \notin Names /\ ScopeOf(x) \in Functions
         /\ ~IsParameter(x) => ScopeOf(x) = <<>> \/ ScopeOf(x) \in Blocks \/ ScopeOf(x) \in Definitions
<1>1. CASE x \in Names
      <2>1. PICK h \in Declarators : x = Left(h)
            BY <1>1 DEF Names
      <2>2. ScopeOf(x) = <<>> /\ ~IsParameter(x) /\ IsDeclared(x) /\ \A t : ~Inside(x, t)
            BY <2>1, NameFacts
      <2>3. QED
            BY <2>2, TidyRoot
<1>2. CASE IsParameter(x)
      <2>1. PICK h \in Declarators :
              /\ IsDeclared(x) /\ x \notin Names /\ ScopeOf(x) = Region[h] /\ Inside(x, Region[h])
              /\ \A t : Inside(x, t) => t = Region[h]
            BY <1>2, ParameterFacts
      <2>2. Region[h] \in Functions
            BY DEF Functions
      <2>3. Region[h] \in Seq(Steps) /\ AtOrBelow(Region[h], Region[h])
            BY <2>2, FunctionFacts, BelowOrder
      <2>4. QED
            BY <1>2, <2>1, <2>2, <2>3
<1>3. CASE x \notin Names /\ ~IsParameter(x)
      <2>1. IsPlainId(x)
            BY <1>3 DEF IsPlainId
      <2>2. QED
            BY <1>3, <2>1, PlainScope
<1>4. QED
      BY <1>1, <1>2, <1>3
=============================================================================
