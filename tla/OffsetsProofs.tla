--------------------------- MODULE OffsetsProofs ----------------------------
(***************************************************************************)
(* The layout that calculate_offsets (mips.c:207) makes, for every tree of *)
(* tables, of any depth and width, and whatever int size holds at first:   *)
(* where no garbage goes into an offset, variables in nested scopes do not *)
(* overlap; all are aligned; and a frame reaches to the end of its         *)
(* function's variables and those of the blocks right in it.               *)
(***************************************************************************)
EXTENDS Offsets, TLAPS, SequenceTheorems, WellFoundedInduction

(***************************************************************************)
(* The size of an array is a product that runs over the dimensions         *)
(* (mips.c:244), so what it is has to be proved by induction on their      *)
(* number: a number, and not negative if the size of an element is not.    *)
(***************************************************************************)

(* A set of numbers with 0 and all successors has them all.                *)
LEMMA Induction ==
  ASSUME NEW Good, 0 \in Good, \A n \in Nat : n \in Good => n + 1 \in Good
  PROVE  Nat \subseteq Good
<1> DEFINE Bad == Nat \ Good
<1> SUFFICES ASSUME Bad # {} PROVE FALSE
    OBVIOUS
<1>1. PICK m \in Bad : \A k \in Bad : <<k, m>> \notin OpToRel(<, Nat)
      <2>1. Bad \subseteq Nat
            OBVIOUS
      <2> HIDE DEF Bad
      <2>2. QED
            BY <2>1, WFMin, NatLessThanWellFounded, Zenon
<1>2. \A k \in Bad : ~(k < m)
      <2>1. m \in Nat /\ \A k \in Bad : k \in Nat
            OBVIOUS
      <2> HIDE DEF Bad
      <2>2. QED
            BY <1>1, <2>1, Zenon DEF OpToRel
<1>3. m \in Nat /\ m # 0 /\ m - 1 \in Nat /\ (m - 1) + 1 = m /\ m - 1 < m
      OBVIOUS
<1>4. m - 1 \notin Good
      BY <1>3
<1>5. QED
      BY <1>2, <1>3, <1>4

(* f is the product in Times, as far as the first n dimensions.            *)
IsProduct(f, S, size, dims, n) ==
  /\ f \in [0..n -> S]
  /\ \A k \in 0..n : f[k] = IF k = 0 THEN size ELSE f[k - 1] * dims[k]

(* There is such a function: Times does not choose from nothing.           *)
LEMMA ProductExists ==
  ASSUME NEW S, S = Int \/ S = Nat, NEW size \in S, NEW dims \in Seq(Nat)
  PROVE  \E f : IsProduct(f, S, size, dims, Len(dims))
<1> DEFINE Good == {n \in Nat : n <= Len(dims) => \E f : IsProduct(f, S, size, dims, n)}
<1>1. 0 \in Good
      <2>1. IsProduct([k \in 0..0 |-> size], S, size, dims, 0)
            BY DEF IsProduct
      <2>2. QED
            BY <2>1
<1>2. ASSUME NEW n \in Nat, n \in Good PROVE n + 1 \in Good
      <2> SUFFICES ASSUME n + 1 <= Len(dims) PROVE \E g : IsProduct(g, S, size, dims, n + 1)
          OBVIOUS
      <2>1. PICK f : IsProduct(f, S, size, dims, n)
            BY <1>2
      <2>2. dims[n + 1] \in Nat /\ f[n] \in S
            BY <2>1 DEF IsProduct
      <2>3. f[n] * dims[n + 1] \in S
            <3>1. CASE S = Int
                  BY <2>2, <3>1
            <3>2. CASE S = Nat
                  BY <2>2, <3>2
            <3>3. QED
                  BY <3>1, <3>2
      <2> DEFINE g == [k \in 0..(n + 1) |-> IF k <= n THEN f[k] ELSE f[n] * dims[n + 1]]
      <2>4. g \in [0..(n + 1) -> S]
            BY <2>1, <2>3 DEF IsProduct
      <2>5. ASSUME NEW k \in 0..n PROVE g[k] = IF k = 0 THEN size ELSE g[k - 1] * dims[k]
            BY <2>1 DEF IsProduct
      <2>6. g[n + 1] = g[(n + 1) - 1] * dims[n + 1]
            OBVIOUS
      <2>7. \A k \in 0..(n + 1) : k \in 0..n \/ (k = n + 1 /\ k # 0)
            OBVIOUS
      <2> HIDE DEF g
      <2>8. \A k \in 0..(n + 1) : g[k] = IF k = 0 THEN size ELSE g[k - 1] * dims[k]
            BY <2>5, <2>6, <2>7
      <2>9. QED
            BY <2>4, <2>8 DEF IsProduct
<1> HIDE DEF Good
<1>3. Nat \subseteq Good
      BY <1>1, <1>2, Induction
<1>4. QED
      BY <1>3 DEF Good

(* What a symbol takes is a number of the same kind as its element's size. *)
LEMMA TimesKeeps ==
  ASSUME NEW S, S = Int \/ S = Nat, NEW size \in S, NEW dims \in Seq(Nat)
  PROVE  Times(size, dims) \in S
<1> DEFINE n == Len(dims)
           product == CHOOSE g : g = [k \in 0..n |-> IF k = 0 THEN size ELSE g[k - 1] * dims[k]]
           Good == {k \in Nat : k <= n => product[k] \in S}
<1>1. PICK f : IsProduct(f, S, size, dims, n)
      BY ProductExists
<1>2. f = [k \in 0..n |-> IF k = 0 THEN size ELSE f[k - 1] * dims[k]]
      BY <1>1 DEF IsProduct
<1>3. product = [k \in 0..n |-> IF k = 0 THEN size ELSE product[k - 1] * dims[k]]
      BY <1>2
<1>4. Times(size, dims) = product[n]
      BY DEF Times
<1> HIDE DEF product
<1>5. 0 \in Good
      BY <1>3
<1>6. ASSUME NEW k \in Nat, k \in Good PROVE k + 1 \in Good
      <2> SUFFICES ASSUME k + 1 <= n PROVE product[k + 1] \in S
          OBVIOUS
      <2>1. product[k + 1] = product[k] * dims[k + 1]
            BY <1>3
      <2>2. product[k] \in S /\ dims[k + 1] \in Nat
            BY <1>6
      <2>3. CASE S = Int
            BY <2>1, <2>2, <2>3
      <2>4. CASE S = Nat
            BY <2>1, <2>2, <2>4
      <2>5. QED
            BY <2>3, <2>4
<1> HIDE DEF Good
<1>7. Nat \subseteq Good
      BY <1>5, <1>6, Induction
<1>8. QED
      BY <1>4, <1>7 DEF Good

(* The size of an array is not negative if that of its element is not.     *)
LEMMA TimesFits ==
  ASSUME NEW size \in Int, NEW dims \in Seq(Nat)
  PROVE  Times(size, dims) \in Int /\ (size >= 0 => Times(size, dims) \in Nat)
<1>1. Times(size, dims) \in Int
      BY TimesKeeps
<1>2. ASSUME size >= 0 PROVE Times(size, dims) \in Nat
      <2>1. size \in Nat
            BY <1>2
      <2>2. QED
            BY <2>1, TimesKeeps
<1>3. QED
      BY <1>1, <1>2
-----------------------------------------------------------------------------
(***************************************************************************)
(* The invariant Inv.  The active calls are a path in the tree, and what   *)
(* is placed are the symbols of the tables before that path, in the order  *)
(* of a walk from parent to child and from left to right.  A call's offset *)
(* is the end of what its own table has, and the next call starts there;   *)
(* where no garbage went in, offsets only rise along the calls (Rising),   *)
(* and whatever encloses a new symbol ends before it (EndsBefore).         *)
(***************************************************************************)
Calls ==
  [parent : Seq(Nat), child : Nat \ {0}, next : Nat, initial : Int, offset : Int,
   totalsize : Int, largestsize : Nat, size : Int]

(* The table that call i is at, and the first byte after a symbol.         *)
PathOf(i) == Append(calls[i].parent, calls[i].child)
End(s)    == offset[s] + Times(ElementSize(s), DimsOf(s))
Prefix(p, q) == Len(p) <= Len(q) /\ \A k \in 1..Len(p) : p[k] = q[k]

(* A symbol with an offset is one of a table that was started.             *)
Placed(s) ==
  /\ s = <<s[1], s[2]>>
  /\ s[1] \in DOMAIN sizeofsymbols
  /\ Len(s[1]) > 0
  /\ s[2] \in 1..Len(tables[s[1]].symbols)
  /\ offset[s] \in Int

Typed ==
  /\ IsTree(tables)
  /\ calls \in Seq(Calls)
  /\ DOMAIN sizeofsymbols \subseteq DOMAIN tables
  /\ \A p \in DOMAIN sizeofsymbols : sizeofsymbols[p] \in Int
  /\ \A s \in Symbols : Placed(s)
  /\ trapped => Active

(* Where call i is: its parent is the path of the calls before it, and it  *)
(* started at the offset of the last of them.                              *)
Linked(i) ==
  /\ Len(calls[i].parent) = i - 1
  /\ \A k \in 1..(i - 1) : calls[i].parent[k] = calls[k].child
  /\ calls[i].parent \in DOMAIN tables
  /\ calls[i].child <= tables[calls[i].parent].children + 1
  /\ i = 1 => calls[i].initial = 0
  /\ i < Len(calls) => calls[i].next > 0 /\ calls[i + 1].initial = calls[i].offset

(* How far it is in its table: all is placed when it calls itself.         *)
Within(i) ==
  calls[i].next > 0 =>
    /\ calls[i].child <= tables[calls[i].parent].children
    /\ calls[i].next <= Len(tables[PathOf(i)].symbols) + 1
    /\ PathOf(i) \in DOMAIN sizeofsymbols
    /\ calls[i].offset = calls[i].initial + calls[i].totalsize
    /\ i < Len(calls) => calls[i].next = Len(tables[PathOf(i)].symbols) + 1

Chained == \A i \in 1..Len(calls) : Linked(i) /\ Within(i)

(* Nothing is placed in tables that come after the one a call is at, nor   *)
(* in that one before it was started.                                      *)
Ahead ==
  \A i \in 1..Len(calls), s \in Symbols :
    Prefix(calls[i].parent, s[1]) /\ Len(s[1]) >= i =>
      /\ s[1][i] <= calls[i].child
      /\ s[1][i] = calls[i].child => calls[i].next > 0

(* Below the table that is placed nothing is, and in it only what comes    *)
(* before the next symbol.                                                 *)
Under ==
  Active => \A s \in Symbols : Prefix(Path, s[1]) => s[1] = Path /\ s[2] < Current.next

(* Past a symbol whose type sets it, size is not negative.                 *)
Settled ==
  \A i \in 1..Len(calls) :
    Determined(<<PathOf(i), calls[i].next - 1>>) => calls[i].size >= 0

(* No garbage is in what the table that call i is at has placed so far.    *)
Clean(i) == \A u \in Symbols : u[1] = PathOf(i) => Determined(u)

Rising ==
  \A i \in 1..Len(calls) :
    calls[i].next > 0 /\ Clean(i) => calls[i].initial <= calls[i].offset

(* What is placed in the table that a call is at ends before its offset.   *)
Before ==
  \A i \in 1..Len(calls), s \in Symbols :
    s[1] = PathOf(i) /\ Sized(s) => End(s) <= calls[i].offset

(* A symbol ends before those start that are placed after it in its own    *)
(* table or in a table below: ScopesDisjoint, but in the order of placing. *)
Apart ==
  \A s, t \in Symbols :
    Prefix(s[1], t[1]) /\ (s[1] = t[1] => s[2] < t[2]) /\ Sized(s) /\ NoGarbage(Len(s[1]), t) =>
      End(s) <= offset[t]

(* No symbol that garbage did not move lies below the frame.               *)
Inside == \A t \in Symbols : NoGarbage(0, t) => 0 <= offset[t]

Aligned == \A s \in Symbols : Sized(s) => offset[s] % ElementSize(s) = 0

Inv ==
  /\ Typed /\ Chained /\ Ahead /\ Under
  /\ Settled /\ Rising /\ Before
  /\ Apart /\ Inside /\ Aligned

-----------------------------------------------------------------------------
(* Facts about one state.                                                  *)

(* The alignment loop (mips.c:234) ends at a multiple of size.             *)
LEMMA PaddingFits ==
  ASSUME NEW at \in Int, NEW size \in Int \ {0}
  PROVE  /\ Padding(at, size) \in Nat
         /\ size \in {1, 2, 4} => (at + Padding(at, size)) % size = 0
<1>1. Abs(size) \in Nat \ {0} /\ -at \in Int
      BY DEF Abs
<1>2. \A n \in Nat \ {0}, m \in Int : m % n \in Nat
      OBVIOUS
<1>3. Padding(at, size) \in Nat
      BY <1>1, <1>2 DEF Padding
<1>4. CASE size = 1
      BY <1>4 DEF Padding, Abs
<1>5. CASE size = 2
      BY <1>5 DEF Padding, Abs
<1>6. CASE size = 4
      BY <1>6 DEF Padding, Abs
<1>7. QED
      BY <1>3, <1>4, <1>5, <1>6

(* The size of a sized type is what C asks for, else it is the old value.  *)
LEMMA SizesFit ==
  ASSUME NEW s, NEW previous \in Int
  PROVE  /\ SizeOf(TypeOf(s), previous) \in Int
         /\ previous >= 0 => SizeOf(TypeOf(s), previous) >= 0
         /\ ElementSize(s) \in {1, 2, 4}
         /\ Sized(s) => SizeOf(TypeOf(s), previous) = ElementSize(s)
<1> DEFINE type == TypeOf(s)
<1> HIDE DEF type
<1>1. CASE "CHAR" \in type
      <2>1. {"CHAR", "SHORT"} \cap type # {}
            BY <1>1
      <2>2. SizeOf(type, previous) = 1 /\ ElementSize(s) = 1
            BY <1>1, <2>1 DEF SizeOf, ElementSize, type
      <2>3. QED
            BY <2>2 DEF type
<1>2. CASE "CHAR" \notin type /\ "SHORT" \in type
      <2>1. {"CHAR", "SHORT"} \cap type # {}
            BY <1>2
      <2>2. SizeOf(type, previous) = 2 /\ ElementSize(s) = 2
            BY <1>2, <2>1 DEF SizeOf, ElementSize, type
      <2>3. QED
            BY <2>2 DEF type
<1>3. CASE "CHAR" \notin type /\ "SHORT" \notin type
      <2>1. {"CHAR", "SHORT"} \cap type = {}
            BY <1>3
      <2>2. Sized(s) => {"INT", "LONG"} \cap type # {}
            BY <1>3 DEF Sized, type
      <2>3. ElementSize(s) = 4
            BY <1>3 DEF ElementSize, type
      <2>4. SizeOf(type, previous) = IF {"INT", "LONG"} \cap type # {} THEN 4 ELSE previous
            BY <1>3, <2>1 DEF SizeOf
      <2>5. SizeOf(type, previous) \in Int /\ (previous >= 0 => SizeOf(type, previous) >= 0)
            BY <2>4
      <2>6. Sized(s) => SizeOf(type, previous) = 4
            BY <2>2, <2>4
      <2>7. QED
            BY <2>3, <2>5, <2>6 DEF type
<1>4. QED
      BY <1>1, <1>2, <1>3

(* Of equal length, a prefix is all.                                       *)
LEMMA SameSequence ==
  ASSUME NEW p \in Seq(Nat), NEW q \in Seq(Nat), Len(p) = Len(q), Prefix(p, q)
  PROVE  p = q
BY DEF Prefix

(* Encloses, said of the elements instead of by SubSeq.                    *)
LEMMA EnclosesIsPrefix ==
  ASSUME NEW p \in Seq(Nat), NEW q \in Seq(Nat)
  PROVE  Encloses(p, q) <=> Prefix(p, q)
<1>1. CASE Len(p) <= Len(q)
      <2>1. SubSeq(q, 1, Len(p)) \in Seq(Nat) /\ Len(SubSeq(q, 1, Len(p))) = Len(p)
            BY <1>1
      <2>2. \A k \in 1..Len(p) : SubSeq(q, 1, Len(p))[k] = q[k]
            BY <1>1
      <2>3. QED
            BY <1>1, <2>1, <2>2 DEF Encloses, Prefix
<1>2. QED
      BY <1>1 DEF Encloses, Prefix

(* The types of a call's variables.                                        *)
LEMMA CallFacts ==
  ASSUME Typed, NEW i \in 1..Len(calls)
  PROVE  /\ calls[i] \in Calls
         /\ calls[i].parent \in Seq(Nat)
         /\ calls[i].next \in Nat /\ calls[i].initial \in Int /\ calls[i].offset \in Int
         /\ calls[i].totalsize \in Int /\ calls[i].largestsize \in Nat
         /\ calls[i].child \in Nat \ {0} /\ calls[i].size \in Int
<1>1. calls[i] \in Calls
      BY DEF Typed
<1>2. QED
      BY <1>1 DEF Calls

(* The path of call i is made of the children of calls 1 to i.             *)
LEMMA PathFacts ==
  ASSUME Typed, Chained, NEW i \in 1..Len(calls)
  PROVE  /\ PathOf(i) \in Seq(Nat)
         /\ Len(PathOf(i)) = i
         /\ \A k \in 1..i : PathOf(i)[k] = calls[k].child
         /\ calls[i].child <= tables[calls[i].parent].children => PathOf(i) \in DOMAIN tables
<1>1. calls[i].parent \in Seq(Nat) /\ calls[i].child \in Nat \ {0}
      BY CallFacts
<1>2. /\ Len(calls[i].parent) = i - 1
      /\ \A k \in 1..(i - 1) : calls[i].parent[k] = calls[k].child
      /\ calls[i].parent \in DOMAIN tables
      BY DEF Chained, Linked
<1>3. calls[i].child <= tables[calls[i].parent].children =>
        Append(calls[i].parent, calls[i].child) \in DOMAIN tables
      BY <1>1, <1>2 DEF Typed, IsTree
<1>4. i \in Nat \ {0}
      BY DEF Typed
<1>5. QED
      BY <1>1, <1>2, <1>3, <1>4 DEF PathOf

(* The last call.                                                          *)
LEMMA CurrentFacts ==
  ASSUME Typed, Chained, Active
  PROVE  /\ Len(calls) \in Nat \ {0}
         /\ Len(calls) \in 1..Len(calls)
         /\ Current = calls[Len(calls)]
         /\ Path = PathOf(Len(calls))
         /\ InTables => Path \in DOMAIN tables
<1>1. Len(calls) \in Nat \ {0} /\ Len(calls) \in 1..Len(calls)
      BY DEF Typed, Active
<1>2. Current = calls[Len(calls)] /\ Path = PathOf(Len(calls))
      BY DEF Current, Path, PathOf
<1>3. QED
      BY <1>1, <1>2, PathFacts DEF InTables

(* The types of a symbol's data.                                           *)
LEMMA SymbolFacts ==
  ASSUME Typed, NEW s \in Symbols
  PROVE  /\ s[1] \in Seq(Nat)
         /\ s[2] \in Nat \ {0}
         /\ Len(s[1]) \in Nat \ {0}
         /\ offset[s] \in Int
         /\ Times(ElementSize(s), DimsOf(s)) \in Nat
         /\ End(s) \in Int
<1>1. Placed(s) /\ s[1] \in DOMAIN tables
      BY DEF Typed, Placed
<1>2. /\ s[1] \in Seq(Nat)
      /\ Len(tables[s[1]].symbols) \in Nat
      /\ \A k \in 1..Len(tables[s[1]].symbols) : tables[s[1]].symbols[k].dims \in Seq(Nat)
      BY <1>1 DEF Typed, IsTree
<1>3. DimsOf(s) \in Seq(Nat)
      BY <1>1, <1>2 DEF Placed, DimsOf
<1>4. ElementSize(s) \in Int /\ ElementSize(s) >= 0
      <2>1. ElementSize(s) \in {1, 2, 4}
            BY SizesFit
      <2>2. QED
            BY <2>1
<1>5. Times(ElementSize(s), DimsOf(s)) \in Nat
      BY <1>3, <1>4, TimesFits
<1>6. QED
      BY <1>1, <1>2, <1>5 DEF Placed, End

(* A table that encloses the one of a call is the one of a call before.    *)
LEMMA PrefixIsPath ==
  ASSUME Typed, Chained, NEW i \in 1..Len(calls), NEW p \in Seq(Nat), Len(p) > 0,
         Prefix(p, PathOf(i))
  PROVE  Len(p) \in 1..i /\ p = PathOf(Len(p))
<1>1. /\ PathOf(i) \in Seq(Nat) /\ Len(PathOf(i)) = i
      /\ \A k \in 1..i : PathOf(i)[k] = calls[k].child
      BY PathFacts
<1>2. Len(p) \in 1..i /\ Len(p) \in 1..Len(calls)
      BY <1>1 DEF Prefix, Typed
<1>3. /\ PathOf(Len(p)) \in Seq(Nat) /\ Len(PathOf(Len(p))) = Len(p)
      /\ \A k \in 1..Len(p) : PathOf(Len(p))[k] = calls[k].child
      BY <1>2, PathFacts
<1>4. ASSUME NEW k \in 1..Len(p) PROVE p[k] = PathOf(Len(p))[k]
      <2>1. p[k] = PathOf(i)[k]
            BY DEF Prefix
      <2>2. PathOf(i)[k] = calls[k].child
            BY <1>1, <1>2
      <2>3. PathOf(Len(p))[k] = calls[k].child
            BY <1>3
      <2>4. QED
            BY <2>1, <2>2, <2>3
<1>5. Prefix(p, PathOf(Len(p)))
      BY <1>2, <1>3, <1>4 DEF Prefix
<1>6. QED
      BY <1>2, <1>3, <1>5, SameSequence

(* The k-th of the tables beside the one that call i is at.                *)
LEMMA SiblingFacts ==
  ASSUME NEW parent \in Seq(Nat), NEW child \in Nat, NEW k \in Nat, NEW path,
         path = Append(parent, child)
  PROVE  /\ path[Len(path)] = child
         /\ [path EXCEPT ![Len(path)] = k] = Append(parent, k)
<1>1. PICK q : q = [path EXCEPT ![Len(path)] = k]
      OBVIOUS
<1>2. PICK r : r = Append(parent, k)
      OBVIOUS
<1>3. /\ path \in Seq(Nat) /\ Len(path) = Len(parent) + 1
      /\ path[Len(path)] = child
      /\ \A i \in 1..Len(parent) : path[i] = parent[i]
      OBVIOUS
<1>4. /\ q \in Seq(Nat) /\ Len(q) = Len(path) /\ q[Len(path)] = k
      /\ \A i \in 1..Len(parent) : q[i] = path[i]
      <2>1. Len(path) \in 1..Len(path) /\ \A i \in 1..Len(parent) : i \in 1..Len(path) /\ i # Len(path)
            BY <1>3
      <2>2. /\ q \in Seq(Nat) /\ Len(q) = Len(path)
            /\ \A i \in 1..Len(path) : q[i] = IF i = Len(path) THEN k ELSE path[i]
            <3>1. PICK l : l = Len(path)
                  OBVIOUS
            <3>2. l \in Nat /\ l \in 1..l /\ path \in [1..l -> Nat]
                  BY <1>3, <2>1, <3>1, LenProperties
            <3>3. q = [path EXCEPT ![l] = k]
                  BY <1>1, <3>1
            <3>4. q \in [1..l -> Nat] /\ \A i \in 1..l : q[i] = IF i = l THEN k ELSE path[i]
                  BY <3>2, <3>3
            <3>5. q \in Seq(Nat) /\ Len(q) = l
                  BY <3>2, <3>4
            <3>6. QED
                  BY <3>1, <3>4, <3>5
      <2>3. QED
            BY <2>1, <2>2
<1>5. /\ r \in Seq(Nat) /\ Len(r) = Len(path) /\ r[Len(path)] = k
      /\ \A i \in 1..Len(parent) : r[i] = parent[i]
      BY <1>2, <1>3
<1>6. \A i \in 1..Len(path) : i \in 1..Len(parent) \/ i = Len(path)
      BY <1>3
<1>7. Prefix(q, r)
      BY <1>3, <1>4, <1>5, <1>6 DEF Prefix
<1>8. QED
      BY <1>1, <1>2, <1>3, <1>4, <1>5, <1>7, SameSequence

(* Determined, said of a call's table and its place there.                 *)
LEMMA DeterminedThere ==
  ASSUME NEW parent \in Seq(Nat), NEW child \in Nat, NEW j
  PROVE  Determined(<<Append(parent, child), j>>) <=>
           \/ \E l \in 1..j : Sized(<<Append(parent, child), l>>)
           \/ \E k \in 1..(child - 1) :
                \E l \in 1..Len(tables[Append(parent, k)].symbols) : Sized(<<Append(parent, k), l>>)
<1> DEFINE path == Append(parent, child)
<1>1. path[Len(path)] = child
      BY SiblingFacts
<1>2. ASSUME NEW k \in 1..(child - 1) PROVE [path EXCEPT ![Len(path)] = k] = Append(parent, k)
      <2>1. k \in Nat
            OBVIOUS
      <2>2. QED
            BY <2>1, SiblingFacts
<1> HIDE DEF path
<1>3. Determined(<<path, j>>) <=>
        \/ \E l \in 1..j : Sized(<<path, l>>)
        \/ \E k \in 1..(child - 1) :
             \E l \in 1..Len(tables[Append(parent, k)].symbols) : Sized(<<Append(parent, k), l>>)
      BY <1>1, <1>2 DEF Determined
<1>4. QED
      BY <1>3 DEF path

(* Past a symbol that sets size, all others of its table are determined.   *)
LEMMA DeterminedAfter ==
  ASSUME NEW p, NEW j, NEW k, 1..j \subseteq 1..k, Determined(<<p, j>>)
  PROVE  Determined(<<p, k>>)
<1>1. <<p, j>>[1] = p /\ <<p, j>>[2] = j /\ <<p, k>>[1] = p /\ <<p, k>>[2] = k
      OBVIOUS
<1>2. QED
      BY <1>1, Zenon DEF Determined

(* What a symbol is depends on the tables only.                            *)
LEMMA TypesStay ==
  ASSUME tables' = tables
  PROVE  \A s : Sized(s)' = Sized(s) /\ Determined(s)' = Determined(s)
<1>1. \A s : Sized(s)' = Sized(s)
      BY DEF Sized, TypeOf
<1>2. \A s : Determined(s)' = Determined(s)
      BY <1>1 DEF Determined
<1>3. QED
      BY <1>1, <1>2

(* The first table of a call, before its first symbol: size is garbage.    *)
LEMMA NotDeterminedYet ==
  ASSUME NEW parent \in Seq(Nat)
  PROVE  ~Determined(<<Append(parent, 1), -1>>)
<1>1. 1..(-1) = {} /\ 1..(1 - 1) = {} /\ 1 \in Nat
      OBVIOUS
<1>2. Determined(<<Append(parent, 1), -1>>) <=>
        \/ \E l \in 1..(-1) : Sized(<<Append(parent, 1), l>>)
        \/ \E k \in 1..(1 - 1) :
             \E l \in 1..Len(tables[Append(parent, k)].symbols) : Sized(<<Append(parent, k), l>>)
      BY <1>1, DeterminedThere, Zenon
<1>3. QED
      BY <1>1, <1>2, Zenon

(* Where no garbage went in, the calls from i on start no lower than i.    *)
LEMMA ChainRises ==
  ASSUME Typed, Chained, Rising, Active, Current.next > 0, NEW i \in 1..Len(calls),
         \A k \in i..Len(calls) : Clean(k)
  PROVE  calls[i].initial <= Current.offset
<1> DEFINE n == Len(calls)
           Good == {j \in Nat : j \in i..n => calls[i].initial <= calls[j].offset}
<1>1. n \in Nat /\ n \in i..n /\ Current = calls[n]
      BY CurrentFacts
<1>2. ASSUME NEW j \in i..n PROVE calls[j].initial <= calls[j].offset
      <2>1. j \in 1..n /\ Clean(j)
            OBVIOUS
      <2>2. calls[j].next > 0
            BY <1>1, <2>1 DEF Chained, Linked
      <2>3. QED
            BY <2>1, <2>2 DEF Rising
<1>3. 0 \in Good
      OBVIOUS
<1>4. ASSUME NEW j \in Nat, j \in Good PROVE j + 1 \in Good
      <2> SUFFICES ASSUME j + 1 \in i..n PROVE calls[i].initial <= calls[j + 1].offset
          OBVIOUS
      <2>1. CASE j + 1 = i
            BY <1>2, <2>1
      <2>2. CASE j + 1 # i
            <3>1. j \in i..n /\ j \in 1..n /\ j + 1 \in 1..n /\ j < n
                  BY <1>1, <2>2
            <3>2. calls[j + 1].initial = calls[j].offset
                  BY <3>1 DEF Chained, Linked
            <3>3. calls[i].initial <= calls[j].offset /\ calls[j + 1].initial <= calls[j + 1].offset
                  BY <1>2, <1>4, <3>1
            <3>4. /\ calls[i].initial \in Int /\ calls[j].offset \in Int
                  /\ calls[j + 1].initial \in Int /\ calls[j + 1].offset \in Int
                  BY <3>1, CallFacts
            <3>5. QED
                  BY <3>2, <3>3, <3>4
      <2>3. QED
            BY <2>1, <2>2
<1> HIDE DEF Good
<1>5. Nat \subseteq Good
      BY <1>3, <1>4, Induction
<1>6. QED
      BY <1>1, <1>5 DEF Good

-----------------------------------------------------------------------------
(* Steps that change the last call only.                                   *)

(* All calls but the last stay as they are.                                *)
LEMMA BecomeFacts ==
  ASSUME Typed, Active, NEW c \in Calls, Become(c)
  PROVE  /\ calls' \in Seq(Calls)
         /\ Len(calls') = Len(calls)
         /\ calls'[Len(calls)] = c
         /\ \A i \in 1..(Len(calls) - 1) : calls'[i] = calls[i]
         /\ Active'
         /\ Current' = c
         /\ Path' = Append(c.parent, c.child)
<1>1. calls \in Seq(Calls) /\ calls # <<>> /\ Len(calls) \in 1..Len(calls)
      BY DEF Typed, Active
<1>2. /\ calls' \in Seq(Calls) /\ Len(calls') = Len(calls)
      /\ calls'[Len(calls)] = c /\ \A i \in 1..(Len(calls) - 1) : calls'[i] = calls[i]
      BY <1>1 DEF Become
<1>3. Current' = c
      BY <1>2 DEF Current
<1>4. calls' # <<>>
      BY <1>1, <1>2
<1>5. QED
      BY <1>2, <1>3, <1>4 DEF Active, Path

(* A call that stays at its table keeps the chain.                         *)
LEMMA StaysLinked ==
  ASSUME Typed, Chained, Active, UNCHANGED tables, NEW c \in Calls, Become(c),
         c.parent = Current.parent, c.child = Current.child, c.initial = Current.initial
  PROVE  /\ \A i \in 1..Len(calls') : Linked(i)'
         /\ \A i \in 1..Len(calls) : PathOf(i)' = PathOf(i)
         /\ Path' = Path
<1> DEFINE n == Len(calls)
<1>1. /\ n \in Nat \ {0} /\ n \in 1..n /\ Current = calls[n]
      /\ calls' \in Seq(Calls) /\ Len(calls') = n /\ calls'[n] = c
      /\ \A i \in 1..(n - 1) : calls'[i] = calls[i]
      BY BecomeFacts, CurrentFacts
<1>2. \A i \in 1..n : /\ calls'[i].parent = calls[i].parent
                      /\ calls'[i].child = calls[i].child
                      /\ calls'[i].initial = calls[i].initial
                      /\ i < n => calls'[i] = calls[i]
      BY <1>1
<1>3. ASSUME NEW i \in 1..n PROVE Linked(i)'
      <2>1. Linked(i)
            BY DEF Chained
      <2>2. /\ Len(calls'[i].parent) = i - 1
            /\ \A k \in 1..(i - 1) : calls'[i].parent[k] = calls'[k].child
            <3>1. \A k \in 1..(i - 1) : k \in 1..n
                  BY <1>1
            <3>2. QED
                  BY <1>2, <2>1, <3>1 DEF Linked
      <2>3. /\ calls'[i].parent \in DOMAIN tables
            /\ calls'[i].child <= tables[calls'[i].parent].children + 1
            /\ i = 1 => calls'[i].initial = 0
            BY <1>2, <2>1 DEF Linked
      <2>4. i < n => i + 1 \in 1..n /\ calls'[i].next > 0 /\ calls'[i + 1].initial = calls'[i].offset
            BY <1>1, <1>2, <2>1 DEF Linked
      <2>5. QED
            BY <1>1, <2>2, <2>3, <2>4 DEF Linked
<1>4. \A i \in 1..n : PathOf(i)' = PathOf(i)
      BY <1>2 DEF PathOf
<1>5. Path' = Path
      BY BecomeFacts DEF Path
<1>6. QED
      BY <1>1, <1>3, <1>4, <1>5

-----------------------------------------------------------------------------
(* Each action keeps the invariant.                                        *)

(* The loop's next table (mips.c:217): none of its symbols is placed yet.  *)
LEMMA StartTableKeeps ==
  ASSUME Inv, StartTable
  PROVE  Inv'
<1> DEFINE n == Len(calls)
           c == [Current EXCEPT !.offset = Current.initial, !.totalsize = 0, !.next = 1]
<1> USE DEF Inv
<1>1. /\ Active /\ InTables /\ Current.next = 0
      /\ sizeofsymbols' = Put(sizeofsymbols, Path, 0)
      /\ Become(c)
      /\ tables' = tables /\ offset' = offset /\ trapped' = trapped
      BY DEF StartTable, InTables
<1>2. /\ n \in Nat \ {0} /\ n \in 1..n /\ Current = calls[n] /\ Path = PathOf(n)
      /\ Path \in DOMAIN tables
      BY <1>1, CurrentFacts
<1>3. Current \in Calls /\ Current.initial \in Int
      BY <1>2, CallFacts
<1>4. /\ c \in Calls /\ c.parent = Current.parent /\ c.child = Current.child
      /\ c.initial = Current.initial /\ c.offset = Current.initial
      /\ c.totalsize = 0 /\ c.next = 1 /\ c.size = Current.size
      <2>1. PICK o : o = Current.initial
            OBVIOUS
      <2>2. PICK z : z = 0
            OBVIOUS
      <2>3. PICK k : k = 1
            OBVIOUS
      <2>4. o \in Int /\ z \in Int /\ k \in Nat
            BY <1>3, <2>1, <2>2, <2>3
      <2>5. c = [Current EXCEPT !.offset = o, !.totalsize = z, !.next = k]
            BY <2>1, <2>2, <2>3
      <2> HIDE DEF c
      <2>6. c \in Calls
            BY <1>3, <2>4, <2>5 DEF Calls
      <2>7. QED
            BY <1>3, <2>1, <2>2, <2>3, <2>5, <2>6 DEF Calls
<1> HIDE DEF c
<1>5. /\ calls' \in Seq(Calls) /\ Len(calls') = n /\ calls'[n] = c
      /\ \A i \in 1..(n - 1) : calls'[i] = calls[i]
      /\ Current' = c /\ Active'
      BY <1>1, <1>4, BecomeFacts
<1>6. /\ \A i \in 1..Len(calls') : Linked(i)'
      /\ \A i \in 1..n : PathOf(i)' = PathOf(i)
      /\ Path' = Path
      BY <1>1, <1>4, StaysLinked
<1>7. Symbols' = Symbols /\ \A s \in Symbols : s[1] # Path
      <2>1. Prefix(Path, Path)
            BY <1>2, PathFacts DEF Prefix
      <2>2. \A s \in Symbols : s[1] = Path => s[2] < 0 /\ s[2] \in Nat
            BY <1>1, <2>1, SymbolFacts DEF Under
      <2>3. QED
            BY <1>1, <2>2 DEF Symbols
<1>8. Typed'
      <2>1. DOMAIN sizeofsymbols' = DOMAIN sizeofsymbols \cup {Path}
            BY <1>1 DEF Put
      <2>2. \A p \in DOMAIN sizeofsymbols' : p \in DOMAIN tables /\ sizeofsymbols'[p] \in Int
            BY <1>1, <1>2, <2>1 DEF Put, Typed
      <2>3. \A s \in Symbols' : Placed(s)'
            BY <1>1, <1>7, <2>1 DEF Typed, Placed
      <2>4. IsTree(tables)'
            BY <1>1 DEF Typed
      <2>5. QED
            BY <1>1, <1>5, <2>2, <2>3, <2>4 DEF Typed
<1>9. Chained'
      <2>1. ASSUME NEW i \in 1..(n - 1) PROVE Within(i)'
            <3>1. Within(i) /\ i \in 1..n
                  BY <1>2 DEF Chained
            <3>2. PathOf(i)' = PathOf(i) /\ calls'[i] = calls[i]
                  BY <1>5, <1>6, <3>1
            <3>3. QED
                  BY <1>1, <3>1, <3>2 DEF Within, Put
      <2>2. Within(n)'
            <3>1. PathOf(n)' = Path
                  BY <1>2, <1>5, <1>6
            <3>2. Len(tables[Path].symbols) \in Nat
                  BY <1>2 DEF Typed, IsTree
            <3>3. Path \in DOMAIN sizeofsymbols'
                  BY <1>1 DEF Put
            <3>4. c.child <= tables[c.parent].children
                  BY <1>1, <1>4 DEF InTables
            <3>5. QED
                  BY <1>1, <1>3, <1>4, <1>5, <3>1, <3>2, <3>3, <3>4 DEF Within
      <2>3. \A i \in 1..n : i \in 1..(n - 1) \/ i = n
            BY <1>2
      <2>4. QED
            BY <1>5, <1>6, <2>1, <2>2, <2>3 DEF Chained
<1>10. Ahead'
      <2>1. ASSUME NEW i \in 1..n, NEW s \in Symbols,
                   Prefix(calls'[i].parent, s[1]), Len(s[1]) >= i
            PROVE  s[1][i] <= calls'[i].child /\ (s[1][i] = calls'[i].child => calls'[i].next > 0)
            <3>1. /\ calls'[i].parent = calls[i].parent /\ calls'[i].child = calls[i].child
                  /\ calls[i].next > 0 => calls'[i].next > 0
                  BY <1>2, <1>4, <1>5
            <3>2. QED
                  BY <2>1, <3>1 DEF Ahead
      <2>2. QED
            BY <1>5, <1>7, <2>1 DEF Ahead
<1>11. Under'
      BY <1>1, <1>5, <1>6, <1>7 DEF Under
<1>12. /\ \A s : Sized(s)' = Sized(s) /\ End(s)' = End(s)
       /\ \A s : Determined(s)' = Determined(s)
       <2>1. \A s : End(s)' = End(s)
             BY <1>1 DEF End, ElementSize, DimsOf, TypeOf
       <2>2. QED
             BY <1>1, <2>1, TypesStay
<1>13. Before'
      <2>1. ASSUME NEW i \in 1..n, NEW s \in Symbols, s[1] = PathOf(i), Sized(s)
            PROVE  End(s) <= calls'[i].offset
            <3>1. i # n
                  BY <1>2, <1>7, <2>1
            <3>2. calls'[i] = calls[i]
                  BY <1>2, <1>5, <3>1
            <3>3. QED
                  BY <2>1, <3>2 DEF Before
      <2>2. QED
            BY <1>5, <1>6, <1>7, <1>12, <2>1 DEF Before
<1>14. Settled'
      <2>1. ASSUME NEW i \in 1..n, Determined(<<PathOf(i), calls'[i].next - 1>>)
            PROVE  calls'[i].size >= 0
            <3>1. CASE i < n
                  BY <1>5, <2>1, <3>1 DEF Settled
            <3>2. CASE i = n
                  <4>1. calls'[n].size = calls[n].size /\ calls[n].next = 0 /\ calls'[n].next = 1
                        BY <1>1, <1>2, <1>4, <1>5
                  <4>2. Determined(<<PathOf(n), 0>>) => Determined(<<PathOf(n), -1>>)
                        <5>1. 1..0 \subseteq 1..(-1)
                              OBVIOUS
                        <5>2. QED
                              BY <5>1, DeterminedAfter
                  <4>3. Determined(<<PathOf(n), -1>>)
                        BY <2>1, <3>2, <4>1, <4>2
                  <4>4. QED
                        BY <1>2, <3>2, <4>1, <4>3 DEF Settled
            <3>3. QED
                  BY <1>2, <3>1, <3>2
      <2>2. QED
            BY <1>5, <1>6, <1>12, <2>1 DEF Settled
<1>15. Rising'
      <2>1. ASSUME NEW i \in 1..n, calls'[i].next > 0, Clean(i)
            PROVE  calls'[i].initial <= calls'[i].offset
            <3>1. CASE i < n
                  BY <1>5, <2>1, <3>1 DEF Rising
            <3>2. CASE i = n
                  BY <1>3, <1>4, <1>5, <3>2
            <3>3. QED
                  BY <1>2, <3>1, <3>2
      <2>2. \A i \in 1..n : Clean(i)' = Clean(i)
            BY <1>6, <1>7, <1>12 DEF Clean
      <2>3. QED
            BY <1>5, <2>1, <2>2 DEF Rising
<1>16. Apart' /\ Inside' /\ Aligned'
      <2>1. \A m, t : NoGarbage(m, t)' = NoGarbage(m, t)
            BY <1>7, <1>12 DEF NoGarbage
      <2>2. Aligned'
            BY <1>1, <1>7, <1>12 DEF Aligned, ElementSize, TypeOf
      <2>3. QED
            BY <1>1, <1>7, <1>12, <2>1, <2>2 DEF Apart, Inside
<1>17. QED
      BY <1>8, <1>9, <1>10, <1>11, <1>13, <1>14, <1>15, <1>16

(* What is placed before and encloses the new symbol ends before it, if no *)
(* garbage is in the tables between.                                       *)
LEMMA EndsBefore ==
  ASSUME Typed, Chained, Rising, Before, Active, Current.next > 0,
         NEW s \in Symbols, Sized(s), Prefix(s[1], Path),
         \A k \in (Len(s[1]) + 1)..Len(calls) : Clean(k)
  PROVE  End(s) <= Current.offset
<1> DEFINE n == Len(calls)
           k == Len(s[1])
<1>1. n \in 1..n /\ n \in Nat /\ Current = calls[n] /\ Path = PathOf(n)
      BY CurrentFacts
<1>2. s[1] \in Seq(Nat) /\ k > 0 /\ End(s) \in Int
      BY SymbolFacts
<1>3. k \in 1..n /\ s[1] = PathOf(k)
      BY <1>1, <1>2, PrefixIsPath
<1>4. End(s) <= calls[k].offset
      BY <1>3 DEF Before
<1>5. CASE k = n
      BY <1>1, <1>4, <1>5
<1>6. CASE k < n
      <2>1. k + 1 \in 1..n
            BY <1>1, <1>3, <1>6
      <2>2. calls[k + 1].initial = calls[k].offset
            BY <1>3, <1>6 DEF Chained, Linked
      <2>3. calls[k + 1].initial <= Current.offset
            BY <2>1, ChainRises
      <2>4. calls[k].offset \in Int /\ Current.offset \in Int
            BY <1>1, <1>3, CallFacts
      <2>5. QED
            BY <1>2, <1>4, <2>2, <2>3, <2>4
<1>7. QED
      BY <1>1, <1>3, <1>5, <1>6

(* One symbol (mips.c:224): it lies behind all that enclose it.            *)
LEMMA PlaceSymbolKeeps ==
  ASSUME Inv, PlaceSymbol
  PROVE  Inv'
<1>0. PICK new : new = <<Path, Current.next>>
      OBVIOUS
<1> DEFINE n == Len(calls)
           align == SizeOf(TypeOf(new), Current.size)
           pad  == Padding(Current.offset, align)
           size == Times(align, DimsOf(new))
           at   == Current.offset + pad
           c == [Current EXCEPT !.offset = @ + pad + size, !.totalsize = @ + pad + size,
                                !.size = size, !.next = @ + 1]
<1> USE DEF Inv
<1>1. /\ Active /\ InTables
      /\ Current.next \in 1..Len(tables[Path].symbols)
      /\ offset' = Put(offset, new, at)
      /\ sizeofsymbols' = [sizeofsymbols EXCEPT ![Path] = @ + pad + size]
      /\ Become(c)
      /\ tables' = tables /\ trapped' = trapped /\ align # 0
      <2>1. /\ AtSymbol /\ Align = align /\ currenttable = tables[Path]
            /\ currenttable.symbols[Current.next].dims = DimsOf(new)
            BY <1>0 DEF PlaceSymbol, Align, currenttable, TypeOf, DimsOf
      <2>2. QED
            BY <1>0, <2>1 DEF PlaceSymbol, AtSymbol, InTables
<1>2. /\ n \in Nat \ {0} /\ n \in 1..n /\ Current = calls[n] /\ Path = PathOf(n)
      /\ Path \in DOMAIN tables
      BY <1>1, CurrentFacts
<1>3. /\ Path \in Seq(Nat) /\ Len(Path) = n
      /\ \A k \in 1..n : Path[k] = calls[k].child
      BY <1>2, PathFacts
<1>4. /\ Current \in Calls
      /\ Current.next \in Nat /\ Current.initial \in Int
      /\ Current.offset \in Int /\ Current.totalsize \in Int
      /\ Current.size \in Int /\ Current.next > 0
      BY <1>1, <1>2, CallFacts
<1>5. /\ align \in Int \ {0} /\ ElementSize(new) \in {1, 2, 4}
      /\ Current.size >= 0 => align >= 0
      /\ Sized(new) => align = ElementSize(new)
      BY <1>1, <1>4, SizesFit
<1>6. pad \in Nat
      BY <1>4, <1>5, PaddingFits
<1>7. size \in Int /\ (align >= 0 => size >= 0)
      <2>1. DimsOf(new) \in Seq(Nat)
            BY <1>0, <1>1, <1>2 DEF DimsOf, Typed, IsTree
      <2>2. QED
            BY <1>5, <2>1, TimesFits
<1>8. Sized(new) => size = Times(ElementSize(new), DimsOf(new))
      BY <1>5
<1> HIDE DEF align, pad, size
<1>9. /\ c \in Calls /\ c.parent = Current.parent /\ c.child = Current.child
      /\ c.initial = Current.initial /\ c.offset = Current.offset + pad + size
      /\ c.totalsize = Current.totalsize + pad + size /\ c.next = Current.next + 1
      /\ c.size = size
      <2> DEFINE o == Current.offset + pad + size
                 t == Current.totalsize + pad + size
                 k == Current.next + 1
      <2>1. o \in Int /\ t \in Int /\ k \in Nat
            BY <1>4, <1>6, <1>7
      <2>2. c = [Current EXCEPT !.offset = o, !.totalsize = t, !.size = size, !.next = k]
            BY <1>4 DEF Calls
      <2> HIDE DEF o, t, k, c
      <2>3. /\ c \in Calls /\ c.parent = Current.parent /\ c.child = Current.child
            /\ c.initial = Current.initial /\ c.offset = o /\ c.totalsize = t /\ c.next = k
            /\ c.size = size
            BY <1>4, <1>7, <2>1, <2>2 DEF Calls
      <2>4. QED
            BY <2>3 DEF o, t, k
<1> HIDE DEF c
<1>10. at \in Int /\ Current.offset <= at /\ c.offset = at + size
      BY <1>4, <1>6, <1>7, <1>9
<1>11. Linked(n) /\ Within(n)
      BY <1>2 DEF Chained
<1>12. new[1] = Path /\ new[2] = Current.next /\ Current.next > 0
      BY <1>0, <1>1
<1>13. /\ calls' \in Seq(Calls) /\ Len(calls') = n /\ calls'[n] = c
       /\ \A i \in 1..(n - 1) : calls'[i] = calls[i]
       /\ Current' = c /\ Active'
      BY <1>1, <1>9, BecomeFacts
<1>14. /\ \A i \in 1..n : Linked(i)'
       /\ \A i \in 1..n : PathOf(i)' = PathOf(i)
       /\ Path' = Path
      BY <1>1, <1>9, <1>13, StaysLinked
<1>15. /\ new \notin Symbols
       /\ \A s \in Symbols : Prefix(Path, s[1]) => s[1] = Path /\ s[2] < Current.next
      <2>1. Prefix(Path, Path)
            BY <1>3 DEF Prefix
      <2>2. \A s \in Symbols : Prefix(Path, s[1]) => s[1] = Path /\ s[2] < Current.next
            BY <1>1 DEF Under
      <2>3. QED
            BY <1>0, <1>4, <2>1, <2>2
<1>16. /\ Symbols' = Symbols \cup {new}
       /\ offset'[new] = at
       /\ \A s \in Symbols : offset'[s] = offset[s]
      BY <1>1, <1>15 DEF Put, Symbols
<1>17. /\ \A s : Sized(s)' = Sized(s) /\ ElementSize(s)' = ElementSize(s)
       /\ \A s \in Symbols : End(s)' = End(s)
       /\ Sized(new) => End(new)' = at + size
      BY <1>1, <1>8, <1>16 DEF Sized, TypeOf, End, ElementSize, DimsOf
<1>18. /\ \A s : Determined(s)' = Determined(s)
       /\ \A i : Clean(i)' => \A s \in Symbols' : s[1] = PathOf(i)' => Determined(s)
       /\ \A s, k : NoGarbage(k, s)' =>
             \A u \in Symbols' : k < Len(u[1]) /\ Encloses(u[1], s[1]) => Determined(u)
      <2>1. \A s : Determined(s)' = Determined(s)
            BY <1>1, <1>17 DEF Determined
      <2>2. QED
            BY <2>1 DEF Clean, NoGarbage
<1>19. Path \in DOMAIN sizeofsymbols
      BY <1>2, <1>4, <1>11 DEF Within
<1> HIDE DEF at
<1>20. Typed'
      <2>1. DOMAIN sizeofsymbols' = DOMAIN sizeofsymbols
            BY <1>1
      <2>2. sizeofsymbols[Path] \in Int
            BY <1>19 DEF Typed
      <2>3. \A p \in DOMAIN sizeofsymbols' : sizeofsymbols'[p] \in Int
            BY <1>1, <1>6, <1>7, <2>1, <2>2 DEF Typed
      <2>4. ASSUME NEW s \in Symbols' PROVE Placed(s)'
            <3>1. CASE s \in Symbols
                  BY <1>1, <1>16, <2>1, <3>1 DEF Typed, Placed
            <3>2. CASE s = new
                  <4>1. s = <<s[1], s[2]>>
                        BY <1>0, <3>2
                  <4>2. QED
                        BY <1>1, <1>2, <1>3, <1>10, <1>16, <1>12, <1>19, <2>1, <3>2, <4>1 DEF Placed
            <3>3. QED
                  BY <1>16, <3>1, <3>2
      <2>5. QED
            BY <1>1, <1>13, <2>1, <2>3, <2>4 DEF Typed
<1>21. Chained'
      <2>1. ASSUME NEW i \in 1..n PROVE Within(i)'
            <3>1. PathOf(i)' = PathOf(i)
                  BY <1>14
            <3>2. CASE i < n
                  <4>1. Within(i) /\ calls'[i] = calls[i]
                        BY <1>2, <1>13, <3>2 DEF Chained
                  <4>2. QED
                        BY <1>1, <1>13, <3>1, <4>1 DEF Within
            <3>3. CASE i = n
                  <4>1. calls'[i] = c /\ PathOf(i)' = Path /\ i \in Nat
                        BY <1>2, <1>13, <3>1, <3>3
                  <4>2. c.child <= tables[c.parent].children
                        BY <1>1, <1>9 DEF InTables
                  <4>3. Path \in DOMAIN sizeofsymbols'
                        BY <1>1, <1>19
                  <4>4. c.next <= Len(tables[Path].symbols) + 1
                        BY <1>1, <1>2, <1>4, <1>9 DEF Typed, IsTree
                  <4>5. c.offset = c.initial + c.totalsize
                        <5>1. Current.offset = Current.initial + Current.totalsize
                              BY <1>2, <1>4, <1>11 DEF Within
                        <5>2. QED
                              BY <1>4, <1>6, <1>7, <1>9, <5>1
                  <4>6. QED
                        BY <1>1, <1>13, <3>3, <4>1, <4>2, <4>3, <4>4, <4>5 DEF Within
            <3>4. QED
                  BY <3>2, <3>3
      <2>2. QED
            BY <1>13, <1>14, <2>1 DEF Chained
<1>22. Ahead'
      <2>1. ASSUME NEW i \in 1..n, NEW s \in Symbols',
                   Prefix(calls'[i].parent, s[1]), Len(s[1]) >= i
            PROVE  s[1][i] <= calls'[i].child /\ (s[1][i] = calls'[i].child => calls'[i].next > 0)
            <3>1. /\ calls'[i].parent = calls[i].parent /\ calls'[i].child = calls[i].child
                  /\ calls[i].next > 0 => calls'[i].next > 0
                  BY <1>2, <1>4, <1>9, <1>13
            <3>2. CASE s \in Symbols
                  BY <2>1, <3>1, <3>2 DEF Ahead
            <3>3. CASE s = new
                  <4>1. s[1][i] = calls[i].child
                        BY <1>3, <1>12, <3>3
                  <4>2. calls[i].next > 0
                        BY <1>2, <1>4 DEF Chained, Linked
                  <4>3. calls[i].child \in Nat
                        BY CallFacts
                  <4>4. QED
                        BY <3>1, <4>1, <4>2, <4>3
            <3>4. QED
                  BY <1>16, <3>2, <3>3
      <2>2. QED
            BY <1>13, <2>1 DEF Ahead
<1>23. Under'
      <2> SUFFICES ASSUME NEW s \in Symbols', Prefix(Path', s[1])
                   PROVE  s[1] = Path' /\ s[2] < Current'.next
          BY DEF Under
      <2>1. Prefix(Path, s[1])
            BY <1>14
      <2>2. s[1] = Path /\ s[2] < c.next
            <3>1. CASE s \in Symbols
                  BY <1>4, <1>9, <1>15, <2>1, <3>1, SymbolFacts
            <3>2. CASE s = new
                  BY <1>4, <1>9, <1>12, <3>2
            <3>3. QED
                  BY <1>16, <3>1, <3>2
      <2>3. QED
            BY <1>13, <1>14, <2>2
<1>24. ASSUME Determined(new) PROVE size >= 0
      <2>1. Determined(<<PathOf(n), calls[n].next - 1>>) => Current.size >= 0
            BY <1>2 DEF Settled
      <2>2. CASE Determined(<<Path, Current.next - 1>>)
            BY <1>2, <1>5, <1>7, <2>1, <2>2
      <2>3. CASE ~Determined(<<Path, Current.next - 1>>)
            <3>1. Sized(<<Path, Current.next>>)
                  <4>1. \A j \in 1..Current.next : j \in 1..(Current.next - 1) \/ j = Current.next
                        BY <1>4
                  <4>2. QED
                        BY <1>0, <1>24, <2>3, <4>1 DEF Determined
            <3>2. align >= 0
                  BY <1>0, <1>5, <3>1
            <3>3. QED
                  BY <1>7, <3>2
      <2>4. QED
            BY <2>2, <2>3
<1>25. Settled'
      <2>1. ASSUME NEW i \in 1..n, Determined(<<PathOf(i), calls'[i].next - 1>>)
            PROVE  calls'[i].size >= 0
            <3>1. CASE i < n
                  BY <1>13, <2>1, <3>1 DEF Settled
            <3>2. CASE i = n
                  <4>1. calls'[n].size = size /\ calls'[n].next - 1 = Current.next
                        BY <1>4, <1>9, <1>13
                  <4>2. Determined(new)
                        BY <1>0, <1>2, <2>1, <3>2, <4>1
                  <4>3. QED
                        BY <1>24, <3>2, <4>1, <4>2
            <3>3. QED
                  BY <1>2, <3>1, <3>2
      <2>2. QED
            BY <1>13, <1>14, <1>18, <2>1 DEF Settled
<1>26. ASSUME NEW i \in 1..n, Clean(i)'
       PROVE  /\ Clean(i)
              /\ i = n => size >= 0
      <2>1. Clean(i)
            BY <1>14, <1>16, <1>18, <1>26 DEF Clean
      <2>2. i = n => Determined(new)
            BY <1>2, <1>12, <1>14, <1>16, <1>18, <1>26
      <2>3. QED
            BY <1>24, <2>1, <2>2
<1>27. Rising'
      <2>1. ASSUME NEW i \in 1..n, calls'[i].next > 0, Clean(i)'
            PROVE  calls'[i].initial <= calls'[i].offset
            <3>1. CASE i < n
                  BY <1>13, <1>26, <2>1, <3>1 DEF Rising
            <3>2. CASE i = n
                  <4>1. Current.initial <= Current.offset /\ size >= 0
                        BY <1>2, <1>4, <1>26, <2>1, <3>2 DEF Rising
                  <4>2. QED
                        BY <1>4, <1>7, <1>9, <1>10, <1>13, <3>2, <4>1
            <3>3. QED
                  BY <1>2, <3>1, <3>2
      <2>2. QED
            BY <1>13, <2>1 DEF Rising
<1>28. Before'
      <2>1. ASSUME NEW i \in 1..n, NEW s \in Symbols', s[1] = PathOf(i), Sized(s)
            PROVE  End(s)' <= calls'[i].offset
            <3>1. CASE s \in Symbols
                  <4>1. End(s)' = End(s) /\ End(s) <= calls[i].offset /\ End(s) \in Int
                        BY <1>17, <2>1, <3>1, SymbolFacts DEF Before
                  <4>2. CASE i < n
                        BY <1>13, <4>1, <4>2
                  <4>3. CASE i = n
                        <5>1. s[1] = Path /\ s[2] \in Nat \ {0} /\ s[2] < Current.next
                              BY <1>2, <1>3, <1>15, <2>1, <3>1, <4>3, SymbolFacts DEF Prefix
                        <5>2. s = <<s[1], s[2]>>
                              BY <3>1 DEF Typed, Placed
                        <5>3. Determined(<<Path, s[2]>>)
                              BY <2>1, <5>1, <5>2 DEF Determined
                        <5>4. Determined(new)
                              <6>1. 1..s[2] \subseteq 1..Current.next
                                    BY <1>4, <5>1
                              <6>2. QED
                                    BY <1>0, <5>3, <6>1, DeterminedAfter
                        <5>5. size >= 0
                              BY <1>24, <5>4
                        <5>6. QED
                              BY <1>2, <1>4, <1>7, <1>10, <1>13, <4>1, <4>3, <5>5
                  <4>4. QED
                        BY <1>2, <4>2, <4>3
            <3>2. CASE s = new
                  <4>1. i = n
                        BY <1>2, <1>3, <1>12, <2>1, <3>2, PathFacts
                  <4>2. QED
                        BY <1>7, <1>10, <1>13, <1>17, <2>1, <3>2, <4>1
            <3>3. QED
                  BY <1>16, <3>1, <3>2
      <2>2. QED
            BY <1>13, <1>14, <1>17, <2>1 DEF Before
<1>29. ASSUME NEW k \in Nat, NoGarbage(k, new)', NEW i \in (k + 1)..n
       PROVE  Clean(i)
      <2>1. i \in 1..n /\ PathOf(i) \in Seq(Nat) /\ Len(PathOf(i)) = i
            BY PathFacts
      <2>2. \A l \in 1..i : PathOf(i)[l] = Path[l]
            BY <1>2, <1>3, <2>1, PathFacts
      <2>3. Encloses(PathOf(i), Path)
            BY <1>3, <2>1, <2>2, EnclosesIsPrefix DEF Prefix
      <2>4. ASSUME NEW u \in Symbols, u[1] = PathOf(i) PROVE Determined(u)
            BY <1>12, <1>16, <1>18, <1>29, <2>1, <2>3, <2>4
      <2>5. QED
            BY <2>4 DEF Clean
<1>30. \A s, k : NoGarbage(k, s)' => NoGarbage(k, s)
      BY <1>16, <1>18 DEF NoGarbage
<1>31. Apart'
      <2>1. ASSUME NEW s \in Symbols', NEW t \in Symbols', Prefix(s[1], t[1]),
                   s[1] = t[1] => s[2] < t[2], Sized(s), NoGarbage(Len(s[1]), t)'
            PROVE  End(s)' <= offset'[t]
            <3>1. CASE s \in Symbols /\ t \in Symbols
                  BY <1>16, <1>17, <1>30, <2>1, <3>1 DEF Apart
            <3>2. CASE s \in Symbols /\ t = new
                  <4>1. Len(s[1]) \in Nat /\ End(s) \in Int
                        BY <3>2, SymbolFacts
                  <4>2. \A i \in (Len(s[1]) + 1)..n : Clean(i)
                        BY <1>29, <2>1, <3>2, <4>1
                  <4>3. End(s) <= Current.offset
                        BY <1>1, <1>12, <2>1, <3>2, <4>2, EndsBefore
                  <4>4. QED
                        BY <1>4, <1>10, <1>16, <1>17, <3>2, <4>1, <4>3
            <3>3. CASE s = new /\ t \in Symbols
                  BY <1>4, <1>15, <1>12, <2>1, <3>3, SymbolFacts
            <3>4. CASE s = new /\ t = new
                  BY <1>4, <1>12, <2>1, <3>4
            <3>5. QED
                  BY <1>16, <3>1, <3>2, <3>3, <3>4
      <2>2. QED
            BY <1>17, <2>1 DEF Apart
<1>32. Inside'
      <2>1. ASSUME NEW t \in Symbols', NoGarbage(0, t)' PROVE 0 <= offset'[t]
            <3>1. CASE t \in Symbols
                  BY <1>16, <1>30, <2>1, <3>1 DEF Inside
            <3>2. CASE t = new
                  <4>1. \A i \in 1..n : Clean(i)
                        BY <1>29, <2>1, <3>2
                  <4>2. 1 \in 1..n /\ calls[1].initial = 0
                        BY <1>2 DEF Chained, Linked
                  <4>3. calls[1].initial <= Current.offset
                        BY <1>1, <1>12, <4>1, <4>2, ChainRises
                  <4>4. QED
                        BY <1>4, <1>10, <1>16, <3>2, <4>2, <4>3
            <3>3. QED
                  BY <1>16, <3>1, <3>2
      <2>2. QED
            BY <2>1 DEF Inside
<1>33. Aligned'
      <2>1. ASSUME NEW s \in Symbols', Sized(s) PROVE offset'[s] % ElementSize(s) = 0
            <3>1. CASE s \in Symbols
                  BY <1>16, <2>1, <3>1 DEF Aligned
            <3>2. CASE s = new
                  <4>1. align = ElementSize(s) /\ align \in {1, 2, 4}
                        BY <1>5, <2>1, <3>2
                  <4>2. at % align = 0
                        BY <1>4, <1>5, <4>1, PaddingFits DEF at, pad
                  <4>3. QED
                        BY <1>16, <3>2, <4>1, <4>2
            <3>3. QED
                  BY <1>16, <3>1, <3>2
      <2>2. QED
            BY <1>17, <2>1 DEF Aligned
<1>34. QED
      BY <1>20, <1>21, <1>22, <1>23, <1>25, <1>27, <1>28, <1>31, <1>32, <1>33

(* The recursive call (mips.c:268) starts at the offset of its caller.     *)
LEMMA RecurseKeeps ==
  ASSUME Inv, Recurse
  PROVE  Inv'
<1>0. PICK n : n = Len(calls)
      OBVIOUS
<1> USE DEF Inv
<1>1. PICK g \in Garbage : calls' = Append(calls, Call(Path, Current.offset, g))
      BY DEF Recurse
<1>2. /\ Active /\ InTables /\ Current.next = Len(tables[Path].symbols) + 1
      /\ tables' = tables /\ offset' = offset /\ sizeofsymbols' = sizeofsymbols
      /\ trapped' = trapped
      BY DEF Recurse, InTables, currenttable
<1>3. /\ n \in Nat \ {0} /\ n \in 1..n /\ Current = calls[n] /\ Path = PathOf(n)
      /\ Path \in DOMAIN tables
      BY <1>0, <1>2, CurrentFacts
<1>4. /\ Path \in Seq(Nat) /\ Len(Path) = n
      /\ \A k \in 1..n : Path[k] = calls[k].child
      BY <1>0, <1>3, PathFacts
<1>5. Current.offset \in Int /\ Current.next > 0
      <2>1. Len(tables[Path].symbols) \in Nat
            BY <1>3 DEF Typed, IsTree
      <2>2. QED
            BY <1>0, <1>2, <1>3, <2>1, CallFacts
<1>6. PICK d : d = Call(Path, Current.offset, g)
      OBVIOUS
<1>7. /\ d \in Calls /\ d.parent = Path /\ d.child = 1 /\ d.next = 0
      /\ d.initial = Current.offset /\ d.offset = Current.offset
      BY <1>4, <1>5, <1>6, GarbageAssumption DEF Call, Calls
<1>8. /\ calls' \in Seq(Calls) /\ Len(calls') = n + 1 /\ calls'[n + 1] = d
      /\ \A i \in 1..n : calls'[i] = calls[i]
      BY <1>0, <1>1, <1>6, <1>7 DEF Typed
<1>9. \A i \in 1..(n + 1) : i \in 1..n \/ i = n + 1
      BY <1>3
<1>10. \A i \in 1..n : PathOf(i)' = PathOf(i)
       BY <1>8 DEF PathOf
<1>11. /\ Current' = d /\ Active'
       /\ Path' = Append(Path, 1) /\ PathOf(n + 1)' = Append(Path, 1)
       <2>1. Current' = d /\ calls' # <<>>
             BY <1>3, <1>8 DEF Current
       <2>2. Path' = Append(Path, 1)
             BY <1>7, <2>1 DEF Path
       <2>3. PathOf(n + 1)' = Append(Path, 1)
             BY <1>7, <1>8 DEF PathOf
       <2>4. QED
             BY <2>1, <2>2, <2>3 DEF Active
<1>12. ASSUME NEW s \in Symbols, Prefix(Path, s[1]) PROVE Len(s[1]) = n
       BY <1>2, <1>4, <1>12 DEF Under
<1>13. ASSUME NEW s \in Symbols PROVE ~Prefix(Append(Path, 1), s[1])
       <2> SUFFICES ASSUME Prefix(Append(Path, 1), s[1]) PROVE FALSE
           OBVIOUS
       <2>1. Len(Append(Path, 1)) = n + 1 /\ \A k \in 1..n : Append(Path, 1)[k] = Path[k]
             BY <1>4
       <2>2. Len(s[1]) \in Nat
             BY SymbolFacts
       <2>3. Prefix(Path, s[1]) /\ Len(s[1]) >= n + 1
             BY <1>3, <1>4, <2>1, <2>2 DEF Prefix
       <2>4. QED
             BY <1>3, <1>12, <2>3
<1>14. \A i \in 1..n : Linked(i) /\ Within(i)
       BY <1>0 DEF Chained
<1>15. ASSUME NEW i \in 1..n PROVE Linked(i)'
       <2>1. /\ Len(calls'[i].parent) = i - 1
             /\ \A k \in 1..(i - 1) : calls'[i].parent[k] = calls'[k].child
             <3>1. calls'[i] = calls[i] /\ \A k \in 1..(i - 1) : calls'[k] = calls[k]
                   BY <1>3, <1>8
             <3>2. QED
                   BY <1>14, <3>1 DEF Linked
       <2>2. /\ calls'[i].parent \in DOMAIN tables'
             /\ calls'[i].child <= tables'[calls'[i].parent].children + 1
             /\ i = 1 => calls'[i].initial = 0
             BY <1>0, <1>2, <1>8, <1>14 DEF Linked
       <2>3. calls'[i].next > 0 /\ calls'[i + 1].initial = calls'[i].offset
             <3>1. CASE i < n
                   BY <1>0, <1>3, <1>8, <1>14, <3>1 DEF Linked
             <3>2. CASE i = n
                   BY <1>3, <1>5, <1>7, <1>8, <3>2
             <3>3. QED
                   BY <1>3, <3>1, <3>2
       <2>4. QED
             BY <1>0, <1>8, <2>1, <2>2, <2>3 DEF Linked
<1>16. Linked(n + 1)'
       <2>1. tables[Path].children \in Nat
             BY <1>3 DEF Typed, IsTree
       <2>2. \A k \in 1..n : calls'[n + 1].parent[k] = calls'[k].child
             BY <1>4, <1>7, <1>8
       <2>3. QED
             BY <1>0, <1>2, <1>3, <1>4, <1>5, <1>7, <1>8, <2>1, <2>2 DEF Linked
<1>17. ASSUME NEW i \in 1..n PROVE Within(i)'
       <2>1. calls'[i] = calls[i] /\ PathOf(i)' = PathOf(i) /\ Within(i)
             BY <1>8, <1>10, <1>14
       <2>2. calls[i].next = Len(tables[PathOf(i)].symbols) + 1
             <3>1. CASE i < n
                   BY <1>0, <1>14, <2>1, <3>1 DEF Linked, Within
             <3>2. CASE i = n
                   BY <1>2, <1>3, <3>2
             <3>3. QED
                   BY <1>3, <3>1, <3>2
       <2>3. QED
             BY <1>2, <2>1, <2>2 DEF Within
<1>18. Within(n + 1)'
       BY <1>7, <1>8 DEF Within
<1>19. Chained'
       BY <1>8, <1>9, <1>15, <1>16, <1>17, <1>18 DEF Chained
<1>20. Typed'
       <2>1. \A s \in Symbols : Placed(s)'
             BY <1>2 DEF Typed, Placed
       <2>2. QED
             BY <1>2, <1>8, <1>11, <2>1 DEF Typed, Symbols
<1>21. Ahead'
       <2>1. ASSUME NEW i \in 1..(n + 1), NEW s \in Symbols,
                    Prefix(calls'[i].parent, s[1]), Len(s[1]) >= i
             PROVE  s[1][i] <= calls'[i].child /\ (s[1][i] = calls'[i].child => calls'[i].next > 0)
             <3>1. CASE i \in 1..n
                   BY <1>0, <1>8, <2>1, <3>1 DEF Ahead
             <3>2. CASE i = n + 1
                   BY <1>3, <1>7, <1>8, <1>12, <2>1, <3>2
             <3>3. QED
                   BY <1>9, <3>1, <3>2
       <2>2. QED
             BY <1>2, <1>8, <2>1 DEF Ahead, Symbols
<1>22. Under'
       BY <1>2, <1>11, <1>13 DEF Under, Symbols
<1>23. /\ Symbols' = Symbols
       /\ \A s : Sized(s)' = Sized(s) /\ End(s)' = End(s)
       /\ \A s : Determined(s)' = Determined(s)
       <2>1. \A s : Sized(s)' = Sized(s)
             BY <1>2 DEF Sized, TypeOf
       <2>2. QED
             BY <1>2, <2>1 DEF Symbols, TypeOf, End, ElementSize, DimsOf, Determined
<1>24. Before'
       <2>1. ASSUME NEW i \in 1..(n + 1), NEW s \in Symbols, s[1] = PathOf(i)', Sized(s)
             PROVE  End(s) <= calls'[i].offset
             <3>1. CASE i \in 1..n
                   BY <1>0, <1>8, <1>10, <2>1, <3>1 DEF Before
             <3>2. CASE i = n + 1
                   <4>1. Prefix(Append(Path, 1), s[1])
                         BY <1>4, <1>11, <2>1, <3>2 DEF Prefix
                   <4>2. QED
                         BY <1>13, <4>1
             <3>3. QED
                   BY <1>9, <3>1, <3>2
       <2>2. QED
             BY <1>8, <1>23, <2>1 DEF Before
<1>25. Apart' /\ Inside' /\ Aligned'
       <2>1. \A m, t : NoGarbage(m, t)' = NoGarbage(m, t)
             BY <1>23 DEF NoGarbage
       <2>2. Aligned'
             BY <1>2, <1>23 DEF Aligned, ElementSize, TypeOf
       <2>3. QED
             BY <1>2, <1>23, <2>1, <2>2 DEF Apart, Inside
<1>26. Settled'
       <2>1. ASSUME NEW i \in 1..n, Determined(<<PathOf(i), calls'[i].next - 1>>)
             PROVE  calls'[i].size >= 0
             BY <1>0, <1>8, <2>1 DEF Settled
       <2>2. ~Determined(<<Append(Path, 1), calls'[n + 1].next - 1>>)
             <3>1. calls'[n + 1].next - 1 = -1
                   BY <1>7, <1>8
             <3>2. QED
                   BY <1>4, <3>1, NotDeterminedYet
       <2>3. QED
             BY <1>8, <1>9, <1>10, <1>11, <1>23, <2>1, <2>2 DEF Settled
<1>27. Rising'
       <2>1. \A i \in 1..n : Clean(i)' = Clean(i)
             BY <1>10, <1>23 DEF Clean
       <2>2. \A i \in 1..n : calls'[i].next > 0 /\ Clean(i)' => calls'[i].initial <= calls'[i].offset
             BY <1>0, <1>8, <2>1 DEF Rising
       <2>3. ~(calls'[n + 1].next > 0)
             BY <1>7, <1>8
       <2>4. QED
             BY <1>8, <1>9, <2>2, <2>3 DEF Rising
<1>28. QED
       BY <1>19, <1>20, <1>21, <1>22, <1>24, <1>25, <1>26, <1>27

(* The return to the caller, which goes on with its next table.            *)
LEMMA ReturnKeeps ==
  ASSUME Inv, Return
  PROVE  Inv'
<1>0. PICK n : n = Len(calls)
      OBVIOUS
<1> USE DEF Inv
<1>1. /\ Active /\ ~InTables /\ ~trapped
      /\ tables' = tables /\ offset' = offset /\ trapped' = trapped
      BY DEF Return
<1>2. n \in Nat \ {0} /\ n \in 1..n /\ Current = calls[n] /\ Path = PathOf(n)
      BY <1>0, <1>1, CurrentFacts
<1>3. \A i \in 1..n : Linked(i) /\ Within(i)
      BY <1>0 DEF Chained
<1>4. /\ Symbols' = Symbols
      /\ \A s : Sized(s)' = Sized(s) /\ End(s)' = End(s)
      /\ \A s : Determined(s)' = Determined(s)
      <2>1. \A s : Sized(s)' = Sized(s)
            BY <1>1 DEF Sized, TypeOf
      <2>2. QED
            BY <1>1, <2>1 DEF Symbols, TypeOf, End, ElementSize, DimsOf, Determined
<1>5. Apart' /\ Inside' /\ Aligned'
      <2>1. \A m, t : NoGarbage(m, t)' = NoGarbage(m, t)
            BY <1>4 DEF NoGarbage
      <2>2. Aligned'
            BY <1>1, <1>4 DEF Aligned, ElementSize, TypeOf
      <2>3. QED
            BY <1>1, <1>4, <2>1, <2>2 DEF Apart, Inside
<1>6. CASE n = 1
      <2>1. calls' = <<>> /\ sizeofsymbols' = sizeofsymbols
            BY <1>0, <1>6 DEF Return
      <2>2. calls' \in Seq(Calls) /\ Len(calls') = 0 /\ ~Active'
            BY <2>1 DEF Active
      <2>3. \A s \in Symbols : Placed(s)'
            BY <1>1, <2>1 DEF Typed, Placed
      <2>4. Typed'
            BY <1>1, <1>4, <2>1, <2>2, <2>3 DEF Typed
      <2>5. Chained' /\ Ahead' /\ Under' /\ Settled' /\ Rising' /\ Before'
            BY <2>2 DEF Chained, Ahead, Under, Settled, Rising, Before
      <2>6. QED
            BY <1>5, <2>4, <2>5
<1>7. CASE n > 1
      <2>1. PICK m : m = n - 1
            OBVIOUS
      <2>2. /\ m \in Nat \ {0} /\ m \in 1..n /\ m < n /\ m + 1 = n
            /\ \A i \in 1..m : i \in 1..n /\ (i < m \/ i = m)
            BY <1>2, <1>7, <2>1
      <2>3. PICK d : d = Finish(calls[m], Current.largestsize)
            OBVIOUS
      <2>4. /\ sizeofsymbols' = [sizeofsymbols EXCEPT ![Current.parent] = @ + Current.largestsize]
            /\ calls' = Append(SubSeq(calls, 1, n - 2), d)
            <3>1. Len(calls) # 1 /\ Len(calls) = n /\ Len(calls) - 1 = m
                  BY <1>0, <1>2, <1>7, <2>1
            <3>2. QED
                  BY <2>3, <3>1, Zenon DEF Return
      <2>5. /\ calls[m] \in Calls /\ calls[m].child \in Nat \ {0}
            /\ calls[m].totalsize \in Int /\ calls[m].largestsize \in Nat
            BY <1>0, <2>2, CallFacts
      <2>6. /\ d \in Calls /\ d.child = calls[m].child + 1 /\ d.next = 0
            /\ d.parent = calls[m].parent /\ d.initial = calls[m].initial
            /\ d.offset = calls[m].offset /\ d.size = calls[m].size
            <3>1. PICK l : l = IF calls[m].totalsize > calls[m].largestsize
                               THEN calls[m].totalsize ELSE calls[m].largestsize
                  OBVIOUS
            <3>2. PICK k : k = calls[m].child + 1
                  OBVIOUS
            <3>3. l \in Nat /\ k \in Nat \ {0}
                  BY <2>5, <3>1, <3>2
            <3>4. d = [calls[m] EXCEPT !.largestsize = l, !.child = k, !.next = 0]
                  BY <2>3, <2>5, <3>1, <3>2 DEF Finish, Calls
            <3>5. QED
                  BY <2>5, <3>2, <3>3, <3>4 DEF Calls
      <2>7. /\ calls' \in Seq(Calls) /\ Len(calls') = m /\ calls'[m] = d
            /\ \A i \in 1..(m - 1) : calls'[i] = calls[i]
            <3>1. calls \in Seq(Calls) /\ n - 2 \in 0..n /\ n - 2 = m - 1
                  BY <2>1, <2>2, <1>2 DEF Typed
            <3>2. /\ SubSeq(calls, 1, n - 2) \in Seq(Calls) /\ Len(SubSeq(calls, 1, n - 2)) = m - 1
                  /\ \A i \in 1..(m - 1) : SubSeq(calls, 1, n - 2)[i] = calls[i]
                  BY <1>0, <2>2, <3>1
            <3>3. QED
                  BY <2>2, <2>4, <2>6, <3>2
      <2>8. \A i \in 1..m : i < m => i \in 1..(m - 1) /\ calls'[i] = calls[i]
            BY <2>2, <2>7
      <2>9. \A i \in 1..m : /\ calls'[i].parent = calls[i].parent
                             /\ calls'[i].initial = calls[i].initial
                             /\ calls'[i].offset = calls[i].offset
            BY <2>2, <2>6, <2>7, <2>8
      <2>10. /\ calls[m].next > 0
             /\ calls[m].child <= tables[calls[m].parent].children
             /\ PathOf(m) \in DOMAIN sizeofsymbols
             BY <1>0, <1>3, <2>2 DEF Linked, Within
      <2>11. Current.parent = PathOf(m)
             <3>1. /\ Current.parent \in Seq(Nat) /\ Len(Current.parent) = m
                   /\ \A k \in 1..m : Current.parent[k] = calls[k].child
                   BY <1>0, <1>2, <1>3, <2>1, CallFacts DEF Linked
             <3>2. /\ PathOf(m) \in Seq(Nat) /\ Len(PathOf(m)) = m
                   /\ \A k \in 1..m : PathOf(m)[k] = calls[k].child
                   BY <1>0, <2>2, PathFacts
             <3>3. Prefix(Current.parent, PathOf(m))
                   BY <2>2, <3>1, <3>2 DEF Prefix
             <3>4. QED
                   BY <3>1, <3>2, <3>3, SameSequence
      <2>12. Typed'
             <3>1. DOMAIN sizeofsymbols' = DOMAIN sizeofsymbols
                   BY <2>4
             <3>2. sizeofsymbols[PathOf(m)] \in Int /\ Current.largestsize \in Nat
                   BY <1>0, <1>2, <2>10, CallFacts DEF Typed
             <3>3. \A p \in DOMAIN sizeofsymbols' : sizeofsymbols'[p] \in Int
                   BY <2>4, <2>11, <3>1, <3>2 DEF Typed
             <3>4. \A s \in Symbols : Placed(s)'
                   BY <1>1, <3>1 DEF Typed, Placed
             <3>5. QED
                   BY <1>1, <1>4, <2>7, <3>1, <3>3, <3>4 DEF Typed
      <2>13. ASSUME NEW i \in 1..m PROVE Linked(i)'
             <3>1. Linked(i) /\ \A k \in 1..(i - 1) : calls'[k] = calls[k]
                   BY <1>3, <2>2, <2>8
             <3>2. /\ Len(calls'[i].parent) = i - 1
                   /\ \A k \in 1..(i - 1) : calls'[i].parent[k] = calls'[k].child
                   /\ calls'[i].parent \in DOMAIN tables
                   /\ i = 1 => calls'[i].initial = 0
                   BY <2>9, <3>1 DEF Linked
             <3>3. calls'[i].child <= tables[calls'[i].parent].children + 1
                   <4>1. CASE i < m
                         BY <2>8, <3>1, <4>1 DEF Linked
                   <4>2. CASE i = m
                         <5>1. tables[calls[m].parent].children \in Nat
                               BY <1>3, <2>2 DEF Linked, Typed, IsTree
                         <5>2. QED
                               BY <2>5, <2>6, <2>7, <2>10, <4>2, <5>1
                   <4>3. QED
                         BY <2>2, <4>1, <4>2
             <3>4. i < m => calls'[i].next > 0 /\ calls'[i + 1].initial = calls'[i].offset
                   <4> SUFFICES ASSUME i < m
                                PROVE  calls'[i].next > 0 /\ calls'[i + 1].initial = calls'[i].offset
                       OBVIOUS
                   <4>1. i + 1 \in 1..m /\ i < n
                         BY <2>2
                   <4>2. QED
                         BY <1>0, <2>8, <2>9, <3>1, <4>1 DEF Linked
             <3>5. QED
                   BY <1>1, <2>7, <3>2, <3>3, <3>4 DEF Linked
      <2>14. \A i \in 1..m : i < m => PathOf(i)' = PathOf(i)
             BY <2>8 DEF PathOf
      <2>15. ASSUME NEW i \in 1..m PROVE Within(i)'
             <3>1. CASE i < m
                   <4>1. Within(i) /\ calls'[i] = calls[i] /\ PathOf(i)' = PathOf(i)
                         BY <1>3, <2>2, <2>8, <2>14, <3>1
                   <4>2. DOMAIN sizeofsymbols' = DOMAIN sizeofsymbols
                         BY <2>4
                   <4>3. i < n /\ Len(calls') = m
                         BY <2>2, <2>7, <3>1
                   <4>4. QED
                         BY <1>0, <1>1, <4>1, <4>2, <4>3 DEF Within
             <3>2. CASE i = m
                   BY <2>6, <2>7, <3>2 DEF Within
             <3>3. QED
                   BY <2>2, <3>1, <3>2
      <2>16. Chained'
             BY <2>7, <2>13, <2>15 DEF Chained
      <2>17. ASSUME NEW s \in Symbols, Prefix(calls[m].parent, s[1]), Len(s[1]) >= m
             PROVE  s[1][m] < d.child
             <3>1. s[1][m] <= calls[m].child
                   BY <1>0, <2>2, <2>17 DEF Ahead
             <3>2. s[1][m] \in Nat
                   BY <2>2, <2>17, SymbolFacts
             <3>3. QED
                   BY <2>5, <2>6, <3>1, <3>2
      <2>18. Ahead'
             <3>1. ASSUME NEW i \in 1..m, NEW s \in Symbols,
                          Prefix(calls'[i].parent, s[1]), Len(s[1]) >= i
                   PROVE  /\ s[1][i] <= calls'[i].child
                          /\ s[1][i] = calls'[i].child => calls'[i].next > 0
                   <4>1. CASE i < m
                         BY <1>0, <2>2, <2>8, <3>1, <4>1 DEF Ahead
                   <4>2. CASE i = m
                         <5>1. Prefix(calls[m].parent, s[1]) /\ Len(s[1]) >= m
                               BY <2>6, <2>7, <3>1, <4>2
                         <5>2. s[1][m] < d.child
                               BY <2>17, <5>1
                         <5>3. s[1][m] \in Nat
                               BY <2>2, <5>1, SymbolFacts
                         <5>4. d.child \in Nat
                               BY <2>5, <2>6
                         <5>5. QED
                               BY <2>7, <4>2, <5>2, <5>3, <5>4
                   <4>3. QED
                         BY <2>2, <4>1, <4>2
             <3>2. QED
                   BY <1>4, <2>7, <3>1 DEF Ahead
      <2>19. PICK new : new = Append(calls[m].parent, d.child)
             OBVIOUS
      <2>20. Path' = new /\ PathOf(m)' = new
             <3>1. Current' = d
                   BY <2>7 DEF Current
             <3>2. Path' = new
                   BY <2>6, <2>19, <3>1 DEF Path
             <3>3. PathOf(m)' = new
                   BY <2>6, <2>7, <2>19 DEF PathOf
             <3>4. QED
                   BY <3>2, <3>3
      <2>21. /\ new \in Seq(Nat) /\ Len(new) = m /\ new[m] = d.child
             /\ \A k \in 1..(m - 1) : new[k] = calls[m].parent[k]
             /\ Len(calls[m].parent) = m - 1
             <3>1. calls[m].parent \in Seq(Nat) /\ Len(calls[m].parent) = m - 1
                   BY <1>0, <1>3, <2>2, CallFacts DEF Linked
             <3>2. QED
                   BY <2>2, <2>5, <2>6, <2>19, <3>1
      <2>22. ASSUME NEW s \in Symbols PROVE ~Prefix(new, s[1])
             <3> SUFFICES ASSUME Prefix(new, s[1]) PROVE FALSE
                 OBVIOUS
             <3>1. Len(s[1]) >= m /\ s[1][m] = d.child /\ Len(s[1]) \in Nat
                   BY <2>2, <2>21, SymbolFacts DEF Prefix
             <3>2. Prefix(calls[m].parent, s[1])
                   BY <2>2, <2>21, <3>1 DEF Prefix
             <3>3. d.child \in Nat
                   BY <2>5, <2>6
             <3>4. QED
                   BY <2>17, <3>1, <3>2, <3>3
      <2>23. Under'
             BY <1>4, <2>20, <2>22 DEF Under
      <2>24. Before'
             <3>1. ASSUME NEW i \in 1..m, NEW s \in Symbols, s[1] = PathOf(i)', Sized(s)
                   PROVE  End(s) <= calls'[i].offset
                   <4>1. CASE i < m
                         BY <1>0, <2>2, <2>8, <2>14, <3>1, <4>1 DEF Before
                   <4>2. CASE i = m
                         <5>1. s[1] = new
                               BY <2>20, <3>1, <4>2
                         <5>2. Prefix(new, s[1])
                               BY <2>21, <5>1 DEF Prefix
                         <5>3. QED
                               BY <2>22, <5>2
                   <4>3. QED
                         BY <2>2, <4>1, <4>2
             <3>2. QED
                   BY <1>4, <2>7, <3>1 DEF Before
      <2>25. Settled'
             <3>1. ASSUME NEW i \in 1..m, i < m, Determined(<<PathOf(i), calls'[i].next - 1>>)
                   PROVE  calls'[i].size >= 0
                   BY <1>0, <2>2, <2>8, <3>1 DEF Settled
             <3>2. ASSUME Determined(<<new, -1>>) PROVE d.size >= 0
                   <4>1. PICK k \in 1..calls[m].child :
                           \E l \in 1..Len(tables[Append(calls[m].parent, k)].symbols) :
                              Sized(<<Append(calls[m].parent, k), l>>)
                         <5>1. (calls[m].child + 1) - 1 = calls[m].child
                               BY <2>5
                         <5>2. calls[m].parent \in Seq(Nat) /\ calls[m].child + 1 \in Nat
                               BY <1>0, <2>2, CallFacts
                         <5>3. Determined(<<Append(calls[m].parent, calls[m].child + 1), -1>>)
                               BY <2>6, <2>19, <3>2
                         <5>4. Determined(<<Append(calls[m].parent, calls[m].child + 1), -1>>) <=>
                                 \/ \E l \in 1..(-1) :
                                      Sized(<<Append(calls[m].parent, calls[m].child + 1), l>>)
                                 \/ \E k \in 1..((calls[m].child + 1) - 1) :
                                    \E l \in 1..Len(tables[Append(calls[m].parent, k)].symbols) :
                                      Sized(<<Append(calls[m].parent, k), l>>)
                               BY <5>2, DeterminedThere, Zenon
                         <5>5. 1..(-1) = {}
                               OBVIOUS
                         <5>6. QED
                               BY <5>1, <5>3, <5>4, <5>5, Zenon
                   <4>2. /\ calls[m].next - 1 = Len(tables[PathOf(m)].symbols)
                         /\ PathOf(m) = Append(calls[m].parent, calls[m].child)
                         /\ calls[m].parent \in Seq(Nat) /\ calls[m].child \in Nat
                         <5>1. calls[m].next = Len(tables[PathOf(m)].symbols) + 1
                               BY <1>0, <1>3, <2>2, <2>10 DEF Within
                         <5>2. Len(tables[PathOf(m)].symbols) \in Nat
                               BY <1>0, <2>2, <2>10, PathFacts DEF Typed, IsTree
                         <5>3. calls[m].parent \in Seq(Nat) /\ calls[m].child \in Nat
                               BY <1>0, <2>2, CallFacts
                         <5>4. QED
                               BY <5>1, <5>2, <5>3 DEF PathOf
                   <4>3. Determined(<<PathOf(m), calls[m].next - 1>>)
                         <5>1. CASE k = calls[m].child
                               BY <4>1, <4>2, <5>1, DeterminedThere
                         <5>2. CASE k # calls[m].child
                               <6>1. k \in 1..(calls[m].child - 1)
                                     BY <4>2, <5>2
                               <6>2. QED
                                     BY <4>1, <4>2, <6>1, DeterminedThere
                         <5>3. QED
                               BY <5>1, <5>2
                   <4>4. calls[m].size >= 0
                         BY <1>0, <2>2, <4>3 DEF Settled
                   <4>5. QED
                         BY <2>6, <4>4
             <3>3. calls'[m].next - 1 = -1 /\ calls'[m].size = d.size
                   BY <2>6, <2>7
             <3>4. QED
                   BY <1>4, <2>2, <2>7, <2>14, <2>20, <3>1, <3>2, <3>3 DEF Settled
      <2>26. Rising'
             <3>1. ASSUME NEW i \in 1..m, calls'[i].next > 0, Clean(i)'
                   PROVE  calls'[i].initial <= calls'[i].offset
                   <4>1. i < m /\ calls'[i] = calls[i] /\ PathOf(i)' = PathOf(i) /\ i \in 1..n
                         BY <2>2, <2>6, <2>7, <2>8, <2>14, <3>1
                   <4>2. Clean(i)
                         BY <1>4, <3>1, <4>1 DEF Clean
                   <4>3. QED
                         BY <1>0, <3>1, <4>1, <4>2 DEF Rising
             <3>2. QED
                   BY <2>7, <3>1 DEF Rising
      <2>27. QED
            BY <1>5, <2>12, <2>16, <2>18, <2>23, <2>24, <2>25, <2>26
<1>8. QED
      BY <1>2, <1>6, <1>7

(* Nothing is placed at first.                                             *)
LEMMA InitHolds ==
  ASSUME Init
  PROVE  Inv
<1>1. PICK g \in Garbage : calls = <<Call(<<>>, 0, g)>>
      BY DEF Init, Start
<1>2. IsTree(tables) /\ Symbols = {} /\ DOMAIN sizeofsymbols = {} /\ ~trapped
      BY TreesAssumption DEF Init, Start, Symbols
<1>3. PICK d : d = Call(<<>>, 0, g)
      OBVIOUS
<1>4. /\ d \in Calls /\ d.parent = <<>> /\ d.child = 1 /\ d.next = 0
      /\ d.initial = 0 /\ d.offset = 0
      BY <1>3, GarbageAssumption DEF Call, Calls
<1>5. calls \in Seq(Calls) /\ Len(calls) = 1 /\ calls[1] = d
      BY <1>1, <1>3, <1>4
<1>6. Typed
      BY <1>2, <1>5 DEF Typed
<1>7. Linked(1) /\ Within(1)
      <2>1. <<>> \in DOMAIN tables /\ tables[<<>>].children \in Nat
            BY <1>2 DEF IsTree
      <2>2. QED
            BY <1>4, <1>5, <2>1 DEF Linked, Within
<1>8. Chained
      BY <1>5, <1>7 DEF Chained
<1>9. Settled
      <2>1. calls[1].parent = <<>> /\ calls[1].child = 1 /\ calls[1].next - 1 = -1
            BY <1>4, <1>5
      <2>2. PathOf(1) = Append(<<>>, 1) /\ <<>> \in Seq(Nat)
            BY <2>1 DEF PathOf
      <2>3. ~Determined(<<PathOf(1), calls[1].next - 1>>)
            BY <2>1, <2>2, NotDeterminedYet
      <2>4. QED
            BY <1>5, <2>3 DEF Settled
<1>10. Rising
      BY <1>4, <1>5 DEF Rising
<1>11. QED
      BY <1>2, <1>6, <1>8, <1>9, <1>10 DEF Inv, Ahead, Under, Before, Apart, Inside, Aligned

(* Inv speaks of the tables and of the calls that are active: a step that  *)
(* leaves them, such as the division by zero, keeps it.                    *)
LEMMA StutterKeeps ==
  ASSUME Inv, UNCHANGED <<tables, calls, offset, sizeofsymbols>>, trapped' => Active
  PROVE  Inv'
<1>1. tables' = tables /\ calls' = calls /\ offset' = offset /\ sizeofsymbols' = sizeofsymbols
      OBVIOUS
<1>2. Symbols' = Symbols /\ Path' = Path /\ Current' = Current /\ Active' = Active
      BY <1>1 DEF Symbols, Path, Current, Active
<1>3. /\ \A s : Sized(s)' = Sized(s) /\ End(s)' = End(s) /\ Placed(s)' = Placed(s)
      /\ \A s : ElementSize(s)' = ElementSize(s)
      /\ \A i : Linked(i)' = Linked(i) /\ Within(i)' = Within(i) /\ PathOf(i)' = PathOf(i)
      BY <1>1 DEF Sized, TypeOf, End, ElementSize, DimsOf, Placed, Linked, Within, PathOf
<1>4. \A s : Determined(s)' = Determined(s)
      BY <1>1, <1>3 DEF Determined
<1>5. /\ \A i : Clean(i)' = Clean(i)
      /\ \A m, t : NoGarbage(m, t)' = NoGarbage(m, t)
      BY <1>2, <1>3, <1>4 DEF Clean, NoGarbage
<1>6. Typed' /\ Chained'
      BY <1>1, <1>2, <1>3 DEF Inv, Typed, Chained
<1>7. Ahead' /\ Under' /\ Before'
      BY <1>1, <1>2, <1>3 DEF Inv, Ahead, Under, Before
<1>8. Settled' /\ Rising'
      BY <1>1, <1>3, <1>4, <1>5 DEF Inv, Settled, Rising
<1>9. Apart' /\ Inside' /\ Aligned'
      BY <1>1, <1>2, <1>3, <1>5 DEF Inv, Apart, Inside, Aligned
<1>10. QED
      BY <1>6, <1>7, <1>8, <1>9 DEF Inv

-----------------------------------------------------------------------------
(***************************************************************************)
(* Inv holds throughout the recursion of calculate_offsets.                *)
(***************************************************************************)
THEOREM Invariant == Spec => []Inv
<1>1. Init => Inv
      BY InitHolds
<1>2. ASSUME Inv, [Next]_vars PROVE Inv'
      <2>1. CASE UNCHANGED vars
            <3>1. UNCHANGED <<tables, calls, offset, sizeofsymbols>> /\ (trapped' => Active)
                  BY <1>2, <2>1 DEF vars, Inv, Typed
            <3>2. QED
                  BY <1>2, <3>1, StutterKeeps
      <2>2. CASE DivideByZero
            <3>1. UNCHANGED <<tables, calls, offset, sizeofsymbols>> /\ Active
                  BY <2>2 DEF DivideByZero, AtSymbol, InTables
            <3>2. QED
                  BY <1>2, <3>1, StutterKeeps
      <2>3. QED
            BY <1>2, <2>1, <2>2, StartTableKeeps, PlaceSymbolKeeps, RecurseKeeps, ReturnKeeps DEF Next
<1>3. QED
      BY <1>1, <1>2, PTL DEF Spec

(***************************************************************************)
(* The walk of calculate_offsets never leaves the tree: each call is at a  *)
(* table of its parent, or behind the last, and no further than behind the *)
(* last symbol of that table, whatever size held.                          *)
(***************************************************************************)
THEOREM TypeCorrect == Spec => []TypeOK
<1>1. ASSUME Inv PROVE TypeOK
      <2> USE <1>1 DEF Inv
      <2>1. \A p \in DOMAIN sizeofsymbols : p \in Seq(Nat) /\ sizeofsymbols[p] \in Int
            BY DEF Typed, IsTree
      <2>2. \A s \in DOMAIN offset : s[1] \in DOMAIN sizeofsymbols /\ offset[s] \in Int
            BY DEF Typed, Placed, Symbols
      <2>3. ASSUME NEW i \in 1..Len(calls)
            PROVE  /\ calls[i].child \in 1..(tables[calls[i].parent].children + 1)
                   /\ calls[i].child <= tables[calls[i].parent].children =>
                        calls[i].next \in 0..(Len(tables[PathOf(i)].symbols) + 1)
                   /\ {calls[i].initial, calls[i].offset, calls[i].totalsize,
                       calls[i].size} \subseteq Int
                   /\ calls[i].largestsize \in Nat
            <3>1. Linked(i) /\ Within(i)
                  BY DEF Chained
            <3>2. tables[calls[i].parent].children \in Nat
                  BY <3>1 DEF Linked, Typed, IsTree
            <3>3. calls[i].child \in 1..(tables[calls[i].parent].children + 1)
                  BY <3>1, <3>2, CallFacts DEF Linked
            <3>4. ASSUME calls[i].child <= tables[calls[i].parent].children
                  PROVE  calls[i].next \in 0..(Len(tables[PathOf(i)].symbols) + 1)
                  <4>1. Len(tables[PathOf(i)].symbols) \in Nat
                        BY <3>4, PathFacts DEF Typed, IsTree
                  <4>2. QED
                        BY <3>1, <4>1, CallFacts DEF Within
            <3>5. QED
                  BY <3>3, <3>4, CallFacts
      <2>4. QED
            BY <2>1, <2>2, <2>3 DEF TypeOK, PathOf, Typed
<1>2. QED
      BY <1>1, Invariant, PTL

(***************************************************************************)
(* Two variables whose scopes are nested share no byte of the frame: the   *)
(* blocks that calculate_offsets lays over one another (mips.c:217) never  *)
(* reach into a table that encloses them, however deep they are nested,    *)
(* unless the size of a symbol on the way down to them was garbage.        *)
(***************************************************************************)
THEOREM NestedDisjoint == Spec => []ScopesDisjoint
<1>1. ASSUME Inv PROVE ScopesDisjoint
      <2> USE <1>1 DEF Inv
      <2>1. ASSUME NEW s \in Symbols, NEW t \in Symbols, Sized(s), Prefix(s[1], t[1]),
                   s[1] = t[1] => s[2] < t[2], NoGarbage(Len(s[1]), t)
            PROVE  Bytes(s) \cap Bytes(t) = {}
            <3>1. End(s) <= offset[t]
                  BY <2>1 DEF Apart
            <3>2. End(s) \in Int /\ offset[t] \in Int /\ offset[s] \in Int /\ End(t) \in Int
                  BY SymbolFacts
            <3>3. \A b \in Bytes(s) : b \in Int /\ b < End(s)
                  BY <3>2, SymbolFacts DEF Bytes, End
            <3>4. \A b \in Bytes(t) : b >= offset[t]
                  BY <3>2, SymbolFacts DEF Bytes, End
            <3>5. QED
                  BY <3>1, <3>2, <3>3, <3>4
      <2>2. ASSUME NEW s \in Symbols, NEW t \in Symbols, s # t, Sized(s), Sized(t),
                   Encloses(s[1], t[1]), NoGarbage(Len(s[1]), t)
            PROVE  Bytes(s) \cap Bytes(t) = {}
            <3>1. s[1] \in Seq(Nat) /\ t[1] \in Seq(Nat) /\ s[2] \in Nat /\ t[2] \in Nat
                  BY SymbolFacts
            <3>2. Prefix(s[1], t[1])
                  BY <2>2, <3>1, EnclosesIsPrefix
            <3>3. CASE s[1] # t[1] \/ s[2] < t[2]
                  BY <2>1, <2>2, <3>2, <3>3
            <3>4. CASE s[1] = t[1] /\ t[2] < s[2]
                  <4>1. NoGarbage(Len(t[1]), s)
                        BY <2>2, <3>4 DEF NoGarbage
                  <4>2. QED
                        BY <2>1, <2>2, <3>2, <3>4, <4>1
            <3>5. s = <<s[1], s[2]>> /\ t = <<t[1], t[2]>>
                  BY DEF Typed, Placed
            <3>6. s[1] = t[1] => s[2] # t[2]
                  BY <2>2, <3>5
            <3>7. QED
                  BY <3>1, <3>3, <3>4, <3>6
      <2>3. QED
            BY <2>2 DEF ScopesDisjoint
<1>2. QED
      BY <1>1, Invariant, PTL

(***************************************************************************)
(* Every variable of a sized type lies at a multiple of its element's      *)
(* size, for every start that the tables around it leave (mips.c:234).     *)
(***************************************************************************)
THEOREM AllAligned == Spec => []OffsetsAligned
<1>1. Inv => OffsetsAligned
      BY DEF Inv, Aligned, OffsetsAligned
<1>2. QED
      BY <1>1, Invariant, PTL

-----------------------------------------------------------------------------
(***************************************************************************)
(* The frame.  A second invariant, on top of Inv, follows what is added to *)
(* the size of a function: its own symbols, and then the largest table of  *)
(* the call below.                                                         *)
(***************************************************************************)

(* The frame of its function covers s.                                     *)
Covered(s) ==
  /\ <<s[1][1]>> \in DOMAIN sizeofsymbols
  /\ End(s) <= sizeofsymbols[<<s[1][1]>>]

(* The functions that are finished cover what they have to.                *)
FunctionsCovered ==
  \A s \in Symbols :
    Sized(s) /\ Len(s[1]) <= 2 /\ (Active => s[1][1] # calls[1].child) => Covered(s)

(* Until its blocks are done a function's size is that of its own symbols. *)
OwnSize ==
  Active /\ calls[1].next > 0 => sizeofsymbols[<<calls[1].child>>] = calls[1].totalsize

(* The blocks that are finished are covered by the largest of them.        *)
BlocksCovered ==
  Len(calls) >= 2 =>
    \A s \in Symbols :
      Sized(s) /\ Len(s[1]) = 2 /\ s[1][1] = calls[1].child /\ s[1][2] # calls[2].child =>
        End(s) <= calls[2].initial + calls[2].largestsize

Framed == FunctionsCovered /\ OwnSize /\ BlocksCovered

(* The first call is at a function.                                        *)
LEMMA FunctionPath ==
  ASSUME Typed, Chained, Active
  PROVE  /\ 1 \in 1..Len(calls)
         /\ PathOf(1) = <<calls[1].child>>
         /\ PathOf(1)[1] = calls[1].child
         /\ calls[1].next > 0 => PathOf(1) \in DOMAIN sizeofsymbols
<1>1. 1 \in 1..Len(calls)
      BY DEF Typed, Active
<1>2. PathOf(1) \in Seq(Nat) /\ Len(PathOf(1)) = 1 /\ PathOf(1)[1] = calls[1].child
      <2>1. ASSUME NEW i \in 1..Len(calls), i = 1
            PROVE  PathOf(i) \in Seq(Nat) /\ Len(PathOf(i)) = i /\ PathOf(i)[1] = calls[i].child
            <3>1. 1 \in 1..i
                  BY <2>1
            <3>2. QED
                  BY <2>1, <3>1, PathFacts
      <2>2. QED
            BY <1>1, <2>1
<1>3. PathOf(1) = <<calls[1].child>>
      BY <1>2
<1>4. QED
      BY <1>1, <1>2, <1>3 DEF Chained, Within

(* A step that works on the table of the last call.                        *)
LEMMA OneTableFramed ==
  ASSUME Inv, Framed, Active, UNCHANGED tables, NEW c \in Calls, Become(c),
         c.parent = Current.parent, c.child = Current.child,
         c.initial = Current.initial, c.largestsize = Current.largestsize,
         DOMAIN sizeofsymbols \subseteq DOMAIN sizeofsymbols',
         \A q \in DOMAIN sizeofsymbols : q # Path => sizeofsymbols'[q] = sizeofsymbols[q],
         Len(calls) = 1 => sizeofsymbols'[Path] = c.totalsize,
         \A s \in Symbols' : (s \in Symbols /\ offset'[s] = offset[s]) \/ s[1] = Path
  PROVE  Framed'
<1> DEFINE n == Len(calls)
<1> USE DEF Inv
<1>1. /\ n \in Nat \ {0} /\ n \in 1..n /\ Current = calls[n] /\ Path = PathOf(n)
      BY CurrentFacts
<1>2. /\ Len(calls') = n /\ calls'[n] = c /\ Active'
      /\ \A i \in 1..(n - 1) : calls'[i] = calls[i]
      BY BecomeFacts
<1>3. /\ Len(Path) = n
      /\ \A k \in 1..n : Path[k] = calls[k].child
      BY <1>1, PathFacts
<1>4. \A i \in 1..n : /\ calls'[i].child = calls[i].child
                      /\ calls'[i].initial = calls[i].initial
                      /\ calls'[i].largestsize = calls[i].largestsize
                      /\ i < n => calls'[i] = calls[i]
      BY <1>1, <1>2
<1>5. /\ 1 \in 1..n
      /\ PathOf(1) = <<calls[1].child>>
      /\ calls[1].next > 0 => PathOf(1) \in DOMAIN sizeofsymbols
      BY FunctionPath
<1>6. /\ \A s : Sized(s)' = Sized(s)
      /\ \A s \in Symbols' : s \in Symbols /\ s[1] # Path => End(s)' = End(s)
      BY DEF Sized, TypeOf, End, ElementSize, DimsOf
<1>7. FunctionsCovered'
      <2>1. ASSUME NEW s \in Symbols', Sized(s), Len(s[1]) <= 2, s[1][1] # calls[1].child
            PROVE  Covered(s)'
            <3>1. s[1] # Path /\ <<s[1][1]>> # Path
                  BY <1>3, <1>5, <2>1
            <3>2. s \in Symbols /\ Covered(s)
                  BY <2>1, <3>1 DEF Framed, FunctionsCovered
            <3>3. End(s)' = End(s)
                  BY <1>6, <3>1, <3>2
            <3>4. QED
                  BY <3>1, <3>2, <3>3 DEF Covered
      <2>2. QED
            BY <1>2, <1>4, <1>5, <1>6, <2>1 DEF FunctionsCovered
<1>8. OwnSize'
      <2> SUFFICES ASSUME calls'[1].next > 0
                   PROVE  sizeofsymbols'[<<calls[1].child>>] = calls'[1].totalsize
          BY <1>4, <1>5 DEF OwnSize
      <2>1. CASE n = 1
            BY <1>1, <1>2, <1>5, <2>1
      <2>2. CASE n # 1
            <3>1. calls'[1] = calls[1]
                  <4>1. \A k \in Nat \ {0} : k # 1 => 1 < k
                        OBVIOUS
                  <4>2. n \in Nat \ {0}
                        BY <1>1
                  <4>3. 1 < n
                        BY <2>2, <4>1, <4>2, Zenon
                  <4>4. QED
                        BY <1>4, <1>5, <4>3
            <3>2. PathOf(1) # Path
                  BY <1>3, <1>5, <2>2
            <3>3. QED
                  BY <1>5, <3>1, <3>2 DEF Framed, OwnSize
      <2>3. QED
            BY <2>1, <2>2
<1>9. BlocksCovered'
      <2> SUFFICES ASSUME n >= 2, NEW s \in Symbols', Sized(s), Len(s[1]) = 2,
                          s[1][1] = calls[1].child, s[1][2] # calls[2].child
                   PROVE  End(s)' <= calls[2].initial + calls[2].largestsize
          <3>1. n >= 2 => 2 \in 1..n
                BY <1>1
          <3>2. QED
                BY <1>2, <1>4, <1>5, <1>6, <3>1 DEF BlocksCovered
      <2>1. s[1] # Path
            BY <1>3
      <2>2. s \in Symbols /\ End(s)' = End(s)
            BY <1>6, <2>1
      <2>3. QED
            BY <2>2 DEF Framed, BlocksCovered
<1>10. QED
       BY <1>7, <1>8, <1>9 DEF Framed

(* A table is started with size 0 (mips.c:220).                            *)
LEMMA StartTableFramed ==
  ASSUME Inv, Framed, StartTable
  PROVE  Framed'
<1>1. PICK c : c = [Current EXCEPT !.offset = Current.initial, !.totalsize = 0, !.next = 1]
      OBVIOUS
<1>2. /\ Active /\ tables' = tables /\ offset' = offset /\ Become(c)
      /\ sizeofsymbols' = Put(sizeofsymbols, Path, 0)
      BY <1>1 DEF StartTable, InTables
<1>3. Current \in Calls /\ Current.initial \in Int
      BY <1>2, CurrentFacts, CallFacts DEF Inv
<1>4. /\ c \in Calls /\ c.parent = Current.parent /\ c.child = Current.child
      /\ c.initial = Current.initial /\ c.largestsize = Current.largestsize
      /\ c.totalsize = 0
      <2>1. PICK o : o = Current.initial
            OBVIOUS
      <2>2. PICK z : z = 0
            OBVIOUS
      <2>3. PICK k : k = 1
            OBVIOUS
      <2>4. o \in Int /\ z \in Int /\ k \in Nat
            BY <1>3, <2>1, <2>2, <2>3
      <2>5. c = [Current EXCEPT !.offset = o, !.totalsize = z, !.next = k]
            BY <1>1, <2>1, <2>2, <2>3
      <2>6. QED
            BY <1>3, <2>2, <2>4, <2>5 DEF Calls
<1>5. /\ DOMAIN sizeofsymbols \subseteq DOMAIN sizeofsymbols'
      /\ \A q \in DOMAIN sizeofsymbols : q # Path => sizeofsymbols'[q] = sizeofsymbols[q]
      /\ sizeofsymbols'[Path] = 0
      BY <1>2 DEF Put
<1>6. \A s \in Symbols' : s \in Symbols /\ offset'[s] = offset[s]
      BY <1>2 DEF Symbols
<1>7. QED
      BY <1>2, <1>4, <1>5, <1>6, OneTableFramed

(* A symbol adds as much to the table's size as to totalsize.              *)
LEMMA PlaceSymbolFramed ==
  ASSUME Inv, Framed, PlaceSymbol
  PROVE  Framed'
<1>1. PICK new : new = <<Path, Current.next>>
      OBVIOUS
<1>2. PICK align : align = SizeOf(TypeOf(new), Current.size)
      OBVIOUS
<1>3. PICK pad : pad = Padding(Current.offset, align)
      OBVIOUS
<1>4. PICK size : size = Times(align, DimsOf(new))
      OBVIOUS
<1>5. PICK c : c = [Current EXCEPT !.offset = @ + pad + size, !.totalsize = @ + pad + size,
                                   !.size = size, !.next = @ + 1]
      OBVIOUS
<1>6. /\ Active /\ InTables
      /\ Current.next \in 1..Len(tables[Path].symbols)
      /\ offset' = Put(offset, new, Current.offset + pad)
      /\ sizeofsymbols' = [sizeofsymbols EXCEPT ![Path] = @ + pad + size]
      /\ Become(c)
      /\ tables' = tables
      /\ align # 0
      <2>1. /\ AtSymbol /\ Align = align /\ currenttable = tables[Path]
            /\ currenttable.symbols[Current.next].dims = DimsOf(new)
            BY <1>1, <1>2 DEF PlaceSymbol, Align, currenttable, TypeOf, DimsOf
      <2>2. QED
            BY <1>1, <1>3, <1>4, <1>5, <2>1 DEF PlaceSymbol, AtSymbol, InTables
<1>7. /\ Len(calls) \in 1..Len(calls) /\ Current = calls[Len(calls)]
      /\ Path = PathOf(Len(calls)) /\ Path \in DOMAIN tables
      BY <1>6, CurrentFacts DEF Inv
<1>8. /\ Current \in Calls /\ Current.next \in Nat /\ Current.next > 0
      /\ Current.offset \in Int /\ Current.totalsize \in Int /\ Current.size \in Int
      BY <1>6, <1>7, CallFacts DEF Inv
<1>9. align \in Int \ {0}
      BY <1>2, <1>6, <1>8, SizesFit
<1>10. pad \in Nat
       BY <1>3, <1>8, <1>9, PaddingFits
<1>11. size \in Int
       <2>1. DimsOf(new) \in Seq(Nat)
             BY <1>1, <1>6, <1>7 DEF DimsOf, Inv, Typed, IsTree
       <2>2. QED
             BY <1>4, <1>9, <2>1, TimesFits
<1>12. /\ c \in Calls /\ c.parent = Current.parent /\ c.child = Current.child
       /\ c.initial = Current.initial /\ c.largestsize = Current.largestsize
       /\ c.totalsize = Current.totalsize + pad + size
       <2>1. PICK o : o = Current.offset + pad + size
             OBVIOUS
       <2>2. PICK t : t = Current.totalsize + pad + size
             OBVIOUS
       <2>3. PICK k : k = Current.next + 1
             OBVIOUS
       <2>4. o \in Int /\ t \in Int /\ k \in Nat
             BY <1>8, <1>10, <1>11, <2>1, <2>2, <2>3
       <2>5. c = [Current EXCEPT !.offset = o, !.totalsize = t, !.size = size, !.next = k]
             BY <1>5, <1>8, <2>1, <2>2, <2>3 DEF Calls
       <2>6. QED
             BY <1>8, <1>11, <2>2, <2>4, <2>5 DEF Calls
<1>13. Within(Len(calls))
       BY <1>7 DEF Inv, Chained
<1>14. Path \in DOMAIN sizeofsymbols
       BY <1>7, <1>8, <1>13 DEF Within
<1>15. /\ DOMAIN sizeofsymbols' = DOMAIN sizeofsymbols
       /\ \A q \in DOMAIN sizeofsymbols : q # Path => sizeofsymbols'[q] = sizeofsymbols[q]
       /\ sizeofsymbols'[Path] = sizeofsymbols[Path] + pad + size
       BY <1>6, <1>14
<1>16. Len(calls) = 1 => sizeofsymbols'[Path] = c.totalsize
       <2> SUFFICES ASSUME Len(calls) = 1 PROVE sizeofsymbols[Path] = Current.totalsize
           BY <1>12, <1>15
       <2>1. Path = <<calls[1].child>> /\ Current = calls[1]
             BY <1>6, <1>7, FunctionPath DEF Inv
       <2>2. QED
             BY <1>6, <1>8, <2>1 DEF Framed, OwnSize
<1>17. new[1] = Path
       BY <1>1
<1>18. \A s \in Symbols' : (s \in Symbols /\ offset'[s] = offset[s]) \/ s[1] = Path
       BY <1>6, <1>17 DEF Put, Symbols
<1>19. QED
       BY <1>6, <1>12, <1>15, <1>16, <1>18, OneTableFramed

(* A new call has no finished blocks.                                      *)
LEMMA RecurseFramed ==
  ASSUME Inv, Framed, Recurse
  PROVE  Framed'
<1>0. PICK n : n = Len(calls)
      OBVIOUS
<1> USE DEF Inv
<1>1. PICK g \in Garbage : calls' = Append(calls, Call(Path, Current.offset, g))
      BY DEF Recurse
<1>2. /\ Active /\ InTables /\ Current.next = Len(tables[Path].symbols) + 1
      /\ tables' = tables /\ offset' = offset /\ sizeofsymbols' = sizeofsymbols
      BY DEF Recurse, InTables, currenttable
<1>3. n \in Nat \ {0} /\ n \in 1..n /\ Current = calls[n] /\ Path = PathOf(n)
      BY <1>0, <1>2, CurrentFacts
<1>4. /\ Len(calls') = n + 1
      /\ \A i \in 1..n : calls'[i] = calls[i]
      BY <1>0, <1>1 DEF Typed
<1>5. 1 \in 1..n /\ PathOf(1) = <<calls[1].child>> /\ PathOf(1)[1] = calls[1].child
      BY <1>0, <1>2, FunctionPath
<1>6. Active' /\ calls'[1] = calls[1]
      <2>1. calls' # <<>>
            BY <1>3, <1>4
      <2>2. QED
            BY <1>4, <1>5, <2>1 DEF Active
<1>7. /\ Symbols' = Symbols
      /\ \A s : Sized(s)' = Sized(s) /\ End(s)' = End(s) /\ Covered(s)' = Covered(s)
      BY <1>2 DEF Symbols, Sized, TypeOf, End, ElementSize, DimsOf, Covered
<1>8. FunctionsCovered'
      BY <1>2, <1>6, <1>7 DEF Framed, FunctionsCovered
<1>9. OwnSize'
      BY <1>2, <1>6 DEF Framed, OwnSize
<1>10. BlocksCovered'
       <2>1. CASE n = 1
             <3>1. ASSUME NEW s \in Symbols, Len(s[1]) = 2, s[1][1] = calls[1].child PROVE FALSE
                   <4>1. Path = <<calls[1].child>>
                         BY <1>3, <1>5, <2>1
                   <4>2. Prefix(Path, s[1])
                         BY <3>1, <4>1 DEF Prefix
                   <4>3. s[1] = Path
                         BY <1>2, <4>2 DEF Under
                   <4>4. QED
                         BY <3>1, <4>1, <4>3
             <3>2. QED
                   BY <1>6, <1>7, <3>1 DEF BlocksCovered
       <2>2. CASE n # 1
             <3>1. 2 \in 1..n /\ n >= 2
                   BY <1>3, <2>2
             <3>2. calls'[2] = calls[2]
                   BY <1>4, <3>1
             <3>3. QED
                   BY <1>0, <1>6, <1>7, <3>1, <3>2 DEF Framed, BlocksCovered
       <2>3. QED
             BY <2>1, <2>2
<1>11. QED
       BY <1>8, <1>9, <1>10 DEF Framed

(* A call that ends has nothing placed in the table after its last.        *)
LEMMA NoneInNext ==
  ASSUME Typed, Chained, Ahead, Active, ~trapped, ~InTables, NEW s \in Symbols,
         Prefix(Current.parent, s[1]), Len(s[1]) >= Len(calls)
  PROVE  s[1][Len(calls)] # Current.child
<1>1. PICK n : n = Len(calls)
      OBVIOUS
<1>2. n \in 1..Len(calls) /\ Current = calls[n]
      BY <1>1, CurrentFacts
<1>3. s[1][n] = calls[n].child => calls[n].next > 0
      BY <1>1, <1>2 DEF Ahead
<1>4. calls[n].next > 0 => calls[n].child <= tables[calls[n].parent].children
      BY <1>2 DEF Chained, Within
<1>5. QED
      BY <1>1, <1>2, <1>3, <1>4 DEF InTables

(* The function gets the size of its largest block (mips.c:268), a block   *)
(* is counted for the largest (mips.c:271), or the walk ends.              *)
LEMMA ReturnFramed ==
  ASSUME Inv, Framed, Return
  PROVE  Framed'
<1>0. PICK n : n = Len(calls)
      OBVIOUS
<1> USE DEF Inv
<1>1. /\ Active /\ ~trapped /\ ~InTables
      /\ tables' = tables /\ offset' = offset
      BY DEF Return
<1>2. n \in Nat \ {0} /\ n \in 1..n /\ Current = calls[n] /\ Path = PathOf(n)
      BY <1>0, <1>1, CurrentFacts
<1>3. 1 \in 1..n /\ PathOf(1) = <<calls[1].child>> /\ PathOf(1)[1] = calls[1].child
      BY <1>0, <1>1, FunctionPath
<1>4. /\ Symbols' = Symbols
      /\ \A s : Sized(s)' = Sized(s) /\ End(s)' = End(s)
      BY <1>1 DEF Symbols, Sized, TypeOf, End, ElementSize, DimsOf
<1>5. Linked(n) /\ Within(n) /\ Linked(1) /\ Within(1)
      BY <1>0, <1>2, <1>3 DEF Chained
<1>6. CASE n = 1
      <2>1. calls' = <<>> /\ sizeofsymbols' = sizeofsymbols /\ Len(calls') = 0 /\ ~Active'
            BY <1>0, <1>6 DEF Return, Active
      <2>2. OwnSize' /\ BlocksCovered'
            BY <2>1 DEF OwnSize, BlocksCovered
      <2>3. ASSUME NEW s \in Symbols, Sized(s), Len(s[1]) <= 2 PROVE Covered(s)
            <3>1. Len(s[1]) >= 1 /\ Prefix(Current.parent, s[1])
                  BY <1>2, <1>5, <1>6, SymbolFacts DEF Linked, Prefix
            <3>2. s[1][1] # calls[1].child
                  BY <1>0, <1>1, <1>2, <1>6, <3>1, NoneInNext
            <3>3. QED
                  BY <2>3, <3>2 DEF Framed, FunctionsCovered
      <2>4. FunctionsCovered'
            BY <1>4, <2>1, <2>3 DEF FunctionsCovered, Covered
      <2>5. QED
            BY <2>2, <2>4 DEF Framed
<1>7. CASE n > 1
      <2>1. PICK m : m = n - 1
            OBVIOUS
      <2>2. /\ m \in Nat \ {0} /\ m \in 1..n /\ m < n /\ m + 1 = n /\ 1 \in 1..m
            BY <1>2, <1>7, <2>1
      <2>3. PICK d : d = Finish(calls[m], Current.largestsize)
            OBVIOUS
      <2>4. /\ sizeofsymbols' = [sizeofsymbols EXCEPT ![PathOf(m)] = @ + Current.largestsize]
            /\ calls' = Append(SubSeq(calls, 1, n - 2), d)
            <3>1. /\ Current.parent \in Seq(Nat) /\ Len(Current.parent) = m
                  /\ \A k \in 1..m : Current.parent[k] = calls[k].child
                  BY <1>0, <1>2, <1>5, <2>1, CallFacts DEF Linked
            <3>2. /\ PathOf(m) \in Seq(Nat) /\ Len(PathOf(m)) = m
                  /\ \A k \in 1..m : PathOf(m)[k] = calls[k].child
                  BY <1>0, <2>2, PathFacts
            <3>3. Prefix(Current.parent, PathOf(m))
                  BY <2>2, <3>1, <3>2 DEF Prefix
            <3>4. Current.parent = PathOf(m)
                  BY <3>1, <3>2, <3>3, SameSequence
            <3>5. /\ sizeofsymbols' = [sizeofsymbols EXCEPT ![Current.parent] = @ + Current.largestsize]
                  /\ calls' = Append(SubSeq(calls, 1, n - 2), d)
                  BY <1>0, <1>7, <2>1, <2>3 DEF Return
            <3>6. QED
                  BY <3>4, <3>5
      <2>5. /\ calls[m] \in Calls /\ calls[m].child \in Nat \ {0}
            /\ calls[m].totalsize \in Int /\ calls[m].largestsize \in Nat
            /\ calls[m].initial \in Int /\ calls[m].offset \in Int
            /\ calls[n].largestsize \in Nat
            BY <1>0, <1>2, <2>2, CallFacts
      <2>6. /\ d.child = calls[m].child + 1 /\ d.next = 0
            /\ d.initial = calls[m].initial
            /\ d.largestsize \in Nat
            /\ calls[m].totalsize <= d.largestsize /\ calls[m].largestsize <= d.largestsize
            BY <2>3, <2>5 DEF Finish, Calls
      <2>7. Len(calls') = m /\ calls'[m] = d /\ \A i \in 1..(m - 1) : calls'[i] = calls[i]
            <3>1. calls \in Seq(Calls) /\ n - 2 \in 0..n /\ n - 2 = m - 1
                  BY <2>1, <2>2, <1>2 DEF Typed
            <3>2. /\ SubSeq(calls, 1, n - 2) \in Seq(Calls) /\ Len(SubSeq(calls, 1, n - 2)) = m - 1
                  /\ \A i \in 1..(m - 1) : SubSeq(calls, 1, n - 2)[i] = calls[i]
                  BY <1>0, <2>2, <3>1
            <3>3. QED
                  BY <2>2, <2>4, <3>2
      <2>8. Active'
            <3>1. calls' # <<>>
                  BY <2>2, <2>7
            <3>2. QED
                  BY <3>1 DEF Active
      <2>9. /\ calls[m].next > 0
            /\ PathOf(m) \in DOMAIN sizeofsymbols
            /\ calls[m].offset = calls[m].initial + calls[m].totalsize
            /\ calls[n].initial = calls[m].offset
            BY <1>0, <2>2 DEF Chained, Linked, Within
      <2>10. /\ DOMAIN sizeofsymbols' = DOMAIN sizeofsymbols
             /\ \A q \in DOMAIN sizeofsymbols :
                  q # PathOf(m) => sizeofsymbols'[q] = sizeofsymbols[q]
             /\ sizeofsymbols'[PathOf(m)] = sizeofsymbols[PathOf(m)] + calls[n].largestsize
             BY <1>2, <2>4, <2>9
      <2>11. Len(PathOf(m)) = m
             BY <1>0, <2>2, PathFacts
      <2>12. CASE m = 1
             <3>1. n = 2 /\ calls'[1] = d /\ PathOf(m) = <<calls[1].child>> /\ calls[1].initial = 0
                   BY <1>3, <1>5, <2>2, <2>7, <2>12 DEF Linked
             <3>2. sizeofsymbols[PathOf(m)] = calls[1].totalsize
                   BY <1>1, <2>9, <2>12, <3>1 DEF Framed, OwnSize
             <3>3. sizeofsymbols'[<<calls[1].child>>] = calls[1].totalsize + calls[2].largestsize
                   BY <2>10, <3>1, <3>2
             <3>4. calls[2].initial = calls[1].totalsize /\ calls[1].offset = calls[1].totalsize
                   BY <2>5, <2>9, <2>12, <3>1
             <3>5. ASSUME NEW s \in Symbols, Sized(s), Len(s[1]) <= 2, s[1][1] = calls[1].child
                   PROVE  End(s) <= calls[1].totalsize + calls[2].largestsize
                   <4>1. CASE Len(s[1]) = 1
                         <5>1. s[1] = PathOf(1)
                               BY <1>3, <3>5, <4>1, SymbolFacts
                         <5>2. End(s) <= calls[1].offset
                               BY <1>0, <1>3, <3>5, <5>1 DEF Before
                         <5>3. QED
                               BY <2>5, <2>12, <3>1, <3>4, <5>2, SymbolFacts
                   <4>2. CASE Len(s[1]) = 2
                         <5>1. /\ Len(Current.parent) = 1 /\ Current.parent[1] = calls[1].child
                               /\ Current = calls[2]
                               BY <1>2, <1>5, <3>1 DEF Linked
                         <5>2. Prefix(Current.parent, s[1])
                               BY <3>5, <4>2, <5>1 DEF Prefix
                         <5>3. s[1][2] # calls[2].child
                               BY <1>0, <1>1, <3>1, <4>2, <5>1, <5>2, NoneInNext
                         <5>4. End(s) <= calls[2].initial + calls[2].largestsize
                               BY <1>0, <1>7, <3>5, <4>2, <5>3 DEF Framed, BlocksCovered
                         <5>5. QED
                               BY <3>4, <5>4
                   <4>3. \A k \in Nat \ {0} : k <= 2 => k = 1 \/ k = 2
                         OBVIOUS
                   <4>4. Len(s[1]) \in Nat \ {0}
                         BY <1>0, SymbolFacts
                   <4>5. Len(s[1]) = 1 \/ Len(s[1]) = 2
                         BY <3>5, <4>3, <4>4, Zenon
                   <4>6. QED
                         BY <4>1, <4>2, <4>5
             <3>6. ASSUME NEW s \in Symbols, Sized(s), Len(s[1]) <= 2 PROVE Covered(s)'
                   <4>1. CASE s[1][1] = calls[1].child
                         BY <1>4, <2>9, <2>10, <3>1, <3>3, <3>5, <3>6, <4>1 DEF Covered
                   <4>2. CASE s[1][1] # calls[1].child
                         <5>1. Covered(s)
                               BY <3>6, <4>2 DEF Framed, FunctionsCovered
                         <5>2. <<s[1][1]>> # PathOf(m)
                               BY <3>1, <4>2
                         <5>3. QED
                               BY <1>4, <2>10, <5>1, <5>2 DEF Covered
                   <4>3. QED
                         BY <4>1, <4>2
             <3>7. FunctionsCovered'
                   BY <1>4, <3>6 DEF FunctionsCovered
             <3>8. OwnSize' /\ BlocksCovered'
                   BY <2>6, <2>7, <2>12, <3>1 DEF OwnSize, BlocksCovered
             <3>9. QED
                   BY <3>7, <3>8 DEF Framed
      <2>13. CASE m > 1
             <3>1. calls'[1] = calls[1]
                   BY <2>2, <2>7, <2>13
             <3>2. \A q \in DOMAIN sizeofsymbols :
                     Len(q) = 1 => sizeofsymbols'[q] = sizeofsymbols[q]
                   <4>1. m # 1
                         BY <2>2, <2>13
                   <4>2. \A q : Len(q) = 1 => q # PathOf(m)
                         BY <2>11, <4>1, Zenon
                   <4>3. QED
                         BY <2>10, <4>2
             <3>3. FunctionsCovered'
                   <4>1. ASSUME NEW s \in Symbols, Covered(s) PROVE Covered(s)'
                         <5>1. Len(<<s[1][1]>>) = 1
                               OBVIOUS
                         <5>2. QED
                               BY <1>4, <2>10, <3>2, <4>1, <5>1 DEF Covered
                   <4>2. QED
                         BY <1>1, <1>4, <2>8, <3>1, <4>1 DEF Framed, FunctionsCovered
             <3>4. OwnSize'
                   <4>1. Len(<<calls[1].child>>) = 1
                         OBVIOUS
                   <4>2. calls[1].next > 0 => <<calls[1].child>> \in DOMAIN sizeofsymbols
                         BY <1>3, <1>5 DEF Within
                   <4>3. QED
                         BY <1>1, <3>1, <3>2, <4>1, <4>2 DEF Framed, OwnSize
             <3>5. BlocksCovered'
                   <4> SUFFICES ASSUME NEW s \in Symbols, Sized(s), Len(s[1]) = 2,
                                       s[1][1] = calls[1].child, s[1][2] # calls'[2].child
                                PROVE  End(s) <= calls'[2].initial + calls'[2].largestsize
                       BY <1>4, <3>1 DEF BlocksCovered
                   <4>1. CASE m = 2
                         <5>1. /\ calls'[2] = d /\ calls[2].initial \in Int
                               /\ calls[2].totalsize \in Int /\ calls[2].largestsize \in Nat
                               BY <2>5, <2>7, <4>1
                         <5>2. CASE s[1][2] # calls[2].child
                               <6>1. End(s) <= calls[2].initial + calls[2].largestsize
                                     BY <1>0, <1>7, <5>2 DEF Framed, BlocksCovered
                               <6>2. QED
                                     BY <2>6, <4>1, <5>1, <6>1, SymbolFacts
                         <5>3. CASE s[1][2] = calls[2].child
                               <6>1. /\ PathOf(2) \in Seq(Nat) /\ Len(PathOf(2)) = 2
                                     /\ \A k \in 1..2 : PathOf(2)[k] = calls[k].child
                                     BY <1>0, <2>2, <4>1, PathFacts
                               <6>2. Prefix(s[1], PathOf(2))
                                     BY <5>3, <6>1 DEF Prefix
                               <6>3. s[1] = PathOf(2)
                                     BY <6>1, <6>2, SymbolFacts, SameSequence
                               <6>4. End(s) <= calls[2].offset
                                     BY <1>0, <2>2, <4>1, <6>3 DEF Before
                               <6>5. calls[2].offset = calls[2].initial + calls[2].totalsize
                                     BY <2>9, <4>1
                               <6>6. QED
                                     BY <2>6, <4>1, <5>1, <6>4, <6>5, SymbolFacts
                         <5>4. QED
                               BY <5>2, <5>3
                   <4>2. CASE m > 2
                         <5>1. calls'[2] = calls[2]
                               BY <2>2, <2>7, <4>2
                         <5>2. QED
                               BY <1>0, <1>7, <2>2, <4>2, <5>1 DEF Framed, BlocksCovered
                   <4>3. QED
                         BY <2>2, <2>13, <4>1, <4>2
             <3>6. QED
                   BY <3>3, <3>4, <3>5 DEF Framed
      <2>14. QED
             BY <2>2, <2>12, <2>13
<1>8. QED
      BY <1>2, <1>6, <1>7

(***************************************************************************)
(* The size from which generate_mips makes a function's frame covers all   *)
(* its own variables and those of the blocks directly in it, for every     *)
(* program.  It does not cover deeper ones, as run offsets_deep shows.     *)
(***************************************************************************)
THEOREM FrameCovered == Spec => []FrameCoversBlocks
<1>1. Init => Framed
      <2> SUFFICES ASSUME Init PROVE Framed
          OBVIOUS
      <2>1. PICK g : calls = <<Call(<<>>, 0, g)>>
            BY DEF Init, Start
      <2>2. calls[1].next = 0 /\ Len(calls) = 1 /\ Symbols = {}
            BY <2>1 DEF Init, Start, Symbols, Call
      <2>3. QED
            BY <2>2 DEF Framed, FunctionsCovered, OwnSize, BlocksCovered
<1>2. ASSUME Inv, Framed, [Next]_vars PROVE Framed'
      <2>1. CASE UNCHANGED vars
            BY <1>2, <2>1 DEF vars, Framed, FunctionsCovered, OwnSize, BlocksCovered, Covered,
                             Symbols, Active, Sized, TypeOf, End, ElementSize, DimsOf
      <2>2. CASE DivideByZero
            <3>1. UNCHANGED <<tables, calls, offset, sizeofsymbols>>
                  BY <2>2 DEF DivideByZero
            <3>2. QED
                  BY <1>2, <3>1 DEF Framed, FunctionsCovered, OwnSize, BlocksCovered, Covered,
                                   Symbols, Active, Sized, TypeOf, End, ElementSize, DimsOf
      <2>3. QED
            BY <1>2, <2>1, <2>2, StartTableFramed, PlaceSymbolFramed, RecurseFramed, ReturnFramed DEF Next
<1>3. ASSUME Inv, Framed PROVE FrameCoversBlocks
      <2>1. ASSUME Finished, NEW p \in Functions, NEW s \in Symbols,
                   Encloses(p, s[1]), Len(s[1]) <= 2, Sized(s), NEW b \in Bytes(s)
            PROVE  b < sizeofsymbols[p] /\ (NoGarbage(0, s) => 0 <= b)
            <3>1. Covered(s)
                  BY <1>3, <2>1 DEF Framed, FunctionsCovered, Finished, Active
            <3>2. p \in Seq(Nat) /\ Len(p) = 1 /\ sizeofsymbols[p] \in Int
                  BY <1>3 DEF Inv, Typed, IsTree, Functions, LaidOut
            <3>3. s[1] \in Seq(Nat) /\ offset[s] \in Int /\ End(s) \in Int
                  BY <1>3, SymbolFacts DEF Inv
            <3>4. Prefix(p, s[1]) /\ 1 \in 1..Len(p)
                  BY <2>1, <3>2, <3>3, EnclosesIsPrefix
            <3>5. p = <<s[1][1]>>
                  BY <3>2, <3>4 DEF Prefix
            <3>6. b \in Int /\ b < End(s) /\ offset[s] <= b
                  BY <1>3, <3>3, SymbolFacts DEF Bytes, End, Inv
            <3>7. NoGarbage(0, s) => 0 <= offset[s]
                  BY <1>3 DEF Inv, Inside
            <3>8. QED
                  BY <3>1, <3>2, <3>3, <3>5, <3>6, <3>7 DEF Covered
      <2>2. QED
            BY <2>1 DEF FrameCoversBlocks
<1>4. QED
      BY <1>1, <1>2, <1>3, Invariant, PTL DEF Spec
=============================================================================
