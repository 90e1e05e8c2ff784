--------------------------- MODULE IrGenJumpProofs --------------------------
(***************************************************************************)
(* Every label is placed once and every jump finds its label in its own    *)
(* function, in any program as the grammar makes it that has no ?: and     *)
(* defines no function twice.  The argument is about the list so far and   *)
(* the work that is left in one line, in which every step replaces one     *)
(* item by others: no label is lost from it, none comes twice, and nothing *)
(* that starts a function ever stands between a jump and its label.  Type  *)
(* correctness comes last: where else labels are kept is part of this.     *)
(***************************************************************************)
EXTENDS IrGenValueProofs

Emits(irns) == [i \in 1..Len(irns) |-> Emit(irns[i])]
Line == Emits(irlist) \o todo

-----------------------------------------------------------------------------
(* What an item of the line does about the label l, in the tree t, when g  *)
(* has the labels of the else nodes and v is what was visited.             *)

LabelsIt(irn, l) == irn.opcode = "LABEL" /\ irn.operand[1].data = l
JumpsToIt(irn, l) ==
  irn.opcode \in {"BLEZ", "BGZ", "J"} /\ irn.operand[IF irn.opcode = "J" THEN 1 ELSE 2].data = l

Places(g, item, l) ==
  \/ item.do = "emit" /\ LabelsIt(item.irn, l)
  \/ item.do = "truth" /\ l \in {item.first, item.second, item.done}
  \/ item.do = "elseend" /\ item.n \in DOMAIN g /\ g[item.n] = l

Jumps(item, l) ==
  \/ item.do = "emit" /\ JumpsToIt(item.irn, l)
  \/ item.do = "branch" /\ item.label = l

(* An else that is still to be visited will place its label.               *)
Awaits(g, v, item, l) ==
  item.do \in {"build", "switch"} /\ item.n \in DOMAIN g /\ item.n \notin v /\ g[item.n] = l

(* A definition that is still to be reached will place the function's.     *)
Prefix(m, n) == \E k \in 0..Len(n) : m = SubSeq(n, 1, k)
Reaches(item, n) == \/ item.do = "build" /\ Prefix(item.n, n)
                    \/ item.do = "switch" /\ item.n = n
Declares(t, item, l) ==
  \E s \in Seq(Steps) : IsSpec(t, s) /\ Reaches(item, s) /\ l = func_label(FunctionOf(t, s))

Owns(t, g, item, l) == Places(g, item, l) \/ Declares(t, item, l)

(* Nothing that starts a function.                                         *)
Calm(t, item) ==
  /\ item.do \in {"build", "switch"} => InStatement(t, item.n)
  /\ item.do = "emit" => item.irn.opcode # "FUNCTIONSTART"

CalmFrom(t, line, i, j) ==
  \A k \in 1..Len(line) : (i <= k /\ k <= j) \/ (j <= k /\ k <= i) => Calm(t, line[k])

(***************************************************************************)
(* The parts of the invariant.                                             *)
(***************************************************************************)
(* A label has one owner.                                                  *)
OneOwner(t, g, line) ==
  \A i, j \in 1..Len(line) : \A l : Owns(t, g, line[i], l) /\ Owns(t, g, line[j], l) => i = j

(* A jump has its label.                                                   *)
Landing(t, g, v, line) ==
  \A i \in 1..Len(line) : \A l : Jumps(line[i], l) =>
     \E j \in 1..Len(line) :
        (Places(g, line[j], l) \/ Awaits(g, v, line[j], l)) /\ CalmFrom(t, line, i, j)

(* The serial numbers in use are below labelnum.                           *)
Numbered(t, g, line, next) ==
  \A i \in 1..Len(line) : \A l : Owns(t, g, line[i], l) \/ Jumps(line[i], l) =>
     l[2] \in Int /\ l[2] < next

(* The labels of the else nodes: each has its own; no jump to one is left  *)
(* to do, and none is placed before its node is visited.                   *)
ElseLabels(t, g, v, work, line, next) ==
  \A m \in DOMAIN g :
     /\ IsPath(t, m) /\ NodeAt(t, m).subtype = "ELSE_STMT"
     /\ g[m][2] \in Int /\ g[m][2] < next
     /\ \A k \in DOMAIN g : g[k] = g[m] => k = m
     /\ \A i \in 1..Len(work) : ~Jumps(work[i], g[m])
     /\ m \notin v => \A i \in 1..Len(line) : ~Owns(t, g, line[i], g[m])

IfElse(t, p) == IsPath(t, p) /\ NodeAt(t, p).subtype = "IF_ELSE_STMT"

Inside(item, n) ==
  item.do \in {"drop", "emit"} \/ (Prefix(n, item.n) /\ item # ElseJump(n))

(* The course of an if n with an else e, when d are the else nodes that    *)
(* have labels.                                                            *)
Course(t, v, d, work, n, e) ==
  /\ n \notin v => e \notin d
  /\ e \in v => e \in d
  /\ n \in v /\ e \notin d => \E i \in 1..Len(work) : work[i] = ElseJump(n)
  /\ \A i \in 1..Len(work) : work[i] = ElseJump(n) =>
       n \in v /\ e \notin d /\ \A j \in 1..(i - 1) : Inside(work[j], n)
  /\ \A i \in 1..Len(work) : work[i] \in {Build(n), Switch(n), ElseJump(n)} =>
       \E j \in (i + 1)..Len(work) : work[j] = Build(e) /\ CalmFrom(t, work, i, j)
  /\ \A j \in 1..Len(work) : work[j] \in {Build(e), Switch(e)} /\ e \notin v =>
       \/ e \in d
       \/ \E i \in 1..(j - 1) : \/ work[i] = ElseJump(n)
                                \/ n \notin v /\ work[i] \in {Build(n), Switch(n)}
Courses(t, v, d, work) ==
  \A p \in Seq(Steps) : IfElse(t, p) => Course(t, v, d, work, Left(p), Right(p))

(* What is known of an item by itself.                                     *)
Proper(t, v, item) ==
  /\ item.do = "build"    => item = Build(item.n)
  /\ item.do = "switch"   => item = Switch(item.n)
  /\ item.do = "elsejump" => item = ElseJump(item.n)
  /\ item.do \notin {"drop", "emit"} => IsPath(t, item.n)
  /\ item.do \notin {"drop", "emit", "build", "switch", "generate"} => ~Missing(t, item.n)
  /\ item.do = "fortest"  => NodeAt(t, item.n).subtype = "FOR_STMT"
  /\ item.do = "generate" => ~Conditional(t, item.n)
  /\ item.do = "elsejump" =>
       /\ NodeAt(t, item.n).subtype = "IF_STMT"
       /\ NodeAt(t, Parent(item.n)).subtype = "IF_ELSE_STMT"
  /\ item.do = "elseend" => item.n \in v /\ NodeAt(t, item.n).subtype = "ELSE_STMT"
  /\ item.do = "emit"    => item.irn.opcode # "FUNCTIONSTART"
  /\ item.do = "branch"  => item.op \in {"BLEZ", "BGZ"}
  /\ item.do = "operate" => \E op \in Operators : item.op = Opcode(op)
  /\ item.do = "truth"   =>
       item.first # item.second /\ item.first # item.done /\ item.second # item.done

AllProper(t, v, work) == \A i \in 1..Len(work) : Proper(t, v, work[i])

Jumping ==
  /\ labelnum \in Nat
  /\ AllProper(tree, visited, todo)
  /\ Courses(tree, visited, DOMAIN else_label, todo)
  /\ ElseLabels(tree, else_label, visited, todo, Line, labelnum)
  /\ Numbered(tree, else_label, Line, labelnum)
  /\ OneOwner(tree, else_label, Line)
  /\ Landing(tree, else_label, visited, Line)

JumpInv == Inv /\ IF crashed THEN todo = <<>> ELSE Jumping

-----------------------------------------------------------------------------
(* One item of a sequence is replaced by others.                           *)

(* s becomes u: the item at h is replaced by the items of ys.              *)
Rewrites(s, h, ys, u) ==
  /\ Len(s) \in Nat /\ Len(ys) \in Nat /\ h \in 1..Len(s)
  /\ Len(u) = (Len(s) - 1) + Len(ys)
  /\ \A i \in 1..(h - 1) : u[i] = s[i]
  /\ \A j \in 1..Len(ys) : u[(h - 1) + j] = ys[j]
  /\ \A i \in (h + 1)..Len(s) : u[(i - 1) + Len(ys)] = s[i]

(* The item at i of s, or what it is replaced by, is now at c.             *)
Image(h, k, i, c) ==
  IF i = h THEN \E j \in 1..k : c = (h - 1) + j
  ELSE c = IF i < h THEN i ELSE (i - 1) + k

(* Order is kept.                                                          *)
LEMMA ImageOrder ==
  ASSUME NEW h \in Nat, NEW k \in Nat, NEW i \in Nat, NEW j \in Nat,
         NEW c \in Int, NEW d \in Int, Image(h, k, i, c), Image(h, k, j, d), c <= d
  PROVE  i <= j
<1>1. i = h => c <= (h - 1) + k /\ h <= c
      BY DEF Image
<1>2. j = h => d <= (h - 1) + k /\ h <= d
      BY DEF Image
<1>3. i < h => c = i
      BY DEF Image
<1>4. j < h => d = j
      BY DEF Image
<1>5. i > h => c = (i - 1) + k
      BY DEF Image
<1>6. j > h => d = (j - 1) + k
      BY DEF Image
<1>7. QED
      BY <1>1, <1>2, <1>3, <1>4, <1>5, <1>6

(* Each item comes from one of the new items or from an old one, which is  *)
(* at one place.                                                           *)
LEMMA Sources ==
  ASSUME NEW s, NEW h, NEW ys, NEW u, Rewrites(s, h, ys, u), NEW c \in 1..Len(u)
  PROVE  \/ \E j \in 1..Len(ys) : c = (h - 1) + j /\ u[c] = ys[j] /\ Image(h, Len(ys), h, c)
         \/ \E i \in 1..Len(s) : i # h /\ u[c] = s[i] /\ Image(h, Len(ys), i, c)
<1>1. PICK n, k \in Nat : n = Len(s) /\ k = Len(ys)
      BY DEF Rewrites
<1>2. h \in 1..n /\ c \in 1..((n - 1) + k)
      BY <1>1 DEF Rewrites
<1>3. CASE c < h
      <2>1. c \in 1..(h - 1) /\ c \in 1..n /\ c # h
            BY <1>2, <1>3
      <2>2. u[c] = s[c]
            BY <2>1 DEF Rewrites
      <2>3. Image(h, Len(ys), c, c)
            BY <1>3, <2>1 DEF Image
      <2>4. QED
            BY <1>1, <2>1, <2>2, <2>3
<1>4. CASE h <= c /\ c <= (h - 1) + k
      <2>1. PICK j \in Int : j = (c - h) + 1
            BY <1>2
      <2>2. j \in 1..k /\ c = (h - 1) + j
            BY <1>2, <1>4, <2>1
      <2>3. u[c] = ys[j]
            BY <1>1, <2>2 DEF Rewrites
      <2>4. Image(h, k, h, c)
            BY <2>2 DEF Image
      <2>5. QED
            BY <1>1, <2>2, <2>3, <2>4
<1>5. CASE c > (h - 1) + k
      <2>1. PICK i \in Int : i = (c - k) + 1
            BY <1>2
      <2>2. i \in (h + 1)..n /\ c = (i - 1) + k /\ i \in 1..n /\ i # h /\ ~(i < h)
            BY <1>2, <1>5, <2>1
      <2>3. u[c] = s[i]
            BY <1>1, <2>2 DEF Rewrites
      <2>4. Image(h, k, i, c)
            BY <2>2 DEF Image
      <2>5. QED
            BY <1>1, <2>2, <2>3, <2>4
<1>6. QED
      BY <1>2, <1>3, <1>4, <1>5

(* And every one is somewhere.                                             *)
LEMMA Images ==
  ASSUME NEW s, NEW h, NEW ys, NEW u, Rewrites(s, h, ys, u)
  PROVE  /\ \A i \in 1..Len(s) : i # h =>
              \E c \in 1..Len(u) : u[c] = s[i] /\ Image(h, Len(ys), i, c)
         /\ \A j \in 1..Len(ys) :
              \E c \in 1..Len(u) : u[c] = ys[j] /\ Image(h, Len(ys), h, c)
<1>1. PICK n, k \in Nat : n = Len(s) /\ k = Len(ys)
      BY DEF Rewrites
<1>2. h \in 1..n /\ Len(u) = (n - 1) + k
      BY <1>1 DEF Rewrites
<1>3. ASSUME NEW i \in 1..n, i < h
      PROVE  i \in 1..Len(u) /\ u[i] = s[i] /\ Image(h, k, i, i)
      <2>1. i \in 1..(h - 1) /\ i \in 1..((n - 1) + k) /\ i # h
            BY <1>2, <1>3
      <2>2. u[i] = s[i]
            BY <2>1 DEF Rewrites
      <2>3. QED
            BY <1>2, <1>3, <2>1, <2>2 DEF Image
<1>4. ASSUME NEW i \in 1..n, i > h
      PROVE  \E c \in 1..Len(u) : u[c] = s[i] /\ Image(h, k, i, c)
      <2>1. PICK c : c = (i - 1) + k
            OBVIOUS
      <2>2. i \in (h + 1)..n /\ c \in 1..((n - 1) + k) /\ i # h /\ ~(i < h)
            BY <1>2, <1>4, <2>1
      <2>3. u[c] = s[i]
            BY <1>1, <2>1, <2>2 DEF Rewrites
      <2>4. Image(h, k, i, c)
            BY <2>1, <2>2 DEF Image
      <2>5. QED
            BY <1>2, <2>2, <2>3, <2>4
<1>5. ASSUME NEW j \in 1..k
      PROVE  \E c \in 1..Len(u) : u[c] = ys[j] /\ Image(h, k, h, c)
      <2>1. PICK c \in Int : c = (h - 1) + j
            BY <1>2
      <2>2. c \in 1..((n - 1) + k)
            BY <1>1, <1>2, <2>1
      <2>3. u[c] = ys[j]
            BY <1>1, <2>1 DEF Rewrites
      <2>4. Image(h, k, h, c)
            BY <2>1 DEF Image
      <2>5. QED
            BY <1>2, <2>2, <2>3, <2>4
<1>6. \A i \in 1..n : i # h => i < h \/ i > h
      BY <1>2
<1>7. QED
      BY <1>1, <1>3, <1>4, <1>5, <1>6

(* Between two items there is still nothing that starts a function.        *)
LEMMA StaysCalm ==
  ASSUME NEW tr, NEW s, NEW h, NEW ys, NEW u, Rewrites(s, h, ys, u),
         Calm(tr, s[h]) => \A j \in 1..Len(ys) : Calm(tr, ys[j]),
         NEW i \in 1..Len(s), NEW j \in 1..Len(s), CalmFrom(tr, s, i, j),
         NEW c \in 1..Len(u), NEW d \in 1..Len(u),
         Image(h, Len(ys), i, c), Image(h, Len(ys), j, d)
  PROVE  CalmFrom(tr, u, c, d)
<1>1. /\ Len(s) \in Nat /\ Len(ys) \in Nat /\ h \in 1..Len(s) /\ Len(u) \in Int
      /\ h \in Nat /\ i \in Nat /\ j \in Nat /\ c \in Int /\ d \in Int
      BY DEF Rewrites
<1>2. ASSUME NEW k \in 1..Len(u), NEW q \in Nat, Image(h, Len(ys), q, k),
             (c <= k /\ k <= d) \/ (d <= k /\ k <= c)
      PROVE  (i <= q /\ q <= j) \/ (j <= q /\ q <= i)
      <2>1. k \in Int
            BY <1>1
      <2>2. /\ c <= k => i <= q
            /\ k <= d => q <= j
            /\ d <= k => j <= q
            /\ k <= c => q <= i
            BY <1>1, <1>2, <2>1, ImageOrder
      <2>3. QED
            BY <1>2, <2>2
<1>3. ASSUME NEW k \in 1..Len(u), (c <= k /\ k <= d) \/ (d <= k /\ k <= c)
      PROVE  Calm(tr, u[k])
      <2>1. CASE \E q \in 1..Len(ys) : u[k] = ys[q] /\ Image(h, Len(ys), h, k)
            <3>1. (i <= h /\ h <= j) \/ (j <= h /\ h <= i)
                  BY <1>1, <1>2, <1>3, <2>1
            <3>2. Calm(tr, s[h])
                  BY <1>1, <3>1 DEF CalmFrom
            <3>3. QED
                  BY <2>1, <3>2
      <2>2. CASE \E q \in 1..Len(s) : u[k] = s[q] /\ Image(h, Len(ys), q, k)
            <3>1. PICK q \in 1..Len(s) : u[k] = s[q] /\ Image(h, Len(ys), q, k)
                  BY <2>2
            <3>2. q \in Nat
                  BY <1>1
            <3>3. (i <= q /\ q <= j) \/ (j <= q /\ q <= i)
                  BY <1>2, <1>3, <3>1, <3>2
            <3>4. QED
                  BY <3>1, <3>3 DEF CalmFrom
      <2>3. QED
            BY <2>1, <2>2, Sources
<1>4. QED
      BY <1>3 DEF CalmFrom

(* One owner for each label is kept, if what comes in owns only what went  *)
(* out owned, and labels that nothing owned.                               *)
LEMMA OwnersKept ==
  ASSUME NEW tr, NEW g, NEW f, NEW s, NEW h, NEW ys, NEW u, Rewrites(s, h, ys, u),
         OneOwner(tr, g, s),
         \A i \in 1..Len(s) : \A l : i # h /\ Owns(tr, f, s[i], l) => Owns(tr, g, s[i], l),
         \A j \in 1..Len(ys) : \A l : Owns(tr, f, ys[j], l) =>
            Owns(tr, g, s[h], l) \/ \A i \in 1..Len(s) : ~Owns(tr, g, s[i], l),
         \A i, j \in 1..Len(ys) : \A l :
            Owns(tr, f, ys[i], l) /\ Owns(tr, f, ys[j], l) => i = j
  PROVE  OneOwner(tr, f, u)
<1>1. SUFFICES ASSUME NEW c \in 1..Len(u), NEW d \in 1..Len(u), NEW l,
                      Owns(tr, f, u[c], l), Owns(tr, f, u[d], l)
               PROVE  c = d
      BY DEF OneOwner
<1>2. h \in 1..Len(s)
      BY DEF Rewrites
<1>3. ASSUME NEW b \in 1..Len(u), NEW e \in 1..Len(u), NEW j \in 1..Len(ys), NEW i \in 1..Len(s),
             u[b] = ys[j], i # h, u[e] = s[i], Owns(tr, f, u[b], l), Owns(tr, f, u[e], l)
      PROVE  FALSE
      <2>1. Owns(tr, g, s[i], l)
            BY <1>3
      <2>2. Owns(tr, g, s[h], l)
            BY <1>3, <2>1
      <2>3. QED
            BY <1>2, <1>3, <2>1, <2>2 DEF OneOwner
<1>4. ASSUME NEW i \in 1..Len(s), NEW j \in 1..Len(s), i # h, j # h, u[c] = s[i], u[d] = s[j],
             Image(h, Len(ys), i, c), Image(h, Len(ys), j, d)
      PROVE  c = d
      <2>1. i = j
            BY <1>1, <1>4 DEF OneOwner
      <2>2. QED
            BY <1>4, <2>1 DEF Image
<1>5. ASSUME NEW i \in 1..Len(ys), NEW j \in 1..Len(ys), c = (h - 1) + i, d = (h - 1) + j,
             u[c] = ys[i], u[d] = ys[j]
      PROVE  c = d
      BY <1>1, <1>5
<1>6. \A b \in 1..Len(u) :
        \/ \E j \in 1..Len(ys) : b = (h - 1) + j /\ u[b] = ys[j]
        \/ \E i \in 1..Len(s) : i # h /\ u[b] = s[i] /\ Image(h, Len(ys), i, b)
      BY Sources
<1>7. CASE \E j \in 1..Len(ys) : c = (h - 1) + j /\ u[c] = ys[j]
      <2>1. CASE \E j \in 1..Len(ys) : d = (h - 1) + j /\ u[d] = ys[j]
            BY <1>5, <1>7, <2>1
      <2>2. CASE \E i \in 1..Len(s) : i # h /\ u[d] = s[i] /\ Image(h, Len(ys), i, d)
            BY <1>1, <1>3, <1>7, <2>2
      <2>3. QED
            BY <1>6, <2>1, <2>2
<1>8. CASE \E i \in 1..Len(s) : i # h /\ u[c] = s[i] /\ Image(h, Len(ys), i, c)
      <2>1. CASE \E j \in 1..Len(ys) : d = (h - 1) + j /\ u[d] = ys[j]
            BY <1>1, <1>3, <1>8, <2>1
      <2>2. CASE \E i \in 1..Len(s) : i # h /\ u[d] = s[i] /\ Image(h, Len(ys), i, d)
            BY <1>4, <1>8, <2>2
      <2>3. QED
            BY <1>6, <2>1, <2>2
<1>9. QED
      BY <1>6, <1>7, <1>8

(* Every jump keeps its label, if what comes in places what went out       *)
(* placed, or waited to place.                                             *)
LEMMA LandingKept ==
  ASSUME NEW tr, NEW g, NEW v, NEW f, NEW w, NEW s, NEW h, NEW ys, NEW u,
         Rewrites(s, h, ys, u), Landing(tr, g, v, s),
         \A i \in 1..Len(s) : \A l :
            i # h /\ (Places(g, s[i], l) \/ Awaits(g, v, s[i], l)) =>
               \/ Places(f, s[i], l) \/ Awaits(f, w, s[i], l)
               \/ /\ i > h /\ Awaits(g, v, s[h], l)
                  /\ \A c \in h..Len(s) : ~Jumps(s[c], l),
         \A l : Places(g, s[h], l) \/ Awaits(g, v, s[h], l) =>
            \E j \in 1..Len(ys) : Places(f, ys[j], l) \/ Awaits(f, w, ys[j], l),
         \A j \in 1..Len(ys) : \A l : Jumps(ys[j], l) =>
            /\ Calm(tr, s[h])
            /\ \/ Jumps(s[h], l)
               \/ \E i \in 1..Len(ys) : Places(f, ys[i], l)
               \/ \E i \in 1..Len(s) : i # h /\ Awaits(f, w, s[i], l) /\ CalmFrom(tr, s, h, i),
         Calm(tr, s[h]) => \A j \in 1..Len(ys) : Calm(tr, ys[j])
  PROVE  Landing(tr, f, w, u)
<1>1. /\ Len(s) \in Nat /\ Len(ys) \in Nat /\ h \in 1..Len(s) /\ h \in Nat
      BY DEF Rewrites
<1>2. ASSUME NEW i \in 1..Len(s), NEW c \in 1..Len(u), Image(h, Len(ys), i, c), NEW l,
             Jumps(s[i], l)
      PROVE  \E d \in 1..Len(u) :
               (Places(f, u[d], l) \/ Awaits(f, w, u[d], l)) /\ CalmFrom(tr, u, c, d)
      <2>1. PICK j \in 1..Len(s) :
              (Places(g, s[j], l) \/ Awaits(g, v, s[j], l)) /\ CalmFrom(tr, s, i, j)
            BY <1>2 DEF Landing
      <2>2. ASSUME Places(g, s[h], l) \/ Awaits(g, v, s[h], l), CalmFrom(tr, s, i, h)
            PROVE  \E d \in 1..Len(u) :
                     (Places(f, u[d], l) \/ Awaits(f, w, u[d], l)) /\ CalmFrom(tr, u, c, d)
            <3>1. PICK q \in 1..Len(ys) : Places(f, ys[q], l) \/ Awaits(f, w, ys[q], l)
                  BY <2>2
            <3>2. PICK d \in 1..Len(u) : u[d] = ys[q] /\ Image(h, Len(ys), h, d)
                  BY Images
            <3>3. CalmFrom(tr, u, c, d)
                  BY <1>1, <1>2, <2>2, <3>2, StaysCalm
            <3>4. QED
                  BY <3>1, <3>2, <3>3
      <2>3. CASE j = h
            BY <2>1, <2>2, <2>3
      <2>4. CASE j # h /\ (Places(f, s[j], l) \/ Awaits(f, w, s[j], l))
            <3>1. PICK d \in 1..Len(u) : u[d] = s[j] /\ Image(h, Len(ys), j, d)
                  BY <2>4, Images
            <3>2. CalmFrom(tr, u, c, d)
                  BY <1>1, <1>2, <2>1, <3>1, StaysCalm
            <3>3. QED
                  BY <2>4, <3>1, <3>2
      <2>5. CASE /\ j > h /\ Awaits(g, v, s[h], l)
                 /\ \A b \in h..Len(s) : ~Jumps(s[b], l)
            <3>1. i \notin h..Len(s)
                  BY <1>2, <2>5
            <3>2. PICK x, y, z, n \in Int : x = i /\ y = h /\ z = j /\ n = Len(s)
                  BY <1>1
            <3>3. x < y /\ y < z
                  BY <2>5, <3>1, <3>2
            <3>4. \A k \in 1..n : (x <= k /\ k <= y) \/ (y <= k /\ k <= x) =>
                                    (x <= k /\ k <= z) \/ (z <= k /\ k <= x)
                  BY <3>2, <3>3
            <3>5. CalmFrom(tr, s, i, h)
                  BY <2>1, <3>2, <3>4 DEF CalmFrom
            <3>6. QED
                  BY <2>2, <2>5, <3>5
      <2>6. QED
            BY <2>1, <2>3, <2>4, <2>5
<1>3. ASSUME NEW q \in 1..Len(ys), NEW c \in 1..Len(u), u[c] = ys[q], Image(h, Len(ys), h, c),
             NEW l, Jumps(ys[q], l)
      PROVE  \E d \in 1..Len(u) :
               (Places(f, u[d], l) \/ Awaits(f, w, u[d], l)) /\ CalmFrom(tr, u, c, d)
      <2>1. Calm(tr, s[h])
            BY <1>3
      <2>2. CASE Jumps(s[h], l)
            BY <1>1, <1>2, <1>3, <2>2
      <2>3. CASE \E i \in 1..Len(ys) : Places(f, ys[i], l)
            <3>1. PICK i \in 1..Len(ys) : Places(f, ys[i], l)
                  BY <2>3
            <3>2. PICK d \in 1..Len(u) : u[d] = ys[i] /\ Image(h, Len(ys), h, d)
                  BY Images
            <3>3. CalmFrom(tr, s, h, h)
                  BY <1>1, <2>1 DEF CalmFrom
            <3>4. CalmFrom(tr, u, c, d)
                  BY <1>1, <1>3, <3>2, <3>3, StaysCalm
            <3>5. QED
                  BY <3>1, <3>2, <3>4
      <2>4. CASE \E i \in 1..Len(s) : i # h /\ Awaits(f, w, s[i], l) /\ CalmFrom(tr, s, h, i)
            <3>1. PICK i \in 1..Len(s) : i # h /\ Awaits(f, w, s[i], l) /\ CalmFrom(tr, s, h, i)
                  BY <2>4
            <3>2. PICK d \in 1..Len(u) : u[d] = s[i] /\ Image(h, Len(ys), i, d)
                  BY <3>1, Images
            <3>3. CalmFrom(tr, u, c, d)
                  BY <1>1, <1>3, <3>1, <3>2, StaysCalm
            <3>4. QED
                  BY <3>1, <3>2, <3>3
      <2>5. QED
            BY <1>3, <2>2, <2>3, <2>4
<1>4. ASSUME NEW c \in 1..Len(u), NEW l, Jumps(u[c], l)
      PROVE  \E d \in 1..Len(u) :
               (Places(f, u[d], l) \/ Awaits(f, w, u[d], l)) /\ CalmFrom(tr, u, c, d)
      <2>1. CASE \E j \in 1..Len(ys) : u[c] = ys[j] /\ Image(h, Len(ys), h, c)
            BY <1>3, <1>4, <2>1
      <2>2. CASE \E i \in 1..Len(s) : u[c] = s[i] /\ Image(h, Len(ys), i, c)
            BY <1>2, <1>4, <2>2
      <2>3. QED
            BY <2>1, <2>2, Sources
<1>5. QED
      BY <1>4 DEF Landing

-----------------------------------------------------------------------------
(* What a step does to the line and to the work left.                      *)

(* Two sequences in one, of length m + k.                                  *)
LEMMA Join ==
  ASSUME NEW s, IsSequence(s), NEW u, IsSequence(u), NEW v, v = s \o u,
         NEW m, NEW k, m = Len(s), k = Len(u)
  PROVE  /\ IsSequence(v) /\ m \in Nat /\ k \in Nat /\ Len(v) = m + k
         /\ \A i \in 1..m : v[i] = s[i]
         /\ \A i \in 1..k : v[m + i] = u[i]
<1>1. /\ IsSequence(s \o u) /\ m \in Nat /\ k \in Nat /\ Len(s \o u) = m + k
      /\ \A i \in 1..m : (s \o u)[i] = s[i]
      /\ \A i \in 1..k : (s \o u)[m + i] = u[i]
      BY Concatenation
<1>2. QED
      BY <1>1, Zenon

(* A sequence without its first item, and others before it.                *)
LEMMA Heads ==
  ASSUME NEW s, IsSequence(s), s # <<>>, NEW ys, IsSequence(ys), NEW u, u = ys \o Tail(s)
  PROVE  Rewrites(s, 1, ys, u) /\ s[1] = Head(s)
<1>1. PICK S : s \in Seq(S)
      BY DEF IsSequence
<1>2. PICK n, k \in Nat : n = Len(s) /\ k = Len(ys)
      BY <1>1, Concatenation
<1>3. /\ Tail(s) \in Seq(S) /\ Len(Tail(s)) = n - 1 /\ n \in Nat \ {0} /\ Head(s) = s[1]
      /\ \A i \in 1..(n - 1) : Tail(s)[i] = s[i + 1]
      BY <1>1, <1>2
<1>4. IsSequence(Tail(s))
      BY <1>3 DEF IsSequence
<1>5. /\ Len(u) = k + (n - 1)
      /\ \A j \in 1..k : u[j] = ys[j]
      /\ \A i \in 1..(n - 1) : u[k + i] = Tail(s)[i]
      <2>1. PICK w : w = Tail(s)
            OBVIOUS
      <2>2. u = ys \o w /\ IsSequence(w) /\ n - 1 = Len(w) /\ k = Len(ys)
            BY <1>2, <1>3, <1>4, <2>1
      <2>3. QED
            BY <2>1, <2>2, Join
<1>6. ASSUME NEW j \in 1..k PROVE u[(1 - 1) + j] = ys[j]
      <2>1. (1 - 1) + j = j
            BY <1>2
      <2>2. QED
            BY <1>5, <2>1
<1>7. ASSUME NEW i \in 2..n PROVE u[(i - 1) + k] = s[i]
      <2>1. i - 1 \in 1..(n - 1) /\ (i - 1) + 1 = i /\ (i - 1) + k = k + (i - 1)
            BY <1>2, <1>3
      <2>2. QED
            BY <1>3, <1>5, <2>1
<1>8. 1 \in 1..n /\ 1 + 1 = 2 /\ Len(u) = (n - 1) + k
      BY <1>2, <1>3, <1>5
<1>9. \A i \in 1..(1 - 1) : u[i] = s[i]
      OBVIOUS
<1>10. QED
       BY <1>2, <1>3, <1>6, <1>7, <1>8, <1>9 DEF Rewrites

(* Sequences are equal if their items are.                                 *)
LEMMA SameSequence ==
  ASSUME NEW a, IsSequence(a), NEW b, IsSequence(b), Len(a) = Len(b),
         \A i \in 1..Len(a) : a[i] = b[i]
  PROVE  a = b
<1>1. PICK S : a \in Seq(S)
      BY DEF IsSequence
<1>2. PICK R : b \in Seq(R)
      BY DEF IsSequence
<1>3. QED
      BY <1>1, <1>2

(* The nodes of a list as items that are done.                             *)
LEMMA EmitsItems ==
  ASSUME NEW irns, IsSequence(irns)
  PROVE  /\ IsSequence(Emits(irns)) /\ Len(Emits(irns)) = Len(irns) /\ Len(irns) \in Nat
         /\ \A i \in 1..Len(irns) : Emits(irns)[i] = Emit(irns[i])
<1>1. PICK S : irns \in Seq(S)
      BY DEF IsSequence
<1>2. PICK n \in Nat : n = Len(irns)
      BY <1>1
<1>3. PICK E : E = {Emit(irns[i]) : i \in 1..n}
      OBVIOUS
<1>4. [i \in 1..n |-> Emit(irns[i])] \in Seq(E)
      BY <1>2, <1>3
<1>5. Emits(irns) = [i \in 1..n |-> Emit(irns[i])]
      BY <1>2 DEF Emits
<1>6. IsSequence(Emits(irns))
      BY <1>4, <1>5 DEF IsSequence
<1>7. Len(Emits(irns)) = n /\ \A i \in 1..n : Emits(irns)[i] = Emit(irns[i])
      BY <1>2, <1>5
<1>8. QED
      BY <1>2, <1>6, <1>7

(* The list holds nodes, and what is added to it comes after them.         *)
LEMMA EmitsAdded ==
  ASSUME NEW irs, IsSequence(irs), NEW irns, IsSequence(irns)
  PROVE  Emits(irs \o irns) = Emits(irs) \o Emits(irns)
<1>1. PICK m, k \in Nat : m = Len(irs) /\ k = Len(irns)
      BY EmitsItems
<1>2. /\ IsSequence(irs \o irns) /\ Len(irs \o irns) = m + k
      /\ \A i \in 1..m : (irs \o irns)[i] = irs[i]
      /\ \A i \in 1..k : (irs \o irns)[m + i] = irns[i]
      BY <1>1, Concatenation
<1>3. PICK a : a = Emits(irs \o irns)
      OBVIOUS
<1>4. PICK b : b = Emits(irs) \o Emits(irns)
      OBVIOUS
<1>5. IsSequence(a) /\ Len(a) = m + k /\ \A i \in 1..(m + k) : a[i] = Emit((irs \o irns)[i])
      BY <1>2, <1>3, EmitsItems
<1>6. /\ IsSequence(Emits(irs)) /\ Len(Emits(irs)) = m
      /\ IsSequence(Emits(irns)) /\ Len(Emits(irns)) = k
      /\ \A i \in 1..m : Emits(irs)[i] = Emit(irs[i])
      /\ \A i \in 1..k : Emits(irns)[i] = Emit(irns[i])
      BY <1>1, EmitsItems
<1>7. /\ IsSequence(b) /\ Len(b) = m + k
      /\ \A i \in 1..m : b[i] = Emit(irs[i])
      /\ \A i \in 1..k : b[m + i] = Emit(irns[i])
      <2>1. PICK x : x = Emits(irs)
            OBVIOUS
      <2>2. PICK y : y = Emits(irns)
            OBVIOUS
      <2>3. IsSequence(x) /\ m = Len(x) /\ IsSequence(y) /\ k = Len(y) /\ b = x \o y
            BY <1>4, <1>6, <2>1, <2>2
      <2>4. IsSequence(b)
            BY <2>3, Join
      <2>5. Len(b) = m + k
            BY <2>3, Join
      <2>6. \A i \in 1..m : b[i] = x[i]
            BY <2>3, Join
      <2>7. \A i \in 1..k : b[m + i] = y[i]
            BY <2>3, Join
      <2>8. QED
            BY <1>6, <2>1, <2>2, <2>4, <2>5, <2>6, <2>7
<1>8. ASSUME NEW i \in 1..(m + k) PROVE a[i] = b[i]
      <2>1. CASE i \in 1..m
            BY <1>2, <1>5, <1>7, <2>1
      <2>2. CASE \E j \in 1..k : i = m + j
            <3>1. PICK j \in 1..k : i = m + j
                  BY <2>2
            <3>2. a[i] = Emit((irs \o irns)[m + j]) /\ b[m + j] = Emit(irns[j])
                  BY <1>5, <1>7, <3>1
            <3>3. (irs \o irns)[m + j] = irns[j]
                  BY <1>2
            <3>4. QED
                  BY <3>1, <3>2, <3>3
      <2>3. QED
            BY <1>1, <2>1, <2>2, Split
<1>9. a = b
      BY <1>5, <1>7, <1>8, SameSequence
<1>10. QED
       BY <1>3, <1>4, <1>9

(* A step that appends irns and leaves new in place of the next item.      *)
LEMMA LineStep ==
  ASSUME Inv, todo # <<>>, NEW irns, IsSequence(irns), Append_ir_nodes(irns),
         NEW new, IsSequence(new), Then(new)
  PROVE  /\ Rewrites(Line, Len(irlist) + 1, Emits(irns) \o new, Line')
         /\ Line[Len(irlist) + 1] = Next1
         /\ \A i \in 1..Len(Line) : i < Len(irlist) + 1 => Line[i].do = "emit"
         /\ \A i \in 1..Len(todo) :
              Len(irlist) + i \in 1..Len(Line) /\ Line[Len(irlist) + i] = todo[i]
         /\ Len(irlist) \in Nat /\ Len(todo) \in Nat /\ Len(Line) = Len(irlist) + Len(todo)
         /\ Rewrites(todo, 1, new, todo') /\ todo[1] = Next1
         /\ \A j \in 1..Len(new) :
              \E q \in 1..Len(Emits(irns) \o new) : (Emits(irns) \o new)[q] = new[j]
<1>1. IsSequence(irlist) /\ IsSequence(todo)
      BY DEF Inv, AllClean
<1>2. Rewrites(todo, 1, new, todo') /\ todo[1] = Next1
      BY <1>1, Heads DEF Then, Next1
<1>3. PICK m, k, n, a \in Nat : m = Len(irlist) /\ k = Len(irns) /\ n = Len(todo) /\ a = Len(new)
      BY <1>1, EmitsItems
<1>4. PICK x : x = Emits(irlist)
      OBVIOUS
<1>5. PICK y : y = Emits(irns)
      OBVIOUS
<1>6. /\ IsSequence(x) /\ m = Len(x) /\ IsSequence(y) /\ k = Len(y)
      /\ \A i \in 1..m : x[i] = Emit(irlist[i])
      BY <1>1, <1>3, <1>4, <1>5, EmitsItems
<1>7. PICK ys : ys = y \o new
      OBVIOUS
<1>8. /\ Len(ys) = k + a
      /\ \A i \in 1..k : ys[i] = y[i]
      /\ \A i \in 1..a : ys[k + i] = new[i]
      BY <1>3, <1>6, <1>7, Join
<1>9. PICK w : w = todo'
      OBVIOUS
<1>10. /\ 1 \in 1..n /\ (n - 1) + a = Len(w) /\ IsSequence(w)
       /\ \A j \in 1..a : w[(1 - 1) + j] = new[j]
       /\ \A i \in (1 + 1)..n : w[(i - 1) + a] = todo[i]
       <2>1. IsSequence(Tail(todo))
             BY CleanTail DEF Inv, AllClean
       <2>2. IsSequence(w)
             BY <1>9, <2>1, Concatenation DEF Then
       <2>3. QED
             BY <1>2, <1>3, <1>9, <2>2 DEF Rewrites
<1>11. PICK s : s = Line
       OBVIOUS
<1>12. /\ Len(s) = m + n
       /\ \A i \in 1..m : s[i] = x[i]
       /\ \A i \in 1..n : s[m + i] = todo[i]
       <2>1. s = x \o todo
             BY <1>4, <1>11 DEF Line
       <2>2. QED
             BY <1>1, <1>3, <1>6, <2>1, Join
<1>13. PICK e : e = x \o y
       OBVIOUS
<1>14. PICK u : u = e \o w
       OBVIOUS
<1>15. u = Line'
       BY <1>1, <1>4, <1>5, <1>9, <1>13, <1>14, EmitsAdded DEF Line, Append_ir_nodes
<1>16. /\ IsSequence(e) /\ Len(e) = m + k
       /\ \A i \in 1..m : e[i] = x[i]
       /\ \A i \in 1..k : e[m + i] = y[i]
       <2>1. IsSequence(x) /\ IsSequence(y) /\ m = Len(x) /\ k = Len(y)
             BY <1>6
       <2>2. IsSequence(e)
             BY <1>13, <2>1, Join
       <2>3. Len(e) = m + k
             BY <1>13, <2>1, Join
       <2>4. \A i \in 1..m : e[i] = x[i]
             BY <1>13, <2>1, Join
       <2>5. \A i \in 1..k : e[m + i] = y[i]
             BY <1>13, <2>1, Join
       <2>6. QED
             BY <2>2, <2>3, <2>4, <2>5
<1>17. /\ Len(u) = (m + k) + ((n - 1) + a)
       /\ \A i \in 1..(m + k) : u[i] = e[i]
       /\ \A i \in 1..((n - 1) + a) : u[(m + k) + i] = w[i]
       <2>1. IsSequence(e) /\ IsSequence(w) /\ m + k = Len(e) /\ (n - 1) + a = Len(w)
             BY <1>10, <1>16
       <2>2. Len(u) = (m + k) + ((n - 1) + a)
             <3>1. PICK f : f = m + k
                   OBVIOUS
             <3>2. PICK g : g = (n - 1) + a
                   OBVIOUS
             <3>3. IsSequence(e) /\ IsSequence(w) /\ f = Len(e) /\ g = Len(w)
                   BY <2>1, <3>1, <3>2
             <3>4. Len(u) = f + g
                   BY <1>14, <3>3, Join
             <3>5. QED
                   BY <3>1, <3>2, <3>4
       <2>3. \A i \in 1..(m + k) : u[i] = e[i]
             BY <1>14, <2>1, Join
       <2>4. \A i \in 1..((n - 1) + a) : u[(m + k) + i] = w[i]
             BY <1>14, <2>1, Join
       <2>5. QED
             BY <2>2, <2>3, <2>4
<1>18. PICK h \in Nat : h = m + 1
       OBVIOUS
<1>19. ASSUME NEW i \in 1..(h - 1) PROVE u[i] = s[i]
       <2>1. i \in 1..m /\ i \in 1..(m + k)
             BY <1>18
       <2>2. QED
             BY <1>12, <1>16, <1>17, <2>1
<1>20. ASSUME NEW j \in 1..(k + a) PROVE u[(h - 1) + j] = ys[j]
       <2>1. CASE j \in 1..k
             <3>1. m + j \in 1..(m + k) /\ (h - 1) + j = m + j
                   BY <1>18, <2>1
             <3>2. QED
                   BY <1>8, <1>16, <1>17, <2>1, <3>1
       <2>2. CASE \E i \in 1..a : j = k + i
             <3>1. PICK i \in 1..a : j = k + i
                   BY <2>2
             <3>2. n \in Nat \ {0}
                   BY <1>10
             <3>3. i \in 1..((n - 1) + a) /\ (h - 1) + j = (m + k) + i /\ (1 - 1) + i = i
                   BY <1>18, <3>1, <3>2
             <3>4. u[(m + k) + i] = w[i] /\ w[i] = new[i] /\ ys[k + i] = new[i]
                   BY <1>8, <1>10, <1>17, <3>3
             <3>5. QED
                   BY <3>1, <3>3, <3>4
       <2>3. QED
             BY <2>1, <2>2, Split
<1>21. ASSUME NEW i \in (h + 1)..(m + n) PROVE u[(i - 1) + (k + a)] = s[i]
       <2>1. PICK j \in Int : j = i - m
             BY <1>18
       <2>2. /\ j \in (1 + 1)..n /\ j \in 1..n /\ m + j = i
             /\ (j - 1) + a \in 1..((n - 1) + a) /\ (m + k) + ((j - 1) + a) = (i - 1) + (k + a)
             BY <1>18, <2>1
       <2>3. u[(m + k) + ((j - 1) + a)] = w[(j - 1) + a] /\ w[(j - 1) + a] = todo[j]
             BY <1>10, <1>17, <2>2
       <2>4. QED
             BY <1>12, <2>2, <2>3
<1>22. /\ h \in 1..(m + n) /\ Len(u) = ((m + n) - 1) + (k + a)
       /\ k + a \in Nat /\ m + n \in Nat
       BY <1>10, <1>17, <1>18
<1>23. Rewrites(s, h, ys, u)
       BY <1>8, <1>12, <1>19, <1>20, <1>21, <1>22 DEF Rewrites
<1>24. s[h] = Next1
       BY <1>2, <1>10, <1>12, <1>18
<1>25. ASSUME NEW i \in 1..Len(s), i < h PROVE s[i].do = "emit"
       <2>1. i \in 1..m
             BY <1>12, <1>18, <1>25
       <2>2. s[i] = Emit(irlist[i])
             BY <1>6, <1>12, <2>1
       <2>3. QED
             BY <2>2 DEF Emit
<1>26. \A i \in 1..n : m + i \in 1..(m + n)
       OBVIOUS
<1>27. \A j \in 1..a : \E q \in 1..Len(ys) : ys[q] = new[j]
       <2>1. \A j \in 1..a : k + j \in 1..(k + a)
             OBVIOUS
       <2>2. QED
             BY <1>8, <2>1
<1>28. ys = Emits(irns) \o new
       BY <1>5, <1>7
<1>29. QED
       BY <1>2, <1>3, <1>11, <1>12, <1>15, <1>18, <1>23, <1>24, <1>25, <1>26, <1>27, <1>28

-----------------------------------------------------------------------------
(* Paths, and what the grammar makes of them.                              *)

(* A prefix of a path agrees with it as far as it goes.                    *)
LEMMA PrefixIs ==
  ASSUME NEW m, NEW n \in Seq(Steps)
  PROVE  Prefix(m, n) <=> /\ m \in Seq(Steps) /\ Len(m) <= Len(n)
                          /\ \A i \in 1..Len(m) : m[i] = n[i]
<1>1. Len(n) \in Nat
      OBVIOUS
<1>2. ASSUME NEW k \in 0..Len(n)
      PROVE  /\ SubSeq(n, 1, k) \in Seq(Steps) /\ Len(SubSeq(n, 1, k)) = k
             /\ \A i \in 1..k : SubSeq(n, 1, k)[i] = n[i]
      <2>1. \A i \in 1..k : n[i] \in Steps
            BY <1>1
      <2>2. QED
            BY <2>1, SubSeqProperties
<1>3. ASSUME Prefix(m, n)
      PROVE  m \in Seq(Steps) /\ Len(m) <= Len(n) /\ \A i \in 1..Len(m) : m[i] = n[i]
      <2>1. PICK k \in 0..Len(n) : m = SubSeq(n, 1, k)
            BY <1>3 DEF Prefix
      <2>2. m \in Seq(Steps) /\ Len(m) = k /\ \A i \in 1..k : m[i] = n[i]
            BY <1>2, <2>1
      <2>3. QED
            BY <1>1, <2>2
<1>4. ASSUME m \in Seq(Steps), Len(m) <= Len(n), \A i \in 1..Len(m) : m[i] = n[i]
      PROVE  Prefix(m, n)
      <2>1. PICK k \in Nat : k = Len(m)
            BY <1>4
      <2>2. k \in 0..Len(n)
            BY <1>1, <1>4, <2>1
      <2>3. m = SubSeq(n, 1, k)
            BY <1>2, <1>4, <2>1, <2>2, SeqEqual
      <2>4. QED
            BY <2>2, <2>3 DEF Prefix
<1>5. QED
      BY <1>3, <1>4

(* A path is a prefix of itself.                                           *)
LEMMA PrefixSelf ==
  ASSUME NEW n \in Seq(Steps)
  PROVE  Prefix(n, n)
<1>1. Len(n) \in Nat
      OBVIOUS
<1>2. QED
      BY <1>1, PrefixIs

(* A prefix of a prefix is a prefix.                                       *)
LEMMA PrefixTransitive ==
  ASSUME NEW m, NEW n, NEW s \in Seq(Steps), Prefix(m, n), Prefix(n, s)
  PROVE  Prefix(m, s)
<1>1. n \in Seq(Steps) /\ Len(n) <= Len(s) /\ \A i \in 1..Len(n) : n[i] = s[i]
      BY PrefixIs
<1>2. m \in Seq(Steps) /\ Len(m) <= Len(n) /\ \A i \in 1..Len(m) : m[i] = n[i]
      BY <1>1, PrefixIs
<1>3. PICK a, b, c \in Nat : a = Len(m) /\ b = Len(n) /\ c = Len(s)
      BY <1>1, <1>2
<1>4. a <= c /\ \A i \in 1..a : i \in 1..b
      BY <1>1, <1>2, <1>3
<1>5. \A i \in 1..a : m[i] = s[i]
      BY <1>1, <1>2, <1>3, <1>4
<1>6. QED
      BY <1>2, <1>3, <1>4, <1>5, PrefixIs

(* A child's path: what is on it, what is not, and which way it goes.      *)
LEMMA ChildPrefix ==
  ASSUME NEW n \in Seq(Steps), NEW d \in Steps
  PROVE  /\ Append(n, d) \in Seq(Steps) /\ Prefix(n, Append(n, d)) /\ ~Prefix(Append(n, d), n)
         /\ \A m : Prefix(m, Append(n, d)) => Prefix(m, n) \/ m = Append(n, d)
         /\ \A s \in Seq(Steps) : \A c \in Steps :
              Prefix(Append(n, d), s) /\ Prefix(Append(n, c), s) => c = d
<1>1. PICK a \in Nat : a = Len(n)
      OBVIOUS
<1>2. ASSUME NEW c \in Steps
      PROVE  /\ Append(n, c) \in Seq(Steps) /\ Len(Append(n, c)) = a + 1
             /\ \A i \in 1..a : Append(n, c)[i] = n[i]
             /\ Append(n, c)[a + 1] = c
      BY <1>1, AppendProperties
<1>3. Prefix(n, Append(n, d))
      <2>1. a <= a + 1
            BY <1>1
      <2>2. QED
            BY <1>1, <1>2, <2>1, PrefixIs
<1>4. ~Prefix(Append(n, d), n)
      <2>1. ~(a + 1 <= a)
            BY <1>1
      <2>2. QED
            BY <1>1, <1>2, <2>1, PrefixIs
<1>5. ASSUME NEW m, Prefix(m, Append(n, d))
      PROVE  Prefix(m, n) \/ m = Append(n, d)
      <2>1. m \in Seq(Steps) /\ Len(m) <= a + 1 /\ \A i \in 1..Len(m) : m[i] = Append(n, d)[i]
            BY <1>2, <1>5, PrefixIs
      <2>2. PICK b \in Nat : b = Len(m)
            BY <2>1
      <2>3. CASE b = a + 1
            BY <1>2, <2>1, <2>2, <2>3, SeqEqual
      <2>4. CASE b <= a
            <3>1. \A i \in 1..b : i \in 1..a
                  BY <2>4
            <3>2. \A i \in 1..b : m[i] = n[i]
                  BY <1>2, <2>1, <2>2, <3>1
            <3>3. QED
                  BY <1>1, <2>1, <2>2, <2>4, <3>2, PrefixIs
      <2>5. b = a + 1 \/ b <= a
            BY <2>1, <2>2
      <2>6. QED
            BY <2>3, <2>4, <2>5
<1>6. ASSUME NEW s \in Seq(Steps), NEW c \in Steps,
             Prefix(Append(n, d), s), Prefix(Append(n, c), s)
      PROVE  c = d
      <2>1. a + 1 \in 1..(a + 1)
            BY <1>1
      <2>2. \A b \in Steps : Prefix(Append(n, b), s) => Append(n, b)[a + 1] = s[a + 1]
            <3>1. SUFFICES ASSUME NEW b \in Steps, Prefix(Append(n, b), s)
                           PROVE  Append(n, b)[a + 1] = s[a + 1]
                  OBVIOUS
            <3>2. \A i \in 1..Len(Append(n, b)) : Append(n, b)[i] = s[i]
                  BY <3>1, PrefixIs
            <3>3. QED
                  BY <1>2, <2>1, <3>2
      <2>3. QED
            BY <1>2, <1>6, <2>2
<1>7. QED
      BY <1>2, <1>3, <1>4, <1>5, <1>6

(* What is below a statement is in a statement.                            *)
LEMMA StatementBelow ==
  ASSUME NEW t, NEW n, NEW s \in Seq(Steps), Prefix(n, s),
         InStatement(t, n) \/ NodeAt(t, n).subtype \in Statements
  PROVE  InStatement(t, s)
<1>1. n \in Seq(Steps)
      BY PrefixIs
<1>2. PICK m : Prefix(m, n) /\ NodeAt(t, m).subtype \in Statements
      <2>1. CASE NodeAt(t, n).subtype \in Statements
            BY <1>1, <2>1, PrefixSelf
      <2>2. CASE InStatement(t, n)
            BY <2>2 DEF InStatement, Prefix
      <2>3. QED
            BY <2>1, <2>2
<1>3. Prefix(m, s)
      BY <1>2, PrefixTransitive
<1>4. QED
      BY <1>2, <1>3 DEF InStatement, Prefix

(* A node is formed as the grammar says.                                   *)
LEMMA FormedNode ==
  ASSUME NEW t, WellFormed(t), NEW n, IsPath(t, n), ~Missing(t, n)
  PROVE  FormedAt(t, n)
BY DEF WellFormed, IsPath

(* What has a type or a subtype is there.                                  *)
LEMMA NotMissing ==
  ASSUME NEW t, NEW n, NodeAt(t, n).type # "NULL" \/ NodeAt(t, n).subtype # "NONE"
  PROVE  ~Missing(t, n)
BY DEF Missing, NULL

(* There is no definition of a function in a statement.                    *)
LEMMA NothingDeclared ==
  ASSUME NEW t, WellFormed(t), NEW item, NEW l, item.do \in {"build", "switch"},
         InStatement(t, item.n)
  PROVE  ~Declares(t, item, l)
<1>1. SUFFICES ASSUME NEW s \in Seq(Steps), IsSpec(t, s), Reaches(item, s)
               PROVE  FALSE
      BY DEF Declares
<1>2. Prefix(item.n, s)
      BY <1>1, PrefixSelf DEF Reaches
<1>3. InStatement(t, s)
      BY <1>2, StatementBelow
<1>4. QED
      BY <1>1, <1>3, FormedNode DEF IsSpec, FormedAt

(* The children of a node.                                                 *)
LEMMA ChildNodes ==
  ASSUME NEW n, IsPath(tree, n), ~Missing(tree, n)
  PROVE  /\ n \in Seq(Steps) /\ Left(n) \in Seq(Steps) /\ Right(n) \in Seq(Steps)
         /\ IsPath(tree, Left(n)) /\ IsPath(tree, Right(n)) /\ Left(n) # Right(n)
         /\ Parent(Left(n)) = n /\ Parent(Right(n)) = n
         /\ Prefix(n, Left(n)) /\ Prefix(n, Right(n))
<1>1. ~IsNull(n)
      BY DEF IsNull, Missing, At
<1>2. n \in Seq(Steps) /\ "L" \in Steps /\ "R" \in Steps
      BY DEF IsPath, Steps
<1>3. QED
      BY <1>1, <1>2, Children, ChildPrefix DEF Left, Right

(* An if with an else, and the else.                                       *)
LEMMA IfAndElse ==
  ASSUME WellFormed(tree), NEW p, IfElse(tree, p)
  PROVE  /\ p \in Seq(Steps) /\ IsPath(tree, p) /\ ~Missing(tree, p)
         /\ Left(p) \in Seq(Steps) /\ Right(p) \in Seq(Steps)
         /\ IsPath(tree, Left(p)) /\ IsPath(tree, Right(p)) /\ Left(p) # Right(p)
         /\ Parent(Left(p)) = p /\ Parent(Right(p)) = p
         /\ NodeAt(tree, Left(p)).subtype = "IF_STMT" /\ ~Missing(tree, Left(p))
         /\ NodeAt(tree, Right(p)).subtype = "ELSE_STMT" /\ ~Missing(tree, Right(p))
         /\ NodeAt(tree, p).type = "LIST" /\ NodeAt(tree, p).subtype = "IF_ELSE_STMT"
         /\ Left(p) # p /\ Right(p) # p
<1>1. IsPath(tree, p) /\ ~Missing(tree, p) /\ NodeAt(tree, p).subtype = "IF_ELSE_STMT"
      BY NotMissing DEF IfElse
<1>2. FormedAt(tree, p)
      BY <1>1, FormedNode
<1>3. NodeAt(tree, Left(p)).subtype = "IF_STMT" /\ NodeAt(tree, Right(p)).subtype = "ELSE_STMT"
      BY <1>1, <1>2 DEF FormedAt
<1>4. ~Missing(tree, Left(p)) /\ ~Missing(tree, Right(p))
      BY <1>3, NotMissing
<1>5. /\ p \in Seq(Steps) /\ Left(p) \in Seq(Steps) /\ Right(p) \in Seq(Steps)
      /\ IsPath(tree, Left(p)) /\ IsPath(tree, Right(p)) /\ Left(p) # Right(p)
      /\ Parent(Left(p)) = p /\ Parent(Right(p)) = p
      BY <1>1, ChildNodes
<1>6. FormedAt(tree, Left(p))
      BY <1>4, <1>5, FormedNode
<1>7. NodeAt(tree, p).type = "LIST"
      BY <1>3, <1>5, <1>6 DEF FormedAt, Conditional
<1>8. QED
      BY <1>1, <1>3, <1>4, <1>5, <1>7

(* Every else has its if.                                                  *)
LEMMA ElseOfIf ==
  ASSUME WellFormed(tree), NEW e, IsPath(tree, e), NodeAt(tree, e).subtype = "ELSE_STMT"
  PROVE  IfElse(tree, Parent(e)) /\ e = Right(Parent(e))
<1>1. ~Missing(tree, e)
      BY NotMissing
<1>2. NodeAt(tree, Parent(e)).subtype = "IF_ELSE_STMT" /\ e = Right(Parent(e))
      BY <1>1, FormedNode DEF FormedAt
<1>3. IsPath(tree, Parent(e))
      BY Parents
<1>4. QED
      BY <1>2, <1>3 DEF IfElse

-----------------------------------------------------------------------------
(* The parts of the invariant in a step, which puts the items of new in    *)
(* place of the next one.                                                  *)

(* Where the items are after the first one was replaced by others.         *)
LEMMA Shift ==
  ASSUME NEW s, NEW new, NEW u, Rewrites(s, 1, new, u)
  PROVE  /\ Len(s) \in Nat /\ Len(new) \in Nat /\ Len(u) = (Len(s) - 1) + Len(new)
         /\ 1 \in 1..Len(s)
         /\ \A j \in 1..Len(new) : j \in 1..Len(u) /\ u[j] = new[j]
         /\ \A i \in 2..Len(s) :
              (i - 1) + Len(new) \in 1..Len(u) /\ u[(i - 1) + Len(new)] = s[i]
         /\ \A c \in 1..Len(u) :
              c \in 1..Len(new) \/ \E i \in 2..Len(s) : c = (i - 1) + Len(new)
<1>1. PICK m, k \in Nat : m = Len(s) /\ k = Len(new)
      BY DEF Rewrites
<1>2. /\ 1 \in 1..m /\ Len(u) = (m - 1) + k
      /\ \A j \in 1..k : u[(1 - 1) + j] = new[j]
      /\ \A i \in (1 + 1)..m : u[(i - 1) + k] = s[i]
      BY <1>1 DEF Rewrites
<1>3. ASSUME NEW j \in 1..k PROVE j \in 1..((m - 1) + k) /\ u[j] = new[j]
      <2>1. (1 - 1) + j = j /\ j \in 1..((m - 1) + k)
            BY <1>2
      <2>2. QED
            BY <1>2, <2>1
<1>4. ASSUME NEW i \in 2..m PROVE (i - 1) + k \in 1..((m - 1) + k) /\ u[(i - 1) + k] = s[i]
      <2>1. (i - 1) + k \in 1..((m - 1) + k) /\ i \in (1 + 1)..m
            BY <1>2
      <2>2. QED
            BY <1>2, <2>1
<1>5. ASSUME NEW c \in 1..((m - 1) + k), c \notin 1..k
      PROVE  \E i \in 2..m : c = (i - 1) + k
      <2>1. PICK i \in Int : i = (c - k) + 1
            BY <1>2
      <2>2. i \in 2..m /\ c = (i - 1) + k
            BY <1>2, <1>5, <2>1
      <2>3. QED
            BY <2>2
<1>6. \A i \in 2..m : (i - 1) + k \in 1..Len(u) /\ u[(i - 1) + k] = s[i]
      BY <1>2, <1>4
<1>7. \A c \in 1..Len(u) : c \in 1..k \/ \E i \in 2..m : c = (i - 1) + k
      BY <1>2, <1>5
<1>8. \A j \in 1..k : j \in 1..Len(u) /\ u[j] = new[j]
      BY <1>2, <1>3
<1>9. QED
      BY <1>1, <1>2, <1>6, <1>7, <1>8

(* The work stays proper when the first item is replaced by proper ones.   *)
LEMMA ProperKept ==
  ASSUME NEW t, NEW v, NEW w, v \subseteq w, NEW s, NEW new, NEW u, Rewrites(s, 1, new, u),
         AllProper(t, v, s), AllProper(t, w, new)
  PROVE  AllProper(t, w, u)
<1>1. SUFFICES ASSUME NEW c \in 1..Len(u) PROVE Proper(t, w, u[c])
      BY DEF AllProper
<1>2. PICK m, k \in Nat : m = Len(s) /\ k = Len(new)
      BY Shift
<1>3. /\ \A j \in 1..k : u[j] = new[j]
      /\ \A i \in 2..m : u[(i - 1) + k] = s[i]
      /\ c \in 1..k \/ \E i \in 2..m : c = (i - 1) + k
      BY <1>2, Shift
<1>4. CASE c \in 1..k
      BY <1>2, <1>3, <1>4 DEF AllProper
<1>5. CASE \E i \in 2..m : c = (i - 1) + k
      <2>1. PICK i \in 2..m : c = (i - 1) + k
            BY <1>5
      <2>2. u[c] = s[i]
            BY <1>3, <2>1
      <2>3. i \in 1..m
            OBVIOUS
      <2>4. Proper(t, v, s[i])
            BY <1>2, <2>3 DEF AllProper
      <2>5. QED
            BY <2>2, <2>4 DEF Proper
<1>6. QED
      BY <1>3, <1>4, <1>5

(* What is before an item that stays is before it still.                   *)
LEMMA StaysBefore ==
  ASSUME NEW m \in Nat, NEW k \in Nat, NEW i \in 2..m, NEW j \in 1..(i - 1), j # 1,
         NEW c, c = (i - 1) + k
  PROVE  j \in 2..m /\ (j - 1) + k \in 1..(c - 1)
OBVIOUS

(* Most steps are no part of the course of n and e, or pass the visit of n *)
(* on to the items that replace the next one.                              *)
LEMMA CourseKept ==
  ASSUME NEW t, NEW n, NEW e, NEW v, NEW w, NEW d, NEW f, NEW s, NEW new, NEW u,
         Rewrites(s, 1, new, u), Course(t, v, d, s, n, e),
         n \in w <=> n \in v, v \subseteq w, e \in w => e \in v \/ e \in f, e \in f <=> e \in d,
         s[1] # ElseJump(n),
         s[1] \in {Build(n), Switch(n)} /\ n \notin v =>
            \E j \in 1..Len(new) : new[j] \in {Build(n), Switch(n)},
         \A j \in 1..Len(new) :
            /\ new[j] # ElseJump(n)
            /\ new[j] \in {Build(n), Switch(n)} => s[1] \in {Build(n), Switch(n)}
            /\ new[j] \in {Build(e), Switch(e)} => e \in f \/ e \in w
            /\ Inside(s[1], n) => Inside(new[j], n)
            /\ Calm(t, s[1]) => Calm(t, new[j])
  PROVE  Course(t, w, f, u, n, e)
<1>1. PICK m, k \in Nat : m = Len(s) /\ k = Len(new)
      BY Shift
<1>2. /\ 1 \in 1..m
      /\ \A j \in 1..k : j \in 1..Len(u) /\ u[j] = new[j]
      /\ \A i \in 2..m : (i - 1) + k \in 1..Len(u) /\ u[(i - 1) + k] = s[i]
      /\ \A c \in 1..Len(u) : c \in 1..k \/ \E i \in 2..m : c = (i - 1) + k
      /\ \A i \in 1..m : i # 1 => i \in 2..m
      /\ \A i \in 2..m : i \in 1..m /\ i # 1
      BY <1>1, Shift
<1>3. n \notin w => e \notin f
      BY DEF Course
<1>4. e \in w => e \in f
      BY DEF Course
<1>5. ASSUME n \in w, e \notin f PROVE \E c \in 1..Len(u) : u[c] = ElseJump(n)
      <2>1. PICK i \in 1..m : s[i] = ElseJump(n)
            BY <1>1, <1>5 DEF Course
      <2>2. i \in 2..m
            BY <1>2, <2>1
      <2>3. (i - 1) + k \in 1..Len(u) /\ u[(i - 1) + k] = ElseJump(n)
            BY <1>2, <2>1, <2>2
      <2>4. QED
            BY <2>3
<1>6. ASSUME NEW c \in 1..Len(u), u[c] = ElseJump(n)
      PROVE  n \in w /\ e \notin f /\ \A b \in 1..(c - 1) : Inside(u[b], n)
      <2>1. PICK i \in 2..m : c = (i - 1) + k
            BY <1>1, <1>2, <1>6
      <2>2. s[i] = ElseJump(n) /\ i \in 1..m
            BY <1>2, <1>6, <2>1
      <2>3. n \in v /\ e \notin d /\ \A j \in 1..(i - 1) : Inside(s[j], n)
            BY <1>1, <2>2 DEF Course
      <2>4. ASSUME NEW b \in 1..(c - 1) PROVE Inside(u[b], n)
            <3>1. b \in 1..Len(u)
                  <4>1. PICK z \in Int : z = Len(u)
                        BY <1>1, Shift
                  <4>2. c \in 1..z
                        BY <4>1
                  <4>3. b \in 1..z
                        BY <4>2
                  <4>4. QED
                        BY <4>1, <4>3
            <3>2. CASE b \in 1..k
                  <4>1. 1 \in 1..(i - 1)
                        OBVIOUS
                  <4>2. Inside(new[b], n)
                        BY <1>1, <2>3, <3>2, <4>1
                  <4>3. QED
                        BY <1>2, <3>2, <4>2
            <3>3. CASE \E j \in 2..m : b = (j - 1) + k
                  <4>1. PICK j \in 2..m : b = (j - 1) + k
                        BY <3>3
                  <4>2. j \in 1..(i - 1)
                        BY <2>1, <4>1
                  <4>3. QED
                        BY <1>2, <2>3, <4>1, <4>2
            <3>4. QED
                  BY <1>2, <3>1, <3>2, <3>3
      <2>5. QED
            BY <2>3, <2>4
<1>7. ASSUME NEW i \in 1..m, s[i] \in {Build(n), Switch(n), ElseJump(n)},
             NEW c \in 1..Len(u), Image(1, k, i, c)
      PROVE  \E b \in (c + 1)..Len(u) : u[b] = Build(e) /\ CalmFrom(t, u, c, b)
      <2>1. PICK j \in (i + 1)..m : s[j] = Build(e) /\ CalmFrom(t, s, i, j)
            BY <1>1, <1>7 DEF Course
      <2>2. j \in 2..m /\ j \in 1..m
            BY <2>1
      <2>3. PICK b \in Int : b = (j - 1) + k
            BY <2>2
      <2>4. b \in 1..Len(u) /\ u[b] = Build(e)
            BY <1>2, <2>1, <2>2, <2>3
      <2>5. Image(1, k, j, b)
            BY <2>2, <2>3 DEF Image
      <2>6. CalmFrom(t, u, c, b)
            BY <1>1, <2>1, <2>2, <2>4, <2>5, <1>7, StaysCalm
      <2>7. c < b
            <3>1. CASE i = 1
                  <4>1. PICK q \in 1..k : c = (1 - 1) + q
                        BY <1>7, <3>1 DEF Image
                  <4>2. QED
                        BY <2>2, <2>3, <4>1
            <3>2. CASE i # 1
                  <4>1. c = (i - 1) + k
                        BY <1>7, <3>2 DEF Image
                  <4>2. QED
                        BY <2>1, <2>3, <4>1
            <3>3. QED
                  BY <3>1, <3>2
      <2>8. b \in (c + 1)..Len(u)
            <3>1. PICK z \in Int : z = Len(u)
                  BY <1>1, Shift
            <3>2. c \in 1..z /\ b \in 1..z
                  BY <2>4, <3>1
            <3>3. b \in (c + 1)..z
                  BY <2>7, <3>2
            <3>4. QED
                  BY <3>1, <3>3
      <2>9. QED
            BY <2>4, <2>6, <2>8
<1>8. ASSUME NEW c \in 1..Len(u), u[c] \in {Build(n), Switch(n), ElseJump(n)}
      PROVE  \E b \in (c + 1)..Len(u) : u[b] = Build(e) /\ CalmFrom(t, u, c, b)
      <2>1. CASE c \in 1..k
            <3>1. s[1] \in {Build(n), Switch(n), ElseJump(n)}
                  BY <1>1, <1>2, <1>8, <2>1
            <3>2. Image(1, k, 1, c)
                  <4>1. c = (1 - 1) + c
                        BY <2>1
                  <4>2. QED
                        BY <2>1, <4>1 DEF Image
            <3>3. QED
                  BY <1>2, <1>7, <3>1, <3>2
      <2>2. CASE \E i \in 2..m : c = (i - 1) + k
            <3>1. PICK i \in 2..m : c = (i - 1) + k
                  BY <2>2
            <3>2. s[i] = u[c] /\ i \in 1..m /\ Image(1, k, i, c)
                  BY <1>2, <3>1 DEF Image
            <3>3. QED
                  BY <1>7, <1>8, <3>2
      <2>3. QED
            BY <1>2, <2>1, <2>2
<1>9. ASSUME NEW c \in 1..Len(u), u[c] \in {Build(e), Switch(e)}, e \notin w, e \notin f
      PROVE  \E b \in 1..(c - 1) : \/ u[b] = ElseJump(n)
                                   \/ n \notin w /\ u[b] \in {Build(n), Switch(n)}
      <2>1. c \notin 1..k
            BY <1>1, <1>2, <1>9
      <2>2. PICK i \in 2..m : c = (i - 1) + k
            BY <1>2, <2>1
      <2>3. s[i] = u[c] /\ i \in 1..m
            BY <1>2, <2>2
      <2>4. PICK j \in 1..(i - 1) : \/ s[j] = ElseJump(n)
                                    \/ n \notin v /\ s[j] \in {Build(n), Switch(n)}
            BY <1>1, <1>9, <2>3 DEF Course
      <2>5. j \in 1..m
            BY <2>2, <2>4
      <2>6. CASE j = 1
            <3>1. PICK b \in 1..k : new[b] \in {Build(n), Switch(n)} /\ n \notin w
                  BY <1>1, <2>4, <2>6
            <3>2. b \in 1..(c - 1)
                  BY <1>2, <2>2, <3>1
            <3>3. u[b] \in {Build(n), Switch(n)} /\ n \notin w
                  BY <1>2, <3>1
            <3>4. QED
                  BY <3>2, <3>3
      <2>7. CASE j # 1
            <3>1. j \in 2..m /\ (j - 1) + k \in 1..(c - 1)
                  BY <2>2, <2>7, StaysBefore
            <3>2. u[(j - 1) + k] = s[j]
                  BY <1>2, <3>1
            <3>3. QED
                  BY <2>4, <3>1, <3>2
      <2>8. QED
            BY <2>6, <2>7
<1>10. QED
       BY <1>3, <1>4, <1>5, <1>6, <1>8, <1>9 DEF Course

(* The node above the two is built: the if first, and then the else.       *)
LEMMA CourseBegins ==
  ASSUME NEW t, NEW n, NEW e, NEW p, NEW v, NEW d, NEW s, NEW new, NEW u,
         Rewrites(s, 1, new, u), Course(t, v, d, s, n, e),
         s[1] = Build(p), ~Prefix(n, p), n # p, e # p, n # e,
         3 = Len(new), new[1] = Build(n), new[2] = Switch(p), new[3] = Build(e),
         \A j \in 1..3 : Calm(t, new[j])
  PROVE  Course(t, v, d, u, n, e)
<1>1. PICK m, k \in Nat : m = Len(s) /\ k = Len(new)
      BY Shift
<1>2. k = 3 /\ new[1] = Build(n) /\ new[2] = Switch(p) /\ new[3] = Build(e)
      BY <1>1
<1>3. /\ 1 \in 1..m
      /\ \A j \in 1..3 : j \in 1..Len(u) /\ u[j] = new[j]
      /\ \A i \in 2..m : (i - 1) + 3 \in 1..Len(u) /\ u[(i - 1) + 3] = s[i]
      /\ \A c \in 1..Len(u) : c \in 1..3 \/ \E i \in 2..m : c = (i - 1) + 3
      /\ \A i \in 1..m : i # 1 => i \in 2..m
      /\ \A i \in 2..m : i \in 1..m /\ i # 1
      /\ Len(u) = (m - 1) + 3
      <2>1. /\ 1 \in 1..m
            /\ \A j \in 1..k : j \in 1..Len(u) /\ u[j] = new[j]
            /\ \A i \in 2..m : (i - 1) + k \in 1..Len(u) /\ u[(i - 1) + k] = s[i]
            /\ \A c \in 1..Len(u) : c \in 1..k \/ \E i \in 2..m : c = (i - 1) + k
            /\ \A i \in 1..m : i # 1 => i \in 2..m
            /\ \A i \in 2..m : i \in 1..m /\ i # 1
            /\ Len(u) = (m - 1) + k
            BY <1>1, Shift
      <2>2. QED
            BY <1>2, <2>1
<1>4. /\ s[1] # ElseJump(n) /\ s[1] # Build(n) /\ s[1] # Switch(n) /\ ~Inside(s[1], n)
      /\ \A j \in 1..3 : new[j] # ElseJump(n)
      BY <1>2 DEF Build, Switch, ElseJump, Inside
<1>5. \A i \in 1..m : s[i] # ElseJump(n)
      <2>1. SUFFICES ASSUME NEW i \in 1..m, s[i] = ElseJump(n)
                     PROVE  FALSE
            OBVIOUS
      <2>2. i \in 2..m /\ \A j \in 1..(i - 1) : Inside(s[j], n)
            BY <1>1, <1>3, <1>4, <2>1 DEF Course
      <2>3. 1 \in 1..(i - 1)
            BY <2>2
      <2>4. QED
            BY <1>4, <2>2, <2>3
<1>6. ASSUME NEW c \in 1..Len(u) PROVE u[c] # ElseJump(n)
      <2>1. CASE c \in 1..3
            BY <1>3, <1>4, <2>1
      <2>2. CASE \E i \in 2..m : c = (i - 1) + 3
            <3>1. PICK i \in 2..m : c = (i - 1) + 3
                  BY <2>2
            <3>2. u[c] = s[i] /\ i \in 1..m
                  BY <1>3, <3>1
            <3>3. QED
                  BY <1>5, <3>2
      <2>3. QED
            BY <1>3, <2>1, <2>2
<1>7. n \in v => e \in d
      BY <1>1, <1>5 DEF Course
<1>8. ASSUME NEW c \in 1..Len(u), u[c] \in {Build(n), Switch(n), ElseJump(n)}
      PROVE  \E b \in (c + 1)..Len(u) : u[b] = Build(e) /\ CalmFrom(t, u, c, b)
      <2>1. CASE c \in 1..3
            <3>1. c = 1
                  BY <1>2, <1>3, <1>8, <2>1 DEF Build, Switch, ElseJump
            <3>2. 3 \in (c + 1)..Len(u) /\ u[3] = Build(e)
                  BY <1>1, <1>2, <1>3, <3>1
            <3>3. CalmFrom(t, u, c, 3)
                  <4>1. \A b \in 1..Len(u) : (1 <= b /\ b <= 3) \/ (3 <= b /\ b <= 1) => b \in 1..3
                        BY <1>1, <1>3
                  <4>2. QED
                        BY <1>3, <3>1, <4>1 DEF CalmFrom
            <3>4. QED
                  BY <3>2, <3>3
      <2>2. CASE \E i \in 2..m : c = (i - 1) + 3
            <3>1. PICK i \in 2..m : c = (i - 1) + 3
                  BY <2>2
            <3>2. s[i] = u[c] /\ i \in 1..m
                  BY <1>3, <3>1
            <3>3. PICK j \in (i + 1)..m : s[j] = Build(e) /\ CalmFrom(t, s, i, j)
                  BY <1>1, <1>8, <3>2 DEF Course
            <3>4. PICK b \in Int : b = (j - 1) + 3
                  BY <3>3
            <3>5. b \in (c + 1)..Len(u) /\ u[b] = Build(e)
                  BY <1>1, <1>3, <3>1, <3>3, <3>4
            <3>6. CalmFrom(t, u, c, b)
                  <4>1. SUFFICES ASSUME NEW a \in 1..Len(u), (c <= a /\ a <= b) \/ (b <= a /\ a <= c)
                                 PROVE  Calm(t, u[a])
                        BY DEF CalmFrom
                  <4>2. PICK q \in Int : q = a - 2
                        BY <1>1, <1>3
                  <4>3. q \in 2..m /\ q \in 1..m /\ a = (q - 1) + 3 /\ i <= q /\ q <= j
                        BY <1>1, <1>3, <3>1, <3>3, <3>4, <4>1, <4>2
                  <4>4. Calm(t, s[q])
                        BY <1>1, <3>3, <4>3 DEF CalmFrom
                  <4>5. QED
                        BY <1>3, <4>3, <4>4
            <3>7. QED
                  BY <3>5, <3>6
      <2>3. QED
            BY <1>3, <2>1, <2>2
<1>9. ASSUME NEW c \in 1..Len(u), u[c] \in {Build(e), Switch(e)}, e \notin v, e \notin d
      PROVE  \E b \in 1..(c - 1) : n \notin v /\ u[b] \in {Build(n), Switch(n)}
      <2>1. n \notin v
            BY <1>7, <1>9
      <2>2. CASE c \in 1..3
            <3>1. c = 3
                  BY <1>2, <1>3, <1>9, <2>2 DEF Build, Switch
            <3>2. 1 \in 1..(c - 1) /\ u[1] = Build(n)
                  BY <1>2, <1>3, <3>1
            <3>3. QED
                  BY <2>1, <3>2
      <2>3. CASE \E i \in 2..m : c = (i - 1) + 3
            <3>1. PICK i \in 2..m : c = (i - 1) + 3
                  BY <2>3
            <3>2. s[i] = u[c] /\ i \in 1..m
                  BY <1>3, <3>1
            <3>3. PICK j \in 1..(i - 1) : \/ s[j] = ElseJump(n)
                                          \/ n \notin v /\ s[j] \in {Build(n), Switch(n)}
                  BY <1>1, <1>9, <3>2 DEF Course
            <3>4. j \in 2..m /\ (j - 1) + 3 \in 1..(c - 1)
                  BY <1>3, <1>4, <3>1, <3>3
            <3>5. u[(j - 1) + 3] = s[j] /\ j \in 1..m
                  BY <1>3, <3>4
            <3>6. QED
                  BY <1>5, <2>1, <3>3, <3>4, <3>5
      <2>4. QED
            BY <1>3, <2>2, <2>3
<1>10. (n \notin v => e \notin d) /\ (e \in v => e \in d)
       BY DEF Course
<1>11. QED
       BY <1>6, <1>7, <1>8, <1>9, <1>10 DEF Course

(* The if is reached for the first time: its items come before the jump    *)
(* over the else.                                                          *)
LEMMA CourseIf ==
  ASSUME NEW t, NEW n, NEW e, NEW v, NEW d, NEW s, NEW new, NEW u,
         Rewrites(s, 1, new, u), Course(t, v, d, s, n, e),
         s[1] = Switch(n), n \notin v, n # e, NEW q \in 1..Len(new), new[q] = ElseJump(n),
         \A j \in 1..Len(new) :
            /\ j # q => new[j] # ElseJump(n)
            /\ j < q => Inside(new[j], n)
            /\ new[j] \notin {Build(n), Switch(n), Build(e), Switch(e)}
            /\ Calm(t, new[j])
  PROVE  Course(t, v \cup {n}, d, u, n, e)
<1>1. PICK m, k \in Nat : m = Len(s) /\ k = Len(new)
      BY Shift
<1>2. /\ 1 \in 1..m
      /\ \A j \in 1..k : j \in 1..Len(u) /\ u[j] = new[j]
      /\ \A i \in 2..m : (i - 1) + k \in 1..Len(u) /\ u[(i - 1) + k] = s[i]
      /\ \A c \in 1..Len(u) : c \in 1..k \/ \E i \in 2..m : c = (i - 1) + k
      /\ \A i \in 1..m : i # 1 => i \in 2..m
      /\ \A i \in 2..m : i \in 1..m /\ i # 1
      /\ Len(u) = (m - 1) + k
      BY <1>1, Shift
<1>3. e \notin d
      BY DEF Course
<1>4. \A i \in 1..m : s[i] # ElseJump(n)
      BY <1>1 DEF Course
<1>5. ASSUME NEW c \in 1..Len(u), u[c] = ElseJump(n)
      PROVE  c = q
      <2>1. CASE c \in 1..k
            BY <1>1, <1>2, <1>5, <2>1
      <2>2. CASE \E i \in 2..m : c = (i - 1) + k
            <3>1. PICK i \in 2..m : c = (i - 1) + k
                  BY <2>2
            <3>2. u[c] = s[i] /\ i \in 1..m
                  BY <1>2, <3>1
            <3>3. QED
                  BY <1>4, <1>5, <3>2
      <2>3. QED
            BY <1>2, <2>1, <2>2
<1>6. ASSUME NEW c \in 1..Len(u), u[c] = ElseJump(n), NEW b \in 1..(c - 1)
      PROVE  Inside(u[b], n)
      <2>1. c = q /\ b \in 1..k /\ b < q
            BY <1>1, <1>5, <1>6
      <2>2. QED
            BY <1>1, <1>2, <2>1
<1>7. q \in 1..Len(u) /\ u[q] = ElseJump(n)
      BY <1>1, <1>2
<1>8. ASSUME NEW i \in 1..m, s[i] \in {Build(n), Switch(n)},
             NEW c \in 1..Len(u), Image(1, k, i, c)
      PROVE  \E b \in (c + 1)..Len(u) : u[b] = Build(e) /\ CalmFrom(t, u, c, b)
      <2>1. PICK j \in (i + 1)..m : s[j] = Build(e) /\ CalmFrom(t, s, i, j)
            BY <1>1, <1>8 DEF Course
      <2>2. j \in 2..m /\ j \in 1..m
            BY <2>1
      <2>3. PICK b \in Int : b = (j - 1) + k
            BY <2>2
      <2>4. b \in 1..Len(u) /\ u[b] = Build(e)
            BY <1>2, <2>1, <2>2, <2>3
      <2>5. Image(1, k, j, b)
            BY <2>2, <2>3 DEF Image
      <2>6. CalmFrom(t, u, c, b)
            BY <1>1, <2>1, <2>2, <2>4, <2>5, <1>8, StaysCalm
      <2>7. c < b
            <3>1. CASE i = 1
                  <4>1. PICK a \in 1..k : c = (1 - 1) + a
                        BY <1>8, <3>1 DEF Image
                  <4>2. QED
                        BY <2>2, <2>3, <4>1
            <3>2. CASE i # 1
                  <4>1. c = (i - 1) + k
                        BY <1>8, <3>2 DEF Image
                  <4>2. QED
                        BY <2>1, <2>3, <4>1
            <3>3. QED
                  BY <3>1, <3>2
      <2>8. b \in (c + 1)..Len(u)
            BY <1>1, <1>2, <2>4, <2>7
      <2>9. QED
            BY <2>4, <2>6, <2>8
<1>9. ASSUME NEW c \in 1..Len(u), u[c] \in {Build(n), Switch(n), ElseJump(n)}
      PROVE  \E b \in (c + 1)..Len(u) : u[b] = Build(e) /\ CalmFrom(t, u, c, b)
      <2>1. CASE c \in 1..k
            <3>1. Image(1, k, 1, c)
                  <4>1. c = (1 - 1) + c
                        BY <2>1
                  <4>2. QED
                        BY <2>1, <4>1 DEF Image
            <3>2. QED
                  BY <1>2, <1>8, <3>1
      <2>2. CASE \E i \in 2..m : c = (i - 1) + k
            <3>1. PICK i \in 2..m : c = (i - 1) + k
                  BY <2>2
            <3>2. s[i] = u[c] /\ i \in 1..m /\ Image(1, k, i, c)
                  BY <1>2, <3>1 DEF Image
            <3>3. QED
                  BY <1>4, <1>8, <1>9, <3>2
      <2>3. QED
            BY <1>2, <2>1, <2>2
<1>10. ASSUME NEW c \in 1..Len(u), u[c] \in {Build(e), Switch(e)}
       PROVE  \E b \in 1..(c - 1) : u[b] = ElseJump(n)
       <2>1. c \notin 1..k
             BY <1>1, <1>2, <1>10
       <2>2. PICK i \in 2..m : c = (i - 1) + k
             BY <1>2, <2>1
       <2>3. q \in 1..(c - 1)
             BY <1>1, <2>2
       <2>4. QED
             BY <1>7, <2>3
<1>11. e \in v => e \in d
       BY DEF Course
<1>12. QED
       BY <1>3, <1>6, <1>7, <1>9, <1>10, <1>11 DEF Course

(* The jump over the else is made, and the else gets its label.            *)
LEMMA CourseJump ==
  ASSUME NEW t, NEW n, NEW e, NEW v, NEW d, NEW s, NEW new, NEW u, new = <<>>,
         Rewrites(s, 1, new, u), Course(t, v, d, s, n, e), s[1] = ElseJump(n)
  PROVE  Course(t, v, d \cup {e}, u, n, e)
<1>1. PICK m \in Nat : m = Len(s)
      BY Shift
<1>2. /\ 1 \in 1..m /\ Len(new) = 0
      /\ \A i \in 2..m : (i - 1) + 0 \in 1..Len(u) /\ u[(i - 1) + 0] = s[i]
      /\ \A c \in 1..Len(u) : c \in 1..0 \/ \E i \in 2..m : c = (i - 1) + 0
      /\ \A i \in 2..m : i \in 1..m /\ i # 1
      /\ Len(u) = m - 1
      BY <1>1, Shift
<1>3. n \in v /\ \A i \in 2..m : s[i] # ElseJump(n)
      <2>1. n \in v
            BY <1>1, <1>2 DEF Course
      <2>2. ASSUME NEW i \in 2..m, s[i] = ElseJump(n)
            PROVE  FALSE
            <3>1. 1 \in 1..(i - 1) /\ i \in 1..m
                  BY <1>2
            <3>2. Inside(s[1], n)
                  BY <1>1, <2>2, <3>1 DEF Course
            <3>3. QED
                  BY <3>2 DEF Inside, ElseJump
      <2>3. QED
            BY <2>1, <2>2
<1>4. \A c \in 1..Len(u) : c + 1 \in 2..m /\ u[c] = s[c + 1]
      <2>1. SUFFICES ASSUME NEW c \in 1..Len(u)
                     PROVE  c + 1 \in 2..m /\ u[c] = s[c + 1]
            OBVIOUS
      <2>2. c + 1 \in 2..m /\ ((c + 1) - 1) + 0 = c
            BY <1>1, <1>2
      <2>3. QED
            BY <1>2, <2>2
<1>5. ASSUME NEW c \in 1..Len(u), u[c] \in {Build(n), Switch(n), ElseJump(n)}
      PROVE  \E b \in (c + 1)..Len(u) : u[b] = Build(e) /\ CalmFrom(t, u, c, b)
      <2>1. PICK i \in 2..m : i = c + 1
            BY <1>4
      <2>2. s[i] = u[c] /\ i \in 1..m
            BY <1>2, <1>4, <2>1
      <2>3. PICK j \in (i + 1)..m : s[j] = Build(e) /\ CalmFrom(t, s, i, j)
            BY <1>1, <1>5, <2>2 DEF Course
      <2>4. PICK b \in Int : b = j - 1
            BY <2>3
      <2>5. b \in (c + 1)..Len(u) /\ b \in 1..Len(u)
            BY <1>1, <1>2, <2>1, <2>3, <2>4
      <2>6. u[b] = Build(e)
            <3>1. b + 1 = j
                  BY <2>3, <2>4
            <3>2. QED
                  BY <1>4, <2>3, <2>5, <3>1
      <2>7. CalmFrom(t, u, c, b)
            <3>1. SUFFICES ASSUME NEW a \in 1..Len(u), (c <= a /\ a <= b) \/ (b <= a /\ a <= c)
                           PROVE  Calm(t, u[a])
                  BY DEF CalmFrom
            <3>2. a + 1 \in 1..m /\ i <= a + 1 /\ a + 1 <= j
                  BY <1>1, <1>2, <2>1, <2>3, <2>4, <3>1
            <3>3. Calm(t, s[a + 1])
                  BY <1>1, <2>3, <3>2 DEF CalmFrom
            <3>4. QED
                  BY <1>4, <3>3
      <2>8. QED
            BY <2>5, <2>6, <2>7
<1>6. QED
      BY <1>3, <1>4, <1>5 DEF Course

(* Labels: what comes in places what went out placed, labels with new      *)
(* serial numbers, or that of an else which is visited now.                *)
Relabels(t, g, v, w, item, new, ys, next, top) ==
  /\ \A j \in 1..Len(ys) : \A l : Owns(t, g, ys[j], l) =>
       \/ Owns(t, g, item, l)
       \/ l[2] \in Int /\ next <= l[2] /\ l[2] < top
       \/ \E m \in DOMAIN g : l = g[m] /\ m \notin v /\ m \in w
  /\ \A j \in 1..Len(ys) : \A l : Jumps(ys[j], l) =>
       \/ Jumps(item, l) \/ Places(g, item, l)
       \/ l[2] \in Int /\ next <= l[2] /\ l[2] < top
  /\ \A j \in 1..Len(new) : \A l : Jumps(new[j], l) => ~Places(g, item, l)
  /\ \A i, j \in 1..Len(ys) : \A l : Owns(t, g, ys[i], l) /\ Owns(t, g, ys[j], l) => i = j

(* The items of new are among those of ys.                                 *)
Among(new, ys) == \A j \in 1..Len(new) : \E q \in 1..Len(ys) : ys[q] = new[j]

(* The labels stay in order when an item that is first in the work is      *)
(* replaced by others that relabel it.                                     *)
LEMMA LabelsKept ==
  ASSUME NEW t, NEW g, NEW v, NEW w, v \subseteq w, NEW next \in Int, NEW top \in Int, next <= top,
         NEW s, NEW h, NEW ys, NEW u, Rewrites(s, h, ys, u),
         NEW work, NEW new, NEW z, Rewrites(work, 1, new, z), s[h] = work[1], Among(new, ys),
         ElseLabels(t, g, v, work, s, next), Numbered(t, g, s, next), OneOwner(t, g, s),
         Relabels(t, g, v, w, s[h], new, ys, next, top)
  PROVE  ElseLabels(t, g, w, z, u, top) /\ Numbered(t, g, u, top) /\ OneOwner(t, g, u)
<1>1. /\ \A j \in 1..Len(ys) : \A l : Owns(t, g, ys[j], l) =>
            \/ Owns(t, g, s[h], l)
            \/ l[2] \in Int /\ next <= l[2] /\ l[2] < top
            \/ \E m \in DOMAIN g : l = g[m] /\ m \notin v /\ m \in w
      /\ \A j \in 1..Len(ys) : \A l : Jumps(ys[j], l) =>
            \/ Jumps(s[h], l) \/ Owns(t, g, s[h], l)
            \/ l[2] \in Int /\ next <= l[2] /\ l[2] < top
      /\ \A j \in 1..Len(new) : \A l : Jumps(new[j], l) =>
            \/ Jumps(s[h], l)
            \/ l[2] \in Int /\ next <= l[2] /\ l[2] < top
      /\ \A i, j \in 1..Len(ys) : \A l : Owns(t, g, ys[i], l) /\ Owns(t, g, ys[j], l) => i = j
      /\ \A j \in 1..Len(new) : \E q \in 1..Len(ys) : ys[q] = new[j]
      BY DEF Relabels, Among, Owns
<1>2. h \in 1..Len(s) /\ 1 \in 1..Len(work)
      BY DEF Rewrites
<1>3. \A a, b, c \in Int : a < b /\ b <= c => a < c
      OBVIOUS
<1>4. \A c \in 1..Len(u) : \/ \E j \in 1..Len(ys) : u[c] = ys[j]
                           \/ \E j \in 1..Len(s) : u[c] = s[j]
      <2>1. SUFFICES ASSUME NEW c \in 1..Len(u)
                     PROVE  \/ \E j \in 1..Len(ys) : u[c] = ys[j]
                            \/ \E j \in 1..Len(s) : u[c] = s[j]
            OBVIOUS
      <2>2. \/ \E j \in 1..Len(ys) : c = (h - 1) + j /\ u[c] = ys[j] /\ Image(h, Len(ys), h, c)
            \/ \E i \in 1..Len(s) : i # h /\ u[c] = s[i] /\ Image(h, Len(ys), i, c)
            BY Sources
      <2>3. QED
            BY <2>2
<1>5. Numbered(t, g, u, top)
      <2>1. SUFFICES ASSUME NEW c \in 1..Len(u), NEW l, Owns(t, g, u[c], l) \/ Jumps(u[c], l)
                     PROVE  l[2] \in Int /\ l[2] < top
            BY DEF Numbered
      <2>2. \A i \in 1..Len(s) : Owns(t, g, s[i], l) \/ Jumps(s[i], l) =>
               l[2] \in Int /\ l[2] < top
            BY <1>3 DEF Numbered
      <2>3. \A m \in DOMAIN g : g[m][2] \in Int /\ g[m][2] < top
            BY <1>3 DEF ElseLabels
      <2>4. CASE \E j \in 1..Len(ys) : u[c] = ys[j]
            BY <1>1, <1>2, <2>1, <2>2, <2>3, <2>4
      <2>5. CASE \E i \in 1..Len(s) : u[c] = s[i]
            BY <2>1, <2>2, <2>5
      <2>6. QED
            BY <2>4, <2>5, Sources
<1>6. OneOwner(t, g, u)
      <2>1. ASSUME NEW j \in 1..Len(ys), NEW l, Owns(t, g, ys[j], l), ~Owns(t, g, s[h], l),
                   NEW i \in 1..Len(s), Owns(t, g, s[i], l)
            PROVE  FALSE
            <3>1. l[2] \in Int /\ l[2] < next
                  BY <2>1 DEF Numbered
            <3>2. ~(next <= l[2])
                  BY <3>1
            <3>3. PICK m \in DOMAIN g : l = g[m] /\ m \notin v
                  BY <1>1, <2>1, <3>2
            <3>4. QED
                  BY <2>1, <3>3 DEF ElseLabels
      <2>2. \A j \in 1..Len(ys) : \A l : Owns(t, g, ys[j], l) =>
               Owns(t, g, s[h], l) \/ \A i \in 1..Len(s) : ~Owns(t, g, s[i], l)
            BY <2>1
      <2>3. QED
            BY <1>1, <2>2, OwnersKept
<1>7. ElseLabels(t, g, w, z, u, top)
      <2>1. SUFFICES ASSUME NEW m \in DOMAIN g
                     PROVE  /\ IsPath(t, m) /\ NodeAt(t, m).subtype = "ELSE_STMT"
                            /\ g[m][2] \in Int /\ g[m][2] < top
                            /\ \A k \in DOMAIN g : g[k] = g[m] => k = m
                            /\ \A i \in 1..Len(z) : ~Jumps(z[i], g[m])
                            /\ m \notin w => \A i \in 1..Len(u) : ~Owns(t, g, u[i], g[m])
            BY DEF ElseLabels
      <2>2. /\ IsPath(t, m) /\ NodeAt(t, m).subtype = "ELSE_STMT"
            /\ g[m][2] \in Int /\ g[m][2] < next
            /\ \A k \in DOMAIN g : g[k] = g[m] => k = m
            /\ \A i \in 1..Len(work) : ~Jumps(work[i], g[m])
            /\ m \notin v => \A i \in 1..Len(s) : ~Owns(t, g, s[i], g[m])
            BY DEF ElseLabels
      <2>3. g[m][2] < top /\ ~(next <= g[m][2])
            BY <2>2
      <2>4. ASSUME NEW i \in 1..Len(z), Jumps(z[i], g[m])
            PROVE  FALSE
            <3>1. CASE \E j \in 1..Len(new) : z[i] = new[j]
                  BY <1>1, <1>2, <2>2, <2>3, <2>4, <3>1
            <3>2. CASE \E j \in 1..Len(work) : z[i] = work[j]
                  BY <2>2, <2>4, <3>2
            <3>3. QED
                  BY <3>1, <3>2, Sources
      <2>5. ASSUME m \notin w, NEW i \in 1..Len(u), Owns(t, g, u[i], g[m])
            PROVE  FALSE
            <3>1. m \notin v
                  BY <2>5
            <3>2. CASE \E j \in 1..Len(ys) : u[i] = ys[j]
                  <4>1. PICK l : l = g[m]
                        OBVIOUS
                  <4>2. PICK j \in 1..Len(ys) : Owns(t, g, ys[j], l)
                        BY <2>5, <3>2, <4>1
                  <4>3. ~Owns(t, g, s[h], l) /\ ~(next <= l[2])
                        BY <1>2, <2>2, <2>3, <3>1, <4>1
                  <4>4. PICK k \in DOMAIN g : l = g[k] /\ k \in w
                        BY <1>1, <4>2, <4>3
                  <4>5. k = m
                        BY <2>2, <4>1, <4>4
                  <4>6. QED
                        BY <2>5, <4>4, <4>5
            <3>3. CASE \E j \in 1..Len(s) : u[i] = s[j]
                  <4>1. PICK j \in 1..Len(s) : u[i] = s[j]
                        BY <3>3
                  <4>2. ~Owns(t, g, s[j], g[m])
                        BY <2>2, <3>1
                  <4>3. QED
                        BY <2>5, <4>1, <4>2
            <3>4. QED
                  BY <1>4, <3>2, <3>3
      <2>6. QED
            BY <2>2, <2>3, <2>4, <2>5
<1>8. QED
      BY <1>5, <1>6, <1>7

(* Jumps find their labels: no else that has a label is visited.           *)
LEMMA JumpsKept ==
  ASSUME NEW t, NEW g, NEW v, NEW w, NEW s, NEW h, NEW ys, NEW u, Rewrites(s, h, ys, u),
         Landing(t, g, v, s), \A m \in DOMAIN g : m \in w => m \in v,
         \A l : Places(g, s[h], l) \/ Awaits(g, v, s[h], l) =>
            \E j \in 1..Len(ys) : Places(g, ys[j], l) \/ Awaits(g, w, ys[j], l),
         \A j \in 1..Len(ys) : \A l : Jumps(ys[j], l) =>
            Calm(t, s[h]) /\ (Jumps(s[h], l) \/ \E i \in 1..Len(ys) : Places(g, ys[i], l)),
         Calm(t, s[h]) => \A j \in 1..Len(ys) : Calm(t, ys[j])
  PROVE  Landing(t, g, w, u)
<1>1. \A item, l : Awaits(g, v, item, l) => Awaits(g, w, item, l)
      BY DEF Awaits
<1>2. QED
      BY <1>1, LandingKept

(* An if that is not visited yet stays to be switched on.                  *)
IfStays(v, item, new) ==
  item.do \in {"build", "switch"} /\ NodeAt(tree, item.n).subtype = "IF_STMT" /\ item.n \notin v =>
    \E j \in 1..Len(new) : new[j] \in {Build(item.n), Switch(item.n)}

(* What y, left by a step for the node x, is not about when x is not p.    *)
Elsewhere(x, p, item, y) ==
  /\ y.do \in {"build", "switch", "elsejump"} =>
       /\ IsPath(tree, x) /\ ~Missing(tree, x) /\ x # p
       /\ \/ y = Build(Left(x)) \/ y = Build(Right(x))
          \/ y = Switch(x) /\ item = Build(x)
  /\ Inside(item, Left(p)) => Inside(y, Left(p))
  /\ Calm(tree, item) => Calm(tree, y)

(* The courses of an if and its else, at a step for another node.          *)
LEMMA CourseElsewhere ==
  ASSUME WellFormed(tree), NEW v, NEW w, NEW d, NEW s, NEW new, NEW u, Rewrites(s, 1, new, u),
         Courses(tree, v, d, s), v \subseteq w, NEW x, NEW p, IfElse(tree, p),
         Left(p) \in w => Left(p) \in v,
         Right(p) \in w => Right(p) \in v \/ Right(p) \in d,
         s[1].do # "elsejump",
         IfStays(v, s[1], new), \A j \in 1..Len(new) : Elsewhere(x, p, s[1], new[j])
  PROVE  Course(tree, w, d, u, Left(p), Right(p))
<1>1. p \in Seq(Steps) /\ IfElse(tree, p)
      BY IfAndElse
<1>2. PICK n : n = Left(p)
      OBVIOUS
<1>3. PICK e : e = Right(p)
      OBVIOUS
<1>4. Course(tree, v, d, s, n, e)
      BY <1>1, <1>2, <1>3 DEF Courses
<1>5. /\ NodeAt(tree, n).subtype = "IF_STMT" /\ NodeAt(tree, e).subtype = "ELSE_STMT"
      /\ Parent(n) = p /\ Parent(e) = p /\ n # e
      BY <1>1, <1>2, <1>3, IfAndElse
<1>6. (n \in w <=> n \in v) /\ (e \in w => e \in v \/ e \in d)
      BY <1>1, <1>2, <1>3
<1>7. s[1] # ElseJump(n)
      BY DEF ElseJump
<1>8. s[1] \in {Build(n), Switch(n)} /\ n \notin v =>
         \E j \in 1..Len(new) : new[j] \in {Build(n), Switch(n)}
      <2>1. s[1] \in {Build(n), Switch(n)} => s[1].do \in {"build", "switch"} /\ s[1].n = n
            BY DEF Build, Switch
      <2>2. QED
            BY <1>5, <2>1 DEF IfStays
<1>9. \A j \in 1..Len(new) : /\ Inside(s[1], n) => Inside(new[j], n)
                             /\ Calm(tree, s[1]) => Calm(tree, new[j])
      BY <1>2 DEF Elsewhere
<1>10. ASSUME NEW j \in 1..Len(new)
      PROVE  /\ new[j] # ElseJump(n)
             /\ new[j] \in {Build(n), Switch(n)} => s[1] \in {Build(n), Switch(n)}
             /\ new[j] \in {Build(e), Switch(e)} => e \in d \/ e \in w
             /\ Inside(s[1], n) => Inside(new[j], n)
             /\ Calm(tree, s[1]) => Calm(tree, new[j])
      <2>1. CASE new[j].do \in {"build", "switch", "elsejump"}
            <3>1. /\ IsPath(tree, x) /\ ~Missing(tree, x) /\ x # p
                  /\ \/ new[j] = Build(Left(x)) \/ new[j] = Build(Right(x))
                     \/ new[j] = Switch(x) /\ s[1] = Build(x)
                  BY <2>1 DEF Elsewhere
            <3>2. Parent(Left(x)) = x /\ Parent(Right(x)) = x /\ x # p
                  BY <3>1, ChildNodes
            <3>3. CASE new[j] = Build(Left(x)) \/ new[j] = Build(Right(x))
                  <4>1. Left(x) # n /\ Left(x) # e /\ Right(x) # n /\ Right(x) # e
                        BY <1>5, <3>2
                  <4>2. \A m \in {Left(x), Right(x)} :
                           m # n /\ m # e =>
                             Build(m) \notin {ElseJump(n), Build(n), Switch(n), Build(e), Switch(e)}
                        BY DEF Build, Switch, ElseJump
                  <4>3. new[j] \notin {ElseJump(n), Build(n), Switch(n), Build(e), Switch(e)}
                        BY <3>3, <4>1, <4>2
                  <4>4. QED
                        BY <1>9, <4>3
            <3>4. CASE new[j] = Switch(x) /\ s[1] = Build(x)
                  <4>1. new[j] # ElseJump(n) /\ new[j] # Build(n) /\ new[j] # Build(e)
                        BY <3>4 DEF Build, Switch, ElseJump
                  <4>2. new[j] = Switch(n) => s[1] = Build(n)
                        BY <3>4 DEF Build, Switch
                  <4>3. ASSUME new[j] = Switch(e) PROVE e \in d \/ e \in w
                        <5>1. s[1] = Build(e)
                              BY <3>4, <4>3 DEF Build, Switch
                        <5>2. 1 \in 1..Len(s) /\ \A i \in 1..(1 - 1) : FALSE
                              BY Shift
                        <5>3. e \in v \/ e \in d
                              BY <1>4, <5>1, <5>2 DEF Course
                        <5>4. QED
                              BY <5>3
                  <4>4. QED
                        BY <1>9, <4>1, <4>2, <4>3
            <3>5. QED
                  BY <3>1, <3>3, <3>4
      <2>2. CASE new[j].do \notin {"build", "switch", "elsejump"}
            <3>1. \A m : new[j] \notin {Build(m), Switch(m), ElseJump(m)}
                  BY <2>2 DEF Build, Switch, ElseJump
            <3>2. QED
                  BY <1>9, <3>1
      <2>3. QED
            BY <2>1, <2>2
<1>11. Course(tree, w, d, u, n, e)
       BY <1>4, <1>6, <1>7, <1>8, <1>10, CourseKept
<1>12. QED
       BY <1>2, <1>3, <1>11

(* The courses of all ifs and elses.                                       *)
LEMMA CoursesKept ==
  ASSUME WellFormed(tree), NEW v, NEW w, NEW d, NEW s, NEW new, NEW u, Rewrites(s, 1, new, u),
         Courses(tree, v, d, s), v \subseteq w, NEW x,
         \A p : IfElse(tree, p) =>
            /\ Left(p) \in w => Left(p) \in v
            /\ Right(p) \in w => Right(p) \in v \/ Right(p) \in d,
         s[1].do # "elsejump",
         s[1].do \in {"build", "switch"} /\ NodeAt(tree, s[1].n).subtype = "IF_STMT"
           /\ s[1].n \notin v => \E j \in 1..Len(new) : new[j] \in {Build(s[1].n), Switch(s[1].n)},
         \A j \in 1..Len(new) :
            /\ new[j].do \in {"build", "switch", "elsejump"} =>
                 /\ IsPath(tree, x) /\ ~Missing(tree, x) /\ ~IfElse(tree, x)
                 /\ \/ new[j] = Build(Left(x)) \/ new[j] = Build(Right(x))
                    \/ new[j] = Switch(x) /\ s[1] = Build(x)
            /\ \A p : IfElse(tree, p) /\ Inside(s[1], Left(p)) => Inside(new[j], Left(p))
            /\ Calm(tree, s[1]) => Calm(tree, new[j])
  PROVE  Courses(tree, w, d, u)
<1>1. SUFFICES ASSUME NEW p \in Seq(Steps), IfElse(tree, p)
               PROVE  Course(tree, w, d, u, Left(p), Right(p))
      BY DEF Courses
<1>2. /\ Left(p) \in w => Left(p) \in v
      /\ Right(p) \in w => Right(p) \in v \/ Right(p) \in d
      BY <1>1
<1>3. IfStays(v, s[1], new)
      BY DEF IfStays
<1>4. \A j \in 1..Len(new) : Elsewhere(x, p, s[1], new[j])
      BY <1>1 DEF Elsewhere
<1>5. QED
      BY <1>1, <1>2, <1>3, <1>4, CourseElsewhere

-----------------------------------------------------------------------------
(* A step as a whole.                                                      *)

Loud == {"LABEL", "BLEZ", "BGZ", "J", "FUNCTIONSTART"}
Silent(item) ==
  \/ item.do \in {"generate", "drop", "store", "operate", "increment", "return", "param",
                  "fortest"}
  \/ item.do = "emit" /\ item.irn.opcode \notin Loud

(* A silent item has nothing to do with any label or function.             *)
LEMMA SilentItem ==
  ASSUME NEW item, Silent(item)
  PROVE  /\ \A t, g, l : ~Owns(t, g, item, l)
         /\ \A l : ~Jumps(item, l)
         /\ \A t : Calm(t, item)
         /\ item.do \notin {"build", "switch", "elsejump"}
BY DEF Silent, Loud, Owns, Places, Declares, Reaches, LabelsIt, Jumps, JumpsToIt, Calm

(* The next item, while the program does not crash.                        *)
LEMMA NextProper ==
  ASSUME JumpInv, todo # <<>>
  PROVE  /\ Inv /\ ~crashed /\ Jumping /\ Proper(tree, visited, Next1)
         /\ 1 \in 1..Len(todo) /\ todo[1] = Next1 /\ IsSequence(irlist) /\ IsSequence(todo)
<1>1. Inv /\ ~crashed /\ Jumping
      BY DEF JumpInv
<1>2. IsSequence(irlist) /\ IsSequence(todo)
      BY <1>1 DEF Inv, AllClean
<1>3. 1 \in 1..Len(todo) /\ todo[1] = Next1
      <2>1. Rewrites(todo, 1, <<>>, <<>> \o Tail(todo)) /\ todo[1] = Head(todo)
            BY <1>2, EmptySequence, Heads
      <2>2. QED
            BY <2>1, Shift DEF Next1
<1>4. QED
      BY <1>1, <1>2, <1>3 DEF Jumping, AllProper

(* What comes into the line in place of the item that is done.             *)
Brings(irns, new, ys) == ys = Emits(irns) \o new

(* They take over its labels and place it, or bring new ones.              *)
Replaces(t, g, v, w, item, new, ys, next, top) ==
  /\ \A j \in 1..Len(ys) : \A l : Owns(t, g, ys[j], l) =>
       \/ Owns(t, g, item, l)
       \/ l[2] \in Int /\ next <= l[2] /\ l[2] < top
  /\ \A i, j \in 1..Len(ys) : \A l : Owns(t, g, ys[i], l) /\ Owns(t, g, ys[j], l) => i = j
  /\ \A l : Places(g, item, l) \/ Awaits(g, v, item, l) =>
       \E j \in 1..Len(ys) : Places(g, ys[j], l) \/ Awaits(g, w, ys[j], l)
  /\ \A j \in 1..Len(ys) : \A l : Jumps(ys[j], l) =>
       \/ Jumps(item, l)
       \/ /\ Places(g, item, l) \/ (l[2] \in Int /\ next <= l[2] /\ l[2] < top)
          /\ Calm(t, item) /\ \E i \in 1..Len(ys) : Places(g, ys[i], l)
  /\ \A j \in 1..Len(new) : \A l : Jumps(new[j], l) => ~Places(g, item, l)
  /\ Calm(t, item) => \A j \in 1..Len(ys) : Calm(t, ys[j])
  /\ \A m \in DOMAIN g : m \in w => m \in v

(* All that is known of the line is kept when its first item of work is    *)
(* replaced by items that stand in for it.                                 *)
LEMMA LineKept ==
  ASSUME NEW t, NEW g, NEW v, NEW w, v \subseteq w, NEW next \in Int, NEW top \in Int, next <= top,
         NEW s, NEW h, NEW ys, NEW u, Rewrites(s, h, ys, u),
         NEW work, NEW new, NEW z, Rewrites(work, 1, new, z), s[h] = work[1], Among(new, ys),
         Replaces(t, g, v, w, s[h], new, ys, next, top),
         ElseLabels(t, g, v, work, s, next), Numbered(t, g, s, next), OneOwner(t, g, s),
         Landing(t, g, v, s)
  PROVE  /\ ElseLabels(t, g, w, z, u, top) /\ Numbered(t, g, u, top) /\ OneOwner(t, g, u)
         /\ Landing(t, g, w, u)
<1>1. /\ \A j \in 1..Len(ys) : \A l : Owns(t, g, ys[j], l) =>
            \/ Owns(t, g, s[h], l)
            \/ l[2] \in Int /\ next <= l[2] /\ l[2] < top
      /\ \A i, j \in 1..Len(ys) : \A l : Owns(t, g, ys[i], l) /\ Owns(t, g, ys[j], l) => i = j
      /\ \A l : Places(g, s[h], l) \/ Awaits(g, v, s[h], l) =>
            \E j \in 1..Len(ys) : Places(g, ys[j], l) \/ Awaits(g, w, ys[j], l)
      /\ \A j \in 1..Len(ys) : \A l : Jumps(ys[j], l) =>
            \/ Jumps(s[h], l)
            \/ /\ Places(g, s[h], l) \/ (l[2] \in Int /\ next <= l[2] /\ l[2] < top)
               /\ Calm(t, s[h]) /\ \E i \in 1..Len(ys) : Places(g, ys[i], l)
      /\ \A j \in 1..Len(new) : \A l : Jumps(new[j], l) => ~Places(g, s[h], l)
      /\ Calm(t, s[h]) => \A j \in 1..Len(ys) : Calm(t, ys[j])
      /\ \A m \in DOMAIN g : m \in w => m \in v
      BY DEF Replaces
<1>2. \A l : Jumps(s[h], l) => Calm(t, s[h])
      BY DEF Jumps, JumpsToIt, Calm
<1>3. Relabels(t, g, v, w, s[h], new, ys, next, top)
      BY <1>1 DEF Relabels
<1>4. ElseLabels(t, g, w, z, u, top) /\ Numbered(t, g, u, top) /\ OneOwner(t, g, u)
      BY <1>3, LabelsKept
<1>5. \A j \in 1..Len(ys) : \A l : Jumps(ys[j], l) =>
         Calm(t, s[h]) /\ (Jumps(s[h], l) \/ \E i \in 1..Len(ys) : Places(g, ys[i], l))
      BY <1>1, <1>2
<1>6. Landing(t, g, w, u)
      BY <1>1, <1>5, JumpsKept
<1>7. QED
      BY <1>4, <1>6

(* A step that replaces the item at hand by the nodes it appends and the   *)
(* work it leaves keeps the invariant, when those stand in for it.         *)
LEMMA JumpingStep ==
  ASSUME WellFormed(tree), JumpInv, todo # <<>>, UNCHANGED <<tree, else_label>>,
         visited \subseteq visited', labelnum' \in Nat, labelnum <= labelnum',
         NEW irns, IsSequence(irns), Append_ir_nodes(irns), NEW new, IsSequence(new), Then(new),
         AllProper(tree, visited', new), Courses(tree, visited', DOMAIN else_label, todo'),
         NEW ys, Brings(irns, new, ys),
         Replaces(tree, else_label, visited, visited', Next1, new, ys, labelnum, labelnum')
  PROVE  Jumping'
<1>1. Inv /\ Jumping /\ labelnum \in Nat
      BY NextProper DEF Jumping
<1>2. PICK t, g, v, w, work, z :
         /\ t = tree /\ g = else_label /\ v = visited /\ w = visited' /\ work = todo /\ z = todo'
      OBVIOUS
<1>3. PICK x, y, h, item : x = Line /\ y = Line' /\ h = Len(irlist) + 1 /\ item = Next1
      OBVIOUS
<1>4. PICK next, top \in Int : next = labelnum /\ top = labelnum'
      BY <1>1
<1>5. /\ Rewrites(x, h, ys, y) /\ x[h] = item
      /\ Rewrites(work, 1, new, z) /\ work[1] = item
      /\ Among(new, ys)
      <2>1. /\ Rewrites(Line, Len(irlist) + 1, Emits(irns) \o new, Line')
            /\ Line[Len(irlist) + 1] = Next1
            /\ Rewrites(todo, 1, new, todo') /\ todo[1] = Next1
            /\ \A j \in 1..Len(new) :
                 \E q \in 1..Len(Emits(irns) \o new) : (Emits(irns) \o new)[q] = new[j]
            BY <1>1, LineStep
      <2>2. QED
            BY <1>2, <1>3, <2>1 DEF Brings, Among
<1>6. AllProper(t, w, z)
      BY <1>1, <1>2, <1>5, ProperKept DEF Jumping
<1>7. /\ ElseLabels(t, g, v, work, x, next) /\ Numbered(t, g, x, next) /\ OneOwner(t, g, x)
      /\ Landing(t, g, v, x)
      BY <1>1, <1>2, <1>3, <1>4 DEF Jumping
<1>8. /\ v \subseteq w /\ next <= top
      /\ Replaces(t, g, v, w, x[h], new, ys, next, top)
      BY <1>2, <1>3, <1>4, <1>5
<1>9. x[h] = work[1]
      BY <1>5
<1>10. /\ ElseLabels(t, g, w, z, y, top) /\ Numbered(t, g, y, top) /\ OneOwner(t, g, y)
       /\ Landing(t, g, w, y)
       BY <1>5, <1>7, <1>8, <1>9, LineKept
<1>11. QED
       BY <1>2, <1>3, <1>4, <1>6, <1>10 DEF Jumping

(* A step that appends nothing brings what it leaves to do.                *)
LEMMA NothingEmitted ==
  ASSUME NEW new, IsSequence(new)
  PROVE  Emits(<<>>) \o new = new
<1>1. PICK e : e = Emits(<<>>)
      OBVIOUS
<1>2. IsSequence(e) /\ Len(e) = 0
      BY <1>1, EmptySequence, EmitsItems
<1>3. e = <<>>
      <2>1. PICK S : e \in Seq(S)
            BY <1>2 DEF IsSequence
      <2>2. QED
            BY <1>2, <2>1
<1>4. <<>> \o new = new
      <2>1. PICK S : new \in Seq(S)
            BY DEF IsSequence
      <2>2. QED
            BY <2>1
<1>5. QED
      BY <1>1, <1>3, <1>4

(* A step that leaves nothing to do brings what it appends.                *)
LEMMA NothingLeft ==
  ASSUME NEW irns, IsSequence(irns)
  PROVE  Emits(irns) \o <<>> = Emits(irns)
<1>1. PICK S : Emits(irns) \in Seq(S)
      BY EmitsItems DEF IsSequence
<1>2. QED
      BY <1>1

(* Silent items after silent ones are all silent.                          *)
LEMMA AllSilent ==
  ASSUME NEW s, IsSequence(s), NEW u, IsSequence(u), NEW v, v = s \o u,
         \A i \in 1..Len(s) : Silent(s[i]), \A i \in 1..Len(u) : Silent(u[i])
  PROVE  \A i \in 1..Len(v) : Silent(v[i])
<1>1. PICK m : m = Len(s)
      OBVIOUS
<1>2. PICK k : k = Len(u)
      OBVIOUS
<1>3. m \in Nat /\ k \in Nat /\ Len(v) = m + k
      BY <1>1, <1>2, Join
<1>4. \A i \in 1..m : v[i] = s[i]
      BY <1>1, <1>2, Join
<1>5. \A i \in 1..k : v[m + i] = u[i]
      BY <1>1, <1>2, Join
<1>6. ASSUME NEW i \in 1..(m + k) PROVE Silent(v[i])
      <2>1. CASE i \in 1..m
            BY <1>1, <1>4, <2>1
      <2>2. CASE \E j \in 1..k : i = m + j
            BY <1>2, <1>5, <2>2
      <2>3. QED
            BY <1>3, <2>1, <2>2, Split
<1>7. QED
      BY <1>3, <1>6

(* A step that says nothing about labels.                                  *)
LEMMA QuietStep ==
  ASSUME WellFormed(tree), JumpInv, todo # <<>>, UNCHANGED <<tree, else_label, labelnum>>,
         \/ visited' = visited
         \/ visited' = visited \cup {Next1.n} /\ Next1.do = "generate",
         Next1.do \notin {"elsejump", "elseend", "truth", "emit"},
         Next1.do \in {"build", "switch"} => ~Conditional(tree, Next1.n) \/ Next1.n \in visited,
         NEW irns, IsSequence(irns), Append_ir_nodes(irns), NEW new, IsSequence(new), Then(new),
         \A i \in 1..Len(irns) : irns[i].opcode \notin Loud,
         \A j \in 1..Len(new) :
            /\ Silent(new[j]) /\ Proper(tree, visited', new[j])
            /\ \/ new[j].do \in {"drop", "emit"}
               \/ /\ Next1.do \notin {"drop", "emit"}
                  /\ \A p : IfElse(tree, p) /\ Prefix(Left(p), Next1.n) => Prefix(Left(p), new[j].n)
  PROVE  Jumping'
<1>1. Inv /\ Jumping /\ Proper(tree, visited, Next1)
      BY NextProper
<1>2. Rewrites(todo, 1, new, todo') /\ todo[1] = Next1
      BY <1>1, LineStep
<1>3. visited \subseteq visited'
      OBVIOUS
<1>4. \A m : Conditional(tree, m) /\ m \in visited' => m \in visited
      BY <1>1 DEF Proper
<1>5. ASSUME NEW m \in DOMAIN else_label
      PROVE  Conditional(tree, m)
      BY <1>1 DEF Jumping, ElseLabels, Conditional
<1>6. \A p : IfElse(tree, p) => Conditional(tree, Left(p)) /\ Conditional(tree, Right(p))
      BY IfAndElse DEF Conditional
<1>7. PICK ys : Brings(irns, new, ys)
      BY DEF Brings
<1>8. \A j \in 1..Len(ys) : Silent(ys[j])
      <2>1. PICK e : e = Emits(irns)
            OBVIOUS
      <2>2. IsSequence(e) /\ Len(e) = Len(irns) /\ \A i \in 1..Len(irns) : e[i] = Emit(irns[i])
            BY <2>1, EmitsItems
      <2>3. ASSUME NEW i \in 1..Len(e) PROVE Silent(e[i])
            <3>1. irns[i].opcode \notin Loud /\ e[i] = Emit(irns[i])
                  BY <2>2
            <3>2. QED
                  BY <3>1 DEF Silent, Emit
      <2>4. ys = e \o new
            BY <1>7, <2>1 DEF Brings
      <2>5. QED
            BY <2>2, <2>3, <2>4, AllSilent
<1>9. \A j \in 1..Len(new) :
         /\ Silent(new[j]) /\ new[j].do \notin {"build", "switch", "elsejump"}
         /\ Calm(tree, new[j])
      BY SilentItem
<1>10. ASSUME NEW j \in 1..Len(new), NEW p, IfElse(tree, p), Inside(Next1, Left(p))
       PROVE  Inside(new[j], Left(p))
       <2>1. new[j] # ElseJump(Left(p))
             BY <1>9 DEF ElseJump
       <2>2. QED
             BY <1>10, <2>1 DEF Inside
<1>11. Courses(tree, visited', DOMAIN else_label, todo')
       <2>1. Courses(tree, visited, DOMAIN else_label, todo)
             BY <1>1 DEF Jumping
       <2>2. Next1.do \in {"build", "switch"} /\ NodeAt(tree, Next1.n).subtype = "IF_STMT"
               => Next1.n \in visited
             BY DEF Conditional
       <2>3. \A p : IfElse(tree, p) =>
               /\ Left(p) \in visited' => Left(p) \in visited
               /\ Right(p) \in visited' => Right(p) \in visited \/ Right(p) \in DOMAIN else_label
             BY <1>4, <1>6
       <2>4. QED
             BY <1>2, <1>3, <1>9, <1>10, <2>1, <2>2, <2>3, CoursesKept
<1>12. AllProper(tree, visited', new)
       BY DEF AllProper
<1>13. /\ \A l : ~Places(else_label, Next1, l)
       /\ \A l : ~Awaits(else_label, visited, Next1, l)
       BY <1>5 DEF Places, Awaits
<1>14. \A j \in 1..Len(ys) : /\ \A l : ~Owns(tree, else_label, ys[j], l) /\ ~Jumps(ys[j], l)
                             /\ Calm(tree, ys[j])
       BY <1>8, SilentItem
<1>15. labelnum' \in Nat /\ labelnum <= labelnum'
       BY <1>1 DEF Jumping
<1>16. \A m \in DOMAIN else_label : m \in visited' => m \in visited
       BY <1>4, <1>5
<1>17. Replaces(tree, else_label, visited, visited', Next1, new, ys, labelnum, labelnum')
       BY <1>13, <1>14, <1>16 DEF Replaces
<1>18. QED
       BY <1>3, <1>7, <1>11, <1>12, <1>15, <1>17, JumpingStep

(* The items that such a step leaves, and the nodes it appends.            *)
Follows(item) ==
  /\ Silent(item) /\ Proper(tree, visited', item)
  /\ \/ item.do \in {"drop", "emit"}
     \/ /\ Next1.do \notin {"drop", "emit"}
        /\ \A p : IfElse(tree, p) /\ Prefix(Left(p), Next1.n) => Prefix(Left(p), item.n)
Quietly(new) == IsSequence(new) /\ \A j \in 1..Len(new) : Follows(new[j])
Soft(irns)   == IsSequence(irns) /\ \A i \in 1..Len(irns) : irns[i].opcode \notin Loud

(* Two quiet pieces of work are quiet one after the other.                 *)
LEMMA QuietJoin ==
  ASSUME NEW s, Quietly(s), NEW u, Quietly(u)
  PROVE  Quietly(s \o u)
<1>1. PICK v : v = s \o u
      OBVIOUS
<1>2. IsSequence(s) /\ IsSequence(u)
      BY DEF Quietly
<1>3. PICK m : m = Len(s)
      OBVIOUS
<1>4. PICK k : k = Len(u)
      OBVIOUS
<1>5. m \in Nat /\ k \in Nat /\ Len(v) = m + k
      BY <1>1, <1>2, <1>3, <1>4, Join
<1>6. IsSequence(v)
      BY <1>1, <1>2, <1>3, <1>4, Join
<1>7. \A i \in 1..m : v[i] = s[i]
      BY <1>1, <1>2, <1>3, <1>4, Join
<1>8. \A i \in 1..k : v[m + i] = u[i]
      BY <1>1, <1>2, <1>3, <1>4, Join
<1>9. ASSUME NEW i \in 1..(m + k) PROVE Follows(v[i])
      <2>1. CASE i \in 1..m
            BY <1>3, <1>7, <2>1 DEF Quietly
      <2>2. CASE \E j \in 1..k : i = m + j
            BY <1>4, <1>8, <2>2 DEF Quietly
      <2>3. QED
            BY <1>5, <2>1, <2>2, Split
<1>10. Quietly(v)
       BY <1>6, <1>5, <1>9 DEF Quietly
<1>11. QED
       BY <1>1, <1>10

(* No work is quiet, and no nodes are soft.                                *)
LEMMA QuietNone == Quietly(<<>>) /\ Soft(<<>>)
<1>1. \A j \in 1..Len(<<>>) : FALSE
      OBVIOUS
<1>2. QED
      BY <1>1, EmptySequence DEF Quietly, Soft

(* One item that follows the item at hand is quiet work.                   *)
LEMMA QuietOne ==
  ASSUME NEW a, Follows(a)
  PROVE  Quietly(<<a>>)
<1>1. IsSequence(<<a>>) /\ \A j \in 1..Len(<<a>>) : <<a>>[j] = a
      BY SequenceOne
<1>2. QED
      BY <1>1 DEF Quietly

(* So are two of them.                                                     *)
LEMMA QuietTwo ==
  ASSUME NEW a, Follows(a), NEW b, Follows(b)
  PROVE  Quietly(<<a, b>>)
BY Pair, QuietOne, QuietJoin

(* So are three of them.                                                   *)
LEMMA QuietThree ==
  ASSUME NEW a, Follows(a), NEW b, Follows(b), NEW c, Follows(c)
  PROVE  Quietly(<<a, b, c>>)
<1>1. <<a, b, c>> = <<a, b>> \o <<c>>
      OBVIOUS
<1>2. QED
      BY <1>1, QuietTwo, QuietOne, QuietJoin

(* So are four of them.                                                    *)
LEMMA QuietFour ==
  ASSUME NEW a, Follows(a), NEW b, Follows(b), NEW c, Follows(c), NEW d, Follows(d)
  PROVE  Quietly(<<a, b, c, d>>)
<1>1. <<a, b, c, d>> = <<a, b, c>> \o <<d>>
      OBVIOUS
<1>2. QED
      BY <1>1, QuietThree, QuietOne, QuietJoin

(* A node with a soft opcode is soft.                                      *)
LEMMA SoftOne ==
  ASSUME NEW n, NEW op, op \notin Loud, NEW a, NEW b, NEW c
  PROVE  Soft(<<IrNode(n, op, a, b, c)>>)
<1>1. PICK irn : irn = IrNode(n, op, a, b, c)
      OBVIOUS
<1>2. irn.opcode \notin Loud
      BY <1>1 DEF IrNode
<1>3. IsSequence(<<irn>>) /\ \A j \in 1..Len(<<irn>>) : <<irn>>[j] = irn
      BY SequenceOne
<1>4. Soft(<<irn>>)
      BY <1>2, <1>3 DEF Soft
<1>5. QED
      BY <1>1, <1>4

(* Two soft nodes are soft.                                                *)
LEMMA SoftTwo ==
  ASSUME NEW s, Soft(<<s>>), NEW u, Soft(<<u>>)
  PROVE  Soft(<<s, u>>)
<1>1. s.opcode \notin Loud /\ u.opcode \notin Loud
      BY SequenceOne DEF Soft
<1>2. PICK S : S = {s, u}
      OBVIOUS
<1>3. /\ <<s, u>> \in Seq(S) /\ Len(<<s, u>>) = 2
      /\ \A j \in 1..2 : <<s, u>>[j] = s \/ <<s, u>>[j] = u
      BY <1>2
<1>4. QED
      BY <1>1, <1>3 DEF Soft, IsSequence

(* Nothing is appended when the list stays.                                *)
LEMMA ListStays ==
  ASSUME IsSequence(irlist), UNCHANGED irlist
  PROVE  Append_ir_nodes(<<>>)
<1>1. PICK S : irlist \in Seq(S)
      BY DEF IsSequence
<1>2. QED
      BY <1>1 DEF Append_ir_nodes

(* A step that appends soft nodes and leaves quiet work keeps the          *)
(* invariant.                                                              *)
LEMMA QuietKeeps ==
  ASSUME WellFormed(tree), JumpInv, Inv', todo # <<>>,
         UNCHANGED <<tree, else_label, labelnum, crashed>>,
         \/ visited' = visited
         \/ visited' = visited \cup {Next1.n} /\ Next1.do = "generate",
         Next1.do \notin {"elsejump", "elseend", "truth", "emit"},
         Next1.do \in {"build", "switch"} => ~Conditional(tree, Next1.n) \/ Next1.n \in visited,
         NEW irns, Soft(irns), Append_ir_nodes(irns), NEW new, Quietly(new), Then(new)
  PROVE  JumpInv'
<1>1. IsSequence(irns) /\ IsSequence(new)
      BY DEF Soft, Quietly
<1>2. \A i \in 1..Len(irns) : irns[i].opcode \notin Loud
      BY DEF Soft
<1>3. \A j \in 1..Len(new) :
         /\ Silent(new[j]) /\ Proper(tree, visited', new[j])
         /\ \/ new[j].do \in {"drop", "emit"}
            \/ /\ Next1.do \notin {"drop", "emit"}
               /\ \A p : IfElse(tree, p) /\ Prefix(Left(p), Next1.n) => Prefix(Left(p), new[j].n)
      BY DEF Quietly, Follows
<1>4. Jumping'
      BY <1>1, <1>2, <1>3, QuietStep
<1>5. ~crashed'
      BY NextProper
<1>6. QED
      BY <1>4, <1>5 DEF JumpInv

-----------------------------------------------------------------------------
(* The actions that say nothing about labels.                              *)

(* The left child of a node that tests it or drops its value, and either   *)
(* child of a node that is no list, is no if or else.                      *)
LEMMA Unconditional ==
  ASSUME WellFormed(tree), NEW n, IsPath(tree, n), ~Missing(tree, n)
  PROVE  /\ IsPath(tree, Left(n)) /\ IsPath(tree, Right(n))
         /\ \/ NodeAt(tree, n).type # "LIST"
            \/ NodeAt(tree, n).subtype \in {"IF_STMT", "WHILE_STMT", "FOR_PARAM", "EXPR_ITEM"}
            => ~Conditional(tree, Left(n))
         /\ NodeAt(tree, n).type # "LIST" => ~Conditional(tree, Right(n))
         /\ \A m : Prefix(m, n) => Prefix(m, Left(n)) /\ Prefix(m, Right(n))
<1>1. /\ IsPath(tree, Left(n)) /\ IsPath(tree, Right(n))
      /\ Parent(Left(n)) = n /\ Parent(Right(n)) = n
      /\ n \in Seq(Steps) /\ Left(n) \in Seq(Steps) /\ Right(n) \in Seq(Steps)
      /\ Prefix(n, Left(n)) /\ Prefix(n, Right(n))
      BY ChildNodes
<1>2. ASSUME NEW m \in {Left(n), Right(n)}, Conditional(tree, m)
      PROVE  /\ NodeAt(tree, n).type = "LIST"
             /\ m = Left(n) =>
                  NodeAt(tree, n).subtype \notin {"IF_STMT", "WHILE_STMT", "FOR_PARAM", "EXPR_ITEM"}
      <2>1. IsPath(tree, m) /\ ~Missing(tree, m) /\ Parent(m) = n
            BY <1>1, <1>2, NotMissing DEF Conditional
      <2>2. FormedAt(tree, m)
            BY <2>1, FormedNode
      <2>3. QED
            BY <1>2, <2>1, <2>2 DEF FormedAt
<1>3. \A m : Prefix(m, n) => Prefix(m, Left(n)) /\ Prefix(m, Right(n))
      BY <1>1, PrefixTransitive
<1>4. QED
      BY <1>1, <1>2, <1>3

(* Items of the node at hand, or of a node below it.                       *)
LEMMA FollowsBelow ==
  ASSUME NEW m, IsPath(tree, m), UNCHANGED tree, Next1.do \notin {"drop", "emit"},
         \A p : IfElse(tree, p) /\ Prefix(Left(p), Next1.n) => Prefix(Left(p), m)
  PROVE  /\ ~Conditional(tree, m) => \A v : Follows(Generate(m, v))
         /\ Follows(Drop)
         /\ ~Missing(tree, m) => /\ Follows(Param(m)) /\ Follows(Return(m)) /\ Follows(Store(m))
                                 /\ \A by : Follows(Increment(m, by))
                                 /\ \A op \in Operators : Follows(Operate(m, Opcode(op)))
                                 /\ NodeAt(tree, m).subtype = "FOR_STMT" => Follows(ForTest(m))
<1>1. /\ Silent(Drop) /\ Silent(Param(m)) /\ Silent(Return(m)) /\ Silent(Store(m))
      /\ Silent(ForTest(m))
      /\ \A v : Silent(Generate(m, v))
      /\ \A by : Silent(Increment(m, by))
      /\ \A op : Silent(Operate(m, op))
      BY DEF Silent, Drop, Param, Return, Store, ForTest, Generate, Increment, Operate
<1>2. Proper(tree, visited', Drop) /\ Drop.do = "drop"
      BY DEF Proper, Drop
<1>3. ASSUME ~Conditional(tree, m), NEW v
      PROVE  Proper(tree, visited', Generate(m, v)) /\ Generate(m, v).n = m
      BY <1>3 DEF Proper, Generate
<1>4. ASSUME ~Missing(tree, m)
      PROVE  /\ Proper(tree, visited', Param(m)) /\ Param(m).n = m
             /\ Proper(tree, visited', Return(m)) /\ Return(m).n = m
             /\ Proper(tree, visited', Store(m)) /\ Store(m).n = m
      BY <1>4 DEF Proper, Param, Return, Store
<1>5. ASSUME ~Missing(tree, m), NEW by
      PROVE  Proper(tree, visited', Increment(m, by)) /\ Increment(m, by).n = m
      BY <1>5 DEF Proper, Increment
<1>6. ASSUME ~Missing(tree, m), NEW op \in Operators
      PROVE  Proper(tree, visited', Operate(m, Opcode(op))) /\ Operate(m, Opcode(op)).n = m
      BY <1>6 DEF Proper, Operate
<1>7. ASSUME ~Missing(tree, m), NodeAt(tree, m).subtype = "FOR_STMT"
      PROVE  Proper(tree, visited', ForTest(m)) /\ ForTest(m).n = m
      BY <1>7 DEF Proper, ForTest
<1>8. Follows(Drop)
      BY <1>1, <1>2 DEF Follows
<1>9. QED
      BY <1>1, <1>3, <1>4, <1>5, <1>6, <1>7, <1>8 DEF Follows

(* The node at hand and its children.                                      *)
LEMMA NextNode ==
  ASSUME WellFormed(tree), JumpInv, todo # <<>>, Next1.do \notin {"drop", "emit"}
  PROVE  /\ IsPath(tree, Next1.n)
         /\ Next1.do \notin {"build", "switch", "generate"} => ~Missing(tree, Next1.n)
         /\ Next1.do = "generate" => ~Conditional(tree, Next1.n)
BY NextProper DEF Proper

(* Building a missing node keeps the invariant.                            *)
LEMMA BuildNullJump ==
  ASSUME WellFormed(tree), JumpInv, Inv', BuildNull
  PROVE  JumpInv'
<1>1. /\ todo # <<>> /\ Next1.do = "build" /\ Then(<<>>) /\ IsNull(Next1.n)
      /\ UNCHANGED <<tree, else_label, labelnum, crashed, visited, irlist>>
      BY DEF BuildNull, Doing, counters
<1>2. ~Conditional(tree, Next1.n)
      BY <1>1 DEF Conditional, IsNull, At, NULL
<1>3. Append_ir_nodes(<<>>)
      BY <1>1, NextProper, ListStays
<1>4. QED
      BY <1>1, <1>2, <1>3, QuietNone, QuietKeeps

(* A node that makes no list of its own keeps the invariant.               *)
LEMMA SwitchOtherJump ==
  ASSUME WellFormed(tree), JumpInv, Inv', SwitchOther
  PROVE  JumpInv'
<1>1. /\ todo # <<>> /\ Next1.do = "switch" /\ Then(<<>>)
      /\ UNCHANGED <<tree, else_label, labelnum, crashed, visited, irlist>>
      BY DEF SwitchOther, Doing, counters
<1>2. Conditional(tree, Next1.n) => Next1.n \in visited
      BY DEF SwitchOther, Conditional, At
<1>3. Append_ir_nodes(<<>>)
      BY <1>1, NextProper, ListStays
<1>4. QED
      BY <1>1, <1>2, <1>3, QuietNone, QuietKeeps

(* Dropping a value, or a node that was visited, keeps the invariant.      *)
LEMMA DoDropJump ==
  ASSUME WellFormed(tree), JumpInv, Inv', DoDrop \/ GenerateVisited
  PROVE  JumpInv'
<1>1. /\ todo # <<>> /\ Next1.do \in {"drop", "generate"} /\ Then(<<>>)
      /\ UNCHANGED <<tree, else_label, labelnum, crashed, visited, irlist>>
      BY DEF DoDrop, GenerateVisited, Doing, counters
<1>2. Append_ir_nodes(<<>>)
      BY <1>1, NextProper, ListStays
<1>3. QED
      BY <1>1, <1>2, QuietNone, QuietKeeps

(* A node is generated.                                                    *)
LEMMA GeneratingNode ==
  ASSUME WellFormed(tree), JumpInv, NEW type, type # "NULL", Generating(type)
  PROVE  /\ todo # <<>> /\ Next1.do = "generate" /\ visited' = visited \cup {Next1.n}
         /\ IsPath(tree, Next1.n) /\ ~Missing(tree, Next1.n) /\ ~Conditional(tree, Next1.n)
         /\ NodeAt(tree, Next1.n).type = type
<1>1. /\ todo # <<>> /\ Next1.do = "generate" /\ visited' = visited \cup {Next1.n}
      /\ NodeAt(tree, Next1.n).type = type
      BY DEF Generating, Doing, At
<1>2. ~Missing(tree, Next1.n)
      BY <1>1, NotMissing
<1>3. QED
      BY <1>1, <1>2, NextNode

(* What is returned is not part of an if that the return is not in.        *)
LEMMA ReturnedPart ==
  ASSUME WellFormed(tree), NEW n, IsPath(tree, n), NodeAt(tree, n).type = "STMT",
         NodeAt(tree, n).string_data = "return"
  PROVE  /\ IsPath(tree, Right(Parent(n))) /\ ~Conditional(tree, Right(Parent(n)))
         /\ \A p : IfElse(tree, p) /\ Prefix(Left(p), n) => Prefix(Left(p), Right(Parent(n)))
<1>1. ~Missing(tree, n) /\ FormedAt(tree, n)
      BY NotMissing, FormedNode
<1>2. NodeAt(tree, Parent(n)).type = "EXPR_STMT"
      BY <1>1 DEF FormedAt
<1>3. IsPath(tree, Parent(n)) /\ ~Missing(tree, Parent(n))
      BY <1>2, Parents, NotMissing
<1>4. /\ IsPath(tree, Right(Parent(n))) /\ ~Conditional(tree, Right(Parent(n)))
      /\ \A m : Prefix(m, Parent(n)) => Prefix(m, Right(Parent(n)))
      BY <1>2, <1>3, Unconditional
<1>5. ~Conditional(tree, n)
      BY <1>1, <1>2 DEF FormedAt
<1>6. ASSUME NEW p, IfElse(tree, p), Prefix(Left(p), n)
      PROVE  Prefix(Left(p), Parent(n))
      <2>1. Left(p) # n
            BY <1>5, <1>6, IfAndElse DEF Conditional
      <2>2. CASE n = <<>> /\ Parent(n) = n
            BY <1>6, <2>2
      <2>3. CASE n = Left(Parent(n)) \/ n = Right(Parent(n))
            <3>1. PICK m : m = Parent(n)
                  OBVIOUS
            <3>2. PICK d \in Steps : n = Append(m, d)
                  BY <2>3, <3>1 DEF Left, Right, Steps
            <3>3. m \in Seq(Steps)
                  BY <1>3, <3>1, ChildNodes
            <3>4. Prefix(Left(p), m) \/ Left(p) = Append(m, d)
                  <4>1. Prefix(Left(p), Append(m, d))
                        BY <1>6, <3>2
                  <4>2. QED
                        BY <3>3, <4>1, ChildPrefix
            <3>5. QED
                  BY <2>1, <3>1, <3>2, <3>4
      <2>4. QED
            BY <2>2, <2>3, Parents
<1>7. QED
      BY <1>4, <1>6

(* A return whose value is to be generated keeps the invariant.            *)
LEMMA GenerateReturnJump ==
  ASSUME WellFormed(tree), JumpInv, Inv', GenerateReturn
  PROVE  JumpInv'
<1>1. PICK n : n = Next1.n
      OBVIOUS
<1>2. /\ Generating("STMT") /\ NodeAt(tree, n).string_data = "return"
      /\ Then(<<Generate(Right(Parent(n)), "L_VALUE"), Return(n), Param(n)>>)
      /\ UNCHANGED <<tree, else_label, labelnum, crashed, irlist>>
      BY <1>1 DEF GenerateReturn, counters, At
<1>3. /\ todo # <<>> /\ Next1.do = "generate" /\ visited' = visited \cup {n}
      /\ IsPath(tree, n) /\ ~Missing(tree, n) /\ NodeAt(tree, n).type = "STMT"
      BY <1>1, <1>2, GeneratingNode
<1>4. PICK r : r = Right(Parent(n))
      OBVIOUS
<1>5. /\ IsPath(tree, r) /\ ~Conditional(tree, r)
      /\ \A p : IfElse(tree, p) /\ Prefix(Left(p), Next1.n) => Prefix(Left(p), r)
      BY <1>1, <1>2, <1>3, <1>4, ReturnedPart
<1>6. Follows(Generate(r, "L_VALUE"))
      BY <1>2, <1>3, <1>5, FollowsBelow
<1>7. Follows(Return(n)) /\ Follows(Param(n))
      BY <1>1, <1>2, <1>3, FollowsBelow
<1>8. Quietly(<<Generate(r, "L_VALUE"), Return(n), Param(n)>>)
      BY <1>6, <1>7, QuietThree
<1>9. Append_ir_nodes(<<>>)
      BY <1>2, <1>3, NextProper, ListStays
<1>10. QED
       BY <1>1, <1>2, <1>3, <1>4, <1>8, <1>9, QuietNone, QuietKeeps

(* The RETURN node keeps the invariant.                                    *)
LEMMA DoReturnJump ==
  ASSUME WellFormed(tree), JumpInv, Inv', DoReturn
  PROVE  JumpInv'
<1>1. /\ todo # <<>> /\ Next1.do = "return" /\ Then(<<>>)
      /\ Append_ir_nodes(ReturnNodes(Next1.n, Top))
      /\ UNCHANGED <<tree, else_label, labelnum, crashed, visited>>
      BY DEF DoReturn, Doing, counters
<1>2. PICK op, jr : /\ op \in {"MOVE", "LIW"}
                    /\ jr = IrNode(Next1.n, "JR", Reg(REGISTERRA), NoOperand, NoOperand)
                    /\ ReturnNodes(Next1.n, Top) \in
                         {<<jr>>, <<IrNode(Next1.n, op, Reg(REGISTERV0), Reg(Top), NoOperand)>> \o <<jr>>}
      BY DEF ReturnNodes
<1>3. PICK mv : mv = IrNode(Next1.n, op, Reg(REGISTERV0), Reg(Top), NoOperand)
      OBVIOUS
<1>4. op \notin Loud /\ "JR" \notin Loud
      BY <1>2 DEF Loud
<1>5. Soft(<<jr>>) /\ Soft(<<mv>>)
      BY <1>2, <1>3, <1>4, SoftOne
<1>6. Soft(<<mv, jr>>) /\ <<mv, jr>> = <<mv>> \o <<jr>>
      BY <1>5, SoftTwo, Pair
<1>7. Soft(ReturnNodes(Next1.n, Top))
      BY <1>2, <1>3, <1>5, <1>6
<1>8. QED
      BY <1>1, <1>7, QuietNone, QuietKeeps

(* A call, or a list, whose parts are to be generated keeps the invariant. *)
LEMMA GenerateCallJump ==
  ASSUME WellFormed(tree), JumpInv, Inv', GenerateCall \/ GenerateList
  PROVE  JumpInv'
<1>1. PICK n : n = Next1.n
      OBVIOUS
<1>2. /\ Generating("LIST") /\ Then(<<Param(n)>>)
      /\ UNCHANGED <<tree, else_label, labelnum, crashed>>
      BY <1>1 DEF GenerateCall, GenerateList, counters
<1>3. /\ todo # <<>> /\ Next1.do = "generate" /\ visited' = visited \cup {n}
      /\ IsPath(tree, n) /\ ~Missing(tree, n)
      BY <1>1, <1>2, GeneratingNode
<1>4. Quietly(<<Param(n)>>)
      BY <1>1, <1>2, <1>3, FollowsBelow, QuietOne
<1>5. CASE GenerateCall
      <2>1. PICK irns : irns = <<IrNode(Left(n), "FUNCTIONCALL", Ptr(At(n).left.string_data),
                                        NoOperand, NoOperand)>>
            OBVIOUS
      <2>2. Soft(irns) /\ Append_ir_nodes(irns)
            BY <1>1, <1>5, <2>1, SoftOne DEF GenerateCall, Loud
      <2>3. QED
            BY <1>1, <1>2, <1>3, <1>4, <2>2, QuietKeeps
<1>6. CASE GenerateList
      <2>1. UNCHANGED irlist
            BY <1>6 DEF GenerateList
      <2>2. Append_ir_nodes(<<>>)
            BY <1>3, <2>1, NextProper, ListStays
      <2>3. QED
            BY <1>1, <1>2, <1>3, <1>4, <2>2, QuietNone, QuietKeeps
<1>7. QED
      BY <1>5, <1>6

(* Loading a number or a variable keeps the invariant.                     *)
LEMMA GenerateNumberJump ==
  ASSUME WellFormed(tree), JumpInv, Inv', GenerateNumber \/ GenerateIdentifier
  PROVE  JumpInv'
<1>1. PICK n : n = Next1.n
      OBVIOUS
<1>2. /\ Generating("NUMBER") \/ Generating("IDENTIFIER")
      /\ Then(<<Param(n)>>) /\ UNCHANGED <<tree, else_label, labelnum, crashed>>
      BY <1>1 DEF GenerateNumber, GenerateIdentifier
<1>3. /\ todo # <<>> /\ Next1.do = "generate" /\ visited' = visited \cup {n}
      /\ IsPath(tree, n) /\ ~Missing(tree, n)
      BY <1>1, <1>2, GeneratingNode
<1>4. Quietly(<<Param(n)>>)
      BY <1>1, <1>2, <1>3, FollowsBelow, QuietOne
<1>5. "LI" \notin Loud /\ "LA" \notin Loud /\ "LIW" \notin Loud
      BY DEF Loud
<1>6. \E irns : Soft(irns) /\ Append_ir_nodes(irns)
      <2>1. CASE GenerateNumber
            <3>1. Append_ir_nodes(<<LoadNode(n, registernum, At(n).const_value)>>)
                  BY <1>1, <2>1 DEF GenerateNumber
            <3>2. Soft(<<LoadNode(n, registernum, At(n).const_value)>>)
                  BY <1>5, SoftOne DEF LoadNode
            <3>3. QED
                  BY <3>1, <3>2
      <2>2. CASE GenerateIdentifier
            <3>1. PICK la : la = IrNode(n, "LA", Reg(registernum), Ptr(At(n).string_data), NoOperand)
                  OBVIOUS
            <3>2. PICK liw : liw = IrNode(n, "LIW", Reg(registernum + 1), Reg(registernum), NoOperand)
                  OBVIOUS
            <3>3. Soft(<<la>>) /\ Soft(<<liw>>)
                  BY <1>5, <3>1, <3>2, SoftOne
            <3>4. Soft(<<la, liw>>)
                  BY <3>3, SoftTwo
            <3>5. Append_ir_nodes(IF Next1.v = "R_VALUE" THEN <<la, liw>> ELSE <<la>>)
                  BY <1>1, <2>2, <3>1, <3>2 DEF GenerateIdentifier
            <3>6. QED
                  BY <3>3, <3>4, <3>5
      <2>3. QED
            BY <2>1, <2>2
<1>7. QED
      BY <1>1, <1>2, <1>3, <1>4, <1>6, QuietKeeps

(* The operands of an operator, and what is done with them.                *)
LEMMA OperatorItems ==
  ASSUME WellFormed(tree), UNCHANGED tree, NEW n, n = Next1.n, Next1.do = "generate",
         IsPath(tree, n), ~Missing(tree, n), NodeAt(tree, n).type # "LIST"
  PROVE  /\ \A v : Follows(Generate(Left(n), v)) /\ Follows(Generate(Right(n), v))
         /\ Follows(Param(n)) /\ Follows(Store(n))
         /\ \A by : Follows(Increment(n, by))
         /\ \A op \in Operators : Follows(Operate(n, Opcode(op)))
<1>1. /\ IsPath(tree, Left(n)) /\ ~Conditional(tree, Left(n))
      /\ \A p : Prefix(Left(p), n) => Prefix(Left(p), Left(n))
      BY Unconditional
<1>2. /\ IsPath(tree, Right(n)) /\ ~Conditional(tree, Right(n))
      /\ \A p : Prefix(Left(p), n) => Prefix(Left(p), Right(n))
      BY Unconditional
<1>3. \A v : Follows(Generate(Left(n), v))
      BY <1>1, FollowsBelow
<1>4. \A v : Follows(Generate(Right(n), v))
      BY <1>2, FollowsBelow
<1>5. /\ Follows(Param(n)) /\ Follows(Store(n))
      /\ \A by : Follows(Increment(n, by))
      /\ \A op \in Operators : Follows(Operate(n, Opcode(op)))
      BY FollowsBelow
<1>6. QED
      BY <1>3, <1>4, <1>5

(* An increment or decrement keeps the invariant.                          *)
LEMMA GenerateUnaryJump ==
  ASSUME WellFormed(tree), JumpInv, Inv', GenerateUnary
  PROVE  JumpInv'
<1>1. PICK n : n = Next1.n
      OBVIOUS
<1>2. PICK by : by = IF At(n).string_data = "++" THEN 1 ELSE -1
      OBVIOUS
<1>3. PICK m : m = IF IsNull(Left(n)) THEN Right(n) ELSE Left(n)
      OBVIOUS
<1>4. /\ Generating("UNARY_OP") /\ Then(<<Generate(m, "R_VALUE"), Increment(n, by), Param(n)>>)
      /\ UNCHANGED <<tree, else_label, labelnum, crashed, irlist>>
      BY <1>1, <1>2, <1>3 DEF GenerateUnary, counters
<1>5. /\ todo # <<>> /\ Next1.do = "generate" /\ visited' = visited \cup {n}
      /\ IsPath(tree, n) /\ ~Missing(tree, n) /\ NodeAt(tree, n).type # "LIST"
      BY <1>1, <1>4, GeneratingNode
<1>6. /\ Follows(Generate(Left(n), "R_VALUE")) /\ Follows(Generate(Right(n), "R_VALUE"))
      /\ Follows(Increment(n, by)) /\ Follows(Param(n))
      BY <1>1, <1>4, <1>5, OperatorItems
<1>7. Follows(Generate(m, "R_VALUE"))
      BY <1>3, <1>6
<1>8. Quietly(<<Generate(m, "R_VALUE"), Increment(n, by), Param(n)>>)
      BY <1>6, <1>7, QuietThree
<1>9. Append_ir_nodes(<<>>)
      BY <1>4, <1>5, NextProper, ListStays
<1>10. QED
       BY <1>1, <1>4, <1>5, <1>8, <1>9, QuietNone, QuietKeeps

(* An assignment or an operator whose operands are to be generated keeps   *)
(* the invariant.                                                          *)
LEMMA GenerateBinaryJump ==
  ASSUME WellFormed(tree), JumpInv, Inv', GenerateAssignment \/ GenerateOperator
  PROVE  JumpInv'
<1>1. PICK n : n = Next1.n
      OBVIOUS
<1>2. /\ Generating("BINARY_OP") /\ UNCHANGED <<tree, else_label, labelnum, crashed, irlist>>
      BY DEF GenerateAssignment, GenerateOperator, counters
<1>3. /\ todo # <<>> /\ Next1.do = "generate" /\ visited' = visited \cup {n}
      /\ IsPath(tree, n) /\ ~Missing(tree, n) /\ NodeAt(tree, n).type # "LIST"
      BY <1>1, <1>2, GeneratingNode
<1>4. /\ \A v : Follows(Generate(Left(n), v)) /\ Follows(Generate(Right(n), v))
      /\ Follows(Param(n)) /\ Follows(Store(n))
      /\ \A op \in Operators : Follows(Operate(n, Opcode(op)))
      BY <1>1, <1>2, <1>3, OperatorItems
<1>5. Append_ir_nodes(<<>>)
      BY <1>2, <1>3, NextProper, ListStays
<1>6. CASE GenerateAssignment
      <2>1. Then(<<Generate(Left(n), "L_VALUE"), Generate(Right(n), "R_VALUE"), Store(n), Param(n)>>)
            BY <1>1, <1>6 DEF GenerateAssignment
      <2>2. Quietly(<<Generate(Left(n), "L_VALUE"), Generate(Right(n), "R_VALUE"),
                      Store(n), Param(n)>>)
            BY <1>4, QuietFour
      <2>3. QED
            BY <1>1, <1>2, <1>3, <1>5, <2>1, <2>2, QuietNone, QuietKeeps
<1>7. CASE GenerateOperator
      <2>1. PICK op \in Operators : op = At(n).string_data
            BY <1>1, <1>7 DEF GenerateOperator
      <2>2. Then(<<Generate(Left(n), "R_VALUE"), Generate(Right(n), "R_VALUE"),
                   Operate(n, Opcode(op)), Param(n)>>)
            BY <1>1, <1>7, <2>1 DEF GenerateOperator
      <2>3. Quietly(<<Generate(Left(n), "R_VALUE"), Generate(Right(n), "R_VALUE"),
                      Operate(n, Opcode(op)), Param(n)>>)
            BY <1>4, QuietFour
      <2>4. QED
            BY <1>1, <1>2, <1>3, <1>5, <2>2, <2>3, QuietNone, QuietKeeps
<1>8. QED
      BY <1>6, <1>7

(* The operators' own nodes.                                               *)
LEMMA OperateJump ==
  ASSUME WellFormed(tree), JumpInv, Inv', DoIncrement \/ DoStore \/ DoOperate \/ DoParam
  PROVE  JumpInv'
<1>1. PICK n : n = Next1.n
      OBVIOUS
<1>2. /\ todo # <<>> /\ Next1.do \in {"increment", "store", "operate", "param"}
      /\ UNCHANGED <<tree, else_label, labelnum, crashed, visited>> /\ Then(<<>>)
      BY DEF DoIncrement, DoStore, DoOperate, DoParam, Doing, counters
<1>3. "ADDI" \notin Loud /\ "SIW" \notin Loud /\ "PARAM" \notin Loud
      BY DEF Loud
<1>4. \E irns : Soft(irns) /\ Append_ir_nodes(irns)
      <2>1. CASE DoIncrement
            <3>1. Append_ir_nodes(<<IrNode(n, "ADDI", Reg(Top), Reg(Top), Imm(Next1.by))>>)
                  BY <1>1, <2>1 DEF DoIncrement
            <3>2. QED
                  BY <1>3, <3>1, SoftOne
      <2>2. CASE DoStore
            <3>1. Append_ir_nodes(<<IrNode(n, "SIW", Reg(Top), Reg(Second), NoOperand)>>)
                  BY <1>1, <2>2 DEF DoStore
            <3>2. QED
                  BY <1>3, <3>1, SoftOne
      <2>3. CASE DoOperate
            <3>1. Append_ir_nodes(<<IrNode(n, Next1.op, Reg(registernum), Reg(Second), Reg(Top))>>)
                  BY <1>1, <2>3 DEF DoOperate
            <3>2. PICK op \in Operators : Next1.op = Opcode(op)
                  BY <1>2, <2>3, NextProper DEF Proper, DoOperate, Doing
            <3>3. Next1.op \notin Loud
                  BY <3>2 DEF Operators, Opcode, Loud
            <3>4. QED
                  BY <3>1, <3>3, SoftOne
      <2>4. CASE DoParam
            <3>1. Append_ir_nodes(IF IsArgument(n)
                                  THEN <<IrNode(n, "PARAM", Reg(registernum - 1), NoOperand, NoOperand)>>
                                  ELSE <<>>)
                  BY <1>1, <2>4 DEF DoParam
            <3>2. Soft(<<IrNode(n, "PARAM", Reg(registernum - 1), NoOperand, NoOperand)>>)
                  BY <1>3, SoftOne
            <3>3. QED
                  BY <3>1, <3>2, QuietNone
      <2>5. QED
            BY <2>1, <2>2, <2>3, <2>4
<1>5. QED
      BY <1>2, <1>4, QuietNone, QuietKeeps

(* A for whose first clause is to be generated keeps the invariant.        *)
LEMMA SwitchForJump ==
  ASSUME WellFormed(tree), JumpInv, Inv', SwitchFor
  PROVE  JumpInv'
<1>1. PICK n : n = Next1.n
      OBVIOUS
<1>2. /\ todo # <<>> /\ Next1.do = "switch" /\ NodeAt(tree, n).subtype = "FOR_STMT"
      /\ Then(OptClause(Left(n)) \o <<ForTest(n)>>)
      /\ UNCHANGED <<tree, else_label, labelnum, crashed, visited, irlist>>
      BY <1>1 DEF SwitchFor, Doing, counters, At
<1>3. IsPath(tree, n) /\ ~Missing(tree, n) /\ ~Conditional(tree, n)
      BY <1>1, <1>2, NextNode, NotMissing DEF Conditional
<1>4. NodeAt(tree, Left(n)).subtype = "FOR_PARAM"
      BY <1>2, <1>3, FormedNode DEF FormedAt
<1>5. /\ IsPath(tree, Left(n)) /\ ~Missing(tree, Left(n))
      /\ \A m : Prefix(m, n) => Prefix(m, Left(n))
      BY <1>3, <1>4, Unconditional, NotMissing
<1>6. /\ IsPath(tree, Left(Left(n))) /\ ~Conditional(tree, Left(Left(n)))
      /\ \A m : Prefix(m, Left(n)) => Prefix(m, Left(Left(n)))
      BY <1>4, <1>5, Unconditional
<1>7. Follows(Generate(Left(Left(n)), "R_VALUE")) /\ Follows(Drop)
      BY <1>1, <1>2, <1>5, <1>6, FollowsBelow
<1>8. Follows(ForTest(n))
      BY <1>1, <1>2, <1>3, FollowsBelow
<1>9. Quietly(OptClause(Left(n)))
      BY <1>7, QuietNone, QuietTwo DEF OptClause, Clause
<1>10. Quietly(OptClause(Left(n)) \o <<ForTest(n)>>)
       BY <1>8, <1>9, QuietOne, QuietJoin
<1>11. Append_ir_nodes(<<>>)
       BY <1>2, NextProper, ListStays
<1>12. QED
       BY <1>1, <1>2, <1>3, <1>10, <1>11, QuietNone, QuietKeeps

-----------------------------------------------------------------------------
(* Items that place the labels of P and jump to those of D.                *)

Part(s, P, D) ==
  /\ IsSequence(s)
  /\ \A i \in 1..Len(s) : /\ \A l : Owns(tree, else_label, s[i], l) => l \in P
                          /\ \A l : Jumps(s[i], l) => l \in D
                          /\ Calm(tree, s[i])
  /\ \A i, j \in 1..Len(s) : \A l :
       Owns(tree, else_label, s[i], l) /\ Owns(tree, else_label, s[j], l) => i = j
  /\ \A l \in P : \E i \in 1..Len(s) : Places(else_label, s[i], l)

(* No items place no labels and jump to none.                              *)
LEMMA PartNone == Part(<<>>, {}, {})
<1>1. \A i \in 1..Len(<<>>) : FALSE
      OBVIOUS
<1>2. QED
      BY <1>1, EmptySequence DEF Part

(* What one item places and jumps to.                                      *)
LEMMA PartOne ==
  ASSUME NEW a, NEW P, NEW D, Calm(tree, a), \A l : Jumps(a, l) => l \in D,
         \A l : Owns(tree, else_label, a, l) => l \in P,
         \A l \in P : Places(else_label, a, l)
  PROVE  Part(<<a>>, P, D)
<1>1. IsSequence(<<a>>) /\ Len(<<a>>) = 1 /\ <<a>>[1] = a
      BY SequenceOne
<1>2. \A i \in 1..Len(<<a>>) : <<a>>[i] = a /\ i = 1
      BY <1>1
<1>3. 1 \in 1..Len(<<a>>)
      BY <1>1
<1>4. QED
      BY <1>1, <1>2, <1>3 DEF Part

(* What two pieces place and jump to, one after the other, when no label   *)
(* is placed by both.                                                      *)
LEMMA PartJoin ==
  ASSUME NEW s, NEW P, NEW D, Part(s, P, D), NEW u, NEW Q, NEW F, Part(u, Q, F), P \cap Q = {}
  PROVE  Part(s \o u, P \cup Q, D \cup F)
<1>1. PICK v : v = s \o u
      OBVIOUS
<1>2. IsSequence(s) /\ IsSequence(u)
      BY DEF Part
<1>3. PICK m : m = Len(s)
      OBVIOUS
<1>4. PICK k : k = Len(u)
      OBVIOUS
<1>5. m \in Nat /\ k \in Nat /\ Len(v) = m + k
      BY <1>1, <1>2, <1>3, <1>4, Join
<1>6. IsSequence(v)
      BY <1>1, <1>2, <1>3, <1>4, Join
<1>7. \A i \in 1..m : v[i] = s[i]
      BY <1>1, <1>2, <1>3, <1>4, Join
<1>8. \A i \in 1..k : v[m + i] = u[i]
      BY <1>1, <1>2, <1>3, <1>4, Join
<1>9. ASSUME NEW c \in 1..(m + k)
      PROVE  \/ c \in 1..m /\ v[c] = s[c]
             \/ \E i \in 1..k : c = m + i /\ v[c] = u[i]
      <2>1. c \in 1..m \/ \E i \in 1..k : c = m + i
            BY <1>5, Split
      <2>2. QED
            BY <1>7, <1>8, <2>1
<1>10. /\ \A i \in 1..m : /\ \A l : Owns(tree, else_label, s[i], l) => l \in P
                          /\ \A l : Jumps(s[i], l) => l \in D
                          /\ Calm(tree, s[i])
       /\ \A i, j \in 1..m : \A l :
            Owns(tree, else_label, s[i], l) /\ Owns(tree, else_label, s[j], l) => i = j
       /\ \A l \in P : \E i \in 1..m : Places(else_label, s[i], l)
       BY <1>3 DEF Part
<1>11. /\ \A i \in 1..k : /\ \A l : Owns(tree, else_label, u[i], l) => l \in Q
                          /\ \A l : Jumps(u[i], l) => l \in F
                          /\ Calm(tree, u[i])
       /\ \A i, j \in 1..k : \A l :
            Owns(tree, else_label, u[i], l) /\ Owns(tree, else_label, u[j], l) => i = j
       /\ \A l \in Q : \E i \in 1..k : Places(else_label, u[i], l)
       BY <1>4 DEF Part
<1>12. ASSUME NEW c \in 1..(m + k)
       PROVE  /\ \A l : Owns(tree, else_label, v[c], l) => l \in P \cup Q
              /\ \A l : Jumps(v[c], l) => l \in D \cup F
              /\ Calm(tree, v[c])
       BY <1>9, <1>10, <1>11
<1>13. ASSUME NEW b \in 1..(m + k), NEW c \in 1..(m + k), NEW l,
              Owns(tree, else_label, v[b], l), Owns(tree, else_label, v[c], l)
       PROVE  b = c
       <2>1. CASE b \in 1..m /\ v[b] = s[b]
             <3>1. l \in P /\ l \notin Q
                   BY <1>10, <1>13, <2>1
             <3>2. c \in 1..m /\ v[c] = s[c]
                   BY <1>9, <1>11, <1>13, <3>1
             <3>3. QED
                   BY <1>10, <1>13, <2>1, <3>2
       <2>2. CASE \E i \in 1..k : b = m + i /\ v[b] = u[i]
             <3>1. PICK i \in 1..k : b = m + i /\ v[b] = u[i]
                   BY <2>2
             <3>2. l \in Q /\ l \notin P
                   BY <1>11, <1>13, <3>1
             <3>3. PICK j \in 1..k : c = m + j /\ v[c] = u[j]
                   BY <1>9, <1>10, <1>13, <3>2
             <3>4. i = j
                   BY <1>11, <1>13, <3>1, <3>3
             <3>5. QED
                   BY <3>1, <3>3, <3>4
       <2>3. QED
             BY <1>9, <2>1, <2>2
<1>14. ASSUME NEW l \in P \cup Q
       PROVE  \E c \in 1..(m + k) : Places(else_label, v[c], l)
       <2>1. CASE l \in P
             <3>1. PICK i \in 1..m : Places(else_label, s[i], l)
                   BY <1>10, <2>1
             <3>2. i \in 1..(m + k) /\ v[i] = s[i]
                   BY <1>5, <1>7
             <3>3. QED
                   BY <3>1, <3>2
       <2>2. CASE l \in Q
             <3>1. PICK i \in 1..k : Places(else_label, u[i], l)
                   BY <1>11, <2>2
             <3>2. m + i \in 1..(m + k) /\ v[m + i] = u[i]
                   BY <1>5, <1>8
             <3>3. QED
                   BY <3>1, <3>2
       <2>3. QED
             BY <2>1, <2>2
<1>15. Part(v, P \cup Q, D \cup F)
       BY <1>5, <1>6, <1>12, <1>13, <1>14 DEF Part
<1>16. QED
       BY <1>1, <1>15

(* Single items.                                                           *)
LEMMA PartSilent ==
  ASSUME NEW a, Silent(a)
  PROVE  Part(<<a>>, {}, {})
BY SilentItem, PartOne

(* A branch jumps to its label.                                            *)
LEMMA PartBranch ==
  ASSUME NEW n, NEW op, NEW l
  PROVE  Part(<<Branch(n, op, l)>>, {}, {l})
<1>1. PICK a : a = Branch(n, op, l)
      OBVIOUS
<1>2. a.do = "branch" /\ a.label = l
      BY <1>1 DEF Branch
<1>3. Calm(tree, a)
      BY <1>2 DEF Calm
<1>4. \A k : Jumps(a, k) => k = l
      BY <1>2 DEF Jumps
<1>5. \A k : ~Owns(tree, else_label, a, k)
      BY <1>2 DEF Owns, Places, Declares, Reaches
<1>6. Part(<<a>>, {}, {l})
      BY <1>3, <1>4, <1>5, PartOne
<1>7. QED
      BY <1>1, <1>6

(* A LABEL node places its label.                                          *)
LEMMA PartLabel ==
  ASSUME NEW n, NEW l
  PROVE  Part(<<Emit(LabelNode(n, l))>>, {l}, {})
<1>1. PICK a : a = Emit(LabelNode(n, l))
      OBVIOUS
<1>2. a.do = "emit" /\ a.irn.opcode = "LABEL" /\ a.irn.operand[1].data = l
      BY <1>1 DEF Emit, LabelNode, IrNode, Lab
<1>3. Calm(tree, a)
      BY <1>2 DEF Calm
<1>4. \A k : ~Jumps(a, k)
      BY <1>2 DEF Jumps, JumpsToIt
<1>5. \A k : Owns(tree, else_label, a, k) => k = l
      BY <1>2 DEF Owns, Places, Declares, Reaches, LabelsIt
<1>6. Places(else_label, a, l)
      BY <1>2 DEF Places, LabelsIt
<1>7. Part(<<a>>, {l}, {})
      BY <1>3, <1>4, <1>5, <1>6, PartOne
<1>8. QED
      BY <1>1, <1>7

(* A J node, or a BGZ node, jumps to its label.                            *)
LEMMA PartJump ==
  ASSUME NEW n, NEW l
  PROVE  /\ Part(<<Emit(JumpNode(n, l))>>, {}, {l})
         /\ \A o : Part(<<Emit(IrNode(n, "BGZ", o, Lab(l), NoOperand))>>, {}, {l})
<1>1. ASSUME NEW a, a.do = "emit", a.irn.opcode \in {"J", "BGZ"}, \A k : JumpsToIt(a.irn, k) => k = l
      PROVE  Part(<<a>>, {}, {l})
      <2>1. Calm(tree, a)
            BY <1>1 DEF Calm
      <2>2. \A k : Jumps(a, k) => k = l
            BY <1>1 DEF Jumps
      <2>3. \A k : ~Owns(tree, else_label, a, k)
            BY <1>1 DEF Owns, Places, Declares, Reaches, LabelsIt
      <2>4. QED
            BY <2>1, <2>2, <2>3, PartOne
<1>2. Part(<<Emit(JumpNode(n, l))>>, {}, {l})
      <2>1. PICK a : a = Emit(JumpNode(n, l))
            OBVIOUS
      <2>2. a.do = "emit" /\ a.irn.opcode = "J" /\ a.irn.operand[1].data = l
            BY <2>1 DEF Emit, JumpNode, IrNode, Lab
      <2>3. \A k : JumpsToIt(a.irn, k) => k = l
            BY <2>2 DEF JumpsToIt
      <2>4. QED
            BY <1>1, <2>1, <2>2, <2>3
<1>3. ASSUME NEW o PROVE Part(<<Emit(IrNode(n, "BGZ", o, Lab(l), NoOperand))>>, {}, {l})
      <2>1. PICK a : a = Emit(IrNode(n, "BGZ", o, Lab(l), NoOperand))
            OBVIOUS
      <2>2. a.do = "emit" /\ a.irn.opcode = "BGZ" /\ a.irn.operand[2].data = l
            BY <2>1 DEF Emit, IrNode, Lab
      <2>3. \A k : JumpsToIt(a.irn, k) => k = l
            BY <2>2 DEF JumpsToIt
      <2>4. QED
            BY <1>1, <2>1, <2>2, <2>3
<1>4. QED
      BY <1>2, <1>3

(* The work that makes a truth value places its three labels.              *)
LEMMA PartTruth ==
  ASSUME NEW n, NEW first, NEW v, NEW second, NEW done
  PROVE  Part(<<Truth(n, first, v, second, done)>>, {first, second, done}, {})
<1>1. PICK a : a = Truth(n, first, v, second, done)
      OBVIOUS
<1>2. a.do = "truth" /\ a.first = first /\ a.second = second /\ a.done = done
      BY <1>1 DEF Truth
<1>3. Calm(tree, a) /\ \A k : ~Jumps(a, k)
      BY <1>2 DEF Calm, Jumps
<1>4. \A k : Owns(tree, else_label, a, k) => k \in {first, second, done}
      BY <1>2 DEF Owns, Places, Declares, Reaches
<1>5. \A k \in {first, second, done} : Places(else_label, a, k)
      BY <1>2 DEF Places
<1>6. Part(<<a>>, {first, second, done}, {})
      BY <1>3, <1>4, <1>5, PartOne
<1>7. QED
      BY <1>1, <1>6

(* What is in a statement declares nothing.                                *)
LEMMA PartBuild ==
  ASSUME WellFormed(tree), NEW n, InStatement(tree, n)
  PROVE  Part(<<Build(n)>>, {}, {})
<1>1. PICK a : a = Build(n)
      OBVIOUS
<1>2. a.do = "build" /\ a.n = n
      BY <1>1 DEF Build
<1>3. Calm(tree, a) /\ \A k : ~Jumps(a, k)
      BY <1>2 DEF Calm, Jumps
<1>4. \A k : ~Owns(tree, else_label, a, k)
      BY <1>2, NothingDeclared DEF Owns, Places
<1>5. Part(<<a>>, {}, {})
      BY <1>3, <1>4, PartOne
<1>6. QED
      BY <1>1, <1>5

(* The jump over an else has no label until it is made.                    *)
LEMMA PartElseJump ==
  ASSUME NEW n
  PROVE  Part(<<ElseJump(n)>>, {}, {})
<1>1. PICK a : a = ElseJump(n)
      OBVIOUS
<1>2. a.do = "elsejump"
      BY <1>1 DEF ElseJump
<1>3. Calm(tree, a) /\ \A k : ~Jumps(a, k)
      BY <1>2 DEF Calm, Jumps
<1>4. \A k : ~Owns(tree, else_label, a, k)
      BY <1>2 DEF Owns, Places, Declares, Reaches
<1>5. Part(<<a>>, {}, {})
      BY <1>3, <1>4, PartOne
<1>6. QED
      BY <1>1, <1>5

(* One node as a list.                                                     *)
LEMMA EmitsOne ==
  ASSUME NEW irn
  PROVE  Emits(<<irn>>) = <<Emit(irn)>> /\ IsSequence(<<irn>>)
<1>1. PICK s : s = <<irn>>
      OBVIOUS
<1>2. IsSequence(s) /\ Len(s) = 1 /\ s[1] = irn
      BY <1>1, SequenceOne
<1>3. PICK a : a = Emits(s)
      OBVIOUS
<1>4. PICK b : b = <<Emit(irn)>>
      OBVIOUS
<1>5. IsSequence(a) /\ Len(a) = 1 /\ a[1] = Emit(irn)
      BY <1>2, <1>3, EmitsItems
<1>6. IsSequence(b) /\ Len(b) = 1 /\ b[1] = Emit(irn)
      BY <1>4, SequenceOne
<1>7. \A i \in 1..1 : a[i] = b[i]
      BY <1>5, <1>6
<1>8. a = b
      BY <1>5, <1>6, <1>7, SameSequence
<1>9. QED
      BY <1>1, <1>2, <1>3, <1>4, <1>8

(* The same with the labels counted together.                              *)
Apart(P, Q)   == \A l \in P : l \notin Q
Both(P, Q, R) == \A l : l \in R <=> l \in P \/ l \in Q

(* PartJoin with the two unions named.                                     *)
LEMMA PartThen ==
  ASSUME NEW s, NEW P, NEW D, Part(s, P, D), NEW u, NEW Q, NEW F, Part(u, Q, F),
         NEW v, v = s \o u, Apart(P, Q), NEW R, Both(P, Q, R), NEW E, Both(D, F, E)
  PROVE  Part(v, R, E)
<1>1. P \cap Q = {} /\ R = P \cup Q /\ E = D \cup F
      BY DEF Apart, Both
<1>2. Part(v, P \cup Q, D \cup F)
      BY <1>1, PartJoin, Zenon
<1>3. QED
      BY <1>1, <1>2, Zenon

(* What is left to do for the node at hand, or for its statement.          *)
Stays(item) ==
  /\ Proper(tree, visited', item)
  /\ \/ item.do \in {"drop", "emit"}
     \/ /\ item.do \notin {"build", "switch", "elsejump"} \/ item = Build(Right(Next1.n))
        /\ \A p : IfElse(tree, p) /\ Prefix(Left(p), Next1.n) => Prefix(Left(p), item.n)
Keeps(new) == IsSequence(new) /\ \A j \in 1..Len(new) : Stays(new[j])

(* Two pieces that stay with the node at hand stay one after the other.    *)
LEMMA KeepsJoin ==
  ASSUME NEW s, Keeps(s), NEW u, Keeps(u)
  PROVE  Keeps(s \o u)
<1>1. PICK v : v = s \o u
      OBVIOUS
<1>2. IsSequence(s) /\ IsSequence(u)
      BY DEF Keeps
<1>3. PICK m : m = Len(s)
      OBVIOUS
<1>4. PICK k : k = Len(u)
      OBVIOUS
<1>5. m \in Nat /\ k \in Nat /\ Len(v) = m + k
      BY <1>1, <1>2, <1>3, <1>4, Join
<1>6. IsSequence(v)
      BY <1>1, <1>2, <1>3, <1>4, Join
<1>7. \A i \in 1..m : v[i] = s[i]
      BY <1>1, <1>2, <1>3, <1>4, Join
<1>8. \A i \in 1..k : v[m + i] = u[i]
      BY <1>1, <1>2, <1>3, <1>4, Join
<1>9. ASSUME NEW i \in 1..(m + k) PROVE Stays(v[i])
      <2>1. CASE i \in 1..m
            BY <1>3, <1>7, <2>1 DEF Keeps
      <2>2. CASE \E j \in 1..k : i = m + j
            BY <1>4, <1>8, <2>2 DEF Keeps
      <2>3. QED
            BY <1>5, <2>1, <2>2, Split
<1>10. Keeps(v)
       BY <1>5, <1>6, <1>9 DEF Keeps
<1>11. QED
       BY <1>1, <1>10

(* No work stays.                                                          *)
LEMMA KeepsNone == Keeps(<<>>)
<1>1. \A j \in 1..Len(<<>>) : FALSE
      OBVIOUS
<1>2. QED
      BY <1>1, EmptySequence DEF Keeps

(* One item that stays is work that stays.                                 *)
LEMMA KeepsOne ==
  ASSUME NEW a, Stays(a)
  PROVE  Keeps(<<a>>)
<1>1. IsSequence(<<a>>) /\ \A j \in 1..Len(<<a>>) : <<a>>[j] = a
      BY SequenceOne
<1>2. QED
      BY <1>1 DEF Keeps

(* Items of the node at hand, or of a node below it.                       *)
LEMMA StaysBelow ==
  ASSUME NEW m, IsPath(tree, m), UNCHANGED tree,
         \A p : IfElse(tree, p) /\ Prefix(Left(p), Next1.n) => Prefix(Left(p), m)
  PROVE  /\ ~Conditional(tree, m) => \A v : Stays(Generate(m, v))
         /\ Stays(Drop)
         /\ \A irn : irn.opcode # "FUNCTIONSTART" => Stays(Emit(irn))
         /\ m = Right(Next1.n) => Stays(Build(m))
         /\ ~Missing(tree, m) =>
              /\ Stays(Param(m))
              /\ \A op \in {"BLEZ", "BGZ"} : \A l : Stays(Branch(m, op, l))
              /\ \A first, v, second, done :
                   first # second /\ first # done /\ second # done =>
                     Stays(Truth(m, first, v, second, done))
<1>1. Proper(tree, visited', Drop) /\ Drop.do = "drop"
      BY DEF Proper, Drop
<1>2. ASSUME NEW irn, irn.opcode # "FUNCTIONSTART"
      PROVE  Proper(tree, visited', Emit(irn)) /\ Emit(irn).do = "emit"
      BY <1>2 DEF Proper, Emit
<1>3. ASSUME ~Conditional(tree, m), NEW v
      PROVE  /\ Proper(tree, visited', Generate(m, v))
             /\ Generate(m, v).n = m /\ Generate(m, v).do = "generate"
      BY <1>3 DEF Proper, Generate
<1>4. Proper(tree, visited', Build(m)) /\ Build(m).n = m
      BY DEF Proper, Build
<1>5. ASSUME ~Missing(tree, m)
      PROVE  Proper(tree, visited', Param(m)) /\ Param(m).n = m /\ Param(m).do = "param"
      BY <1>5 DEF Proper, Param
<1>6. ASSUME ~Missing(tree, m), NEW op \in {"BLEZ", "BGZ"}, NEW l
      PROVE  /\ Proper(tree, visited', Branch(m, op, l))
             /\ Branch(m, op, l).n = m /\ Branch(m, op, l).do = "branch"
      BY <1>6 DEF Proper, Branch
<1>7. ASSUME ~Missing(tree, m), NEW first, NEW v, NEW second, NEW done,
             first # second, first # done, second # done
      PROVE  /\ Proper(tree, visited', Truth(m, first, v, second, done))
             /\ Truth(m, first, v, second, done).n = m
             /\ Truth(m, first, v, second, done).do = "truth"
      BY <1>7 DEF Proper, Truth
<1>8. Stays(Drop) /\ \A irn : irn.opcode # "FUNCTIONSTART" => Stays(Emit(irn))
      BY <1>1, <1>2 DEF Stays
<1>9. ~Conditional(tree, m) => \A v : Stays(Generate(m, v))
      BY <1>3 DEF Stays
<1>10. m = Right(Next1.n) => Stays(Build(m))
       BY <1>4 DEF Stays
<1>11. ~Missing(tree, m) =>
         /\ Stays(Param(m))
         /\ \A op \in {"BLEZ", "BGZ"} : \A l : Stays(Branch(m, op, l))
       BY <1>5, <1>6 DEF Stays
<1>12. ASSUME ~Missing(tree, m), NEW first, NEW v, NEW second, NEW done,
              first # second, first # done, second # done
       PROVE  Stays(Truth(m, first, v, second, done))
       BY <1>7, <1>12 DEF Stays
<1>13. QED
       BY <1>8, <1>9, <1>10, <1>11, <1>12

(* A step that brings new labels and places them, and jumps to them.       *)
LEMMA PartStep ==
  ASSUME WellFormed(tree), JumpInv, Inv', todo # <<>>, UNCHANGED <<tree, else_label, crashed>>,
         visited \subseteq visited', \A m \in DOMAIN else_label : m \in visited' => m \in visited,
         Next1.do \in {"switch", "fortest", "generate"},
         Next1.do = "switch" => NodeAt(tree, Next1.n).subtype # "ELSE_STMT",
         labelnum' \in Nat, labelnum <= labelnum',
         NEW irns, IsSequence(irns), Append_ir_nodes(irns), NEW new, IsSequence(new), Then(new),
         AllProper(tree, visited', new), Courses(tree, visited', DOMAIN else_label, todo'),
         NEW P, NEW D, Part(Emits(irns) \o new, P, D), D \subseteq P, Calm(tree, Next1),
         \A l \in P : l[2] \in Int /\ labelnum <= l[2] /\ l[2] < labelnum'
  PROVE  JumpInv'
<1>1. PICK ys : Brings(irns, new, ys)
      BY DEF Brings
<1>2. Part(ys, P, D)
      BY <1>1 DEF Brings
<1>3. \A l : ~Places(else_label, Next1, l)
      BY DEF Places
<1>4. \A l : ~Awaits(else_label, visited, Next1, l)
      <2>1. \A m \in DOMAIN else_label : NodeAt(tree, m).subtype = "ELSE_STMT"
            BY NextProper DEF Jumping, ElseLabels
      <2>2. QED
            BY <2>1 DEF Awaits
<1>5. Replaces(tree, else_label, visited, visited', Next1, new, ys, labelnum, labelnum')
      BY <1>2, <1>3, <1>4 DEF Replaces, Part
<1>6. Jumping'
      BY <1>1, <1>5, JumpingStep
<1>7. ~crashed'
      BY NextProper
<1>8. QED
      BY <1>6, <1>7 DEF JumpInv

(* The courses, when a step leaves only such items.                        *)
LEMMA CoursesStay ==
  ASSUME WellFormed(tree), JumpInv, todo # <<>>, UNCHANGED <<tree, else_label>>,
         \/ visited' = visited
         \/ visited' = visited \cup {Next1.n} /\ \A p : IfElse(tree, p) => Next1.n \notin {Left(p), Right(p)},
         Next1.do \in {"switch", "fortest", "generate"},
         Next1.do = "switch" => NodeAt(tree, Next1.n).subtype # "IF_STMT",
         ~Missing(tree, Next1.n), ~IfElse(tree, Next1.n), Calm(tree, Next1),
         NEW new, Keeps(new), Then(new), \A j \in 1..Len(new) : Calm(tree, new[j])
  PROVE  /\ AllProper(tree, visited', new)
         /\ Courses(tree, visited', DOMAIN else_label, todo')
<1>1. /\ Jumping /\ Proper(tree, visited, Next1) /\ IsSequence(irlist) /\ IsSequence(todo)
      /\ IsPath(tree, Next1.n)
      BY NextProper DEF Proper
<1>2. Rewrites(todo, 1, new, todo') /\ todo[1] = Next1
      BY <1>1, Heads DEF Then, Next1, Keeps
<1>3. \A j \in 1..Len(new) :
         /\ Proper(tree, visited', new[j])
         /\ new[j].do \in {"build", "switch", "elsejump"} => new[j] = Build(Right(Next1.n))
      BY DEF Keeps, Stays
<1>4. AllProper(tree, visited', new)
      BY <1>3 DEF AllProper
<1>5. ASSUME NEW j \in 1..Len(new), NEW p, IfElse(tree, p), Inside(Next1, Left(p))
      PROVE  Inside(new[j], Left(p))
      <2>1. CASE new[j].do \in {"drop", "emit"}
            BY <2>1 DEF Inside
      <2>2. CASE new[j].do \notin {"drop", "emit"}
            <3>1. Prefix(Left(p), new[j].n)
                  BY <1>5, <2>2 DEF Inside, Keeps, Stays
            <3>2. new[j] # ElseJump(Left(p))
                  BY <1>3 DEF ElseJump, Build
            <3>3. QED
                  BY <3>1, <3>2 DEF Inside
      <2>3. QED
            BY <2>1, <2>2
<1>6. \A p : IfElse(tree, p) =>
        /\ Left(p) \in visited' => Left(p) \in visited
        /\ Right(p) \in visited' => Right(p) \in visited \/ Right(p) \in DOMAIN else_label
      OBVIOUS
<1>7. Courses(tree, visited, DOMAIN else_label, todo)
      BY <1>1 DEF Jumping
<1>8. visited \subseteq visited'
      OBVIOUS
<1>9. Courses(tree, visited', DOMAIN else_label, todo')
      BY <1>1, <1>2, <1>3, <1>5, <1>6, <1>7, <1>8, CoursesKept
<1>10. QED
       BY <1>4, <1>9

-----------------------------------------------------------------------------
(* The actions that bring labels and jumps.                                *)

(* Six items are five and a last one.                                      *)
LEMMA LastOfSix ==
  ASSUME NEW a, NEW b, NEW c, NEW d, NEW e, NEW f
  PROVE  <<a, b, c, d, e, f>> = <<a, b, c, d, e>> \o <<f>>
OBVIOUS

(* Up to six parts, one after the other: s2 is the first two, and so on.   *)
Chain(a, b, c, d, e, f, s2, s3, s4, s5, s6) ==
  /\ s2 = a \o b /\ s3 = s2 \o c /\ s4 = s3 \o d /\ s5 = s4 \o e /\ s6 = s5 \o f

(* Six items are made by joining one after another.                        *)
LEMMA ChainSix ==
  ASSUME NEW a, NEW b, NEW c, NEW d, NEW e, NEW f
  PROVE  \E s2, s3, s4, s5 :
           Chain(<<a>>, <<b>>, <<c>>, <<d>>, <<e>>, <<f>>, s2, s3, s4, s5, <<a, b, c, d, e, f>>)
<1>1. Chain(<<a>>, <<b>>, <<c>>, <<d>>, <<e>>, <<f>>, <<a, b>>, <<a, b, c>>, <<a, b, c, d>>,
            <<a, b, c, d, e>>, <<a, b, c, d, e, f>>)
      <2>1. <<a, b>> = <<a>> \o <<b>>
            BY Pair
      <2>2. <<a, b, c>> = <<a, b>> \o <<c>>
            OBVIOUS
      <2>3. <<a, b, c, d>> = <<a, b, c>> \o <<d>>
            OBVIOUS
      <2>4. <<a, b, c, d, e>> = <<a, b, c, d>> \o <<e>>
            OBVIOUS
      <2>5. <<a, b, c, d, e, f>> = <<a, b, c, d, e>> \o <<f>>
            OBVIOUS
      <2>6. QED
            BY <2>1, <2>2, <2>3, <2>4, <2>5, Zenon DEF Chain
<1>2. QED
      BY <1>1, Zenon

(* A node of a statement.                                                  *)
LEMMA StatementNode ==
  ASSUME WellFormed(tree), NEW n, IsPath(tree, n), ~Missing(tree, n),
         NodeAt(tree, n).subtype \in Statements
  PROVE  InStatement(tree, n) /\ InStatement(tree, Right(n)) /\ InStatement(tree, Left(n))
<1>1. /\ n \in Seq(Steps) /\ Left(n) \in Seq(Steps) /\ Right(n) \in Seq(Steps)
      /\ Prefix(n, Left(n)) /\ Prefix(n, Right(n)) /\ Prefix(n, n)
      BY ChildNodes, PrefixSelf
<1>2. QED
      BY <1>1, StatementBelow

(* New labels.                                                             *)
LEMMA NewLabels ==
  ASSUME labelnum \in Nat, NEW a, NEW b, NEW c
  PROVE  LET x == new_label(a, 0)
             y == new_label(b, 1)
             z == new_label(c, 2)
         IN /\ x # y /\ x # z /\ y # z
            /\ x[2] = labelnum /\ y[2] = labelnum + 1 /\ z[2] = labelnum + 2
<1>1. PICK m \in Nat : m = labelnum
      OBVIOUS
<1>2. <<a, m + 0>>[2] = m /\ <<b, m + 1>>[2] = m + 1 /\ <<c, m + 2>>[2] = m + 2
      OBVIOUS
<1>3. <<a, m + 0>> # <<b, m + 1>> /\ <<a, m + 0>> # <<c, m + 2>> /\ <<b, m + 1>> # <<c, m + 2>>
      BY <1>2
<1>4. QED
      BY <1>1, <1>2, <1>3 DEF new_label

(* The last items of work that stays and is calm stay and are calm.        *)
LEMMA KeepsLast ==
  ASSUME NEW s, IsSequence(s), NEW u, IsSequence(u), NEW v, v = s \o u, Keeps(v),
         NEW P, NEW D, Part(v, P, D)
  PROVE  Keeps(u) /\ \A j \in 1..Len(u) : Calm(tree, u[j])
<1>1. PICK m : m = Len(s)
      OBVIOUS
<1>2. PICK k : k = Len(u)
      OBVIOUS
<1>3. m \in Nat /\ k \in Nat /\ Len(v) = m + k
      BY <1>1, <1>2, Join
<1>4. \A i \in 1..k : v[m + i] = u[i]
      BY <1>1, <1>2, Join
<1>5. \A i \in 1..k : m + i \in 1..(m + k)
      BY <1>3
<1>6. \A i \in 1..k : Stays(u[i]) /\ Calm(tree, u[i])
      BY <1>3, <1>4, <1>5 DEF Keeps, Part
<1>7. QED
      BY <1>2, <1>6 DEF Keeps

(* The labels of P are those that the step at hand numbers.                *)
NumbersAnew(P) == /\ labelnum' \in Nat /\ labelnum <= labelnum'
                  /\ \A l \in P : l[2] \in Int /\ labelnum <= l[2] /\ l[2] < labelnum'

(* The step as a whole.                                                    *)
LEMMA PlanStep ==
  ASSUME WellFormed(tree), JumpInv, Inv', todo # <<>>, UNCHANGED <<tree, else_label, crashed>>,
         \/ visited' = visited
         \/ visited' = visited \cup {Next1.n} /\ ~Conditional(tree, Next1.n),
         Next1.do \in {"switch", "fortest", "generate"}, NEW P,
         Next1.do = "switch" => ~Conditional(tree, Next1.n),
         ~Missing(tree, Next1.n), ~IfElse(tree, Next1.n), Calm(tree, Next1), NumbersAnew(P),
         NEW irns, IsSequence(irns), Append_ir_nodes(irns), NEW new, IsSequence(new), Then(new),
         NEW ys, Brings(irns, new, ys), Part(ys, P, P), Keeps(ys)
  PROVE  JumpInv'
<1>1. Keeps(new) /\ \A j \in 1..Len(new) : Calm(tree, new[j])
      <2>1. PICK e : e = Emits(irns)
            OBVIOUS
      <2>2. IsSequence(e)
            BY <2>1, EmitsItems
      <2>3. ys = e \o new
            BY <2>1 DEF Brings
      <2>4. QED
            BY <2>2, <2>3, KeepsLast
<1>2. /\ \A p : IfElse(tree, p) => Conditional(tree, Left(p)) /\ Conditional(tree, Right(p))
      /\ \A m \in DOMAIN else_label : Conditional(tree, m)
      BY IfAndElse, NextProper DEF Jumping, ElseLabels, Conditional
<1>3. \/ visited' = visited
      \/ visited' = visited \cup {Next1.n} /\ \A p : IfElse(tree, p) => Next1.n \notin {Left(p), Right(p)}
      BY <1>2
<1>4. Next1.do = "switch" => /\ NodeAt(tree, Next1.n).subtype # "IF_STMT"
                             /\ NodeAt(tree, Next1.n).subtype # "ELSE_STMT"
      BY DEF Conditional
<1>5. /\ AllProper(tree, visited', new)
      /\ Courses(tree, visited', DOMAIN else_label, todo')
      BY <1>1, <1>3, <1>4, CoursesStay
<1>6. visited \subseteq visited' /\ \A m \in DOMAIN else_label : m \in visited' => m \in visited
      BY <1>2
<1>7. Part(Emits(irns) \o new, P, P)
      BY DEF Brings
<1>8. /\ labelnum' \in Nat /\ labelnum <= labelnum'
      /\ \A l \in P : l[2] \in Int /\ labelnum <= l[2] /\ l[2] < labelnum'
      BY DEF NumbersAnew
<1>9. QED
      BY <1>4, <1>5, <1>6, <1>7, <1>8, PartStep

(* A logical operator keeps the invariant: its two labels and the end are  *)
(* new, and its branches come before them.                                 *)
LEMMA GenerateLogicalJump ==
  ASSUME WellFormed(tree), JumpInv, Inv', GenerateLogical
  PROVE  JumpInv'
<1>1. PICK n : n = Next1.n
      OBVIOUS
<1>2. PICK isand \in BOOLEAN : isand <=> At(n).string_data = "&&"
      OBVIOUS
<1>3. PICK fail : fail = new_label(IF isand THEN "and_fail" ELSE "or_fail", 0)
      OBVIOUS
<1>4. PICK pass : pass = new_label(IF isand THEN "and_pass" ELSE "or_pass", 1)
      OBVIOUS
<1>5. PICK done : done = new_label(IF isand THEN "and_done" ELSE "or_done", 2)
      OBVIOUS
<1>6. PICK first, v, second, op1, op2 :
        /\ op1 \in {"BLEZ", "BGZ"} /\ op2 \in {"BLEZ", "BGZ"}
        /\ \/ first = fail /\ second = pass /\ isand /\ v = 0 /\ op1 = "BLEZ" /\ op2 = "BGZ"
           \/ first = pass /\ second = fail /\ ~isand /\ v = 1 /\ op1 = "BGZ" /\ op2 = "BLEZ"
      BY <1>2
<1>7. PICK new : new = <<Generate(Left(n), "R_VALUE"), Branch(n, op1, first),
                         Generate(Right(n), "R_VALUE"), Branch(n, op2, second),
                         Truth(n, first, v, second, done), Param(n)>>
      OBVIOUS
<1>8. /\ Generating("BINARY_OP") /\ labelnum' = labelnum + 3
      /\ UNCHANGED <<tree, else_label, irlist, crashed>>
      BY DEF GenerateLogical
<1>9. Then(new)
      <2>1. PICK s : s = <<Generate(Left(n), "R_VALUE"), Branch(n, op1, first),
                           Generate(Right(n), "R_VALUE"), Branch(n, op2, second),
                           Truth(n, first, v, second, done)>>
            OBVIOUS
      <2>2. Then((IF isand
                  THEN <<Generate(Left(n), "R_VALUE"), Branch(n, "BLEZ", fail),
                         Generate(Right(n), "R_VALUE"), Branch(n, "BGZ", pass),
                         Truth(n, fail, 0, pass, done)>>
                  ELSE <<Generate(Left(n), "R_VALUE"), Branch(n, "BGZ", pass),
                         Generate(Right(n), "R_VALUE"), Branch(n, "BLEZ", fail),
                         Truth(n, pass, 1, fail, done)>>) \o <<Param(n)>>)
            BY <1>1, <1>2, <1>3, <1>4, <1>5 DEF GenerateLogical
      <2>3. Then(s \o <<Param(n)>>)
            BY <1>6, <2>1, <2>2
      <2>4. PICK a, b, c, d, e, f :
              /\ a = Generate(Left(n), "R_VALUE") /\ b = Branch(n, op1, first)
              /\ c = Generate(Right(n), "R_VALUE") /\ d = Branch(n, op2, second)
              /\ e = Truth(n, first, v, second, done) /\ f = Param(n)
            OBVIOUS
      <2>5. new = <<a, b, c, d, e, f>> /\ s = <<a, b, c, d, e>>
            BY <1>7, <2>1, <2>4, Zenon
      <2>6. <<a, b, c, d, e, f>> = <<a, b, c, d, e>> \o <<f>>
            BY LastOfSix
      <2>7. new = s \o <<Param(n)>>
            BY <2>4, <2>5, <2>6, Zenon
      <2>8. QED
            BY <2>3, <2>7
<1>10. /\ todo # <<>> /\ Next1.do = "generate" /\ visited' = visited \cup {n}
       /\ IsPath(tree, n) /\ ~Missing(tree, n) /\ ~Conditional(tree, n)
       /\ NodeAt(tree, n).type = "BINARY_OP"
       BY <1>1, <1>8, GeneratingNode
<1>11. /\ first # second /\ first # done /\ second # done
       /\ \A l \in {first, second, done} :
            l[2] \in Int /\ labelnum <= l[2] /\ l[2] < labelnum + 3
       <2>1. labelnum \in Nat
             BY <1>10, NextProper DEF Jumping
       <2>2. /\ fail # pass /\ fail # done /\ pass # done
             /\ fail[2] = labelnum /\ pass[2] = labelnum + 1 /\ done[2] = labelnum + 2
             BY <1>3, <1>4, <1>5, <2>1, NewLabels
       <2>3. \A l \in {fail, pass, done} :
                l[2] \in Int /\ labelnum <= l[2] /\ l[2] < labelnum + 3
             BY <2>1, <2>2
       <2>4. QED
             BY <1>6, <2>2, <2>3
<1>12. PICK a, b, c, d, e, f :
         /\ a = Generate(Left(n), "R_VALUE") /\ b = Branch(n, op1, first)
         /\ c = Generate(Right(n), "R_VALUE") /\ d = Branch(n, op2, second)
         /\ e = Truth(n, first, v, second, done) /\ f = Param(n)
       OBVIOUS
<1>13. PICK P : \A l : l \in P <=> l \in {first, second, done}
       OBVIOUS
<1>14. PICK D : \A l : l \in D <=> l \in {first, second}
       OBVIOUS
<1>15. PICK sa, sb, sc, sd, se, sf :
         /\ sa = <<a>> /\ sb = <<b>> /\ sc = <<c>> /\ sd = <<d>> /\ se = <<e>> /\ sf = <<f>>
       OBVIOUS
<1>16. PICK s2, s3, s4, s5 : Chain(sa, sb, sc, sd, se, sf, s2, s3, s4, s5, new)
       BY <1>7, <1>12, <1>15, ChainSix, Zenon
<1>17. Part(new, P, P)
       <2>1. Silent(a) /\ Silent(c) /\ Silent(f)
             BY <1>12 DEF Silent, Generate, Param
       <2>2. Part(sa, {}, {}) /\ Part(sc, {}, {}) /\ Part(sf, {}, {})
             BY <1>15, <2>1, PartSilent
       <2>3. Part(sb, {}, {first}) /\ Part(sd, {}, {second})
             BY <1>12, <1>15, PartBranch
       <2>4. Part(se, {first, second, done}, {})
             BY <1>12, <1>15, PartTruth
       <2>5. s2 = sa \o sb /\ s3 = s2 \o sc /\ s4 = s3 \o sd /\ s5 = s4 \o se /\ new = s5 \o sf
             BY <1>16 DEF Chain
       <2>6. PICK N, O, Q : N = {} /\ O = {first} /\ Q = {first, second, done}
             OBVIOUS
       <2>7. PICK O2 : O2 = {second}
             OBVIOUS
       <2>8. /\ Apart(N, N) /\ Apart(N, Q) /\ Apart(P, N)
             /\ Both(N, N, N) /\ Both(N, Q, P) /\ Both(P, N, P)
             /\ Both(N, O, O) /\ Both(O, N, O) /\ Both(O, O2, D) /\ Both(D, N, D)
             BY <1>13, <1>14, <2>6, <2>7 DEF Apart, Both
       <2>9. /\ Part(sa, N, N) /\ Part(sb, N, O) /\ Part(sc, N, N) /\ Part(sd, N, O2)
             /\ Part(se, Q, N) /\ Part(sf, N, N)
             BY <2>2, <2>3, <2>4, <2>6, <2>7
       <2>10. Part(s2, N, O)
              BY <2>5, <2>8, <2>9, PartThen
       <2>11. Part(s3, N, O)
              BY <2>5, <2>8, <2>9, <2>10, PartThen
       <2>12. Part(s4, N, D)
              BY <2>5, <2>8, <2>9, <2>11, PartThen
       <2>13. Part(s5, P, D)
              BY <2>5, <2>8, <2>9, <2>12, PartThen
       <2>14. Part(new, P, D)
              BY <2>5, <2>8, <2>9, <2>13, PartThen
       <2>15. QED
              BY <1>13, <1>14, <2>14 DEF Part
<1>18. Keeps(new)
       <2>1. /\ IsPath(tree, Left(n)) /\ ~Conditional(tree, Left(n))
             /\ IsPath(tree, Right(n)) /\ ~Conditional(tree, Right(n))
             /\ \A m : Prefix(m, n) => Prefix(m, Left(n)) /\ Prefix(m, Right(n))
             BY <1>10, Unconditional
       <2>2. Stays(a)
             BY <1>1, <1>8, <1>12, <2>1, StaysBelow
       <2>3. Stays(c)
             BY <1>1, <1>8, <1>12, <2>1, StaysBelow
       <2>4. Stays(b) /\ Stays(d) /\ Stays(f)
             BY <1>1, <1>6, <1>8, <1>10, <1>12, StaysBelow
       <2>5. Stays(e)
             BY <1>1, <1>8, <1>10, <1>11, <1>12, StaysBelow
       <2>6. Keeps(sa) /\ Keeps(sb) /\ Keeps(sc) /\ Keeps(sd) /\ Keeps(se) /\ Keeps(sf)
             BY <1>15, <2>2, <2>3, <2>4, <2>5, KeepsOne
       <2>7. QED
             BY <1>16, <2>6, KeepsJoin DEF Chain
<1>19. IsSequence(new) /\ Calm(tree, Next1)
       BY <1>10, <1>17 DEF Part, Calm
<1>20. ~IfElse(tree, n)
       BY <1>10, IfAndElse
<1>21. Brings(<<>>, new, new) /\ Append_ir_nodes(<<>>) /\ IsSequence(<<>>)
       BY <1>8, <1>10, <1>19, NothingEmitted, NextProper, ListStays, EmptySequence DEF Brings
<1>22. labelnum' \in Nat /\ labelnum <= labelnum'
       BY <1>8, <1>10, NextProper DEF Jumping
<1>23. \A l \in P : l[2] \in Int /\ labelnum <= l[2] /\ l[2] < labelnum'
       BY <1>8, <1>11, <1>13
<1>24. NumbersAnew(P)
       BY <1>22, <1>23 DEF NumbersAnew
<1>25. QED
       BY <1>1, <1>8, <1>9, <1>10, <1>17, <1>18, <1>19, <1>20, <1>21, <1>24, PlanStep

(* A step of a loop appends the label of its test and leaves the test, the *)
(* body, what is done after it, the jump back and the end label: it keeps  *)
(* the invariant.                                                          *)
LEMMA LoopStep ==
  ASSUME WellFormed(tree), JumpInv, Inv', todo # <<>>,
         UNCHANGED <<tree, else_label, crashed, visited>>,
         Next1.do \in {"switch", "fortest"}, NEW n, n = Next1.n, ~Missing(tree, n),
         NodeAt(tree, n).subtype \in {"WHILE_STMT", "FOR_STMT"},
         NEW test, NEW end, test # end, labelnum' = labelnum + 2,
         test[2] = labelnum, end[2] = labelnum + 1, Append_ir_nodes(<<LabelNode(n, test)>>),
         NEW check, Part(check, {}, {end}), Keeps(check), NEW opt, Part(opt, {}, {}), Keeps(opt),
         NEW new, Then(new),
         new = ((check \o <<Build(Right(n))>>) \o opt)
               \o <<Emit(JumpNode(n, test)), Emit(LabelNode(n, end))>>
  PROVE  JumpInv'
<1>1. PICK irn : irn = LabelNode(n, test)
      OBVIOUS
<1>2. PICK a, b, c, d :
        a = Emit(irn) /\ b = Build(Right(n)) /\ c = Emit(JumpNode(n, test)) /\ d = Emit(LabelNode(n, end))
      OBVIOUS
<1>3. PICK sa, sb, sc, sd : sa = <<a>> /\ sb = <<b>> /\ sc = <<c>> /\ sd = <<d>>
      OBVIOUS
<1>4. PICK s1 : s1 = check \o sb
      OBVIOUS
<1>5. PICK s2 : s2 = s1 \o opt
      OBVIOUS
<1>6. PICK s3 : s3 = sc \o sd
      OBVIOUS
<1>7. new = s2 \o s3
      <2>1. s3 = <<c, d>>
            BY <1>3, <1>6, Pair
      <2>2. QED
            BY <1>2, <1>3, <1>4, <1>5, <2>1
<1>8. PICK ys : ys = sa \o new
      OBVIOUS
<1>9. /\ labelnum \in Nat /\ Proper(tree, visited, Next1) /\ IsPath(tree, n)
      BY NextProper DEF Jumping, Proper
<1>10. InStatement(tree, n) /\ InStatement(tree, Right(n))
       <2>1. NodeAt(tree, n).subtype \in Statements
             BY DEF Statements
       <2>2. QED
             BY <1>9, <2>1, StatementNode
<1>11. PICK N, Q, E, B : N = {} /\ Q = {test} /\ E = {end} /\ \A l : l \in B <=> l = test \/ l = end
       <2>1. \E B : \A l : l \in B <=> l = test \/ l = end
             <3>1. \A l : l \in {test, end} <=> l = test \/ l = end
                   OBVIOUS
             <3>2. QED
                   BY <3>1
       <2>2. QED
             BY <2>1
<1>12. Part(ys, B, B)
       <2>1. /\ Part(sa, Q, N) /\ Part(sb, N, N) /\ Part(sc, N, Q) /\ Part(sd, E, N)
             /\ Part(check, N, E) /\ Part(opt, N, N)
             BY <1>1, <1>2, <1>3, <1>10, <1>11, PartLabel, PartBuild, PartJump
       <2>2. /\ Apart(N, N) /\ Apart(N, E) /\ Apart(Q, E)
             /\ Both(N, N, N) /\ Both(E, N, E) /\ Both(N, E, E) /\ Both(Q, N, Q)
             /\ Both(E, Q, B) /\ Both(Q, E, B) /\ Both(N, B, B)
             BY <1>11 DEF Apart, Both
       <2>3. Part(s1, N, E)
             BY <1>4, <2>1, <2>2, PartThen
       <2>4. Part(s2, N, E)
             BY <1>5, <2>1, <2>2, <2>3, PartThen
       <2>5. Part(s3, E, Q)
             BY <1>6, <2>1, <2>2, PartThen
       <2>6. Part(new, E, B)
             BY <1>7, <2>2, <2>4, <2>5, PartThen
       <2>7. QED
             BY <1>8, <2>1, <2>2, <2>6, PartThen
<1>13. Keeps(ys) /\ Keeps(new)
       <2>1. /\ IsPath(tree, Right(n)) /\ \A m : Prefix(m, n) => Prefix(m, Right(n))
             BY <1>9, Unconditional
       <2>2. Stays(b)
             BY <1>2, <2>1, StaysBelow
       <2>3. /\ LabelNode(n, test).opcode = "LABEL" /\ JumpNode(n, test).opcode = "J"
             /\ LabelNode(n, end).opcode = "LABEL"
             BY DEF LabelNode, JumpNode, IrNode
       <2>4. Stays(a) /\ Stays(c) /\ Stays(d)
             BY <1>1, <1>2, <1>9, <2>3, StaysBelow
       <2>5. Keeps(sa) /\ Keeps(sb) /\ Keeps(sc) /\ Keeps(sd)
             BY <1>3, <2>2, <2>4, KeepsOne
       <2>6. Keeps(s1)
             BY <1>4, <2>5, KeepsJoin
       <2>7. Keeps(s2) /\ Keeps(s3)
             BY <1>5, <1>6, <2>5, <2>6, KeepsJoin
       <2>8. Keeps(new)
             BY <1>7, <2>7, KeepsJoin
       <2>9. QED
             BY <1>8, <2>5, <2>8, KeepsJoin
<1>14. IsSequence(new) /\ Calm(tree, Next1)
       BY <1>10, <1>13 DEF Keeps, Calm
<1>15. /\ ~IfElse(tree, Next1.n) /\ ~Conditional(tree, Next1.n) /\ ~Missing(tree, Next1.n)
       /\ visited' = visited /\ UNCHANGED <<tree, else_label, crashed>>
       BY DEF IfElse, Conditional
<1>16. PICK irns : irns = <<irn>>
       OBVIOUS
<1>17. Brings(irns, new, ys) /\ IsSequence(irns) /\ Append_ir_nodes(irns)
       BY <1>1, <1>2, <1>3, <1>8, <1>16, EmitsOne DEF Brings
<1>18. labelnum' \in Nat /\ labelnum <= labelnum'
       BY <1>9
<1>19. \A l \in B : l[2] \in Int /\ labelnum <= l[2] /\ l[2] < labelnum'
       <2>1. \A l \in B : l[2] = labelnum \/ l[2] = labelnum + 1
             BY <1>11
       <2>2. \A k : k = labelnum \/ k = labelnum + 1 => k \in Int /\ labelnum <= k /\ k < labelnum'
             BY <1>9
       <2>3. QED
             BY <2>1, <2>2
<1>20. NumbersAnew(B)
       BY <1>18, <1>19 DEF NumbersAnew
<1>21. QED
       BY <1>12, <1>13, <1>14, <1>15, <1>17, <1>20, PlanStep

(* The work of a while loop in the order that LoopStep has it.             *)
LEMMA FiveItems ==
  ASSUME NEW a, NEW b, NEW c, NEW d, NEW e, NEW s, s = <<a, b>>, NEW u, u = <<a, b, c, d, e>>
  PROVE  u = ((s \o <<c>>) \o <<>>) \o <<d, e>>
<1>1. <<a, b, c>> = <<a, b>> \o <<c>>
      OBVIOUS
<1>2. <<a, b, c>> = <<a, b, c>> \o <<>>
      OBVIOUS
<1>3. <<a, b, c, d, e>> = <<a, b, c>> \o <<d, e>>
      OBVIOUS
<1>4. QED
      BY <1>1, <1>2, <1>3, Zenon

(* A test and the branch to the end.                                       *)
LEMMA TestPart ==
  ASSUME WellFormed(tree), UNCHANGED tree, NEW n, n = Next1.n, IsPath(tree, n), ~Missing(tree, n),
         NEW m, IsPath(tree, m), ~Conditional(tree, m), NEW v, NEW l,
         \A p : IfElse(tree, p) /\ Prefix(Left(p), n) => Prefix(Left(p), m)
  PROVE  /\ Part(<<Generate(m, v), Branch(n, "BLEZ", l)>>, {}, {l})
         /\ Keeps(<<Generate(m, v), Branch(n, "BLEZ", l)>>)
<1>1. PICK a, b : a = Generate(m, v) /\ b = Branch(n, "BLEZ", l)
      OBVIOUS
<1>2. PICK sa, sb, s : sa = <<a>> /\ sb = <<b>> /\ s = <<a, b>>
      OBVIOUS
<1>3. s = sa \o sb
      BY <1>2, Pair
<1>4. Silent(a)
      BY <1>1 DEF Silent, Generate
<1>5. PICK N, E : N = {} /\ E = {l}
      OBVIOUS
<1>6. Part(sa, N, N) /\ Part(sb, N, E)
      BY <1>1, <1>2, <1>4, <1>5, PartSilent, PartBranch
<1>7. Apart(N, N) /\ Both(N, N, N) /\ Both(N, E, E)
      BY <1>5 DEF Apart, Both
<1>8. Part(s, N, E)
      BY <1>3, <1>6, <1>7, PartThen
<1>9. Stays(a)
      BY <1>1, StaysBelow
<1>10. Stays(b)
       BY <1>1, StaysBelow
<1>11. Keeps(s)
       BY <1>2, <1>3, <1>9, <1>10, KeepsOne, KeepsJoin
<1>12. QED
       BY <1>1, <1>2, <1>5, <1>8, <1>11

(* A while keeps the invariant: its two labels are new.                    *)
LEMMA SwitchWhileJump ==
  ASSUME WellFormed(tree), JumpInv, Inv', SwitchWhile
  PROVE  JumpInv'
<1>1. PICK n : n = Next1.n
      OBVIOUS
<1>2. PICK test : test = new_label("while_test", 0)
      OBVIOUS
<1>3. PICK end : end = new_label("while_end", 1)
      OBVIOUS
<1>4. /\ todo # <<>> /\ Next1.do = "switch" /\ NodeAt(tree, n).subtype = "WHILE_STMT"
      /\ labelnum' = labelnum + 2 /\ UNCHANGED <<tree, else_label, crashed, visited>>
      /\ Append_ir_nodes(<<LabelNode(n, test)>>)
      /\ Then(<<Generate(Left(n), "R_VALUE"), Branch(n, "BLEZ", end), Build(Right(n)),
                Emit(JumpNode(n, test)), Emit(LabelNode(n, end))>>)
      BY <1>1, <1>2, <1>3 DEF SwitchWhile, Doing, At
<1>5. test # end /\ test[2] = labelnum /\ end[2] = labelnum + 1
      BY <1>2, <1>3, <1>4, NewLabels, NextProper DEF Jumping
<1>6. IsPath(tree, n) /\ ~Missing(tree, n)
      BY <1>1, <1>4, NextNode, NotMissing
<1>7. PICK m : m = Left(n)
      OBVIOUS
<1>8. /\ IsPath(tree, m) /\ ~Conditional(tree, m)
      /\ \A p : IfElse(tree, p) /\ Prefix(Left(p), n) => Prefix(Left(p), m)
      BY <1>4, <1>6, <1>7, Unconditional
<1>9. PICK check : check = <<Generate(m, "R_VALUE"), Branch(n, "BLEZ", end)>>
      OBVIOUS
<1>10. Part(check, {}, {end}) /\ Keeps(check)
       BY <1>1, <1>4, <1>6, <1>8, <1>9, TestPart
<1>11. PICK new : new = <<Generate(m, "R_VALUE"), Branch(n, "BLEZ", end), Build(Right(n)),
                          Emit(JumpNode(n, test)), Emit(LabelNode(n, end))>>
       OBVIOUS
<1>12. new = ((check \o <<Build(Right(n))>>) \o <<>>)
             \o <<Emit(JumpNode(n, test)), Emit(LabelNode(n, end))>>
       <2>1. PICK a, b, c, d, e :
               /\ a = Generate(m, "R_VALUE") /\ b = Branch(n, "BLEZ", end) /\ c = Build(Right(n))
               /\ d = Emit(JumpNode(n, test)) /\ e = Emit(LabelNode(n, end))
             OBVIOUS
       <2>2. check = <<a, b>> /\ new = <<a, b, c, d, e>>
             BY <1>9, <1>11, <2>1
       <2>3. new = ((check \o <<c>>) \o <<>>) \o <<d, e>>
             BY <2>2, FiveItems
       <2>4. QED
             BY <2>1, <2>3, Zenon
<1>13. Then(new)
       BY <1>4, <1>7, <1>11
<1>14. Part(<<>>, {}, {}) /\ Keeps(<<>>)
       BY PartNone, KeepsNone
<1>15. QED
       BY <1>1, <1>4, <1>5, <1>6, <1>10, <1>12, <1>13, <1>14, LoopStep

(* The clauses of a for.                                                   *)
LEMMA ClauseNodes ==
  ASSUME WellFormed(tree), NEW n, IsPath(tree, n), NodeAt(tree, n).subtype = "FOR_STMT",
         NEW m, m \in {Left(n), Right(Left(n)), Right(Right(Left(n)))}
  PROVE  /\ IsPath(tree, m) /\ ~Missing(tree, m)
         /\ IsPath(tree, Left(m)) /\ ~Conditional(tree, Left(m))
         /\ \A p : IfElse(tree, p) /\ Prefix(Left(p), n) => Prefix(Left(p), Left(m))
<1>1. ~Missing(tree, n) /\ FormedAt(tree, n)
      BY NotMissing, FormedNode
<1>2. PICK a, b, c : a = Left(n) /\ b = Right(a) /\ c = Right(b)
      OBVIOUS
<1>3. \A x \in {a, b, c} : NodeAt(tree, x).subtype = "FOR_PARAM" /\ ~Missing(tree, x)
      BY <1>1, <1>2, NotMissing DEF FormedAt
<1>4. IsPath(tree, a) /\ \A s : Prefix(s, n) => Prefix(s, a)
      BY <1>1, <1>2, Unconditional
<1>5. IsPath(tree, b) /\ \A s : Prefix(s, a) => Prefix(s, b)
      BY <1>2, <1>3, <1>4, Unconditional
<1>6. IsPath(tree, c) /\ \A s : Prefix(s, b) => Prefix(s, c)
      BY <1>2, <1>3, <1>5, Unconditional
<1>7. /\ IsPath(tree, m) /\ ~Missing(tree, m) /\ NodeAt(tree, m).subtype = "FOR_PARAM"
      /\ \A s : Prefix(s, n) => Prefix(s, m)
      BY <1>2, <1>3, <1>4, <1>5, <1>6
<1>8. /\ IsPath(tree, Left(m)) /\ ~Conditional(tree, Left(m))
      /\ \A s : Prefix(s, m) => Prefix(s, Left(m))
      BY <1>7, Unconditional
<1>9. QED
      BY <1>7, <1>8

(* A clause of a for that may be left out has no labels and stays with the *)
(* loop.                                                                   *)
LEMMA ClausePart ==
  ASSUME UNCHANGED tree, NEW n, n = Next1.n, NEW m, IsPath(tree, Left(m)),
         ~Conditional(tree, Left(m)),
         \A p : IfElse(tree, p) /\ Prefix(Left(p), n) => Prefix(Left(p), Left(m))
  PROVE  Part(OptClause(m), {}, {}) /\ Keeps(OptClause(m))
<1>1. PICK a, b : a = Generate(Left(m), "R_VALUE") /\ b = Drop
      OBVIOUS
<1>2. PICK sa, sb, s : sa = <<a>> /\ sb = <<b>> /\ s = <<a, b>>
      OBVIOUS
<1>3. s = sa \o sb
      BY <1>2, Pair
<1>4. Silent(a) /\ Silent(b)
      BY <1>1 DEF Silent, Generate, Drop
<1>5. PICK N : N = {}
      OBVIOUS
<1>6. Part(sa, N, N) /\ Part(sb, N, N) /\ Apart(N, N) /\ Both(N, N, N)
      BY <1>2, <1>4, <1>5, PartSilent DEF Apart, Both
<1>7. Part(s, N, N)
      BY <1>3, <1>6, PartThen
<1>8. Stays(a) /\ Stays(b)
      BY <1>1, StaysBelow
<1>9. Keeps(s)
      BY <1>2, <1>3, <1>8, KeepsOne, KeepsJoin
<1>10. OptClause(m) = <<>> \/ OptClause(m) = s
       BY <1>1, <1>2 DEF OptClause, Clause
<1>11. Part(<<>>, N, N) /\ Keeps(<<>>)
       BY <1>5, PartNone, KeepsNone
<1>12. QED
       BY <1>5, <1>7, <1>9, <1>10, <1>11

(* The test of a for keeps the invariant: its two labels are new.          *)
LEMMA DoForTestJump ==
  ASSUME WellFormed(tree), JumpInv, Inv', DoForTest
  PROVE  JumpInv'
<1>1. PICK n : n = Next1.n
      OBVIOUS
<1>2. PICK test : test = new_label("for_test", 0)
      OBVIOUS
<1>3. PICK end : end = new_label("for_end", 1)
      OBVIOUS
<1>4. PICK x, y : x = Right(Left(n)) /\ y = Right(Right(Left(n)))
      OBVIOUS
<1>5. PICK check : check = IF At(Left(x)).type # "NULL_STMT"
                           THEN <<Generate(Left(x), "R_VALUE"), Branch(n, "BLEZ", end)>>
                           ELSE <<Emit(IrNode(n, "BGZ", Reg(REGISTERZERO), Lab(end), NoOperand))>>
      OBVIOUS
<1>6. PICK opt : opt = OptClause(y)
      OBVIOUS
<1>7. PICK new : new = ((check \o <<Build(Right(n))>>) \o opt)
                       \o <<Emit(JumpNode(n, test)), Emit(LabelNode(n, end))>>
      OBVIOUS
<1>8. /\ todo # <<>> /\ Next1.do = "fortest" /\ labelnum' = labelnum + 2
      /\ UNCHANGED <<tree, else_label, crashed, visited>>
      /\ Append_ir_nodes(<<LabelNode(n, test)>>)
      BY <1>1, <1>2 DEF DoForTest, Doing
<1>9. Then(new)
      BY <1>1, <1>2, <1>3, <1>4, <1>5, <1>6, <1>7 DEF DoForTest
<1>10. test # end /\ test[2] = labelnum /\ end[2] = labelnum + 1
       BY <1>2, <1>3, <1>8, NewLabels, NextProper DEF Jumping
<1>11. /\ IsPath(tree, n) /\ ~Missing(tree, n) /\ NodeAt(tree, n).subtype = "FOR_STMT"
       <2>1. Proper(tree, visited, Next1)
             BY <1>8, NextProper
       <2>2. QED
             BY <1>1, <1>8, <2>1 DEF Proper
<1>12. /\ IsPath(tree, Left(x)) /\ ~Conditional(tree, Left(x))
       /\ \A p : IfElse(tree, p) /\ Prefix(Left(p), n) => Prefix(Left(p), Left(x))
       BY <1>4, <1>11, ClauseNodes
<1>13. /\ IsPath(tree, Left(y)) /\ ~Conditional(tree, Left(y))
       /\ \A p : IfElse(tree, p) /\ Prefix(Left(p), n) => Prefix(Left(p), Left(y))
       BY <1>4, <1>11, ClauseNodes
<1>14. Part(opt, {}, {}) /\ Keeps(opt)
       BY <1>1, <1>6, <1>8, <1>13, ClausePart
<1>15. Part(check, {}, {end}) /\ Keeps(check)
       <2>1. CASE check = <<Generate(Left(x), "R_VALUE"), Branch(n, "BLEZ", end)>>
             <3>1. PICK m : m = Left(x)
                   OBVIOUS
             <3>2. QED
                   BY <1>1, <1>8, <1>11, <1>12, <2>1, <3>1, TestPart
       <2>2. CASE check = <<Emit(IrNode(n, "BGZ", Reg(REGISTERZERO), Lab(end), NoOperand))>>
             <3>1. PICK irn : irn = IrNode(n, "BGZ", Reg(REGISTERZERO), Lab(end), NoOperand)
                   OBVIOUS
             <3>2. irn.opcode = "BGZ"
                   BY <3>1 DEF IrNode
             <3>3. PICK a : a = Emit(irn)
                   OBVIOUS
             <3>4. Stays(a)
                   BY <1>1, <1>8, <1>11, <3>2, <3>3, StaysBelow
             <3>5. check = <<a>> /\ Part(<<a>>, {}, {end})
                   BY <2>2, <3>1, <3>3, PartJump
             <3>6. QED
                   BY <3>4, <3>5, KeepsOne
       <2>3. QED
             BY <1>5, <2>1, <2>2
<1>16. QED
       BY <1>1, <1>7, <1>8, <1>9, <1>10, <1>11, <1>14, <1>15, LoopStep

-----------------------------------------------------------------------------
(* An if.                                                                  *)

(* The items that a step of an if leaves: those of its statement, and the  *)
(* jump over its else.                                                     *)
IfItems(n, new) ==
  /\ IsSequence(new)
  /\ \A j \in 1..Len(new) :
       /\ Calm(tree, new[j])
       /\ \/ Stays(new[j])
          \/ new[j] = ElseJump(n) /\ NodeAt(tree, Parent(n)).subtype = "IF_ELSE_STMT"
  /\ NodeAt(tree, Parent(n)).subtype = "IF_ELSE_STMT" =>
       \E q \in 1..Len(new) : /\ new[q] = ElseJump(n)
                              /\ \A j \in 1..Len(new) : j # q => Stays(new[j])

(* Work that stays with a node starts no child but its right one, and      *)
(* keeps inside what the node is in.                                       *)
LEMMA StaysItem ==
  ASSUME NEW item, Stays(item)
  PROVE  /\ item.do \in {"build", "switch", "elsejump"} => item = Build(Right(Next1.n))
         /\ \A m : item # ElseJump(m) /\ item # Switch(m)
         /\ \A m : item = Build(m) => item = Build(Right(Next1.n)) /\ m = Right(Next1.n)
         /\ \A p : IfElse(tree, p) /\ Prefix(Left(p), Next1.n) => Inside(item, Left(p))
<1>1. item.do \in {"build", "switch", "elsejump"} => item = Build(Right(Next1.n))
      BY DEF Stays
<1>2. \A m : item # ElseJump(m) /\ item # Switch(m)
      BY <1>1 DEF ElseJump, Switch, Build
<1>3. \A m : item = Build(m) => item = Build(Right(Next1.n)) /\ m = Right(Next1.n)
      BY <1>1 DEF Build
<1>4. ASSUME NEW p, IfElse(tree, p), Prefix(Left(p), Next1.n)
      PROVE  Inside(item, Left(p))
      BY <1>2, <1>4 DEF Stays, Inside
<1>5. QED
      BY <1>1, <1>2, <1>3, <1>4

(* The items of an if are proper, and the course of every if stays right.  *)
LEMMA IfCourses ==
  ASSUME WellFormed(tree), JumpInv, todo # <<>>, UNCHANGED <<tree, else_label>>,
         Next1.do = "switch", NEW n, n = Next1.n, NodeAt(tree, n).subtype = "IF_STMT",
         n \notin visited, visited' = visited \cup {n}, NEW new, Then(new), IfItems(n, new)
  PROVE  /\ AllProper(tree, visited', new)
         /\ Courses(tree, visited', DOMAIN else_label, todo')
<1>1. /\ Jumping /\ Next1 = Switch(n) /\ IsSequence(irlist) /\ IsSequence(todo)
      /\ IsPath(tree, n) /\ ~Missing(tree, n)
      BY NextProper, NotMissing DEF Proper
<1>2. IsSequence(new)
      BY DEF IfItems
<1>3. Rewrites(todo, 1, new, todo') /\ todo[1] = Switch(n)
      BY <1>1, <1>2, Heads DEF Then, Next1
<1>4. ~IfElse(tree, n) /\ Parent(Right(n)) = n /\ n \in Seq(Steps)
      BY <1>1, ChildNodes DEF IfElse
<1>5. AllProper(tree, visited', new)
      <2>1. SUFFICES ASSUME NEW j \in 1..Len(new)
                     PROVE  Proper(tree, visited', new[j])
            BY DEF AllProper
      <2>2. CASE Stays(new[j])
            BY <2>2 DEF Stays
      <2>3. CASE new[j] = ElseJump(n) /\ NodeAt(tree, Parent(n)).subtype = "IF_ELSE_STMT"
            <3>1. new[j].do = "elsejump" /\ new[j].n = n
                  BY <2>3 DEF ElseJump
            <3>2. QED
                  BY <1>1, <2>3, <3>1 DEF Proper
      <2>4. QED
            BY <2>2, <2>3 DEF IfItems
<1>6. Courses(tree, visited, DOMAIN else_label, todo)
      BY <1>1 DEF Jumping
<1>7. SUFFICES ASSUME NEW p \in Seq(Steps), IfElse(tree, p)
               PROVE  Course(tree, visited \cup {n}, DOMAIN else_label, todo', Left(p), Right(p))
      BY <1>5 DEF Courses
<1>8. PICK m : m = Left(p)
      OBVIOUS
<1>9. PICK e : e = Right(p)
      OBVIOUS
<1>10. PICK v, d, s, u : v = visited /\ d = DOMAIN else_label /\ s = todo /\ u = todo'
       OBVIOUS
<1>11. Course(tree, v, d, s, m, e) /\ Rewrites(s, 1, new, u) /\ s[1] = Switch(n)
       BY <1>3, <1>6, <1>7, <1>8, <1>9, <1>10 DEF Courses
<1>12. /\ NodeAt(tree, m).subtype = "IF_STMT" /\ NodeAt(tree, e).subtype = "ELSE_STMT"
       /\ Parent(m) = p /\ Parent(e) = p /\ m # e /\ n # e
       /\ NodeAt(tree, p).subtype = "IF_ELSE_STMT" /\ Right(n) # m /\ Right(n) # e
       BY <1>4, <1>7, <1>8, <1>9, IfAndElse
<1>13. ASSUME NEW j \in 1..Len(new)
       PROVE  /\ Calm(tree, new[j])
              /\ new[j] \notin {Build(m), Switch(m), Build(e), Switch(e)}
              /\ Stays(new[j]) => new[j] # ElseJump(m)
              /\ Stays(new[j]) /\ Prefix(m, n) => Inside(new[j], m)
       <2>1. CASE Stays(new[j])
             BY <1>7, <1>8, <1>12, <2>1, StaysItem DEF IfItems
       <2>2. CASE new[j] = ElseJump(n)
             <3>1. \A k : ElseJump(n) # Build(k) /\ ElseJump(n) # Switch(k)
                   BY DEF ElseJump, Build, Switch
             <3>2. ~Stays(new[j])
                   BY <2>2, StaysItem
             <3>3. QED
                   BY <2>2, <3>1, <3>2 DEF IfItems
       <2>3. QED
             BY <2>1, <2>2 DEF IfItems
<1>14. CASE m = n
       <2>1. PICK q \in 1..Len(new) : /\ new[q] = ElseJump(n)
                                      /\ \A j \in 1..Len(new) : j # q => Stays(new[j])
             BY <1>12, <1>14 DEF IfItems
       <2>2. Prefix(n, n)
             BY <1>4, PrefixSelf
       <2>3. \A j \in 1..Len(new) : j < q => j # q
             BY <1>2, EmitsItems
       <2>4. \A j \in 1..Len(new) :
               /\ j # q => new[j] # ElseJump(n)
               /\ j < q => Inside(new[j], n)
               /\ new[j] \notin {Build(n), Switch(n), Build(e), Switch(e)}
               /\ Calm(tree, new[j])
             BY <1>13, <1>14, <2>1, <2>2, <2>3
       <2>5. n \notin v /\ Course(tree, v, d, s, n, e)
             BY <1>10, <1>11, <1>14
       <2>6. Course(tree, v \cup {n}, d, u, n, e)
             BY <1>11, <1>12, <2>1, <2>4, <2>5, CourseIf
       <2>7. QED
             BY <1>8, <1>9, <1>10, <1>14, <2>6
<1>15. CASE m # n
       <2>1. PICK w : w = v \cup {n}
             OBVIOUS
       <2>2. (m \in w <=> m \in v) /\ v \subseteq w /\ (e \in w => e \in v)
             BY <1>12, <1>15, <2>1
       <2>3. s[1] \notin {Build(m), Switch(m), ElseJump(m)}
             BY <1>11, <1>15 DEF Build, Switch, ElseJump
       <2>4. ElseJump(n) # ElseJump(m)
             BY <1>15 DEF ElseJump
       <2>5. Inside(s[1], m) => Prefix(m, n)
             BY <1>11 DEF Inside, Switch
       <2>6. ASSUME Prefix(m, n) PROVE Inside(ElseJump(n), m)
             BY <2>4, <2>6 DEF Inside, ElseJump
       <2>7. \A j \in 1..Len(new) :
               /\ new[j] # ElseJump(m)
               /\ new[j] \in {Build(m), Switch(m)} => s[1] \in {Build(m), Switch(m)}
               /\ new[j] \in {Build(e), Switch(e)} => e \in d \/ e \in w
               /\ Inside(s[1], m) => Inside(new[j], m)
               /\ Calm(tree, s[1]) => Calm(tree, new[j])
             <3>1. SUFFICES ASSUME NEW j \in 1..Len(new)
                            PROVE  /\ new[j] # ElseJump(m)
                                   /\ Prefix(m, n) => Inside(new[j], m)
                   BY <1>13, <2>5
             <3>2. CASE Stays(new[j])
                   BY <1>13, <3>2
             <3>3. CASE new[j] = ElseJump(n)
                   BY <2>4, <2>6, <3>3
             <3>4. QED
                   BY <3>2, <3>3 DEF IfItems
       <2>8. s[1] # ElseJump(m) /\ (e \in d <=> e \in d) /\ (e \in w => e \in v \/ e \in d)
             BY <2>2, <2>3
       <2>9. s[1] \in {Build(m), Switch(m)} /\ m \notin v =>
                \E j \in 1..Len(new) : new[j] \in {Build(m), Switch(m)}
             BY <2>3
       <2>10. Course(tree, w, d, u, m, e)
             BY <1>11, <2>2, <2>7, <2>8, <2>9, CourseKept
       <2>11. QED
             BY <1>8, <1>9, <1>10, <2>1, <2>10
<1>16. QED
       BY <1>14, <1>15

(* Which of five items the fourth is.                                      *)
LEMMA FiveIndices ==
  ASSUME NEW a, NEW b, NEW c, NEW d, NEW e, NEW s, s = <<a, b, c, d, e>>
  PROVE  /\ 5 = Len(s) /\ s[4] = d
         /\ \A j \in 1..Len(s) : j # 4 => s[j] \in {a, b, c, e}
OBVIOUS

(* Which items four items are.                                             *)
LEMMA FourIndices ==
  ASSUME NEW a, NEW b, NEW c, NEW e, NEW s, s = <<a, b, c, e>>
  PROVE  4 = Len(s) /\ \A j \in 1..Len(s) : s[j] \in {a, b, c, e}
OBVIOUS

(* An if keeps the invariant: its label is new, and if it has an else the  *)
(* jump over that is left to do.                                           *)
LEMMA SwitchIfJump ==
  ASSUME WellFormed(tree), JumpInv, Inv', SwitchIf
  PROVE  JumpInv'
<1>1. PICK n : n = Next1.n
      OBVIOUS
<1>2. PICK end : end = new_label("endif", 0)
      OBVIOUS
<1>3. PICK a, b, c, d, e :
        /\ a = Generate(Left(n), "R_VALUE") /\ b = Branch(n, "BLEZ", end) /\ c = Build(Right(n))
        /\ d = ElseJump(n) /\ e = Emit(LabelNode(n, end))
      OBVIOUS
<1>4. PICK withelse \in BOOLEAN : withelse <=> NodeAt(tree, Parent(n)).subtype = "IF_ELSE_STMT"
      OBVIOUS
<1>5. PICK els : els = IF withelse THEN <<d>> ELSE <<>>
      OBVIOUS
<1>6. PICK new : new = (<<a, b, c>> \o els) \o <<e>>
      OBVIOUS
<1>7. /\ todo # <<>> /\ Next1.do = "switch" /\ NodeAt(tree, n).subtype = "IF_STMT"
      /\ n \notin visited /\ visited' = visited \cup {n} /\ labelnum' = labelnum + 1
      /\ UNCHANGED <<tree, else_label, irlist, crashed>>
      BY <1>1 DEF SwitchIf, Doing, At
<1>8. Then(new)
      BY <1>1, <1>2, <1>3, <1>4, <1>5, <1>6 DEF SwitchIf, At
<1>9. /\ labelnum \in Nat /\ IsPath(tree, n) /\ ~Missing(tree, n)
      BY <1>1, <1>7, NextNode, NextProper, NotMissing DEF Jumping
<1>10. PICK test, s3, s4, sd : test = <<a, b>> /\ s3 = <<a, b, c>> /\ s4 = s3 \o els /\ sd = <<d>>
       OBVIOUS
<1>11. PICK sc, se : sc = <<c>> /\ se = <<e>>
       OBVIOUS
<1>12. s3 = test \o sc /\ s4 = s3 \o els /\ new = s4 \o se
       <2>1. <<a, b, c>> = <<a, b>> \o <<c>>
             OBVIOUS
       <2>2. s3 = test \o sc
             BY <1>10, <1>11, <2>1, Zenon
       <2>3. QED
             BY <1>6, <1>10, <1>11, <2>2, Zenon
<1>13. PICK N, E : N = {} /\ E = {end}
       OBVIOUS
<1>14. PICK m : m = Left(n)
       OBVIOUS
<1>15. /\ IsPath(tree, m) /\ ~Conditional(tree, m) /\ IsPath(tree, Right(n))
       /\ \A s : Prefix(s, n) => Prefix(s, m)
       /\ \A s : Prefix(s, n) => Prefix(s, Right(n))
       BY <1>7, <1>9, <1>14, Unconditional
<1>16. Part(test, N, E) /\ Keeps(test)
       <2>1. /\ Part(<<Generate(m, "R_VALUE"), Branch(n, "BLEZ", end)>>, {}, {end})
             /\ Keeps(<<Generate(m, "R_VALUE"), Branch(n, "BLEZ", end)>>)
             BY <1>1, <1>7, <1>9, <1>15, TestPart
       <2>2. test = <<Generate(m, "R_VALUE"), Branch(n, "BLEZ", end)>>
             BY <1>3, <1>10, <1>14
       <2>3. QED
             BY <1>13, <2>1, <2>2
<1>17. InStatement(tree, n) /\ InStatement(tree, Right(n))
       <2>1. NodeAt(tree, n).subtype \in Statements
             BY <1>7 DEF Statements
       <2>2. QED
             BY <1>9, <2>1, StatementNode
<1>18. Part(sc, N, N) /\ Part(se, E, N) /\ Part(sd, N, N)
       BY <1>3, <1>10, <1>11, <1>13, <1>17, PartBuild, PartLabel, PartElseJump
<1>19. Part(els, N, N)
       BY <1>5, <1>10, <1>13, <1>18, PartNone
<1>20. Part(new, E, E)
       <2>1. /\ Apart(N, N) /\ Apart(N, E) /\ Both(N, N, N) /\ Both(E, N, E) /\ Both(N, E, E)
             BY <1>13 DEF Apart, Both
       <2>2. Part(s3, N, E)
             BY <1>12, <1>16, <1>18, <2>1, PartThen
       <2>3. Part(s4, N, E)
             BY <1>12, <1>19, <2>1, <2>2, PartThen
       <2>4. QED
             BY <1>12, <1>18, <2>1, <2>3, PartThen
<1>21. Stays(a) /\ Stays(b) /\ Stays(c) /\ Stays(e)
       <2>1. Stays(a)
             BY <1>1, <1>3, <1>7, <1>14, <1>15, StaysBelow
       <2>2. Stays(b)
             BY <1>1, <1>3, <1>7, <1>9, StaysBelow
       <2>3. Stays(c)
             BY <1>1, <1>3, <1>7, <1>15, StaysBelow
       <2>4. LabelNode(n, end).opcode = "LABEL"
             BY DEF LabelNode, IrNode
       <2>5. Stays(e)
             BY <1>1, <1>3, <1>7, <1>9, <2>4, StaysBelow
       <2>6. QED
             BY <2>1, <2>2, <2>3, <2>5
<1>22. IfItems(n, new)
       <2>1. IsSequence(new) /\ \A j \in 1..Len(new) : Calm(tree, new[j])
             BY <1>20 DEF Part
       <2>2. CASE withelse
             <3>1. new = <<a, b, c, d, e>>
                   <4>1. els = <<d>>
                         BY <1>5, <2>2
                   <4>2. <<a, b, c, d>> = <<a, b, c>> \o <<d>>
                         OBVIOUS
                   <4>3. <<a, b, c, d, e>> = <<a, b, c, d>> \o <<e>>
                         OBVIOUS
                   <4>4. QED
                         BY <1>6, <4>1, <4>2, <4>3, Zenon
             <3>2. /\ 5 = Len(new) /\ new[4] = d
                   /\ \A j \in 1..Len(new) : j # 4 => new[j] \in {a, b, c, e}
                   BY <3>1, FiveIndices
             <3>3. \A j \in 1..Len(new) : j # 4 => Stays(new[j])
                   BY <1>21, <3>2
             <3>4. 4 \in 1..5
                   OBVIOUS
             <3>5. QED
                   BY <1>3, <1>4, <2>1, <2>2, <3>2, <3>3, <3>4 DEF IfItems
       <2>3. CASE ~withelse
             <3>1. new = <<a, b, c, e>>
                   <4>1. els = <<>>
                         BY <1>5, <2>3
                   <4>2. <<a, b, c>> = <<a, b, c>> \o <<>>
                         OBVIOUS
                   <4>3. <<a, b, c, e>> = <<a, b, c>> \o <<e>>
                         OBVIOUS
                   <4>4. QED
                         BY <1>6, <4>1, <4>2, <4>3, Zenon
             <3>2. \A j \in 1..Len(new) : new[j] \in {a, b, c, e}
                   BY <3>1, FourIndices
             <3>3. \A j \in 1..Len(new) : Stays(new[j])
                   BY <1>21, <3>2
             <3>4. QED
                   BY <1>4, <2>1, <2>3, <3>3 DEF IfItems
       <2>4. QED
             BY <2>2, <2>3
<1>23. /\ AllProper(tree, visited', new)
       /\ Courses(tree, visited', DOMAIN else_label, todo')
       BY <1>1, <1>7, <1>8, <1>22, IfCourses
<1>24. IsSequence(new) /\ Calm(tree, Next1)
       BY <1>1, <1>7, <1>17, <1>20 DEF Part, Calm
<1>25. Part(Emits(<<>>) \o new, E, E) /\ Append_ir_nodes(<<>>) /\ IsSequence(<<>>)
       BY <1>7, <1>20, <1>24, NothingEmitted, NextProper, ListStays, EmptySequence
<1>26. visited \subseteq visited' /\ \A k \in DOMAIN else_label : k \in visited' => k \in visited
       <2>1. \A k \in DOMAIN else_label : NodeAt(tree, k).subtype = "ELSE_STMT"
             BY <1>7, NextProper DEF Jumping, ElseLabels
       <2>2. QED
             BY <1>7, <2>1
<1>27. labelnum' \in Nat /\ labelnum <= labelnum'
       BY <1>7, <1>9
<1>28. \A l \in E : l[2] \in Int /\ labelnum <= l[2] /\ l[2] < labelnum'
       <2>1. end[2] = labelnum
             BY <1>2, <1>9, NewLabels
       <2>2. QED
             BY <1>7, <1>9, <1>13, <2>1
<1>29. Next1.do = "switch" => NodeAt(tree, Next1.n).subtype # "ELSE_STMT"
       BY <1>1, <1>7
<1>30. QED
       BY <1>7, <1>8, <1>20, <1>23, <1>24, <1>25, <1>26, <1>27, <1>28, <1>29, PartStep

-----------------------------------------------------------------------------
(* What is done by appending nodes only.                                   *)

(* The nodes irns place the labels of the item and jump where it does.     *)
Performs(item, irns) ==
  /\ IsSequence(irns)
  /\ \A j \in 1..Len(irns) : \A l :
       /\ LabelsIt(irns[j], l) => Owns(tree, else_label, item, l)
       /\ JumpsToIt(irns[j], l) =>
            Jumps(item, l) \/ (Places(else_label, item, l) /\ Calm(tree, item))
  /\ \A i, j \in 1..Len(irns) : \A l : LabelsIt(irns[i], l) /\ LabelsIt(irns[j], l) => i = j
  /\ \A l : Places(else_label, item, l) \/ Awaits(else_label, visited, item, l) =>
       \E j \in 1..Len(irns) : LabelsIt(irns[j], l)
  /\ Calm(tree, item) => \A j \in 1..Len(irns) : irns[j].opcode # "FUNCTIONSTART"

(* A node in the list does to labels what its opcode says.                 *)
LEMMA EmittedItem ==
  ASSUME NEW irn, NEW a, a = Emit(irn)
  PROVE  /\ \A l : Owns(tree, else_label, a, l) <=> LabelsIt(irn, l)
         /\ \A l : Places(else_label, a, l) <=> LabelsIt(irn, l)
         /\ \A l : Jumps(a, l) <=> JumpsToIt(irn, l)
         /\ irn.opcode # "FUNCTIONSTART" => Calm(tree, a)
<1>1. a.do = "emit" /\ a.irn = irn
      BY DEF Emit
<1>2. QED
      BY <1>1 DEF Owns, Places, Declares, Reaches, Jumps, Calm

(* A step that only appends the nodes that the item at hand stands for     *)
(* keeps the invariant.                                                    *)
LEMMA PerformStep ==
  ASSUME WellFormed(tree), JumpInv, todo # <<>>,
         UNCHANGED <<tree, else_label, labelnum, visited, crashed>>, Next1.do # "elsejump",
         Next1.do \in {"build", "switch"} => ~Conditional(tree, Next1.n), Inv',
         NEW irns, Append_ir_nodes(irns), Performs(Next1, irns), Then(<<>>)
  PROVE  JumpInv'
<1>1. PICK new : new = <<>>
      OBVIOUS
<1>2. IsSequence(new) /\ Then(new) /\ \A j \in 1..Len(new) : FALSE
      BY <1>1, EmptySequence
<1>3. /\ Jumping /\ ~crashed /\ IsSequence(irlist) /\ IsSequence(todo) /\ todo[1] = Next1
      /\ labelnum \in Nat
      BY NextProper DEF Jumping
<1>4. Rewrites(todo, 1, new, todo')
      BY <1>2, <1>3, Heads DEF Then
<1>5. AllProper(tree, visited', new)
      BY <1>2 DEF AllProper
<1>6. Courses(tree, visited', DOMAIN else_label, todo')
      <2>1. PICK w : w = visited'
            OBVIOUS
      <2>2. w = visited /\ visited \subseteq w
            BY <2>1
      <2>3. Courses(tree, visited, DOMAIN else_label, todo)
            BY <1>3 DEF Jumping
      <2>4. PICK x : x = <<>>
            OBVIOUS
      <2>5. \A p : IfElse(tree, p) =>
              /\ Left(p) \in w => Left(p) \in visited
              /\ Right(p) \in w => Right(p) \in visited \/ Right(p) \in DOMAIN else_label
            BY <2>2
      <2>6. ~(todo[1].do \in {"build", "switch"} /\ NodeAt(tree, todo[1].n).subtype = "IF_STMT")
            BY <1>3 DEF Conditional
      <2>7. todo[1].do # "elsejump"
            BY <1>3
      <2>8. Courses(tree, w, DOMAIN else_label, todo')
            BY <1>2, <1>4, <2>2, <2>3, <2>5, <2>6, <2>7, CoursesKept
      <2>9. QED
            BY <2>1, <2>8
<1>7. PICK ys : ys = Emits(irns)
      OBVIOUS
<1>8. /\ IsSequence(irns) /\ Len(ys) = Len(irns)
      /\ \A i \in 1..Len(irns) : ys[i] = Emit(irns[i])
      BY <1>7, EmitsItems DEF Performs
<1>9. Brings(irns, new, ys)
      BY <1>1, <1>7, <1>8, NothingLeft DEF Brings
<1>10. ASSUME NEW j \in 1..Len(ys)
       PROVE  /\ j \in 1..Len(irns)
              /\ \A l : Owns(tree, else_label, ys[j], l) <=> LabelsIt(irns[j], l)
              /\ \A l : Places(else_label, ys[j], l) <=> LabelsIt(irns[j], l)
              /\ \A l : Jumps(ys[j], l) <=> JumpsToIt(irns[j], l)
              /\ irns[j].opcode # "FUNCTIONSTART" => Calm(tree, ys[j])
       <2>1. j \in 1..Len(irns) /\ ys[j] = Emit(irns[j])
             BY <1>8
       <2>2. QED
             BY <2>1, EmittedItem
<1>11. \A l : Places(else_label, Next1, l) \/ Awaits(else_label, visited, Next1, l) =>
         \E j \in 1..Len(ys) : Places(else_label, ys[j], l)
       BY <1>8, <1>10 DEF Performs
<1>12. Replaces(tree, else_label, visited, visited', Next1, new, ys, labelnum, labelnum')
       <2>1. \A j \in 1..Len(ys) : \A l : Owns(tree, else_label, ys[j], l) =>
               Owns(tree, else_label, Next1, l)
             BY <1>10 DEF Performs
       <2>2. \A i, j \in 1..Len(ys) : \A l :
               Owns(tree, else_label, ys[i], l) /\ Owns(tree, else_label, ys[j], l) => i = j
             BY <1>10 DEF Performs
       <2>3. \A j \in 1..Len(ys) : \A l : Jumps(ys[j], l) =>
               \/ Jumps(Next1, l)
               \/ /\ Places(else_label, Next1, l) /\ Calm(tree, Next1)
                  /\ \E i \in 1..Len(ys) : Places(else_label, ys[i], l)
             BY <1>10, <1>11 DEF Performs
       <2>4. Calm(tree, Next1) => \A j \in 1..Len(ys) : Calm(tree, ys[j])
             BY <1>10 DEF Performs
       <2>5. QED
             BY <1>2, <1>11, <2>1, <2>2, <2>3, <2>4 DEF Replaces
<1>13. visited \subseteq visited' /\ labelnum' \in Nat /\ labelnum <= labelnum' /\ IsSequence(irns)
       BY <1>3, <1>8
<1>14. Jumping'
       BY <1>2, <1>5, <1>6, <1>9, <1>12, <1>13, JumpingStep
<1>15. QED
       BY <1>3, <1>14 DEF JumpInv

(* A single node.                                                          *)
LEMMA PerformOne ==
  ASSUME NEW item, NEW irn,
         \A l : LabelsIt(irn, l) => Owns(tree, else_label, item, l),
         \A l : JumpsToIt(irn, l) => Jumps(item, l),
         \A l : Places(else_label, item, l) \/ Awaits(else_label, visited, item, l) =>
            LabelsIt(irn, l),
         Calm(tree, item) => irn.opcode # "FUNCTIONSTART"
  PROVE  Performs(item, <<irn>>)
<1>1. IsSequence(<<irn>>) /\ Len(<<irn>>) = 1 /\ <<irn>>[1] = irn
      BY SequenceOne
<1>2. \A i \in 1..Len(<<irn>>) : <<irn>>[i] = irn /\ i = 1
      BY <1>1
<1>3. 1 \in 1..Len(<<irn>>)
      BY <1>1
<1>4. QED
      BY <1>1, <1>2, <1>3 DEF Performs

(* Appending a node that was left to do keeps the invariant.               *)
LEMMA DoEmitJump ==
  ASSUME WellFormed(tree), JumpInv, Inv', DoEmit
  PROVE  JumpInv'
<1>1. /\ todo # <<>> /\ Next1.do = "emit" /\ Append_ir_nodes(<<Next1.irn>>) /\ Then(<<>>)
      /\ UNCHANGED <<tree, else_label, labelnum, visited, crashed>>
      BY DEF DoEmit, Doing, counters
<1>2. Performs(Next1, <<Next1.irn>>)
      <2>1. PICK irn : irn = Next1.irn
            OBVIOUS
      <2>2. /\ \A l : LabelsIt(irn, l) => Owns(tree, else_label, Next1, l)
            /\ \A l : JumpsToIt(irn, l) => Jumps(Next1, l)
            /\ \A l : Places(else_label, Next1, l) \/ Awaits(else_label, visited, Next1, l) =>
                 LabelsIt(irn, l)
            /\ Calm(tree, Next1) => irn.opcode # "FUNCTIONSTART"
            BY <1>1, <2>1 DEF Owns, Places, Awaits, Jumps, Calm
      <2>3. QED
            BY <2>1, <2>2, PerformOne
<1>3. QED
      BY <1>1, <1>2, PerformStep

(* Appending a branch that was left to do keeps the invariant.             *)
LEMMA DoBranchJump ==
  ASSUME WellFormed(tree), JumpInv, Inv', DoBranch
  PROVE  JumpInv'
<1>1. PICK irn : irn = IrNode(Next1.n, Next1.op, Reg(Top), Lab(Next1.label), NoOperand)
      OBVIOUS
<1>2. /\ todo # <<>> /\ Next1.do = "branch" /\ Append_ir_nodes(<<irn>>) /\ Then(<<>>)
      /\ UNCHANGED <<tree, else_label, labelnum, visited, crashed>>
      BY <1>1 DEF DoBranch, Doing, counters
<1>3. Next1.op \in {"BLEZ", "BGZ"}
      BY <1>2, NextProper DEF Proper
<1>4. irn.opcode \in {"BLEZ", "BGZ"} /\ irn.operand[2].data = Next1.label
      BY <1>1, <1>3 DEF IrNode, Lab
<1>5. /\ \A l : ~LabelsIt(irn, l) /\ (JumpsToIt(irn, l) => Jumps(Next1, l))
      /\ \A l : ~Places(else_label, Next1, l) /\ ~Awaits(else_label, visited, Next1, l)
      BY <1>2, <1>4 DEF LabelsIt, JumpsToIt, Places, Awaits, Jumps
<1>6. Performs(Next1, <<irn>>)
      BY <1>4, <1>5, PerformOne
<1>7. QED
      BY <1>2, <1>6, PerformStep

(* An else that is at its end has its label.                               *)
LEMMA DoElseEndJump ==
  ASSUME WellFormed(tree), JumpInv, Inv', DoElseEnd
  PROVE  JumpInv'
<1>1. PICK n, irn : n = Next1.n /\ irn = LabelNode(Next1.n, else_label[Next1.n])
      OBVIOUS
<1>2. /\ todo # <<>> /\ Next1.do = "elseend" /\ Append_ir_nodes(<<irn>>) /\ Then(<<>>)
      /\ UNCHANGED <<tree, else_label, labelnum, visited, crashed>>
      BY <1>1 DEF DoElseEnd, Doing, counters
<1>3. n \in visited /\ NodeAt(tree, n).subtype = "ELSE_STMT" /\ IsPath(tree, n)
      BY <1>1, <1>2, NextProper DEF Proper
<1>4. n \in DOMAIN else_label
      <2>1. PICK p : p = Parent(n)
            OBVIOUS
      <2>2. IfElse(tree, p) /\ n = Right(p) /\ p \in Seq(Steps)
            BY <1>3, <2>1, ElseOfIf, IfAndElse
      <2>3. Course(tree, visited, DOMAIN else_label, todo, Left(p), n)
            BY <1>2, <2>2, NextProper DEF Jumping, Courses
      <2>4. QED
            BY <1>3, <2>3 DEF Course
<1>5. irn.opcode = "LABEL" /\ irn.operand[1].data = else_label[n]
      BY <1>1 DEF LabelNode, IrNode, Lab
<1>6. /\ \A l : LabelsIt(irn, l) <=> Places(else_label, Next1, l)
      /\ \A l : ~JumpsToIt(irn, l) /\ ~Awaits(else_label, visited, Next1, l)
      BY <1>1, <1>2, <1>4, <1>5 DEF LabelsIt, JumpsToIt, Places, Awaits
<1>7. Performs(Next1, <<irn>>)
      BY <1>5, <1>6, PerformOne DEF Owns
<1>8. QED
      BY <1>2, <1>7, PerformStep

(* Which items six items are.                                              *)
LEMMA SixIndices ==
  ASSUME NEW a, NEW b, NEW c, NEW d, NEW e, NEW f, NEW s, s = <<a, b, c, d, e, f>>
  PROVE  /\ 6 = Len(s) /\ s[1] = a /\ s[2] = b /\ s[3] = c /\ s[4] = d /\ s[5] = e /\ s[6] = f
         /\ IsSequence(s)
<1>1. PICK S : S = {a, b, c, d, e, f}
      OBVIOUS
<1>2. s \in Seq(S)
      BY <1>1
<1>3. QED
      BY <1>2 DEF IsSequence

(* Making a truth value keeps the invariant: its labels are those that it  *)
(* was to place.                                                           *)
LEMMA DoTruthJump ==
  ASSUME WellFormed(tree), JumpInv, Inv', DoTruth
  PROVE  JumpInv'
<1>1. PICK t : t = Next1
      OBVIOUS
<1>2. PICK a, b, c, d, e, f :
        /\ a = LabelNode(t.n, t.first) /\ b = LoadNode(t.n, registernum, t.v)
        /\ c = JumpNode(t.n, t.done) /\ d = LabelNode(t.n, t.second)
        /\ e = LoadNode(t.n, registernum, 1 - t.v) /\ f = LabelNode(t.n, t.done)
      OBVIOUS
<1>3. PICK irns : irns = <<a, b, c, d, e, f>>
      OBVIOUS
<1>4. /\ todo # <<>> /\ t.do = "truth" /\ Append_ir_nodes(irns) /\ Then(<<>>)
      /\ UNCHANGED <<tree, else_label, labelnum, visited, crashed>>
      BY <1>1, <1>2, <1>3 DEF DoTruth, Doing, counters
<1>5. t.first # t.second /\ t.first # t.done /\ t.second # t.done
      BY <1>1, <1>4, NextProper DEF Proper
<1>6. /\ a.opcode = "LABEL" /\ a.operand[1].data = t.first
      /\ d.opcode = "LABEL" /\ d.operand[1].data = t.second
      /\ f.opcode = "LABEL" /\ f.operand[1].data = t.done
      /\ b.opcode = "LI" /\ e.opcode = "LI"
      /\ c.opcode = "J" /\ c.operand[1].data = t.done
      BY <1>2 DEF LabelNode, LoadNode, JumpNode, IrNode, Lab
<1>7. /\ 6 = Len(irns) /\ irns[1] = a /\ irns[2] = b /\ irns[3] = c /\ irns[4] = d /\ irns[5] = e
      /\ irns[6] = f /\ IsSequence(irns)
      BY <1>3, SixIndices
<1>8. \A l : /\ LabelsIt(a, l) <=> l = t.first
             /\ LabelsIt(d, l) <=> l = t.second
             /\ LabelsIt(f, l) <=> l = t.done
             /\ ~LabelsIt(b, l) /\ ~LabelsIt(c, l) /\ ~LabelsIt(e, l)
             /\ JumpsToIt(c, l) <=> l = t.done
             /\ ~JumpsToIt(a, l) /\ ~JumpsToIt(b, l) /\ ~JumpsToIt(d, l) /\ ~JumpsToIt(e, l)
             /\ ~JumpsToIt(f, l)
      BY <1>6 DEF LabelsIt, JumpsToIt
<1>9. /\ Calm(tree, t)
      /\ \A l : /\ Places(else_label, t, l) <=> l \in {t.first, t.second, t.done}
                /\ ~Awaits(else_label, visited, t, l)
      BY <1>4 DEF Calm, Places, Awaits
<1>10. ASSUME NEW j \in 1..6
       PROVE  \/ j = 1 /\ irns[j] = a
              \/ j = 2 /\ irns[j] = b
              \/ j = 3 /\ irns[j] = c
              \/ j = 4 /\ irns[j] = d
              \/ j = 5 /\ irns[j] = e
              \/ j = 6 /\ irns[j] = f
       BY <1>7
<1>11. \A j \in 1..6 : \A l : LabelsIt(irns[j], l) =>
         \/ j = 1 /\ l = t.first
         \/ j = 4 /\ l = t.second
         \/ j = 6 /\ l = t.done
       BY <1>8, <1>10
<1>12. \A j \in 1..6 : \A l : JumpsToIt(irns[j], l) => l = t.done
       BY <1>8, <1>10
<1>13. \A j \in 1..6 : irns[j].opcode # "FUNCTIONSTART"
       BY <1>6, <1>10
<1>14. \A l \in {t.first, t.second, t.done} : \E j \in 1..6 : LabelsIt(irns[j], l)
       <2>1. 1 \in 1..6 /\ 4 \in 1..6 /\ 6 \in 1..6
             OBVIOUS
       <2>2. LabelsIt(irns[1], t.first) /\ LabelsIt(irns[4], t.second) /\ LabelsIt(irns[6], t.done)
             BY <1>7, <1>8
       <2>3. QED
             BY <2>1, <2>2
<1>15. \A i, j \in 1..6 : \A l : LabelsIt(irns[i], l) /\ LabelsIt(irns[j], l) => i = j
       BY <1>5, <1>11
<1>16. Performs(t, irns)
       <2>1. \A l : Places(else_label, t, l) =>
               \E j \in 1..Len(irns) : LabelsIt(irns[j], l)
             BY <1>7, <1>9, <1>14
       <2>2. \A j \in 1..6 : \A l :
               /\ LabelsIt(irns[j], l) => Owns(tree, else_label, t, l)
               /\ JumpsToIt(irns[j], l) => Places(else_label, t, l)
             BY <1>9, <1>11, <1>12 DEF Owns
       <2>3. QED
             BY <1>7, <1>9, <1>13, <1>15, <2>1, <2>2 DEF Performs
<1>17. QED
       BY <1>1, <1>4, <1>16, PerformStep

(* The definition of a function keeps the invariant: its label is placed   *)
(* where the definition was.                                               *)
LEMMA SwitchFunctionSpecJump ==
  ASSUME WellFormed(tree), JumpInv, Inv', SwitchFunctionSpec
  PROVE  JumpInv'
<1>1. PICK n, l, a, b, irns :
        /\ n = Next1.n /\ l = func_label(FunctionOf(tree, Next1.n))
        /\ a = LabelNode(Next1.n, func_label(FunctionOf(tree, Next1.n)))
        /\ b = IrNode(Next1.n, "FUNCTIONSTART", Ptr(FunctionOf(tree, Next1.n)), NoOperand, NoOperand)
        /\ irns = <<LabelNode(Next1.n, func_label(FunctionOf(tree, Next1.n))),
                    IrNode(Next1.n, "FUNCTIONSTART", Ptr(FunctionOf(tree, Next1.n)), NoOperand,
                           NoOperand)>>
      OBVIOUS
<1>2. /\ todo # <<>> /\ Next1.do = "switch" /\ NodeAt(tree, n).subtype = "FUNCTION_SPEC"
      /\ Append_ir_nodes(irns) /\ Then(<<>>)
      /\ UNCHANGED <<tree, else_label, labelnum, visited, crashed>>
      BY <1>1 DEF SwitchFunctionSpec, Doing, counters, At, FunctionOf
<1>3. IsPath(tree, n) /\ ~Missing(tree, n) /\ ~InStatement(tree, n) /\ n \in Seq(Steps)
      BY <1>1, <1>2, NextNode, NotMissing, FormedNode, ChildNodes DEF FormedAt
<1>4. /\ a.opcode = "LABEL" /\ a.operand[1].data = l /\ b.opcode = "FUNCTIONSTART"
      BY <1>1 DEF LabelNode, IrNode, Lab
<1>5. irns = <<a, b>>
      BY <1>1
<1>6. IsSequence(irns) /\ 2 = Len(irns) /\ irns[1] = a /\ irns[2] = b
      <2>1. PICK S : S = {a, b}
            OBVIOUS
      <2>2. irns \in Seq(S)
            BY <1>5, <2>1
      <2>3. QED
            BY <1>5, <2>2 DEF IsSequence
<1>7. Owns(tree, else_label, Next1, l)
      <2>1. IsSpec(tree, n) /\ Reaches(Next1, n)
            BY <1>1, <1>2, <1>3 DEF IsSpec, Reaches
      <2>2. QED
            BY <1>1, <1>3, <2>1 DEF Owns, Declares
<1>8. /\ ~Calm(tree, Next1)
      /\ \A k : ~Places(else_label, Next1, k)
      /\ \A k : ~Awaits(else_label, visited, Next1, k)
      <2>1. \A m \in DOMAIN else_label : NodeAt(tree, m).subtype = "ELSE_STMT"
            BY <1>2, NextProper DEF Jumping, ElseLabels
      <2>2. QED
            BY <1>1, <1>2, <1>3, <2>1 DEF Calm, Places, Awaits
<1>9. \A j \in 1..2 : (j = 1 /\ irns[j] = a) \/ (j = 2 /\ irns[j] = b)
      BY <1>6
<1>10. \A k : /\ LabelsIt(a, k) <=> k = l
              /\ ~LabelsIt(b, k) /\ ~JumpsToIt(a, k) /\ ~JumpsToIt(b, k)
       BY <1>4 DEF LabelsIt, JumpsToIt
<1>11. Performs(Next1, irns)
       BY <1>6, <1>7, <1>8, <1>9, <1>10 DEF Performs
<1>12. ~Conditional(tree, Next1.n)
       BY <1>1, <1>2 DEF Conditional
<1>13. QED
       BY <1>2, <1>11, <1>12, PerformStep

-----------------------------------------------------------------------------
(* An else.                                                                *)

(* The line is the nodes that are emitted, and the work that is left.      *)
LEMMA OnLine ==
  ASSUME JumpInv, todo # <<>>, NEW s, s = Line, NEW h, h = Len(irlist) + 1
  PROVE  /\ h \in 1..Len(s) /\ s[h] = Next1
         /\ \A i \in 1..Len(s) : \/ i < h /\ s[i].do = "emit"
                                 \/ \E k \in 1..Len(todo) : i = (h - 1) + k /\ s[i] = todo[k]
         /\ \A k \in 1..Len(todo) : (h - 1) + k \in 1..Len(s) /\ s[(h - 1) + k] = todo[k]
<1>1. PICK r, d : r = Len(irlist) /\ d = Len(todo)
      OBVIOUS
<1>2. Inv /\ IsSequence(todo) /\ IsSequence(irlist)
      BY NextProper
<1>3. PICK ys : IsSequence(ys)
      BY EmptySequence
<1>4. PICK e : e = Emits(irlist)
      OBVIOUS
<1>5. IsSequence(e) /\ r = Len(e) /\ d = Len(todo) /\ \A i \in 1..r : e[i] = Emit(irlist[i])
      BY <1>1, <1>2, <1>4, EmitsItems
<1>6. s = e \o todo
      BY <1>4 DEF Line
<1>7. r \in Nat /\ d \in Nat /\ Len(s) = r + d
      BY <1>2, <1>5, <1>6, Join
<1>8. \A i \in 1..r : s[i] = e[i]
      BY <1>2, <1>5, <1>6, Join
<1>9. \A i \in 1..d : s[r + i] = todo[i]
      BY <1>2, <1>5, <1>6, Join
<1>10. 1 \in 1..d /\ todo[1] = Next1
       BY <1>1, NextProper
<1>11. h = r + 1 /\ h - 1 = r
       BY <1>1, <1>7
<1>12. \A i \in 1..r : i < h /\ s[i].do = "emit"
       <2>1. \A i \in 1..r : s[i] = Emit(irlist[i])
             BY <1>5, <1>8
       <2>2. \A i \in 1..r : i < h
             BY <1>7, <1>11
       <2>3. \A i \in 1..r : s[i].do = "emit"
             <3>1. \A irn : Emit(irn).do = "emit"
                   BY DEF Emit
             <3>2. QED
                   BY <2>1, <3>1
       <2>4. QED
             BY <2>2, <2>3
<1>13. ASSUME NEW i \in 1..Len(s)
       PROVE  \/ i < h /\ s[i].do = "emit"
              \/ \E k \in 1..d : i = (h - 1) + k /\ s[i] = todo[k]
       <2>1. i \in 1..r \/ \E k \in 1..d : i = r + k
             BY <1>7, Split
       <2>2. QED
             BY <1>9, <1>11, <1>12, <2>1
<1>14. \A k \in 1..d : (h - 1) + k \in 1..Len(s) /\ s[(h - 1) + k] = todo[k]
       <2>1. \A k \in 1..d : r + k \in 1..(r + d)
             BY <1>7
       <2>2. QED
             BY <1>7, <1>9, <1>11, <2>1
<1>15. h \in 1..Len(s) /\ s[h] = Next1
       BY <1>7, <1>9, <1>10, <1>11
<1>16. QED
       BY <1>1, <1>13, <1>14, <1>15

(* Which items two items are.                                              *)
LEMMA TwoIndices ==
  ASSUME NEW a, NEW b, NEW s, s = <<a, b>>
  PROVE  /\ IsSequence(s) /\ 2 = Len(s) /\ s[1] = a /\ s[2] = b
         /\ \A j \in 1..Len(s) : (j = 1 /\ s[j] = a) \/ (j = 2 /\ s[j] = b)
<1>1. PICK S : S = {a, b}
      OBVIOUS
<1>2. s \in Seq(S)
      BY <1>1
<1>3. QED
      BY <1>2 DEF IsSequence

(* An else keeps the invariant: its label is left to place behind it.      *)
LEMMA SwitchElseJump ==
  ASSUME WellFormed(tree), JumpInv, Inv', SwitchElse
  PROVE  JumpInv'
<1>1. PICK n : n = Next1.n
      OBVIOUS
<1>2. PICK a, b, new : a = Build(Left(n)) /\ b = ElseEnd(n) /\ new = <<Build(Left(n)), ElseEnd(n)>>
      OBVIOUS
<1>3. /\ todo # <<>> /\ Next1.do = "switch" /\ NodeAt(tree, n).subtype = "ELSE_STMT"
      /\ n \notin visited /\ visited' = visited \cup {n} /\ Then(new)
      /\ UNCHANGED <<tree, else_label, irlist, labelnum, crashed>>
      BY <1>1, <1>2 DEF SwitchElse, Doing, At, counters
<1>4. /\ Jumping /\ Inv /\ ~crashed /\ IsSequence(irlist) /\ IsSequence(todo)
      /\ 1 \in 1..Len(todo) /\ todo[1] = Next1 /\ Next1 = Switch(n)
      /\ IsPath(tree, n) /\ ~Missing(tree, n) /\ labelnum \in Nat
      BY <1>1, <1>3, NextProper, NotMissing DEF Proper, Jumping
<1>5. /\ IsSequence(new) /\ 2 = Len(new) /\ new[1] = a /\ new[2] = b
      /\ \A j \in 1..Len(new) : (j = 1 /\ new[j] = a) \/ (j = 2 /\ new[j] = b)
      BY <1>2, TwoIndices
<1>6. PICK g, v, w, d : g = else_label /\ v = visited /\ w = visited' /\ d = DOMAIN else_label
      OBVIOUS
<1>7. PICK work, z, s, u, h :
        work = todo /\ z = todo' /\ s = Line /\ u = Line' /\ h = Len(irlist) + 1
      OBVIOUS
<1>8. /\ Rewrites(s, h, new, u) /\ Rewrites(work, 1, new, z) /\ s[h] = Next1 /\ work[1] = Next1
      <2>1. Append_ir_nodes(<<>>) /\ IsSequence(<<>>) /\ Emits(<<>>) \o new = new
            BY <1>3, <1>4, <1>5, ListStays, EmptySequence, NothingEmitted
      <2>2. /\ Rewrites(Line, Len(irlist) + 1, Emits(<<>>) \o new, Line')
            /\ Line[Len(irlist) + 1] = Next1 /\ Rewrites(todo, 1, new, todo')
            BY <1>3, <1>4, <1>5, <2>1, LineStep
      <2>3. QED
            BY <1>4, <1>7, <2>1, <2>2
<1>9. n \in d
      <2>1. PICK p : p = Parent(n)
            OBVIOUS
      <2>2. IfElse(tree, p) /\ n = Right(p) /\ p \in Seq(Steps)
            BY <1>3, <1>4, <2>1, ElseOfIf, IfAndElse
      <2>3. Course(tree, v, d, todo, Left(p), n)
            BY <1>4, <1>6, <2>2 DEF Jumping, Courses
      <2>4. \A i \in 1..(1 - 1) : FALSE
            OBVIOUS
      <2>5. QED
            BY <1>3, <1>4, <1>6, <2>3, <2>4 DEF Course
<1>10. /\ IsPath(tree, Left(n)) /\ \A m : Prefix(m, n) => Prefix(m, Left(n))
       /\ InStatement(tree, n) /\ InStatement(tree, Left(n)) /\ ~IfElse(tree, n)
       <2>1. NodeAt(tree, n).subtype \in Statements /\ ~IfElse(tree, n)
             BY <1>3 DEF Statements, IfElse
       <2>2. QED
             BY <1>4, <2>1, StatementNode, Unconditional
<1>11. /\ Calm(tree, Next1) /\ Calm(tree, a) /\ Calm(tree, b)
       /\ \A l : ~Places(g, Next1, l) /\ ~Places(g, a, l) /\ ~Awaits(g, w, b, l)
       /\ \A l : Awaits(g, v, Next1, l) <=> l = g[n]
       /\ \A l : Places(g, b, l) <=> l = g[n]
       /\ \A l : ~Declares(tree, a, l) /\ ~Declares(tree, b, l)
       /\ \A l : ~Jumps(a, l) /\ ~Jumps(b, l) /\ ~Jumps(Next1, l)
       <2>1. a.do = "build" /\ a.n = Left(n) /\ b.do = "elseend" /\ b.n = n
             BY <1>2 DEF Build, ElseEnd
       <2>2. \A l : ~Declares(tree, a, l)
             BY <1>10, <2>1, NothingDeclared
       <2>3. \A l : ~Declares(tree, b, l)
             BY <2>1 DEF Declares, Reaches
       <2>4. Calm(tree, Next1) /\ Calm(tree, a) /\ Calm(tree, b)
             BY <1>1, <1>3, <1>10, <2>1 DEF Calm
       <2>5. \A l : ~Jumps(a, l) /\ ~Jumps(b, l) /\ ~Jumps(Next1, l)
             BY <1>3, <2>1 DEF Jumps
       <2>6. \A l : ~Places(g, Next1, l) /\ ~Places(g, a, l) /\ ~Awaits(g, w, b, l)
             BY <1>3, <2>1 DEF Places, Awaits
       <2>7. \A l : Awaits(g, v, Next1, l) <=> l = g[n]
             BY <1>1, <1>3, <1>6, <1>9 DEF Awaits
       <2>8. \A l : Places(g, b, l) <=> l = g[n]
             BY <1>6, <1>9, <2>1 DEF Places
       <2>9. QED
             BY <2>2, <2>3, <2>4, <2>5, <2>6, <2>7, <2>8
<1>12. AllProper(tree, w, z)
       <2>1. Proper(tree, w, a)
             BY <1>2, <1>10 DEF Proper, Build
       <2>2. n \in w
             BY <1>3, <1>6
       <2>3. Proper(tree, w, b)
             BY <1>2, <1>3, <1>4, <2>2 DEF Proper, ElseEnd
       <2>4. AllProper(tree, w, new) /\ v \subseteq w
             BY <1>3, <1>5, <1>6, <2>1, <2>3 DEF AllProper
       <2>5. AllProper(tree, v, work)
             BY <1>4, <1>6, <1>7 DEF Jumping
       <2>6. QED
             BY <1>8, <2>4, <2>5, ProperKept
<1>13. Courses(tree, w, d, z)
       <2>1. Courses(tree, v, d, work) /\ v \subseteq w
             BY <1>3, <1>4, <1>6, <1>7 DEF Jumping
       <2>2. ASSUME NEW p, IfElse(tree, p)
             PROVE  /\ Left(p) \in w => Left(p) \in v
                    /\ Right(p) \in w => Right(p) \in v \/ Right(p) \in d
             <3>1. Left(p) # n
                   BY <1>3, <2>2, IfAndElse
             <3>2. QED
                   BY <1>3, <1>6, <1>9, <3>1
       <2>3. work[1].do = "switch" /\ work[1].n = n
             BY <1>1, <1>3, <1>8
       <2>4. ASSUME NEW j \in 1..Len(new)
             PROVE  /\ new[j].do \in {"build", "switch", "elsejump"} =>
                         /\ IsPath(tree, n) /\ ~Missing(tree, n) /\ ~IfElse(tree, n)
                         /\ \/ new[j] = Build(Left(n)) \/ new[j] = Build(Right(n))
                            \/ new[j] = Switch(n) /\ work[1] = Build(n)
                    /\ \A p : IfElse(tree, p) /\ Inside(work[1], Left(p)) => Inside(new[j], Left(p))
                    /\ Calm(tree, work[1]) => Calm(tree, new[j])
             <3>1. CASE new[j] = a
                   <4>1. new[j].n = Left(n) /\ \A m : new[j] # ElseJump(m)
                         BY <1>2, <3>1 DEF Build, ElseJump
                   <4>2. QED
                         BY <1>2, <1>4, <1>10, <1>11, <2>3, <3>1, <4>1 DEF Inside
             <3>2. CASE new[j] = b
                   <4>1. new[j].n = n /\ new[j].do = "elseend" /\ \A m : new[j] # ElseJump(m)
                         BY <1>2, <3>2 DEF ElseEnd, ElseJump
                   <4>2. QED
                         BY <1>10, <1>11, <2>3, <3>2, <4>1 DEF Inside
             <3>3. QED
                   BY <1>5, <3>1, <3>2
       <2>5. work[1].do # "elsejump"
             BY <2>3
       <2>6. ~(work[1].do \in {"build", "switch"} /\ NodeAt(tree, work[1].n).subtype = "IF_STMT")
             BY <1>3, <2>3
       <2>7. QED
             BY <1>8, <2>1, <2>2, <2>4, <2>5, <2>6, CoursesKept
<1>14. PICK next \in Int : next = labelnum
       BY <1>4
<1>15. /\ ElseLabels(tree, g, v, work, s, next) /\ Numbered(tree, g, s, next)
       /\ OneOwner(tree, g, s) /\ Landing(tree, g, v, s)
       BY <1>4, <1>6, <1>7, <1>14 DEF Jumping
<1>16. ElseLabels(tree, g, w, z, u, next) /\ Numbered(tree, g, u, next) /\ OneOwner(tree, g, u)
       <2>1. Relabels(tree, g, v, w, s[h], new, new, next, next)
             <3>1. ASSUME NEW j \in 1..Len(new), NEW l, Owns(tree, g, new[j], l)
                   PROVE  j = 2 /\ l = g[n]
                   BY <1>5, <1>11, <3>1 DEF Owns
             <3>2. n \in DOMAIN g /\ n \notin v /\ n \in w
                   BY <1>3, <1>6, <1>9
             <3>3. \A j \in 1..Len(new) : \A l : ~Jumps(new[j], l)
                   BY <1>5, <1>11
             <3>4. QED
                   BY <3>1, <3>2, <3>3 DEF Relabels
       <2>2. Among(new, new)
             BY DEF Among
       <2>3. v \subseteq w /\ next <= next /\ s[h] = work[1]
             BY <1>3, <1>6, <1>8, <1>14
       <2>4. QED
             BY <1>8, <1>15, <2>1, <2>2, <2>3, LabelsKept
<1>17. Landing(tree, g, w, u)
       <2>1. \A i \in 1..Len(s) : \/ i < h /\ s[i].do = "emit"
                                  \/ \E k \in 1..Len(todo) : i = (h - 1) + k /\ s[i] = todo[k]
             BY <1>3, <1>7, OnLine
       <2>2. h \in Int /\ Len(irlist) \in Nat
             BY <1>4, <1>7, EmitsItems
       <2>3. \A c \in h..Len(s) : ~Jumps(s[c], g[n])
             <3>1. SUFFICES ASSUME NEW c \in h..Len(s)
                            PROVE  ~Jumps(s[c], g[n])
                   OBVIOUS
             <3>2. c \in 1..Len(s) /\ ~(c < h)
                   BY <1>7, <2>2
             <3>3. PICK k \in 1..Len(todo) : s[c] = todo[k]
                   BY <2>1, <3>2
             <3>4. QED
                   BY <1>6, <1>7, <1>9, <1>15, <3>3 DEF ElseLabels
       <2>4. ASSUME NEW i \in 1..Len(s), NEW l, i # h,
                    Places(g, s[i], l) \/ Awaits(g, v, s[i], l)
             PROVE  \/ Places(g, s[i], l) \/ Awaits(g, w, s[i], l)
                    \/ /\ i > h /\ Awaits(g, v, s[h], l)
                       /\ \A c \in h..Len(s) : ~Jumps(s[c], l)
             <3>1. CASE s[i].n # n \/ Places(g, s[i], l)
                   BY <1>3, <1>6, <2>4, <3>1 DEF Awaits
             <3>2. CASE s[i].n = n /\ Awaits(g, v, s[i], l)
                   <4>1. l = g[n] /\ s[i].do # "emit"
                         BY <3>2 DEF Awaits
                   <4>2. PICK k \in 1..Len(todo) : i = (h - 1) + k
                         BY <2>1, <4>1
                   <4>3. k \in Nat /\ k >= 1 /\ i >= h
                         BY <2>2, <4>2
                   <4>4. i > h
                         BY <2>2, <2>4, <4>2, <4>3
                   <4>5. QED
                         BY <1>8, <1>11, <2>3, <4>1, <4>4
             <3>3. QED
                   BY <2>4, <3>1, <3>2
       <2>5. \A l : Places(g, s[h], l) \/ Awaits(g, v, s[h], l) =>
                \E j \in 1..Len(new) : Places(g, new[j], l) \/ Awaits(g, w, new[j], l)
             <3>1. 2 \in 1..Len(new)
                   BY <1>5
             <3>2. QED
                   BY <1>5, <1>8, <1>11, <3>1
       <2>6. \A j \in 1..Len(new) : \A l : ~Jumps(new[j], l)
             BY <1>5, <1>11
       <2>7. \A j \in 1..Len(new) : Calm(tree, new[j])
             BY <1>5, <1>11
       <2>8. QED
             BY <1>8, <1>15, <2>4, <2>5, <2>6, <2>7, LandingKept
<1>18. Jumping'
       BY <1>3, <1>4, <1>6, <1>7, <1>12, <1>13, <1>14, <1>16, <1>17 DEF Jumping
<1>19. QED
       BY <1>3, <1>4, <1>18 DEF JumpInv

(* The work, when the jump over an else is done.                           *)
LEMMA ElseJumpCourses ==
  ASSUME WellFormed(tree), JumpInv, todo # <<>>, Next1.do = "elsejump",
         NEW n, n = Next1.n, NEW e, e = Right(Parent(n)), Then(<<>>)
  PROVE  /\ e \notin DOMAIN else_label /\ e \notin visited
         /\ IsPath(tree, e) /\ NodeAt(tree, e).subtype = "ELSE_STMT"
         /\ Courses(tree, visited, DOMAIN else_label \cup {e}, todo')
         /\ AllProper(tree, visited, todo')
         /\ \E k \in 1..Len(todo) :
              k # 1 /\ todo[k] = Build(e) /\ CalmFrom(tree, todo, 1, k)
<1>1. PICK new : new = <<>>
      OBVIOUS
<1>2. IsSequence(new) /\ Then(new) /\ \A j \in 1..Len(new) : FALSE
      BY <1>1, EmptySequence
<1>3. /\ Jumping /\ IsSequence(irlist) /\ IsSequence(todo) /\ todo[1] = Next1
      /\ Next1 = ElseJump(n) /\ IsPath(tree, n) /\ 1 \in 1..Len(todo)
      /\ NodeAt(tree, n).subtype = "IF_STMT" /\ NodeAt(tree, Parent(n)).subtype = "IF_ELSE_STMT"
      BY NextProper DEF Proper
<1>4. PICK v, d, work, z : v = visited /\ d = DOMAIN else_label /\ work = todo /\ z = todo'
      OBVIOUS
<1>5. Rewrites(work, 1, new, z) /\ work[1] = ElseJump(n)
      BY <1>2, <1>3, <1>4, Heads DEF Then
<1>6. PICK p : p = Parent(n)
      OBVIOUS
<1>7. IfElse(tree, p)
      BY <1>3, <1>6, Parents DEF IfElse
<1>8. /\ NodeAt(tree, Right(p)).subtype = "ELSE_STMT" /\ IsPath(tree, Right(p)) /\ p \in Seq(Steps)
      /\ Left(p) # Right(p)
      BY <1>7, IfAndElse
<1>9. n = Left(p) /\ e = Right(p)
      <2>1. n # p
            BY <1>3, <1>6
      <2>2. QED
            BY <1>3, <1>6, <1>8, <2>1, Parents
<1>10. Courses(tree, v, d, work) /\ AllProper(tree, v, work)
       BY <1>3, <1>4 DEF Jumping
<1>11. Course(tree, v, d, work, n, e)
       BY <1>7, <1>8, <1>9, <1>10 DEF Courses
<1>12. e \notin d /\ e \notin v
       BY <1>3, <1>4, <1>5, <1>11 DEF Course
<1>13. \E k \in 1..Len(work) :
          k # 1 /\ work[k] = Build(e) /\ CalmFrom(tree, work, 1, k)
       <2>1. PICK m \in Nat : m = Len(work)
             BY <1>3, <1>4, EmitsItems
       <2>2. PICK k \in (1 + 1)..Len(work) : work[k] = Build(e) /\ CalmFrom(tree, work, 1, k)
             BY <1>3, <1>4, <1>5, <1>11 DEF Course
       <2>3. k \in 1..m /\ k # 1
             BY <2>1, <2>2
       <2>4. QED
             BY <2>1, <2>2, <2>3
<1>14. AllProper(tree, v, z)
       <2>1. AllProper(tree, v, new) /\ v \subseteq v
             BY <1>2 DEF AllProper
       <2>2. QED
             BY <1>5, <1>10, <2>1, ProperKept
<1>15. Courses(tree, v, d \cup {e}, z)
       <2>1. SUFFICES ASSUME NEW q \in Seq(Steps), IfElse(tree, q)
                      PROVE  Course(tree, v, d \cup {e}, z, Left(q), Right(q))
             BY DEF Courses
       <2>2. PICK m : m = Left(q)
             OBVIOUS
       <2>3. PICK x : x = Right(q)
             OBVIOUS
       <2>4. Course(tree, v, d, work, m, x)
             BY <1>10, <2>1, <2>2, <2>3 DEF Courses
       <2>5. CASE q = p
             <3>1. Course(tree, v, d \cup {e}, z, n, e)
                   BY <1>1, <1>5, <1>11, CourseJump
             <3>2. QED
                   BY <1>9, <2>5, <3>1
       <2>6. CASE q # p
             <3>1. Parent(m) = q /\ Parent(x) = q /\ Parent(n) = p /\ Parent(e) = p
                   BY <1>7, <1>9, <2>1, <2>2, <2>3, IfAndElse
             <3>2. m # n /\ x # e
                   BY <2>6, <3>1
             <3>3. PICK f : f = d \cup {e}
                   OBVIOUS
             <3>4. /\ m \in v <=> m \in v
                   /\ v \subseteq v
                   /\ x \in v => x \in v \/ x \in f
                   /\ x \in f <=> x \in d
                   BY <3>2, <3>3
             <3>5. work[1] # ElseJump(m) /\ work[1] \notin {Build(m), Switch(m)}
                   BY <1>5, <3>2 DEF ElseJump, Build, Switch
             <3>6. work[1] \in {Build(m), Switch(m)} /\ m \notin v =>
                      \E j \in 1..Len(new) : new[j] \in {Build(m), Switch(m)}
                   BY <3>5
             <3>7. Course(tree, v, f, z, m, x)
                   BY <1>2, <1>5, <2>4, <3>4, <3>5, <3>6, CourseKept
             <3>8. QED
                   BY <2>2, <2>3, <3>3, <3>7
       <2>7. QED
             BY <2>5, <2>6
<1>16. QED
       BY <1>4, <1>8, <1>9, <1>12, <1>13, <1>14, <1>15

(* The labels, when an else e gets its label.                              *)
GetsLabel(f, g, e, skip) ==
  DOMAIN f = DOMAIN g \cup {e} /\ f[e] = skip /\ \A m \in DOMAIN g : f[m] = g[m]
JumpsOnly(t, f, ys, skip) ==
  \A j \in 1..Len(ys) : /\ Calm(t, ys[j]) /\ \A l : ~Owns(t, f, ys[j], l)
                        /\ \A l : Jumps(ys[j], l) => l = skip
EndsVisited(s, v) == \A i \in 1..Len(s) : s[i].do = "elseend" => s[i].n \in v

(* The labels stay in order when an else node gets a new label, and the    *)
(* jump to it is appended.                                                 *)
LEMMA ElseGetsLabel ==
  ASSUME NEW t, NEW g, NEW v, NEW next \in Int, NEW top \in Int, next < top,
         NEW e, e \notin DOMAIN g, e \notin v, NEW skip, skip[2] = next,
         IsPath(t, e), NodeAt(t, e).subtype = "ELSE_STMT",
         NEW f, GetsLabel(f, g, e, skip),
         NEW s, NEW h, NEW ys, NEW u, Rewrites(s, h, ys, u), NEW work, NEW z, Among(z, work),
         Among(work, s), EndsVisited(s, v), JumpsOnly(t, f, ys, skip),
         ElseLabels(t, g, v, work, s, next), Numbered(t, g, s, next), OneOwner(t, g, s)
  PROVE  /\ \A i \in 1..Len(s) : \A l : Owns(t, f, s[i], l) => Owns(t, g, s[i], l)
         /\ ElseLabels(t, f, v, z, u, top) /\ Numbered(t, f, u, top) /\ OneOwner(t, f, u)
<1>1. /\ DOMAIN f = DOMAIN g \cup {e} /\ f[e] = skip /\ \A m \in DOMAIN g : f[m] = g[m]
      /\ \A i \in 1..Len(z) : \E k \in 1..Len(work) : work[k] = z[i]
      /\ \A k \in 1..Len(work) : \E i \in 1..Len(s) : s[i] = work[k]
      /\ \A i \in 1..Len(s) : s[i].do = "elseend" => s[i].n \in v
      /\ \A j \in 1..Len(ys) : /\ \A l : ~Owns(t, f, ys[j], l)
                               /\ \A l : Jumps(ys[j], l) => l = skip
      BY DEF GetsLabel, Among, EndsVisited, JumpsOnly
<1>2. ASSUME NEW i \in 1..Len(s), NEW l, Owns(t, f, s[i], l)
      PROVE  Owns(t, g, s[i], l)
      <2>1. CASE Declares(t, s[i], l)
            BY <2>1 DEF Owns
      <2>2. CASE Places(f, s[i], l)
            <3>1. s[i].do = "elseend" => s[i].n # e
                  BY <1>1
            <3>2. Places(g, s[i], l)
                  BY <1>1, <2>2, <3>1 DEF Places
            <3>3. QED
                  BY <3>2 DEF Owns
      <2>3. QED
            BY <1>2, <2>1, <2>2 DEF Owns
<1>3. \A c \in 1..Len(u) : \/ \E j \in 1..Len(ys) : u[c] = ys[j]
                           \/ \E i \in 1..Len(s) : u[c] = s[i]
      <2>1. SUFFICES ASSUME NEW c \in 1..Len(u)
                     PROVE  \/ \E j \in 1..Len(ys) : u[c] = ys[j]
                            \/ \E i \in 1..Len(s) : u[c] = s[i]
            OBVIOUS
      <2>2. \/ \E j \in 1..Len(ys) : c = (h - 1) + j /\ u[c] = ys[j] /\ Image(h, Len(ys), h, c)
            \/ \E i \in 1..Len(s) : i # h /\ u[c] = s[i] /\ Image(h, Len(ys), i, c)
            BY Sources
      <2>3. QED
            BY <2>2
<1>4. \A a \in Int : a < next => a < top
      OBVIOUS
<1>5. skip[2] \in Int /\ skip[2] < top /\ ~(skip[2] < next)
      OBVIOUS
<1>6. /\ \A i \in 1..Len(s) : \A l : Owns(t, g, s[i], l) \/ Jumps(s[i], l) =>
            l[2] \in Int /\ l[2] < next
      /\ \A m \in DOMAIN g : g[m][2] \in Int /\ g[m][2] < next
      BY DEF Numbered, ElseLabels
<1>7. ASSUME NEW c \in 1..Len(u), NEW l, Owns(t, f, u[c], l)
      PROVE  \E i \in 1..Len(s) : u[c] = s[i] /\ Owns(t, g, s[i], l)
      BY <1>1, <1>2, <1>3, <1>7
<1>8. Numbered(t, f, u, top)
      <2>1. SUFFICES ASSUME NEW c \in 1..Len(u), NEW l, Owns(t, f, u[c], l) \/ Jumps(u[c], l)
                     PROVE  l[2] \in Int /\ l[2] < top
            BY DEF Numbered
      <2>2. CASE Owns(t, f, u[c], l)
            BY <1>4, <1>6, <1>7, <2>2
      <2>3. CASE Jumps(u[c], l)
            <3>1. CASE \E j \in 1..Len(ys) : u[c] = ys[j]
                  BY <1>1, <1>5, <2>3, <3>1
            <3>2. CASE \E i \in 1..Len(s) : u[c] = s[i]
                  BY <1>4, <1>6, <2>3, <3>2
            <3>3. QED
                  BY <1>3, <3>1, <3>2
      <2>4. QED
            BY <2>1, <2>2, <2>3
<1>9. OneOwner(t, f, u)
      <2>1. \A i \in 1..Len(s) : \A l : i # h /\ Owns(t, f, s[i], l) => Owns(t, g, s[i], l)
            BY <1>2
      <2>2. \A j \in 1..Len(ys) : \A l : ~Owns(t, f, ys[j], l)
            BY <1>1
      <2>3. QED
            BY <2>1, <2>2, OwnersKept
<1>10. ElseLabels(t, f, v, z, u, top)
       <2>1. SUFFICES ASSUME NEW m \in DOMAIN f
                      PROVE  /\ IsPath(t, m) /\ NodeAt(t, m).subtype = "ELSE_STMT"
                             /\ f[m][2] \in Int /\ f[m][2] < top
                             /\ \A k \in DOMAIN f : f[k] = f[m] => k = m
                             /\ \A i \in 1..Len(z) : ~Jumps(z[i], f[m])
                             /\ m \notin v => \A i \in 1..Len(u) : ~Owns(t, f, u[i], f[m])
             BY DEF ElseLabels
       <2>2. \A i \in 1..Len(s) : \A l : Owns(t, g, s[i], l) \/ Jumps(s[i], l) => l # skip
             BY <1>5, <1>6
       <2>3. \A k \in DOMAIN g : g[k] # skip
             BY <1>5, <1>6
       <2>4. CASE m = e
             <3>1. \A k \in DOMAIN f : f[k] = f[m] => k = m
                   BY <1>1, <2>3, <2>4
             <3>2. \A i \in 1..Len(z) : ~Jumps(z[i], f[m])
                   BY <1>1, <2>2, <2>4
             <3>3. \A i \in 1..Len(u) : ~Owns(t, f, u[i], f[m])
                   BY <1>1, <1>7, <2>2, <2>4
             <3>4. QED
                   BY <1>1, <1>5, <2>4, <3>1, <3>2, <3>3
       <2>5. CASE m # e
             <3>1. m \in DOMAIN g /\ f[m] = g[m]
                   BY <1>1, <2>5
             <3>2. /\ IsPath(t, m) /\ NodeAt(t, m).subtype = "ELSE_STMT"
                   /\ g[m][2] \in Int /\ g[m][2] < top
                   /\ \A k \in DOMAIN g : g[k] = g[m] => k = m
                   /\ \A i \in 1..Len(work) : ~Jumps(work[i], g[m])
                   /\ m \notin v => \A i \in 1..Len(s) : ~Owns(t, g, s[i], g[m])
                   BY <1>4, <1>6, <3>1 DEF ElseLabels
             <3>3. \A k \in DOMAIN f : f[k] = f[m] => k = m
                   BY <1>1, <2>3, <3>1, <3>2
             <3>4. \A i \in 1..Len(z) : ~Jumps(z[i], f[m])
                   BY <1>1, <3>1, <3>2
             <3>5. m \notin v => \A i \in 1..Len(u) : ~Owns(t, f, u[i], f[m])
                   BY <1>1, <1>7, <3>1, <3>2
             <3>6. QED
                   BY <3>1, <3>2, <3>3, <3>4, <3>5
       <2>6. QED
             BY <2>4, <2>5
<1>11. QED
       BY <1>2, <1>8, <1>9, <1>10

(* The jump over the else finds the else's label where it will be placed.  *)
LEMMA ElseLands ==
  ASSUME NEW t, NEW g, NEW v, NEW e, e \notin DOMAIN g, e \notin v, NEW skip,
         NEW f, GetsLabel(f, g, e, skip),
         NEW s, NEW h, NEW ys, NEW u, Rewrites(s, h, ys, u), Landing(t, g, v, s),
         NEW n, s[h] = ElseJump(n),
         JumpsOnly(t, f, ys, skip),
         NEW i \in 1..Len(s), i # h, s[i] = Build(e), CalmFrom(t, s, h, i)
  PROVE  Landing(t, f, v, u)
<1>1. ASSUME NEW item, NEW l
      PROVE  /\ Places(g, item, l) => Places(f, item, l)
             /\ Awaits(g, v, item, l) => Awaits(f, v, item, l)
      BY DEF GetsLabel, Places, Awaits
<1>2. /\ Calm(t, s[h])
      /\ \A l : ~Places(g, s[h], l) /\ ~Awaits(g, v, s[h], l)
      <2>1. s[h].do = "elsejump"
            BY DEF ElseJump
      <2>2. QED
            BY <2>1 DEF Calm, Places, Awaits
<1>3. Awaits(f, v, s[i], skip)
      <2>1. s[i].do = "build" /\ s[i].n = e
            BY DEF Build
      <2>2. QED
            BY <2>1 DEF Awaits, GetsLabel
<1>4. \A c \in 1..Len(s) : \A l :
         c # h /\ (Places(g, s[c], l) \/ Awaits(g, v, s[c], l)) =>
            Places(f, s[c], l) \/ Awaits(f, v, s[c], l)
      BY <1>1
<1>5. \A j \in 1..Len(ys) : \A l : Jumps(ys[j], l) =>
         /\ Calm(t, s[h])
         /\ \E c \in 1..Len(s) : c # h /\ Awaits(f, v, s[c], l) /\ CalmFrom(t, s, h, c)
      BY <1>2, <1>3 DEF JumpsOnly
<1>6. \A j \in 1..Len(ys) : Calm(t, ys[j])
      BY DEF JumpsOnly
<1>7. QED
      BY <1>2, <1>4, <1>5, <1>6, LandingKept

(* What is left when the next item leaves nothing was there before.        *)
LEMMA WorkLeft ==
  ASSUME NEW work, NEW z, Rewrites(work, 1, <<>>, z)
  PROVE  Among(z, work)
<1>1. PICK new : new = <<>>
      OBVIOUS
<1>2. Rewrites(work, 1, new, z)
      BY <1>1
<1>3. PICK m, k \in Nat : m = Len(work) /\ k = Len(new)
      BY <1>2, Shift
<1>4. k = 0
      BY <1>1, <1>3
<1>5. SUFFICES ASSUME NEW c \in 1..Len(z)
               PROVE  \E i \in 1..m : work[i] = z[c]
      BY <1>3 DEF Among
<1>6. /\ \A i \in 2..m : z[(i - 1) + k] = work[i]
      /\ c \in 1..k \/ \E i \in 2..m : c = (i - 1) + k
      BY <1>2, <1>3, Shift
<1>7. PICK i \in 2..m : c = (i - 1) + k
      BY <1>4, <1>6
<1>8. work[i] = z[c] /\ i \in 1..m
      BY <1>6, <1>7
<1>9. QED
      BY <1>8

(* The jump over an else keeps the invariant: the else gets a new label,   *)
(* which it will place.                                                    *)
LEMMA DoElseJumpJump ==
  ASSUME WellFormed(tree), JumpInv, Inv', DoElseJump
  PROVE  JumpInv'
<1>1. PICK n, e, skip :
        n = Next1.n /\ e = Right(Parent(Next1.n)) /\ skip = new_label("endelse", 0)
      OBVIOUS
<1>2. PICK irn, irns : irn = JumpNode(n, skip) /\ irns = <<JumpNode(n, skip)>>
      OBVIOUS
<1>3. /\ todo # <<>> /\ Next1.do = "elsejump" /\ Append_ir_nodes(irns) /\ Then(<<>>)
      /\ else_label' = [m \in DOMAIN else_label \cup {e} |-> IF m = e THEN skip ELSE else_label[m]]
      /\ labelnum' = labelnum + 1 /\ UNCHANGED <<tree, visited, crashed>>
      BY <1>1, <1>2 DEF DoElseJump, Doing
<1>4. /\ Jumping /\ Inv /\ ~crashed /\ IsSequence(irlist) /\ IsSequence(todo)
      /\ labelnum \in Nat /\ Next1 = ElseJump(n) /\ Proper(tree, visited, Next1)
      BY <1>1, <1>3, NextProper DEF Proper, Jumping
<1>5. PICK g, v, d, f : /\ g = else_label /\ v = visited /\ d = DOMAIN else_label
                        /\ f = else_label'
      OBVIOUS
<1>6. PICK work, z, s, u, h :
        work = todo /\ z = todo' /\ s = Line /\ u = Line' /\ h = Len(irlist) + 1
      OBVIOUS
<1>7. PICK ys, a : ys = <<Emit(irn)>> /\ a = Emit(irn)
      OBVIOUS
<1>8. IsSequence(<<>>) /\ IsSequence(irns) /\ Emits(irns) \o <<>> = ys
      <2>1. IsSequence(irns) /\ Emits(irns) = ys
            BY <1>2, <1>7, EmitsOne
      <2>2. QED
            BY <2>1, EmptySequence, NothingLeft
<1>9. Rewrites(s, h, ys, u) /\ s[h] = Next1 /\ Rewrites(work, 1, <<>>, z)
      <2>1. /\ Rewrites(Line, Len(irlist) + 1, Emits(irns) \o <<>>, Line')
            /\ Line[Len(irlist) + 1] = Next1 /\ Rewrites(todo, 1, <<>>, todo')
            BY <1>3, <1>4, <1>8, LineStep
      <2>2. QED
            BY <1>6, <1>8, <2>1
<1>10. \A j \in 1..Len(ys) : ys[j] = a
       BY <1>7, SequenceOne
<1>11. /\ Calm(tree, a) /\ \A l : ~Owns(tree, f, a, l)
       /\ \A l : Jumps(a, l) => l = skip
       <2>1. /\ a.do = "emit" /\ a.irn = irn /\ irn.opcode = "J" /\ irn.operand[1].data = skip
             BY <1>2, <1>7 DEF Emit, JumpNode, IrNode, Lab
       <2>2. QED
             BY <2>1 DEF Calm, Owns, Places, LabelsIt, Declares, Reaches, Jumps, JumpsToIt
<1>12. /\ e \notin d /\ e \notin v /\ IsPath(tree, e) /\ NodeAt(tree, e).subtype = "ELSE_STMT"
       /\ Courses(tree, v, d \cup {e}, z) /\ AllProper(tree, v, z)
       /\ \E k \in 1..Len(work) : k # 1 /\ work[k] = Build(e) /\ CalmFrom(tree, work, 1, k)
       BY <1>1, <1>3, <1>5, <1>6, ElseJumpCourses
<1>13. GetsLabel(f, g, e, skip)
       <2>1. f = [m \in DOMAIN g \cup {e} |-> IF m = e THEN skip ELSE g[m]]
             BY <1>3, <1>5
       <2>2. \A m \in DOMAIN g : m # e
             BY <1>5, <1>12
       <2>3. QED
             BY <2>1, <2>2 DEF GetsLabel
<1>14. PICK next, top \in Int : next = labelnum /\ top = labelnum' /\ next < top
       BY <1>3, <1>4
<1>15. skip[2] = next
       BY <1>1, <1>4, <1>14, NewLabels
<1>16. /\ ElseLabels(tree, g, v, work, s, next) /\ Numbered(tree, g, s, next)
       /\ OneOwner(tree, g, s) /\ Landing(tree, g, v, s) /\ AllProper(tree, v, work)
       BY <1>4, <1>5, <1>6, <1>14 DEF Jumping
<1>17. /\ \A i \in 1..Len(s) : \/ i < h /\ s[i].do = "emit"
                               \/ \E k \in 1..Len(work) : i = (h - 1) + k /\ s[i] = work[k]
       /\ \A k \in 1..Len(work) : (h - 1) + k \in 1..Len(s) /\ s[(h - 1) + k] = work[k]
       /\ h \in 1..Len(s)
       <2>1. todo # <<>> /\ s = Line /\ h = Len(irlist) + 1
             BY <1>3, <1>6
       <2>2. h \in 1..Len(s)
             BY <2>1, OnLine
       <2>3. \A i \in 1..Len(s) : \/ i < h /\ s[i].do = "emit"
                                  \/ \E k \in 1..Len(todo) : i = (h - 1) + k /\ s[i] = todo[k]
             BY <2>1, OnLine
       <2>4. \A k \in 1..Len(todo) : (h - 1) + k \in 1..Len(s) /\ s[(h - 1) + k] = todo[k]
             BY <2>1, OnLine
       <2>5. QED
             BY <1>6, <2>2, <2>3, <2>4
<1>18. /\ ElseLabels(tree, f, v, z, u, top) /\ Numbered(tree, f, u, top) /\ OneOwner(tree, f, u)
       <2>1. Among(z, work)
             BY <1>9, WorkLeft
       <2>2. Among(work, s)
             BY <1>17 DEF Among
       <2>3. EndsVisited(s, v)
             <3>1. \A k \in 1..Len(work) : work[k].do = "elseend" => work[k].n \in v
                   BY <1>16 DEF AllProper, Proper
             <3>2. QED
                   BY <1>17, <3>1 DEF EndsVisited
       <2>4. JumpsOnly(tree, f, ys, skip)
             BY <1>10, <1>11 DEF JumpsOnly
       <2>5. e \notin DOMAIN g
             BY <1>5, <1>12
       <2>6. ElseLabels(tree, g, v, work, s, next) /\ Numbered(tree, g, s, next) /\ OneOwner(tree, g, s)
             BY <1>16
       <2>7. e \notin v /\ IsPath(tree, e) /\ NodeAt(tree, e).subtype = "ELSE_STMT"
             BY <1>12
       <2>8. next \in Int /\ top \in Int /\ next < top
             BY <1>14
       <2>9. Rewrites(s, h, ys, u)
             BY <1>9
       <2>10. ElseLabels(tree, f, v, z, u, top)
              BY <1>13, <1>15, <2>1, <2>2, <2>3, <2>4, <2>5, <2>6, <2>7, <2>8, <2>9,
                 ElseGetsLabel
       <2>11. Numbered(tree, f, u, top)
              BY <1>13, <1>15, <2>1, <2>2, <2>3, <2>4, <2>5, <2>6, <2>7, <2>8, <2>9,
                 ElseGetsLabel
       <2>12. OneOwner(tree, f, u)
              BY <1>13, <1>15, <2>1, <2>2, <2>3, <2>4, <2>5, <2>6, <2>7, <2>8, <2>9,
                 ElseGetsLabel
       <2>13. QED
              BY <2>10, <2>11, <2>12
<1>19. Landing(tree, f, v, u)
       <2>1. PICK k \in 1..Len(work) : k # 1 /\ work[k] = Build(e) /\ CalmFrom(tree, work, 1, k)
             BY <1>12
       <2>2. PICK i : i = (h - 1) + k
             OBVIOUS
       <2>3. h \in Int /\ k \in Int
             BY <1>17
       <2>4. i \in 1..Len(s) /\ i # h /\ s[i] = Build(e)
             BY <1>17, <2>1, <2>2, <2>3
       <2>5. CalmFrom(tree, s, h, i)
             <3>1. SUFFICES ASSUME NEW c \in 1..Len(s), (h <= c /\ c <= i) \/ (i <= c /\ c <= h)
                            PROVE  Calm(tree, s[c])
                   BY DEF CalmFrom
             <3>2. k >= 1
                   BY <2>1
             <3>3. ~(c < h) /\ c <= i
                   BY <2>2, <2>3, <3>1, <3>2
             <3>4. PICK b \in 1..Len(work) : c = (h - 1) + b /\ s[c] = work[b]
                   BY <1>17, <3>3
             <3>5. 1 <= b /\ b <= k
                   BY <2>2, <2>3, <3>3, <3>4
             <3>6. QED
                   BY <2>1, <3>4, <3>5 DEF CalmFrom
       <2>6. s[h] = ElseJump(n) /\ e \notin DOMAIN g
             BY <1>4, <1>5, <1>9, <1>12
       <2>7. JumpsOnly(tree, f, ys, skip)
             BY <1>10, <1>11 DEF JumpsOnly
       <2>8. QED
             BY <1>9, <1>12, <1>13, <1>16, <2>4, <2>5, <2>6, <2>7, ElseLands
<1>20. labelnum' \in Nat /\ DOMAIN f = d \cup {e}
       BY <1>3, <1>4, <1>5, <1>13 DEF GetsLabel
<1>21. Jumping'
       BY <1>3, <1>5, <1>6, <1>12, <1>14, <1>18, <1>19, <1>20 DEF Jumping
<1>22. QED
       BY <1>3, <1>4, <1>21 DEF JumpInv

-----------------------------------------------------------------------------
(* A node is built.                                                        *)

(* Its children and the switch, and between them what comes of the         *)
(* expression of a statement.                                              *)
BuildItems(n, new) ==
  /\ IsSequence(new)
  /\ \E q \in 3..Len(new) :
       /\ new[1] = Build(Left(n)) /\ new[2] = Switch(n) /\ new[q] = Build(Right(n))
       /\ \A j \in 1..Len(new) : j \notin {1, 2, q} => Follows(new[j])
  /\ IfElse(tree, n) => 3 = Len(new)

(* The three forms of work that building a node leaves.                    *)
LEMMA BuiltItems ==
  ASSUME NEW n, NEW a, NEW b, NEW c, NEW g, NEW d, NEW e,
         a = Build(Left(n)), b = Switch(n), c = Build(Right(n))
  PROVE  /\ BuildItems(n, <<a, b, c>>)
         /\ ~IfElse(tree, n) /\ Follows(g) /\ Follows(d) => BuildItems(n, <<a, b, g, d, c>>)
         /\ ~IfElse(tree, n) /\ Follows(g) /\ Follows(d) /\ Follows(e) =>
              BuildItems(n, <<a, b, g, d, c, e>>)
<1>1. BuildItems(n, <<a, b, c>>)
      <2>1. PICK s : s = <<a, b, c>>
            OBVIOUS
      <2>2. /\ 3 = Len(s) /\ s[1] = a /\ s[2] = b /\ s[3] = c /\ 3 \in 3..Len(s)
            /\ \A j \in 1..Len(s) : j \in {1, 2, 3}
            BY <2>1
      <2>3. IsSequence(s)
            <3>1. s \in Seq({a, b, c})
                  BY <2>1
            <3>2. QED
                  BY <3>1 DEF IsSequence
      <2>4. BuildItems(n, s)
            BY <2>2, <2>3 DEF BuildItems
      <2>5. QED
            BY <2>1, <2>4
<1>2. ASSUME ~IfElse(tree, n), Follows(g), Follows(d)
      PROVE  BuildItems(n, <<a, b, g, d, c>>)
      <2>1. PICK s : s = <<a, b, g, d, c>>
            OBVIOUS
      <2>2. /\ 5 = Len(s) /\ s[1] = a /\ s[2] = b /\ s[5] = c /\ 5 \in 3..Len(s)
            /\ \A j \in 1..Len(s) : j \notin {1, 2, 5} => s[j] \in {g, d}
            BY <2>1
      <2>3. IsSequence(s)
            <3>1. s \in Seq({a, b, g, d, c})
                  BY <2>1
            <3>2. QED
                  BY <3>1 DEF IsSequence
      <2>4. \A j \in 1..Len(s) : j \notin {1, 2, 5} => Follows(s[j])
            BY <1>2, <2>2
      <2>5. BuildItems(n, s)
            BY <1>2, <2>2, <2>3, <2>4 DEF BuildItems
      <2>6. QED
            BY <2>1, <2>5
<1>3. ASSUME ~IfElse(tree, n), Follows(g), Follows(d), Follows(e)
      PROVE  BuildItems(n, <<a, b, g, d, c, e>>)
      <2>1. PICK s : s = <<a, b, g, d, c, e>>
            OBVIOUS
      <2>2. /\ 6 = Len(s) /\ s[1] = a /\ s[2] = b /\ s[5] = c /\ 5 \in 3..Len(s)
            /\ \A j \in 1..Len(s) : j \notin {1, 2, 5} => s[j] \in {g, d, e}
            BY <2>1
      <2>3. IsSequence(s)
            <3>1. s \in Seq({a, b, g, d, c, e})
                  BY <2>1
            <3>2. QED
                  BY <3>1 DEF IsSequence
      <2>4. \A j \in 1..Len(s) : j \notin {1, 2, 5} => Follows(s[j])
            BY <1>3, <2>2
      <2>5. BuildItems(n, s)
            BY <1>3, <2>2, <2>3, <2>4 DEF BuildItems
      <2>6. QED
            BY <2>1, <2>5
<1>4. QED
      BY <1>1, <1>2, <1>3

(* Building a node leaves the work of one of these forms.                  *)
LEMMA BuildBrings ==
  ASSUME WellFormed(tree), JumpInv, BuildNode
  PROVE  \E new : Then(new) /\ BuildItems(Next1.n, new)
<1>1. PICK n : n = Next1.n
      OBVIOUS
<1>2. PICK a, b, c, g, d, e :
        /\ a = Build(Left(n)) /\ b = Switch(n) /\ c = Build(Right(n))
        /\ g = Generate(Left(n), "R_VALUE") /\ d = Drop /\ e = Emit(EosNode(n))
      OBVIOUS
<1>3. PICK stmt \in BOOLEAN : stmt <=> At(n).type = "EXPR_STMT"
      OBVIOUS
<1>4. PICK expr : expr = IF stmt \/ At(n).subtype = "EXPR_ITEM" THEN <<g, d>> ELSE <<>>
      OBVIOUS
<1>5. PICK eos : eos = IF stmt THEN <<e>> ELSE <<>>
      OBVIOUS
<1>6. PICK new : new = ((<<a, b>> \o expr) \o <<c>>) \o eos
      OBVIOUS
<1>7. /\ todo # <<>> /\ Next1.do = "build" /\ Then(new) /\ UNCHANGED tree /\ ~Missing(tree, n)
      BY <1>1, <1>2, <1>3, <1>4, <1>5, <1>6 DEF BuildNode, Doing, IsNull, At, Missing
<1>8. IsPath(tree, n)
      BY <1>1, <1>7, NextNode
<1>9. CASE ~stmt /\ At(n).subtype # "EXPR_ITEM"
      <2>1. expr = <<>> /\ eos = <<>>
            BY <1>4, <1>5, <1>9
      <2>2. <<a, b>> \o <<>> = <<a, b>> /\ <<a, b, c>> = <<a, b, c>> \o <<>>
            OBVIOUS
      <2>3. <<a, b, c>> = <<a, b>> \o <<c>>
            OBVIOUS
      <2>4. new = <<a, b, c>>
            BY <1>6, <2>1, <2>2, <2>3, Zenon
      <2>5. BuildItems(n, new)
            BY <1>2, <2>4, BuiltItems
      <2>6. QED
            BY <1>1, <1>7, <2>5
<1>10. CASE stmt \/ At(n).subtype = "EXPR_ITEM"
      <2>1. ~Conditional(tree, Left(n))
            BY <1>3, <1>7, <1>8, <1>10, Unconditional DEF At
      <2>2. ~IfElse(tree, n)
            BY <1>3, <1>10, IfAndElse DEF At
      <2>3. IsPath(tree, Left(n)) /\ \A m : Prefix(m, n) => Prefix(m, Left(n))
            BY <1>7, <1>8, Unconditional
      <2>4. Follows(g) /\ Follows(d)
            <3>1. Next1.do \notin {"drop", "emit"}
                  BY <1>7
            <3>2. \A p : IfElse(tree, p) /\ Prefix(Left(p), Next1.n) => Prefix(Left(p), Left(n))
                  BY <1>1, <2>3
            <3>3. QED
                  BY <1>2, <1>7, <2>1, <2>3, <3>1, <3>2, FollowsBelow
      <2>5. Follows(e)
            <3>1. e.do = "emit" /\ e.irn.opcode = "EOS"
                  BY <1>2 DEF Emit, EosNode, IrNode
            <3>2. QED
                  BY <3>1 DEF Follows, Silent, Proper, Loud
      <2>6. expr = <<g, d>>
            BY <1>4, <1>10
      <2>7. <<a, b, g, d>> = <<a, b>> \o <<g, d>>
            OBVIOUS
      <2>8. <<a, b, g, d, c>> = <<a, b, g, d>> \o <<c>>
            OBVIOUS
      <2>9. (<<a, b>> \o expr) \o <<c>> = <<a, b, g, d, c>>
            BY <2>6, <2>7, <2>8, Zenon
      <2>10. CASE stmt
             <3>1. eos = <<e>>
                   BY <1>5, <2>10
             <3>2. <<a, b, g, d, c, e>> = <<a, b, g, d, c>> \o <<e>>
                   OBVIOUS
             <3>3. new = <<a, b, g, d, c, e>>
                   BY <1>6, <2>9, <3>1, <3>2, Zenon
             <3>4. BuildItems(n, new)
                   BY <1>2, <2>2, <2>4, <2>5, <3>3, BuiltItems
             <3>5. QED
                   BY <1>1, <1>7, <3>4
       <2>11. CASE ~stmt
             <3>1. eos = <<>>
                   BY <1>5, <2>11
             <3>2. <<a, b, g, d, c>> = <<a, b, g, d, c>> \o <<>>
                   OBVIOUS
             <3>3. new = <<a, b, g, d, c>>
                   BY <1>6, <2>9, <3>1, <3>2, Zenon
             <3>4. BuildItems(n, new)
                   BY <1>2, <2>2, <2>4, <3>3, BuiltItems
             <3>5. QED
                   BY <1>1, <1>7, <3>4
       <2>12. QED
             BY <2>10, <2>11
<1>11. QED
       BY <1>3, <1>9, <1>10

(* Each definition of a function is reached from one of the three.         *)
LEMMA ReachesOnce ==
  ASSUME NEW n, IsPath(tree, n), ~Missing(tree, n), NEW s \in Seq(Steps)
  PROVE  /\ \A item \in {Build(Left(n)), Switch(n), Build(Right(n))} :
              Reaches(item, s) => Reaches(Build(n), s)
         /\ ~(Reaches(Build(Left(n)), s) /\ Reaches(Switch(n), s))
         /\ ~(Reaches(Build(Right(n)), s) /\ Reaches(Switch(n), s))
         /\ ~(Reaches(Build(Left(n)), s) /\ Reaches(Build(Right(n)), s))
<1>1. \A m : (Reaches(Build(m), s) <=> Prefix(m, s)) /\ (Reaches(Switch(m), s) <=> m = s)
      BY DEF Reaches, Build, Switch
<1>2. n \in Seq(Steps) /\ "L" \in Steps /\ "R" \in Steps /\ "L" # "R"
      BY ChildNodes DEF Steps
<1>3. Prefix(n, Left(n)) /\ Prefix(n, Right(n))
      BY <1>2, ChildPrefix DEF Left, Right
<1>4. ~Prefix(Left(n), n) /\ ~Prefix(Right(n), n)
      BY <1>2, ChildPrefix DEF Left, Right
<1>5. ~(Prefix(Left(n), s) /\ Prefix(Right(n), s))
      BY <1>2, ChildPrefix DEF Left, Right
<1>6. Prefix(Left(n), s) \/ Prefix(Right(n), s) \/ n = s => Prefix(n, s)
      BY <1>2, <1>3, PrefixSelf, PrefixTransitive
<1>7. QED
      BY <1>1, <1>4, <1>5, <1>6

(* A label of a function is that of one definition.                        *)
LEMMA SpecOfLabel ==
  ASSUME NEW t, WellFormed(t), NEW r \in Seq(Steps), NEW s \in Seq(Steps),
         IsSpec(t, r), IsSpec(t, s),
         func_label(FunctionOf(t, r)) = func_label(FunctionOf(t, s))
  PROVE  r = s
<1>1. FunctionOf(t, r) = FunctionOf(t, s)
      BY DEF func_label
<1>2. QED
      BY <1>1 DEF WellFormed, Steps

(* A definition that a child or the switch of a node reaches is reached by *)
(* the node, and by one of the three only.                                 *)
LEMMA DeclaresOnce ==
  ASSUME WellFormed(tree), NEW n, IsPath(tree, n), ~Missing(tree, n), NEW l
  PROVE  /\ \A item \in {Build(Left(n)), Switch(n), Build(Right(n))} :
              Declares(tree, item, l) => Declares(tree, Build(n), l)
         /\ ~(Declares(tree, Build(Left(n)), l) /\ Declares(tree, Switch(n), l))
         /\ ~(Declares(tree, Build(Right(n)), l) /\ Declares(tree, Switch(n), l))
         /\ ~(Declares(tree, Build(Left(n)), l) /\ Declares(tree, Build(Right(n)), l))
<1>1. ASSUME NEW x, NEW y, Declares(tree, x, l), Declares(tree, y, l)
      PROVE  \E s \in Seq(Steps) : Reaches(x, s) /\ Reaches(y, s)
      <2>1. PICK r \in Seq(Steps) : /\ IsSpec(tree, r) /\ Reaches(x, r)
                                    /\ l = func_label(FunctionOf(tree, r))
            BY <1>1 DEF Declares
      <2>2. PICK s \in Seq(Steps) : /\ IsSpec(tree, s) /\ Reaches(y, s)
                                    /\ l = func_label(FunctionOf(tree, s))
            BY <1>1 DEF Declares
      <2>3. r = s
            BY <2>1, <2>2, SpecOfLabel
      <2>4. QED
            BY <2>1, <2>2, <2>3
<1>2. ASSUME NEW item \in {Build(Left(n)), Switch(n), Build(Right(n))}, Declares(tree, item, l)
      PROVE  Declares(tree, Build(n), l)
      <2>1. PICK s \in Seq(Steps) : /\ IsSpec(tree, s) /\ Reaches(item, s)
                                    /\ l = func_label(FunctionOf(tree, s))
            BY <1>2 DEF Declares
      <2>2. Reaches(Build(n), s)
            BY <2>1, ReachesOnce
      <2>3. QED
            BY <2>1, <2>2 DEF Declares
<1>3. QED
      BY <1>1, <1>2, ReachesOnce

(* Each item of new is one of the three, or says nothing.                  *)
LEMMA BuildItem ==
  ASSUME NEW n, NEW new, NEW q \in 3..Len(new),
         new[1] = Build(Left(n)), new[2] = Switch(n), new[q] = Build(Right(n)),
         \A j \in 1..Len(new) : j \notin {1, 2, q} => Follows(new[j]), NEW j \in 1..Len(new)
  PROVE  \/ j = 1 /\ new[j] = Build(Left(n))
         \/ j = 2 /\ new[j] = Switch(n)
         \/ j = q /\ new[j] = Build(Right(n))
         \/ /\ Follows(new[j]) /\ new[j].do \notin {"build", "switch", "elsejump"}
            /\ Calm(tree, new[j])
            /\ \A l : ~Owns(tree, else_label, new[j], l) /\ ~Jumps(new[j], l)
<1>1. CASE j \in {1, 2, q}
      BY <1>1
<1>2. CASE j \notin {1, 2, q}
      <2>1. Follows(new[j])
            BY <1>2
      <2>2. Silent(new[j])
            BY <2>1 DEF Follows
      <2>3. QED
            BY <2>1, <2>2, SilentItem
<1>3. QED
      BY <1>1, <1>2

(* What building a node leaves stands in for the node: it owns no label    *)
(* that the node does not, and no label twice.                             *)
LEMMA BuildLabels ==
  ASSUME WellFormed(tree), NEW n, IsPath(tree, n), ~Missing(tree, n),
         NEW v, NEW new, BuildItems(n, new), NEW next
  PROVE  Replaces(tree, else_label, v, v, Build(n), new, new, next, next)
<1>1. PICK q \in 3..Len(new) :
        /\ new[1] = Build(Left(n)) /\ new[2] = Switch(n) /\ new[q] = Build(Right(n))
        /\ \A j \in 1..Len(new) : j \notin {1, 2, q} => Follows(new[j])
      BY DEF BuildItems
<1>2. \A m : /\ Build(m).do = "build" /\ Build(m).n = m
             /\ Switch(m).do = "switch" /\ Switch(m).n = m
      BY DEF Build, Switch
<1>3. \A m : \A l : /\ ~Places(else_label, Build(m), l) /\ ~Places(else_label, Switch(m), l)
                    /\ ~Jumps(Build(m), l) /\ ~Jumps(Switch(m), l)
      BY <1>2 DEF Places, Jumps
<1>4. ASSUME NEW j \in 1..Len(new), NEW l, Owns(tree, else_label, new[j], l)
      PROVE  /\ j \in {1, 2, q} /\ Declares(tree, new[j], l)
             /\ new[j] \in {Build(Left(n)), Switch(n), Build(Right(n))}
      BY <1>1, <1>3, <1>4, BuildItem DEF Owns
<1>5. ASSUME NEW j \in 1..Len(new), NEW l, Owns(tree, else_label, new[j], l)
      PROVE  Owns(tree, else_label, Build(n), l)
      BY <1>4, <1>5, DeclaresOnce DEF Owns
<1>6. ASSUME NEW i \in 1..Len(new), NEW j \in 1..Len(new), NEW l,
             Owns(tree, else_label, new[i], l), Owns(tree, else_label, new[j], l)
      PROVE  i = j
      <2>1. i \in {1, 2, q} /\ Declares(tree, new[i], l)
            BY <1>4, <1>6
      <2>2. j \in {1, 2, q} /\ Declares(tree, new[j], l)
            BY <1>4, <1>6
      <2>3. /\ ~(Declares(tree, Build(Left(n)), l) /\ Declares(tree, Switch(n), l))
            /\ ~(Declares(tree, Build(Right(n)), l) /\ Declares(tree, Switch(n), l))
            /\ ~(Declares(tree, Build(Left(n)), l) /\ Declares(tree, Build(Right(n)), l))
            BY DeclaresOnce
      <2>4. QED
            BY <1>1, <2>1, <2>2, <2>3
<1>7. ASSUME NEW l, Awaits(else_label, v, Build(n), l)
      PROVE  \E j \in 1..Len(new) : Awaits(else_label, v, new[j], l)
      <2>1. Awaits(else_label, v, Switch(n), l)
            BY <1>2, <1>7 DEF Awaits
      <2>2. 2 \in 1..Len(new)
            <3>1. PICK k \in Nat : k = Len(new)
                  BY EmitsItems DEF BuildItems
            <3>2. q \in 3..k
                  BY <3>1
            <3>3. 2 \in 1..k
                  BY <3>2
            <3>4. QED
                  BY <3>1, <3>3
      <2>3. QED
            BY <1>1, <2>1, <2>2
<1>8. ASSUME NEW j \in 1..Len(new), NEW l PROVE ~Jumps(new[j], l)
      <2>1. \/ new[j] \in {Build(Left(n)), Switch(n), Build(Right(n))}
            \/ \A k : ~Jumps(new[j], k)
            BY <1>1, BuildItem
      <2>2. QED
            BY <1>3, <2>1
<1>9. ASSUME Calm(tree, Build(n)), NEW j \in 1..Len(new)
      PROVE  Calm(tree, new[j])
      <2>1. InStatement(tree, n)
            BY <1>2, <1>9 DEF Calm
      <2>2. InStatement(tree, Left(n)) /\ InStatement(tree, Right(n))
            BY <2>1, ChildNodes, StatementBelow
      <2>3. Calm(tree, Build(Left(n))) /\ Calm(tree, Switch(n)) /\ Calm(tree, Build(Right(n)))
            BY <1>2, <2>1, <2>2 DEF Calm
      <2>4. QED
            BY <1>1, <2>3, BuildItem
<1>10. PICK item : item = Build(n)
       OBVIOUS
<1>11. Replaces(tree, else_label, v, v, item, new, new, next, next)
       <2>1. \A l : ~Places(else_label, item, l)
             BY <1>3, <1>10
       <2>2. \A l : Awaits(else_label, v, item, l) => \E j \in 1..Len(new) : Awaits(else_label, v, new[j], l)
             BY <1>7, <1>10
       <2>3. Calm(tree, item) => \A j \in 1..Len(new) : Calm(tree, new[j])
             BY <1>9, <1>10
       <2>4. \A j \in 1..Len(new) : \A l : Owns(tree, else_label, new[j], l) => Owns(tree, else_label, item, l)
             BY <1>5, <1>10
       <2>5. QED
             BY <1>6, <1>8, <2>1, <2>2, <2>3, <2>4 DEF Replaces
<1>12. QED
       BY <1>10, <1>11

(* What building a node leaves is proper, and the course of every if stays *)
(* right.                                                                  *)
LEMMA BuildCourses ==
  ASSUME WellFormed(tree), JumpInv, todo # <<>>, UNCHANGED <<tree, visited, else_label>>,
         NEW n, n = Next1.n, Next1.do = "build", ~Missing(tree, n),
         NEW new, Then(new), BuildItems(n, new)
  PROVE  /\ AllProper(tree, visited', new)
         /\ Courses(tree, visited', DOMAIN else_label, todo')
<1>1. PICK q \in 3..Len(new) :
        /\ new[1] = Build(Left(n)) /\ new[2] = Switch(n) /\ new[q] = Build(Right(n))
        /\ \A j \in 1..Len(new) : j \notin {1, 2, q} => Follows(new[j])
      BY DEF BuildItems
<1>2. /\ Jumping /\ IsPath(tree, n) /\ Next1 = Build(n) /\ IsSequence(todo) /\ IsSequence(irlist)
      /\ IsSequence(new)
      BY NextProper DEF Proper, BuildItems
<1>3. \A m : /\ Build(m).do = "build" /\ Build(m).n = m
             /\ Switch(m).do = "switch" /\ Switch(m).n = m
             /\ ElseJump(m).do = "elsejump"
      BY DEF Build, Switch, ElseJump
<1>4. /\ IsPath(tree, Left(n)) /\ IsPath(tree, Right(n))
      /\ \A m : Prefix(m, n) => Prefix(m, Left(n)) /\ Prefix(m, Right(n))
      BY <1>2, Unconditional
<1>5. PICK v, d, s, u : v = visited /\ d = DOMAIN else_label /\ s = todo /\ u = todo'
      OBVIOUS
<1>6. Rewrites(s, 1, new, u) /\ s[1] = Build(n) /\ Courses(tree, v, d, s)
      <2>1. Rewrites(todo, 1, new, todo') /\ todo[1] = Next1
            BY <1>2, Heads DEF Then, Next1
      <2>2. QED
            BY <1>2, <1>5, <2>1 DEF Jumping
<1>7. AllProper(tree, v, new)
      <2>1. /\ Proper(tree, v, Build(Left(n))) /\ Proper(tree, v, Build(Right(n)))
            /\ Proper(tree, v, Switch(n))
            BY <1>2, <1>3, <1>4 DEF Proper
      <2>2. \A j \in 1..Len(new) : Follows(new[j]) => Proper(tree, v, new[j])
            BY <1>5 DEF Follows
      <2>3. QED
            BY <1>1, <2>1, <2>2 DEF AllProper
<1>8. \A j \in 1..Len(new) : Calm(tree, Build(n)) => Calm(tree, new[j])
      <2>1. SUFFICES ASSUME NEW j \in 1..Len(new), Calm(tree, Build(n))
                     PROVE  Calm(tree, new[j])
            OBVIOUS
      <2>2. PICK next : Replaces(tree, else_label, v, v, Build(n), new, new, next, next)
            BY <1>2, BuildLabels
      <2>3. QED
            BY <2>1, <2>2 DEF Replaces
<1>9. ASSUME NEW p \in Seq(Steps), IfElse(tree, p)
      PROVE  Course(tree, v, d, u, Left(p), Right(p))
      <2>1. CASE p = n
            <3>1. /\ Left(p) # p /\ Right(p) # p /\ Left(p) # Right(p) /\ "L" \in Steps
                  BY <1>9, IfAndElse DEF Steps
            <3>2. ~Prefix(Left(p), p)
                  BY <3>1, ChildPrefix DEF Left
            <3>3. 3 = Len(new) /\ q = 3
                  <4>1. 3 = Len(new)
                        BY <1>9, <2>1 DEF BuildItems
                  <4>2. q \in 3..3
                        BY <4>1
                  <4>3. QED
                        BY <4>1, <4>2
            <3>4. new[1] = Build(Left(p)) /\ new[2] = Switch(p) /\ new[3] = Build(Right(p))
                  BY <1>1, <2>1, <3>3
            <3>5. Calm(tree, Build(n))
                  <4>1. NodeAt(tree, n).subtype \in Statements
                        BY <1>9, <2>1 DEF IfElse, Statements
                  <4>2. InStatement(tree, n)
                        BY <1>2, <4>1, ChildNodes, PrefixSelf, StatementBelow
                  <4>3. QED
                        BY <1>3, <4>2 DEF Calm
            <3>6. \A j \in 1..3 : Calm(tree, new[j])
                  BY <1>8, <3>3, <3>5
            <3>7. Course(tree, v, d, s, Left(p), Right(p)) /\ s[1] = Build(p)
                  BY <1>6, <1>9, <2>1 DEF Courses
            <3>8. QED
                  BY <1>6, <3>1, <3>2, <3>3, <3>4, <3>6, <3>7, CourseBegins
      <2>2. CASE p # n
            <3>1. s[1].do = "build" /\ s[1].n = n
                  BY <1>3, <1>6
            <3>2. new[2] \in {Build(s[1].n), Switch(s[1].n)} /\ 2 \in 1..Len(new)
                  <4>1. PICK k \in Nat : k = Len(new)
                        BY <1>2, EmitsItems
                  <4>2. q \in 3..k
                        BY <4>1
                  <4>3. 2 \in 1..k
                        BY <4>2
                  <4>4. QED
                        BY <1>1, <3>1, <4>1, <4>3
            <3>3. ASSUME NEW j \in 1..Len(new)
                  PROVE  Elsewhere(n, p, s[1], new[j])
                  <4>1. PICK m : m = Left(p)
                        OBVIOUS
                  <4>2. Inside(s[1], m) <=> Prefix(m, n)
                        BY <1>3, <1>6, <3>1 DEF Inside
                  <4>3. /\ Prefix(m, n) => Inside(Build(Left(n)), m)
                        /\ Prefix(m, n) => Inside(Switch(n), m)
                        /\ Prefix(m, n) => Inside(Build(Right(n)), m)
                        BY <1>3, <1>4 DEF Inside
                  <4>4. Follows(new[j]) /\ new[j].do \notin {"build", "switch", "elsejump"}
                          /\ Prefix(m, n) => Inside(new[j], m)
                        <5>1. Follows(new[j]) /\ Prefix(m, n) =>
                                 new[j].do \in {"drop", "emit"} \/ Prefix(m, new[j].n)
                              BY <1>9, <4>1 DEF Follows
                        <5>2. new[j].do # "elsejump" => new[j] # ElseJump(m)
                              BY <1>3
                        <5>3. QED
                              BY <5>1, <5>2 DEF Inside
                  <4>5. \/ new[j] = Build(Left(n)) \/ new[j] = Switch(n)
                        \/ new[j] = Build(Right(n))
                        \/ Follows(new[j]) /\ new[j].do \notin {"build", "switch", "elsejump"}
                        BY <1>1, BuildItem
                  <4>6. Inside(s[1], m) => Inside(new[j], m)
                        BY <4>2, <4>3, <4>4, <4>5
                  <4>7. Calm(tree, s[1]) => Calm(tree, new[j])
                        BY <1>6, <1>8
                  <4>8. QED
                        BY <1>2, <1>6, <2>2, <4>1, <4>5, <4>6, <4>7 DEF Elsewhere
            <3>4. \E j \in 1..Len(new) : new[j] \in {Build(s[1].n), Switch(s[1].n)}
                  BY <3>2
            <3>5. PICK w : w = v
                  OBVIOUS
            <3>6. s[1].do # "elsejump" /\ v \subseteq w
                  BY <3>1, <3>5
            <3>7. /\ Left(p) \in w => Left(p) \in v
                  /\ Right(p) \in w => Right(p) \in v \/ Right(p) \in d
                  BY <3>5
            <3>8. IfStays(v, s[1], new)
                  BY <3>4 DEF IfStays
            <3>9. Course(tree, w, d, u, Left(p), Right(p))
                  BY <1>6, <1>9, <3>3, <3>6, <3>7, <3>8, CourseElsewhere
            <3>10. QED
                  BY <3>5, <3>9
      <2>3. QED
            BY <2>1, <2>2
<1>10. QED
       BY <1>5, <1>7, <1>9 DEF Courses

(* Building a node keeps the invariant.                                    *)
LEMMA BuildNodeJump ==
  ASSUME WellFormed(tree), JumpInv, Inv', BuildNode
  PROVE  JumpInv'
<1>1. PICK n : n = Next1.n
      OBVIOUS
<1>2. /\ todo # <<>> /\ Next1.do = "build" /\ ~Missing(tree, n)
      /\ UNCHANGED <<tree, visited, else_label, irlist, labelnum, crashed>>
      BY <1>1 DEF BuildNode, Doing, IsNull, At, Missing, counters
<1>3. PICK new : Then(new) /\ BuildItems(n, new)
      BY <1>1, BuildBrings
<1>4. /\ Jumping /\ labelnum \in Nat /\ IsPath(tree, n) /\ Next1 = Build(n) /\ ~crashed
      /\ IsSequence(irlist) /\ IsSequence(new)
      BY <1>1, <1>2, <1>3, NextProper DEF Jumping, Proper, BuildItems
<1>5. /\ AllProper(tree, visited', new)
      /\ Courses(tree, visited', DOMAIN else_label, todo')
      BY <1>1, <1>2, <1>3, BuildCourses
<1>6. Brings(<<>>, new, new) /\ Append_ir_nodes(<<>>) /\ IsSequence(<<>>)
      BY <1>2, <1>4, NothingEmitted, ListStays, EmptySequence DEF Brings
<1>7. Replaces(tree, else_label, visited, visited', Next1, new, new, labelnum, labelnum')
      BY <1>2, <1>3, <1>4, BuildLabels
<1>8. visited \subseteq visited' /\ labelnum' \in Nat /\ labelnum <= labelnum'
      BY <1>2, <1>4
<1>9. Jumping'
      BY <1>2, <1>3, <1>4, <1>5, <1>6, <1>7, <1>8, JumpingStep
<1>10. QED
       BY <1>2, <1>4, <1>9 DEF JumpInv

-----------------------------------------------------------------------------
(* The theorem.                                                            *)

(* The invariant holds when the tree is about to be built.                 *)
LEMMA InitJump ==
  ASSUME Init
  PROVE  JumpInv
<1>1. PICK a : a = Build(<<>>)
      OBVIOUS
<1>2. /\ todo = <<a>> /\ irlist = <<>> /\ visited = {} /\ DOMAIN else_label = {}
      /\ labelnum = 0 /\ crashed = FALSE
      BY <1>1 DEF Init, Start
<1>3. a.do = "build" /\ a.n = <<>>
      BY <1>1 DEF Build
<1>4. IsSequence(todo) /\ 1 = Len(todo) /\ \A i \in 1..Len(todo) : i = 1 /\ todo[i] = a
      BY <1>2, SequenceOne
<1>5. Line = todo
      BY <1>2, <1>4, NothingEmitted DEF Line
<1>6. AllProper(tree, visited, todo)
      <2>1. IsPath(tree, <<>>)
            <3>1. <<>> \in Seq({"L", "R"}) /\ \A k \in 0..(Len(<<>>) - 1) : FALSE
                  OBVIOUS
            <3>2. QED
                  BY <3>1 DEF IsPath
      <2>2. Proper(tree, visited, a)
            BY <1>1, <1>3, <2>1 DEF Proper
      <2>3. QED
            BY <1>4, <2>2 DEF AllProper
<1>7. Courses(tree, visited, DOMAIN else_label, todo)
      <2>1. SUFFICES ASSUME NEW p \in Seq(Steps), IfElse(tree, p)
                     PROVE  Course(tree, visited, DOMAIN else_label, todo, Left(p), Right(p))
            BY DEF Courses
      <2>2. <<>> # Left(p) /\ <<>> # Right(p)
            <3>1. "L" \in Steps /\ "R" \in Steps
                  BY DEF Steps
            <3>2. \A d \in Steps : Append(p, d) # <<>>
                  BY <2>1, AppendProperties
            <3>3. QED
                  BY <3>1, <3>2 DEF Left, Right
      <2>3. \A m : Build(m).n = m /\ Switch(m).do = "switch" /\ ElseJump(m).do = "elsejump"
            BY DEF Build, Switch, ElseJump
      <2>4. \A m \in {Left(p), Right(p)} : a \notin {Build(m), Switch(m), ElseJump(m)}
            BY <1>3, <2>2, <2>3
      <2>5. \A i \in 1..Len(todo) : /\ todo[i] \notin {Build(Left(p)), Switch(Left(p))}
                                    /\ todo[i] \notin {Build(Right(p)), Switch(Right(p))}
                                    /\ todo[i] # ElseJump(Left(p))
            BY <1>4, <2>4
      <2>6. QED
            BY <1>2, <2>5 DEF Course
<1>8. ElseLabels(tree, else_label, visited, todo, Line, labelnum)
      BY <1>2 DEF ElseLabels
<1>9. Numbered(tree, else_label, Line, labelnum)
      <2>1. ASSUME NEW l, Owns(tree, else_label, a, l) \/ Jumps(a, l)
            PROVE  l[2] = -1
            BY <1>3, <2>1 DEF Owns, Places, Jumps, Declares, func_label, NOSERIAL
      <2>2. -1 \in Int /\ -1 < 0
            OBVIOUS
      <2>3. QED
            BY <1>2, <1>4, <1>5, <2>1, <2>2 DEF Numbered
<1>10. OneOwner(tree, else_label, Line)
       BY <1>4, <1>5 DEF OneOwner
<1>11. Landing(tree, else_label, visited, Line)
       <2>1. \A l : ~Jumps(a, l)
             BY <1>3 DEF Jumps
       <2>2. QED
             BY <1>4, <1>5, <2>1 DEF Landing
<1>12. QED
       BY <1>2, <1>6, <1>7, <1>8, <1>9, <1>10, <1>11, InitInv DEF JumpInv, Jumping

(* A crash leaves nothing to do.                                           *)
LEMMA CrashInReturnJump ==
  ASSUME JumpInv, Inv', CrashInReturn
  PROVE  JumpInv'
BY DEF CrashInReturn, JumpInv

(* A step that changes nothing keeps the invariant.                        *)
LEMMA StutterJump ==
  ASSUME JumpInv, UNCHANGED vars
  PROVE  JumpInv'
<1>1. Inv'
      BY StepInv DEF JumpInv
<1>2. /\ tree' = tree /\ todo' = todo /\ visited' = visited /\ else_label' = else_label
      /\ irlist' = irlist /\ labelnum' = labelnum /\ crashed' = crashed
      BY DEF vars
<1>3. Line' = Line
      BY <1>2 DEF Line
<1>4. Jumping => Jumping'
      BY <1>2, <1>3 DEF Jumping
<1>5. QED
      BY <1>1, <1>2, <1>4 DEF JumpInv

(* Every step keeps the invariant.                                         *)
LEMMA StepJump ==
  ASSUME WellFormed(tree), JumpInv, [Next]_vars
  PROVE  JumpInv'
<1>1. CASE UNCHANGED vars
      BY <1>1, StutterJump
<1>2. CASE Next
      <2>1. Inv'
            BY StepInv DEF JumpInv
      <2>2. CASE build_ir
            BY <2>1, <2>2, BuildNullJump, BuildNodeJump, SwitchFunctionSpecJump, SwitchIfJump,
               DoElseJumpJump, SwitchElseJump, DoElseEndJump, SwitchWhileJump, SwitchForJump,
               DoForTestJump, SwitchOtherJump, DoEmitJump, DoDropJump, DoBranchJump DEF build_ir
      <2>3. CASE generate_ir_node
            BY <2>1, <2>3, DoDropJump, GenerateReturnJump, DoReturnJump, CrashInReturnJump,
               GenerateCallJump, GenerateNumberJump, GenerateUnaryJump, GenerateBinaryJump,
               OperateJump, GenerateLogicalJump, DoTruthJump DEF generate_ir_node
      <2>4. QED
            BY <1>2, <2>2, <2>3 DEF Next
<1>3. QED
      BY <1>1, <1>2

(* No step changes the tree.                                               *)
LEMMA StepWellFormed ==
  ASSUME [Next]_vars
  PROVE  (WellFormed(tree))' <=> WellFormed(tree)
<1>1. tree' = tree
      BY DEF Next, vars, build_ir, generate_ir_node, BuildNull, BuildNode, SwitchFunctionSpec,
         SwitchIf, DoElseJump, SwitchElse, DoElseEnd, SwitchWhile, SwitchFor, DoForTest,
         SwitchOther, DoEmit, DoDrop, DoBranch, GenerateVisited, GenerateReturn, DoReturn,
         CrashInReturn, GenerateCall, GenerateList, GenerateNumber, GenerateIdentifier,
         GenerateUnary, DoIncrement, GenerateAssignment, DoStore, GenerateLogical, DoTruth,
         GenerateOperator, DoOperate, DoParam
<1>2. QED
      BY <1>1

(* When nothing is left to do, the line is the list.                       *)
LEMMA JumpInvLands ==
  ASSUME JumpInv, Finished
  PROVE  JumpsLand
<1>1. Inv /\ Jumping /\ todo = <<>>
      BY DEF JumpInv, Finished
<1>2. IsSequence(irlist)
      BY <1>1 DEF Inv
<1>3. Line = Emits(irlist)
      BY <1>1, <1>2, NothingLeft DEF Line
<1>4. PICK m : m = Len(irlist)
      OBVIOUS
<1>5. m = Len(Line) /\ \A i \in 1..m : Line[i] = Emit(irlist[i])
      BY <1>2, <1>3, <1>4, EmitsItems
<1>6. m \in Nat
      BY <1>2, <1>4, EmitsItems
<1>7. Nodes = 1..m
      BY <1>4 DEF Nodes
<1>8. \A irn : Emit(irn).do = "emit" /\ Emit(irn).irn = irn
      BY DEF Emit
<1>9. ASSUME NEW i \in 1..m
      PROVE  /\ IsLabel(i) => Owns(tree, else_label, Line[i], irlist[i].operand[1].data)
             /\ IsJump(i) => Jumps(Line[i], Target(i))
             /\ Calm(tree, Line[i]) => irlist[i].opcode # "FUNCTIONSTART"
             /\ \A l : ~Awaits(else_label, visited, Line[i], l)
             /\ \A l : Places(else_label, Line[i], l) =>
                  IsLabel(i) /\ irlist[i].operand[1].data = l
      BY <1>5, <1>8 DEF IsLabel, IsJump, Target, Owns, Places, LabelsIt, Jumps, JumpsToIt, Calm,
         Awaits
<1>10. ASSUME NEW i \in 1..m, NEW j \in 1..m, IsLabel(i), IsLabel(j),
              irlist[i].operand[1] = irlist[j].operand[1]
       PROVE  i = j
       <2>1. PICK l : l = irlist[i].operand[1].data
             OBVIOUS
       <2>2. Owns(tree, else_label, Line[i], l) /\ Owns(tree, else_label, Line[j], l)
             BY <1>9, <1>10, <2>1
       <2>3. QED
             BY <1>1, <1>5, <2>2 DEF Jumping, OneOwner
<1>11. ASSUME NEW i \in 1..m, IsJump(i)
       PROVE  \E j \in 1..m : /\ IsLabel(j) /\ irlist[j].operand[1].data = Target(i)
                              /\ \A k \in 1..m : irlist[k].opcode = "FUNCTIONSTART" =>
                                   ~(i < k /\ k < j) /\ ~(j < k /\ k < i)
       <2>1. PICK l : l = Target(i)
             OBVIOUS
       <2>2. Jumps(Line[i], l)
             BY <1>9, <1>11, <2>1
       <2>3. PICK j \in 1..m :
               /\ Places(else_label, Line[j], l) \/ Awaits(else_label, visited, Line[j], l)
               /\ CalmFrom(tree, Line, i, j)
             BY <1>1, <1>5, <2>2 DEF Jumping, Landing
       <2>4. IsLabel(j) /\ irlist[j].operand[1].data = l
             BY <1>9, <2>3
       <2>5. ASSUME NEW k \in 1..m, irlist[k].opcode = "FUNCTIONSTART"
             PROVE  ~(i < k /\ k < j) /\ ~(j < k /\ k < i)
             <3>1. ~((i <= k /\ k <= j) \/ (j <= k /\ k <= i))
                   BY <1>5, <1>9, <2>3, <2>5 DEF CalmFrom
             <3>2. QED
                   BY <1>6, <3>1
       <2>6. QED
             BY <2>1, <2>4, <2>5
<1>12. QED
       BY <1>7, <1>10, <1>11 DEF JumpsLand

(***************************************************************************)
(* In a well-formed program, whatever the statements nested in it, every   *)
(* label is placed once and every jump finds its label in its own          *)
(* function, although the body of a loop or an if is built by the switch   *)
(* and met once more by build_ir (irnode.c:294).                           *)
(***************************************************************************)
THEOREM EachJumpLands == Spec => [](WellFormed(tree) => JumpsLand)
<1>1. Init => (WellFormed(tree) => JumpInv)
      BY InitJump
<1>2. (WellFormed(tree) => JumpInv) /\ [Next]_vars => (WellFormed(tree) => JumpInv)'
      BY StepJump, StepWellFormed
<1>3. (WellFormed(tree) => JumpInv) => (WellFormed(tree) => JumpsLand)
      BY JumpInvLands DEF JumpsLand
<1>4. QED
      BY <1>1, <1>2, <1>3, PTL DEF Spec

-----------------------------------------------------------------------------
(* The types.                                                              *)

(* The numbers that may be on vals.                                        *)
Numbers == Special \cup {0} \cup 0..(registernum - 1)

(* What TypeOK says, also in the middle of a step that makes an else.      *)
TypeInv ==
  /\ JumpInv
  /\ tree.subtype = "FILESCOPE"
  /\ vals \in Seq(Numbers)
  /\ \A n \in visited : ~IsNull(n)
  /\ \A n \in DOMAIN else_label : At(n).subtype = "ELSE_STMT"
  /\ labelnum \in Nat /\ crashed \in BOOLEAN

(* A register number that was allowed stays allowed.                       *)
LEMMA Widened ==
  ASSUME NEW S, NEW W, S \subseteq W, NEW s \in Seq(S)
  PROVE  s \in Seq(W)
<1>1. s \in [1..Len(s) -> W] /\ Len(s) \in Nat
      OBVIOUS
<1>2. QED
      BY <1>1

(* Values are taken off vals, as many as there may be.                     *)
LEMMA Shortened ==
  ASSUME NEW S, NEW s \in Seq(S), NEW k \in Nat
  PROVE  SubSeq(s, 1, Len(s) - k) \in Seq(S)
<1>1. Len(s) \in Nat /\ \A i \in 1..(Len(s) - k) : i \in 1..Len(s) /\ s[i] \in S
      OBVIOUS
<1>2. QED
      BY <1>1, SubSeqProperties

(* Every number that is put on vals is a known one.                        *)
LEMMA StepNumbers ==
  ASSUME registernum \in Nat, vals \in Seq(Numbers), [Next]_vars
  PROVE  vals' \in Seq(Numbers')
<1>1. PICK S, W : S = Numbers /\ W = Numbers'
      OBVIOUS
<1>2. vals \in Seq(S) /\ Drop1 \in Seq(S) /\ Drop2 \in Seq(S)
      <2>1. vals \in Seq(S) /\ 1 \in Nat /\ 2 \in Nat
            BY <1>1
      <2>2. QED
            BY <2>1, Shortened DEF Drop1, Drop2
<1>3. ASSUME registernum' \in Nat, registernum <= registernum' PROVE S \subseteq W
      BY <1>1, <1>3 DEF Numbers
<1>4. /\ NOREGISTER \in S /\ REGISTERV0 \in S /\ 0 \in S
      /\ registernum - 1 \in S
      BY <1>1 DEF Numbers, Special, NOREGISTER
<1>5. CASE UNCHANGED <<vals, registernum>>
      BY <1>1, <1>2, <1>5 DEF Numbers
<1>6. ASSUME UNCHANGED registernum, vals' = Drop1 PROVE vals' \in Seq(W)
      BY <1>1, <1>2, <1>6 DEF Numbers
<1>7. ASSUME UNCHANGED registernum, NEW s \in Seq(S), NEW v \in S, vals' = Append(s, v)
      PROVE  vals' \in Seq(W)
      <2>1. S = W
            BY <1>1, <1>7 DEF Numbers
      <2>2. QED
            BY <1>7, <2>1
<1>8. ASSUME NEW m \in Nat, m >= 1, registernum' = registernum + m, NEW s \in Seq(S),
             NEW v \in registernum..(registernum' - 1), vals' = Append(s, v)
      PROVE  vals' \in Seq(W)
      <2>1. v \in W /\ S \subseteq W
            BY <1>1, <1>3, <1>8 DEF Numbers
      <2>2. s \in Seq(W)
            BY <2>1, Widened
      <2>3. QED
            BY <1>8, <2>1, <2>2
<1>9. ASSUME NEW s \in Seq(S), registernum' = registernum + 1, vals' = Append(s, registernum)
      PROVE  vals' \in Seq(W)
      <2>1. 1 \in Nat /\ 1 >= 1 /\ registernum \in registernum..(registernum' - 1)
            BY <1>9
      <2>2. QED
            BY <1>8, <1>9, <2>1
<1>10. CASE DoDrop \/ DoBranch
       BY <1>1, <1>6, <1>10 DEF DoDrop, DoBranch, counters
<1>11. CASE GenerateVisited \/ GenerateCall \/ GenerateList
       BY <1>1, <1>2, <1>4, <1>7, <1>11 DEF GenerateVisited, GenerateCall, GenerateList,
          Uninitialised, counters
<1>12. CASE DoReturn \/ DoIncrement \/ DoStore
       BY <1>1, <1>2, <1>4, <1>7, <1>12 DEF DoReturn, DoIncrement, DoStore, counters
<1>13. CASE GenerateNumber \/ DoTruth \/ DoOperate
       BY <1>1, <1>2, <1>9, <1>13 DEF GenerateNumber, DoTruth, DoOperate
<1>14. CASE GenerateIdentifier
       <2>1. PICK m \in {1, 2} : /\ registernum' = registernum + m
                                 /\ vals' = Append(vals, registernum + m - 1)
             BY <1>14 DEF GenerateIdentifier
       <2>2. m \in Nat /\ m >= 1 /\ registernum + m - 1 \in registernum..(registernum' - 1)
             BY <2>1
       <2>3. QED
             BY <1>1, <1>2, <1>8, <2>1, <2>2
<1>15. CASE UNCHANGED vars
       BY <1>5, <1>15 DEF vars
<1>16. CASE build_ir /\ ~(DoDrop \/ DoBranch)
       BY <1>5, <1>16 DEF build_ir, BuildNull, BuildNode, SwitchFunctionSpec, SwitchIf, DoElseJump,
          SwitchElse, DoElseEnd, SwitchWhile, SwitchFor, DoForTest, SwitchOther, DoEmit, counters
<1>17. CASE GenerateReturn \/ CrashInReturn \/ GenerateUnary \/ GenerateAssignment
            \/ GenerateLogical \/ GenerateOperator \/ DoParam
       BY <1>5, <1>17 DEF GenerateReturn, CrashInReturn, GenerateUnary, GenerateAssignment,
          GenerateLogical, GenerateOperator, DoParam, counters
<1>18. QED
       BY <1>10, <1>11, <1>12, <1>13, <1>14, <1>15, <1>16, <1>17 DEF Next, generate_ir_node

(* What is visited is a node, and what gets a label is an else.            *)
LEMMA StepMarks ==
  ASSUME WellFormed(tree), TypeInv, [Next]_vars
  PROVE  /\ \A n \in visited' : ~IsNull(n)'
         /\ \A n \in DOMAIN else_label' : At(n)'.subtype = "ELSE_STMT"
         /\ crashed' \in BOOLEAN
<1>1. /\ \A n \in visited : ~IsNull(n)
      /\ \A n \in DOMAIN else_label : At(n).subtype = "ELSE_STMT"
      /\ crashed \in BOOLEAN /\ JumpInv
      BY DEF TypeInv
<1>2. ASSUME tree' = tree PROVE \A n : At(n)' = At(n) /\ (IsNull(n)' <=> IsNull(n))
      BY <1>2 DEF At, IsNull
<1>3. CASE UNCHANGED <<tree, visited, else_label, crashed>>
      BY <1>1, <1>2, <1>3
<1>4. \A n : /\ At(n).subtype \in {"IF_STMT", "ELSE_STMT"} => ~IsNull(n)
             /\ At(n).type \in {"STMT", "LIST", "NUMBER", "IDENTIFIER", "UNARY_OP", "BINARY_OP"}
                  => ~IsNull(n)
      BY DEF IsNull, NULL
<1>5. ASSUME NEW n, ~IsNull(n), visited' = visited \cup {n}, UNCHANGED <<tree, else_label, crashed>>
      PROVE  /\ \A m \in visited' : ~IsNull(m)'
             /\ \A m \in DOMAIN else_label' : At(m)'.subtype = "ELSE_STMT"
             /\ crashed' \in BOOLEAN
      BY <1>1, <1>2, <1>5
<1>6. CASE SwitchIf \/ SwitchElse
      <2>1. /\ At(Next1.n).subtype \in {"IF_STMT", "ELSE_STMT"}
            /\ visited' = visited \cup {Next1.n} /\ UNCHANGED <<tree, else_label, crashed>>
            BY <1>6 DEF SwitchIf, SwitchElse, counters
      <2>2. QED
            BY <1>4, <1>5, <2>1
<1>7. CASE GenerateReturn \/ GenerateCall \/ GenerateList \/ GenerateNumber \/ GenerateIdentifier
           \/ GenerateUnary \/ GenerateAssignment \/ GenerateLogical \/ GenerateOperator
      <2>1. /\ At(Next1.n).type
                 \in {"STMT", "LIST", "NUMBER", "IDENTIFIER", "UNARY_OP", "BINARY_OP"}
            /\ visited' = visited \cup {Next1.n} /\ UNCHANGED <<tree, else_label, crashed>>
            BY <1>7 DEF GenerateReturn, GenerateCall, GenerateList, GenerateNumber,
               GenerateIdentifier, GenerateUnary, GenerateAssignment, GenerateLogical,
               GenerateOperator, Generating, counters
      <2>2. QED
            BY <1>4, <1>5, <2>1
<1>8. CASE DoElseJump
      <2>1. PICK n, p : n = Next1.n /\ p = Parent(n)
            OBVIOUS
      <2>2. /\ todo # <<>> /\ Next1.do = "elsejump" /\ UNCHANGED <<tree, visited, crashed>>
            /\ DOMAIN else_label' = DOMAIN else_label \cup {Right(p)}
            BY <1>8, <2>1 DEF DoElseJump, Doing
      <2>3. /\ IsPath(tree, n) /\ NodeAt(tree, n).subtype = "IF_STMT"
            /\ NodeAt(tree, p).subtype = "IF_ELSE_STMT"
            BY <1>1, <2>1, <2>2, NextProper DEF Proper
      <2>4. IfElse(tree, p)
            BY <2>1, <2>3, Parents DEF IfElse
      <2>5. At(Right(p)).subtype = "ELSE_STMT"
            BY <2>4, IfAndElse DEF At
      <2>6. QED
            BY <1>1, <1>2, <2>2, <2>5
<1>9. CASE CrashInReturn
      BY <1>1, <1>2, <1>9 DEF CrashInReturn, counters
<1>10. CASE UNCHANGED vars
       BY <1>3, <1>10 DEF vars
<1>11. CASE build_ir /\ ~(SwitchIf \/ SwitchElse \/ DoElseJump)
       BY <1>3, <1>11 DEF build_ir, BuildNull, BuildNode, SwitchFunctionSpec, DoElseEnd, SwitchWhile,
          SwitchFor, DoForTest, SwitchOther, DoEmit, DoDrop, DoBranch, counters
<1>12. CASE GenerateVisited \/ DoReturn \/ DoIncrement \/ DoStore \/ DoTruth \/ DoOperate \/ DoParam
       BY <1>3, <1>12 DEF GenerateVisited, DoReturn, DoIncrement, DoStore, DoTruth, DoOperate,
          DoParam, counters
<1>13. QED
       BY <1>6, <1>7, <1>8, <1>9, <1>10, <1>11, <1>12 DEF Next, generate_ir_node

(* The labels are numbered, whether the compiler stopped or not.           *)
LEMMA StepLabels ==
  ASSUME labelnum \in Nat, [Next]_vars
  PROVE  labelnum' \in Nat
<1>1. \/ labelnum' = labelnum \/ labelnum' = labelnum + 1 \/ labelnum' = labelnum + 2
      \/ labelnum' = labelnum + 3
      BY DEF Next, vars, counters, build_ir, generate_ir_node, BuildNull, BuildNode,
         SwitchFunctionSpec, SwitchIf, DoElseJump, SwitchElse, DoElseEnd, SwitchWhile, SwitchFor,
         DoForTest, SwitchOther, DoEmit, DoDrop, DoBranch, GenerateVisited, GenerateReturn,
         DoReturn, CrashInReturn, GenerateCall, GenerateList, GenerateNumber, GenerateIdentifier,
         GenerateUnary, DoIncrement, GenerateAssignment, DoStore, GenerateLogical, DoTruth,
         GenerateOperator, DoOperate, DoParam
<1>2. QED
      BY <1>1

(* A step keeps all of it.                                                 *)
LEMMA StepType ==
  ASSUME WellFormed(tree), TypeInv, [Next]_vars
  PROVE  TypeInv'
<1>1. JumpInv' /\ WellFormed(tree)'
      BY StepJump, StepWellFormed DEF TypeInv
<1>2. vals' \in Seq(Numbers')
      <2>1. registernum \in Nat /\ vals \in Seq(Numbers)
            BY DEF TypeInv, JumpInv, Inv
      <2>2. QED
            BY <2>1, StepNumbers
<1>3. /\ \A n \in visited' : ~IsNull(n)'
      /\ \A n \in DOMAIN else_label' : At(n)'.subtype = "ELSE_STMT"
      /\ crashed' \in BOOLEAN
      BY StepMarks
<1>4. labelnum' \in Nat
      BY StepLabels DEF TypeInv
<1>5. QED
      BY <1>1, <1>2, <1>3, <1>4 DEF TypeInv, WellFormed

(***************************************************************************)
(* In a well-formed program a value that generate_ir_node returned is a    *)
(* register that was numbered, one of the special ones or the 0 of an      *)
(* assignment (irnode.c:455); nothing is visited that is not there; and    *)
(* the label of a jump over an else is kept in an ELSE node and nowhere    *)
(* else.                                                                   *)
(***************************************************************************)
THEOREM TypeCorrect == Spec => [](WellFormed(tree) => TypeOK)
<1>1. Init => (WellFormed(tree) => TypeInv)
      <2>1. ASSUME Init, WellFormed(tree) PROVE TypeInv
            <3>1. /\ vals = <<>> /\ visited = {} /\ DOMAIN else_label = {} /\ labelnum = 0
                  /\ crashed = FALSE
                  BY <2>1 DEF Init, Start
            <3>2. <<>> \in Seq(Numbers)
                  OBVIOUS
            <3>3. JumpInv /\ tree.subtype = "FILESCOPE"
                  BY <2>1, InitJump DEF WellFormed
            <3>4. QED
                  BY <3>1, <3>2, <3>3 DEF TypeInv
      <2>2. QED
            BY <2>1
<1>2. (WellFormed(tree) => TypeInv) /\ [Next]_vars => (WellFormed(tree) => TypeInv)'
      BY StepType, StepWellFormed
<1>3. (WellFormed(tree) => TypeInv) => (WellFormed(tree) => TypeOK)
      BY DEF TypeInv, TypeOK, JumpInv, Inv, Numbers
<1>4. QED
      BY <1>1, <1>2, <1>3, PTL DEF Spec
=============================================================================
