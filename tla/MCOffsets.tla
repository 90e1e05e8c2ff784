----------------------------- MODULE MCOffsets ------------------------------
(***************************************************************************)
(* Layout of one or two functions with at most two parameters and locals,  *)
(* with blocks in them and blocks in those.                                *)
(***************************************************************************)
EXTENDS Offsets

Table(symbols, children) == [symbols |-> symbols, children |-> children]
Symbol(type, dims)       == [type |-> type, dims |-> dims]

Char    == Symbol({"CHAR"}, <<>>)
Int4    == Symbol({"INT"}, <<>>)
Chars   == Symbol({"CHAR"}, <<3>>)
Shorts  == Symbol({"SHORT", "INT"}, <<2, 3>>)
NoSize  == Symbol({"UNSIGNED"}, <<>>)
Nothing == Symbol({"CHAR"}, <<0>>)

Few(kinds, n) == UNION {[1..k -> kinds] : k \in 0..n}

(* Tables with no block in them, and tables with at most two such blocks.  *)
Leaves == {Table(s, <<>>) : s \in Few({Char, Int4, Shorts, NoSize}, 1)
                                  \cup {<<Char, Int4>>, <<Chars, Char>>, <<NoSize, Int4>>,
                                        <<Nothing, NoSize>>}}
Blocks == {Table(s, c) : s \in Few({Char, Int4}, 1), c \in Few(Leaves, 1)}

Function(kinds, children) ==
  {Table(s, c) : s \in Few(kinds, 2), c \in children}

File(functions) == Table(<<>>, functions)

(* The paths in a nested table, and the tree with a table for each.        *)
RECURSIVE Paths(_)
Paths(t) ==
  {<<>>} \cup UNION {{<<k>> \o p : p \in Paths(t.children[k])} : k \in DOMAIN t.children}

RECURSIVE At(_, _)
At(t, path) == IF path = <<>> THEN t ELSE At(t.children[Head(path)], Tail(path))

Tree(t) ==
  [p \in Paths(t) |-> [symbols |-> At(t, p).symbols, children |-> Len(At(t, p).children)]]

(* Two calls may find different garbage, of different signs, or a zero.    *)
MCGarbage == {-4, 0, 3}

Files ==
  {File(<<f>>) : f \in Function({Char, Int4, Chars, NoSize}, Few(Leaves, 2))
                          \cup Function({Char, Int4}, Few(Blocks, 1))}
  \cup {File(<<f, f>>) : f \in Function({Char, Int4}, Few(Leaves, 1))}

MCTrees == {Tree(f) : f \in Files}

(* A block in a block, with nothing in it that takes its size from garbage.*)
DeepTrees ==
  {Tree(File(<<f>>)) : f \in Function({Int4}, {<<Table(<<Int4>>, <<Table(<<Char>>, <<>>)>>)>>})}
=============================================================================
