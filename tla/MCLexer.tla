------------------------------- MODULE MCLexer -------------------------------
(***************************************************************************)
(* Texts for Lexer: every string of up to five characters that the pattern *)
(* of a string matches, every number of up to four digits, and the         *)
(* character constants with an escape.  int and long are equally wide, as  *)
(* they are where yylval, an int, can hold the pointers that it holds.     *)
(***************************************************************************)
EXTENDS Literals

(* backslash, quote, n, z, 1, 3, 4, 8                                      *)
Alphabet == {92, 34, 110, 122, 49, 51, 52, 56}

(* ([^\"\\\n]|\\.)*                                                        *)
Inside(s) ==
  LET ends[k \in 0..Len(s)] ==   \* The first k characters match.
        \/ k = 0
        \/ ends[k - 1] /\ s[k] \notin {QUOTE, SLASH}
        \/ k > 1 /\ s[k - 1] = SLASH /\ ends[k - 2]
  IN ends[Len(s)]

Quoted(s, q) == <<q>> \o s \o <<q>>
Seqs(chars, n) == UNION {[1..k -> chars] : k \in 0..n}
Strings == {Quoted(s, QUOTE) : s \in {s \in Seqs(Alphabet, 5) : Inside(s)}}
Numbers == Seqs({48, 49, 55, 57}, 4) \ {<<>>}

(* escapedchar and singlechar                                              *)
Characters ==
  {Quoted(<<c>>, APOSTROPHE) : c \in {97, 122}}
  \cup {Quoted(<<SLASH, e[1]>>, APOSTROPHE) : e \in Escapes}
  \cup {Quoted(<<SLASH>> \o s, APOSTROPHE) :
          s \in (Seqs(Octals, 2) \ {<<>>}) \cup {s \in [1..3 -> Octals] : s[1] <= 51}}

MCTexts == Strings \cup Numbers \cup Characters
=============================================================================
