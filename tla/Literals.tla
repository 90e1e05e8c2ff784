------------------------------ MODULE Literals ------------------------------
(***************************************************************************)
(* What the constants of C mean, and that Lexer reads them so.             *)
(***************************************************************************)
EXTENDS Lexer

(* octalescape of lex.l, \\([0-7]{1,2}|[0-3][0-7]{2}): how many digits s   *)
(* has in one at its start, and how many there can be.                     *)
Octals == 48..55
Room(s) == IF s[2] \in 48..51 THEN 3 ELSE 2
OctalLength(s) ==
  CHOOSE k \in 0..Room(s) : /\ \A j \in 1..k : s[j + 1] \in Octals
                            /\ k < Room(s) => s[k + 2] \notin Octals

After(s, k) == SubSeq(s, k + 1, Len(s))

RECURSIVE Contents(_), HasEights(_)

(* What a string means by those patterns.  An escape that they do not have *)
(* stands for itself.                                                      *)
Contents(s) ==
  CASE s = <<>> -> <<>>
    [] s # <<>> /\ s[1] = QUOTE -> Contents(Tail(s))
    [] s # <<>> /\ s[1] \notin {QUOTE, SLASH} -> <<s[1]>> \o Contents(Tail(s))
    [] OTHER ->
         LET k == OctalLength(s)
             value == (IF k > 2 THEN 64 * (s[k - 1] - 48) ELSE 0)
                      + (IF k > 1 THEN 8 * (s[k] - 48) ELSE 0) + s[k + 1] - 48
         IN IF k > 0 THEN <<AsChar(value)>> \o Contents(After(s, k + 1))
            ELSE IF IsEscape(s[2]) THEN <<EscapeOf(s[2])>> \o Contents(After(s, 2))
                 ELSE <<SLASH>> \o Contents(Tail(s))

(* An 8 or 9 comes where an escape could have had another octal digit.     *)
HasEights(s) ==
  CASE s = <<>> -> FALSE
    [] s # <<>> /\ s[1] # SLASH -> HasEights(Tail(s))
    [] OTHER ->
         LET k == OctalLength(s)
         IN \/ k < Room(s) /\ s[k + 2] \in {56, 57}
            \/ HasEights(After(s, IF k = 0 THEN 2 ELSE k + 1))

(* The loop decodes strings by the lexer's own patterns: at each turn what *)
(* it has written, with what the rest of the text means, is what the text  *)
(* means.  Only an 8 or 9 after too few octal digits is swallowed.         *)
StringDecodes ==
  IsString => IF HasEights(text) THEN done => Len(str) < Len(Contents(text))
              ELSE str \o Contents(From(sp1)) = Contents(text)

(* A character constant has the value that the character has in a string,  *)
(* as long as that is not negative; from '\200' on the two differ.         *)
SameCharacter ==
  (text[1] = APOSTROPHE /\ done) =>
    LET character == Contents(From(2))[1]
    IN yylval = character <=> character >= 0

(* A number that fits in an int is read right.  One that does not is made  *)
(* negative, never another positive number, where int is as wide as long.  *)
(* A number with a leading zero is not read as octal: it is right only     *)
(* with one digit after the zeros.                                         *)
ValueOf(s, base) ==
  LET n[k \in 0..Len(s)] == IF k = 0 THEN 0 ELSE base * n[k - 1] + s[k] - 48
  IN n[Len(s)]
NumberExact ==
  (text[1] \in Digits /\ done) =>
    LET octal   == text[1] = 48 /\ \A k \in DOMAIN text : text[k] \in Octals
        decimal == text[1] # 48
    IN /\ decimal /\ ValueOf(text, 10) < 2^(IntBits - 1) => yylval = ValueOf(text, 10)
       /\ decimal /\ ValueOf(text, 10) >= 2^(IntBits - 1) /\ LongBits = IntBits => yylval < 0
       /\ octal => (yylval = ValueOf(text, 8) <=> ValueOf(text, 8) < 8)
=============================================================================
