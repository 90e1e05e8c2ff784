-------------------------------- MODULE Lexer --------------------------------
(***************************************************************************)
(* The values of constants (create_number and create_string in lex.l): the *)
(* text that a pattern matched is made into an int, or into a string with  *)
(* the escapes in it replaced.  A character is its code.  create_string is *)
(* a loop over the text; each turn of it is a step here.  What flex does   *)
(* to find a text that matches is not modelled, and an identifier keeps    *)
(* its text.                                                               *)
(***************************************************************************)
EXTENDS Integers, Sequences

CONSTANTS
  Texts,     (* What is matched: strings, characters and numbers, quotes    *)
             (* included, by the patterns of lex.l.                         *)
  IntBits,   (* The width of int,                                           *)
  LongBits   (* and of unsigned long.                                       *)

ASSUME WidthAssumption ==
  IntBits \in Nat \ {0} /\ LongBits \in Nat /\ LongBits >= IntBits

(* A string has two quotes and ends with one.                              *)
ASSUME TextAssumption ==
  \A t \in Texts : /\ t \in Seq(1..127) /\ t # <<>>
                   /\ t[1] = 34 => Len(t) > 1 /\ t[Len(t)] = 34

VARIABLES
  text,    (* yytext                                                       *)
  sp1,     (* Where in the text the loop is.                               *)
  str,     (* What it has written.                                         *)
  yylval,  (* The int that is made of a number or character constant.      *)
  done     (* The value was returned.                                      *)

vars == <<text, sp1, str, yylval, done>>

QUOTE == 34
APOSTROPHE == 39
SLASH == 92
Digits   == 48..57
IsString == text[1] = QUOTE

(* The characters that an escape can name, and their codes.                *)
Escapes == {<<110, 10>>, <<116, 9>>, <<98, 8>>, <<114, 13>>, <<102, 12>>, <<118, 11>>,
            <<92, 92>>, <<39, 39>>, <<34, 34>>, <<63, 63>>, <<97, 7>>}
IsEscape(c)  == \E e \in Escapes : e[1] = c
EscapeOf(c)  == (CHOOSE e \in Escapes : e[1] = c)[2]

(* A value kept in that many bits, signed.                                 *)
Signed(n, bits) == ((n + 2^(bits - 1)) % 2^bits) - 2^(bits - 1)
Unsigned(n)     == n   (* Mutant: the byte is not made a signed char.       *)
AsChar(n)       == Signed(n, 8)

-----------------------------------------------------------------------------
(* strtoul: the digits of the base at the start, however few.              *)

DigitsOf(s, base) ==
  CHOOSE k \in 0..Len(s) : /\ \A j \in 1..k : s[j] \in 48..(47 + base)
                           /\ k < Len(s) => s[k + 1] \notin 48..(47 + base)

(* Mutant: what is too large wraps.                                        *)
strtoul_wrap(s, base) ==
  LET n[k \in 0..DigitsOf(s, base)] ==
        IF k = 0 THEN 0 ELSE (base * n[k - 1] + s[k] - 48) % 2^LongBits
  IN n[DigitsOf(s, base)]

(* What is too large is ULONG_MAX.                                         *)
strtoul(s, base) ==
  LET most == 2^LongBits - 1
      n[k \in 0..DigitsOf(s, base)] ==
        IF k = 0 THEN 0
        ELSE LET m == base * n[k - 1] + s[k] - 48 IN IF m > most THEN most ELSE m
  IN n[DigitsOf(s, base)]

From(p) == SubSeq(text, p, Len(text))

(* Mutant: an octal escape is read as a decimal one.                       *)
character_number_decimal ==
  CASE text[2] # SLASH -> text[2]
    [] text[2] = SLASH /\ text[3] \in Digits -> strtoul(From(3), 10)
    [] OTHER -> EscapeOf(text[3])

(* create_number for what is between apostrophes.                          *)
character_number ==
  CASE text[2] # SLASH -> text[2]
    [] text[2] = SLASH /\ text[3] \in Digits -> strtoul(From(3), 8)
    [] OTHER -> EscapeOf(text[3])

(* The unsigned long becomes the const_value of a node, an int.            *)
create_number ==
  /\ ~done /\ ~IsString
  /\ yylval' = Signed(IF text[1] = APOSTROPHE THEN character_number ELSE strtoul(text, 10), IntBits)
  /\ done' = TRUE
  /\ UNCHANGED <<text, sp1, str>>

-----------------------------------------------------------------------------
(* create_string: a turn of the loop for what is at sp1.                   *)

Turn(c) == ~done /\ IsString /\ sp1 <= Len(text) /\ text[sp1] = c
Writes(c, length) ==
  /\ str' = Append(str, c)
  /\ sp1' = sp1 + length
  /\ UNCHANGED <<text, yylval, done>>

(* Mutant: the character after a quote is skipped as well.                 *)
SkipQuoteAndMore ==
  /\ Turn(QUOTE)
  /\ sp1' = sp1 + 2
  /\ UNCHANGED <<text, str, yylval, done>>

SkipQuote ==
  /\ Turn(QUOTE)
  /\ sp1' = sp1 + 1
  /\ UNCHANGED <<text, str, yylval, done>>

(* Mutant: a third digit is taken whatever the first one is.               *)
TakenUpToThree ==
  IF text[sp1 + 2] \notin Digits THEN 1 ELSE IF text[sp1 + 3] \in Digits THEN 3 ELSE 2

(* How many digits go into temp_octal, 8 and 9 among them: a third one if  *)
(* the first is 3 at most.                                                 *)
Taken ==
  IF text[sp1 + 2] \notin Digits THEN 1
  ELSE IF text[sp1 + 1] \in 48..51 /\ text[sp1 + 3] \in Digits THEN 3 ELSE 2

OctalEscape ==
  /\ Turn(SLASH) /\ text[sp1 + 1] \in Digits
  /\ Writes(AsChar(strtoul(SubSeq(text, sp1 + 1, sp1 + Taken), 8)), Taken + 1)

CharEscape ==
  /\ Turn(SLASH) /\ IsEscape(text[sp1 + 1])
  /\ Writes(EscapeOf(text[sp1 + 1]), 2)

(* Mutant: sp1 goes back and not on again.                                 *)
JustASlashAgain ==
  /\ Turn(SLASH) /\ text[sp1 + 1] \notin Digits /\ ~IsEscape(text[sp1 + 1])
  /\ UNCHANGED vars

(* The character after it is copied by the next turn.                      *)
JustASlash ==
  /\ Turn(SLASH) /\ text[sp1 + 1] \notin Digits /\ ~IsEscape(text[sp1 + 1])
  /\ Writes(SLASH, 1)

Copy ==
  /\ \E c \in 1..127 \ {QUOTE, SLASH} : Turn(c) /\ Writes(c, 1)

Finish ==
  /\ ~done /\ IsString /\ sp1 > Len(text)
  /\ done' = TRUE
  /\ UNCHANGED <<text, sp1, str, yylval>>

Init == text \in Texts /\ sp1 = 1 /\ str = <<>> /\ yylval = 0 /\ done = FALSE

Next ==
  \/ create_number \/ SkipQuote \/ OctalEscape \/ CharEscape \/ JustASlash \/ Copy \/ Finish

Spec == Init /\ [][Next]_vars /\ WF_vars(Next)

-----------------------------------------------------------------------------

(* The values are chars and ints.                                          *)
TypeOK ==
  /\ \A k \in DOMAIN str : str[k] \in -128..127
  /\ yylval \in -(2^(IntBits - 1))..(2^(IntBits - 1) - 1)
  /\ done \in BOOLEAN

(* The loop never gets past the NUL at the end of the text, though it goes *)
(* up to four characters forward at a time, and what it writes, with a NUL *)
(* after it, fits in the length + 1 bytes that were allocated.             *)
InBounds ==
  /\ sp1 \in 1..(Len(text) + 1)
  /\ Len(str) < sp1

(* The loop ends for every string.                                         *)
Ends == <>done
=============================================================================
