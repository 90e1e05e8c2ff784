----------------------------- MODULE LexerProofs -----------------------------
(***************************************************************************)
(* create_string stays within its text and its buffer, for every text that *)
(* starts and ends with a quote, of any length and with any escapes.       *)
(***************************************************************************)
EXTENDS Lexer, TLAPS

(* What the bounds rest on: the text is one of Texts.  Of what is written  *)
(* only the number matters.                                                *)
IsSequence(s) == \E S : s \in Seq(S)
Inv ==
  /\ text \in Texts
  /\ IsSequence(str)
  /\ InBounds

LEMMA AppendOne ==
  ASSUME NEW s, IsSequence(s), NEW c
  PROVE  IsSequence(Append(s, c)) /\ Len(s) \in Nat /\ Len(Append(s, c)) = Len(s) + 1
<1>1. PICK S : s \in Seq(S)
      BY DEF IsSequence
<1>2. s \in Seq(S \cup {c}) /\ c \in S \cup {c}
      BY <1>1
<1>3. Append(s, c) \in Seq(S \cup {c}) /\ Len(Append(s, c)) = Len(s) + 1 /\ Len(s) \in Nat
      BY <1>2
<1>4. QED
      BY <1>3 DEF IsSequence

LEMMA TextFacts ==
  ASSUME NEW t \in Texts
  PROVE  /\ t \in Seq(1..127) /\ Len(t) \in Nat /\ Len(t) > 0
         /\ t[1] = 34 => t[Len(t)] = 34
<1>1. t \in Seq(1..127) /\ t # <<>>
      BY TextAssumption
<1>2. Len(t) \in Nat /\ Len(t) > 0
      BY <1>1
<1>3. t[1] = 34 => t[Len(t)] = 34
      BY TextAssumption
<1>4. QED
      BY <1>1, <1>2, <1>3

(* A character that is no quote is not the last of a string.               *)
LEMMA NotLast ==
  ASSUME text \in Texts, IsString, NEW k \in 1..Len(text), text[k] # QUOTE
  PROVE  k + 1 \in 1..Len(text)
BY TextFacts DEF IsString, QUOTE

(* A turn that writes one character and goes on by length.                 *)
LEMMA WritesStays ==
  ASSUME Inv, NEW c, NEW length \in Nat \ {0}, sp1 + length \in 1..(Len(text) + 1),
         Writes(c, length)
  PROVE  Inv'
<1>1. text' = text /\ str' = Append(str, c) /\ sp1' = sp1 + length
      BY DEF Writes
<1>2. IsSequence(str') /\ Len(str) \in Nat /\ Len(str') = Len(str) + 1
      BY <1>1, AppendOne DEF Inv
<1>3. text \in Texts /\ Len(text) \in Nat /\ sp1 \in 1..(Len(text) + 1) /\ Len(str) < sp1
      BY TextFacts DEF Inv, InBounds
<1>4. InBounds'
      BY <1>1, <1>2, <1>3 DEF InBounds
<1>5. QED
      BY <1>1, <1>2, <1>3, <1>4 DEF Inv

LEMMA TurnFacts ==
  ASSUME Inv, NEW c, Turn(c)
  PROVE  /\ sp1 \in 1..Len(text) /\ text[sp1] = c /\ IsString /\ Len(text) \in Nat
         /\ text \in Texts
BY TextFacts DEF Inv, InBounds, Turn

(* As many digits as are taken, so many characters are there: the last one *)
(* of the text is a quote.                                                 *)
LEMMA TakenFacts ==
  ASSUME Inv, Turn(SLASH), text[sp1 + 1] \in Digits
  PROVE  Taken \in 1..3 /\ sp1 + Taken + 1 \in 1..Len(text)
<1>1. sp1 \in 1..Len(text) /\ text[sp1] = SLASH /\ IsString /\ text \in Texts /\ Len(text) \in Nat
      BY TurnFacts
<1>2. sp1 + 1 \in 1..Len(text)
      BY <1>1, NotLast DEF QUOTE, SLASH
<1>3. sp1 + 2 \in 1..Len(text)
      BY <1>1, <1>2, NotLast DEF QUOTE, Digits
<1>4. CASE text[sp1 + 2] \notin Digits
      BY <1>1, <1>3, <1>4 DEF Taken
<1>5. CASE text[sp1 + 2] \in Digits
  <2>1. sp1 + 3 \in 1..Len(text)
        BY <1>1, <1>3, <1>5, NotLast DEF QUOTE, Digits
  <2>2. text[sp1 + 3] \in Digits => sp1 + 4 \in 1..Len(text)
        BY <1>1, <2>1, NotLast DEF QUOTE, Digits
  <2>3. QED
        BY <1>1, <1>5, <2>1, <2>2 DEF Taken
<1>6. QED
      BY <1>4, <1>5

LEMMA InitInv == Init => Inv
<1> SUFFICES ASSUME Init PROVE Inv
    OBVIOUS
<1>1. text \in Texts /\ sp1 = 1 /\ str = <<>>
      BY DEF Init
<1>2. IsSequence(str) /\ Len(str) = 0
  <2>1. str \in Seq({}) /\ Len(str) = 0
        BY <1>1
  <2>2. QED
        BY <2>1 DEF IsSequence
<1>3. QED
      BY <1>1, <1>2, TextFacts DEF Inv, InBounds

LEMMA NextInv == Inv /\ [Next]_vars => Inv'
<1> SUFFICES ASSUME Inv, [Next]_vars
             PROVE  Inv'
    OBVIOUS
<1>1. CASE create_number
      BY <1>1 DEF Inv, InBounds, create_number
<1>2. CASE SkipQuote
  <2>1. sp1 \in 1..Len(text) /\ Len(text) \in Nat
        BY <1>2, TurnFacts DEF SkipQuote
  <2>2. Len(str) < sp1 /\ Len(str) \in Nat
        BY AppendOne DEF Inv, InBounds
  <2>3. QED
        BY <1>2, <2>1, <2>2 DEF Inv, InBounds, SkipQuote
<1>3. CASE OctalEscape
  <2>1. Taken \in 1..3 /\ sp1 + Taken + 1 \in 1..Len(text)
        BY <1>3, TakenFacts DEF OctalEscape
  <2>2. sp1 \in 1..Len(text) /\ Len(text) \in Nat
        BY <1>3, TurnFacts DEF OctalEscape
  <2>3. Taken + 1 \in Nat \ {0} /\ sp1 + (Taken + 1) \in 1..(Len(text) + 1)
        BY <2>1, <2>2
  <2>4. QED
        BY <1>3, <2>3, WritesStays DEF OctalEscape
<1>4. CASE CharEscape
  <2>1. sp1 \in 1..Len(text) /\ sp1 + 1 \in 1..Len(text) /\ Len(text) \in Nat
        BY <1>4, TurnFacts, NotLast DEF CharEscape, QUOTE, SLASH
  <2>2. QED
        BY <1>4, <2>1, WritesStays DEF CharEscape
<1>5. CASE JustASlash
  <2>1. sp1 \in 1..Len(text) /\ Len(text) \in Nat
        BY <1>5, TurnFacts DEF JustASlash
  <2>2. QED
        BY <1>5, <2>1, WritesStays DEF JustASlash
<1>6. CASE Copy
  <2>1. PICK c \in 1..127 \ {QUOTE, SLASH} : Turn(c) /\ Writes(c, 1)
        BY <1>6 DEF Copy
  <2>2. sp1 \in 1..Len(text) /\ Len(text) \in Nat
        BY <2>1, TurnFacts
  <2>3. QED
        BY <2>1, <2>2, WritesStays
<1>7. CASE Finish
      BY <1>7 DEF Inv, InBounds, Finish
<1>8. CASE UNCHANGED vars
      BY <1>8 DEF Inv, InBounds, vars
<1>9. QED
      BY <1>1, <1>2, <1>3, <1>4, <1>5, <1>6, <1>7, <1>8 DEF Next

(* create_string reads and writes within bounds, for every text.           *)
THEOREM StaysInBounds == Spec => []InBounds
<1>1. Inv => InBounds
      BY DEF Inv
<1>2. QED
      BY InitInv, NextInv, <1>1, PTL DEF Spec
=============================================================================
