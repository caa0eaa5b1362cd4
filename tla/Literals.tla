------------------------------ MODULE Literals ------------------------------
(***************************************************************************)
(* Character and string literals: how the argument of DELIMITER, QUOTE,    *)
(* ESCAPE and EOR is read (ctxt_quotestring, cstrlit_str, cstrlit_chr),    *)
(* how the value of an option or of a clause of LOAD and UNLOAD is made    *)
(* such an argument (quotify), and how the value in effect is printed      *)
(* (str_cstrlit, chr_cstrlit).  A character is its code, a text a sequence *)
(* of them without NUL.                                                    *)
(***************************************************************************)
EXTENDS Integers, Sequences, FiniteSetsExt, SequencesExt

NUL == 0
Chars == 1..255
DQ == 34
SQ == 39
BackSlash == 92
LowerX == 120

(* \a, \b, \f, \n, \r, \t, \v, and the punctuation that stands for itself. *)
Escapes ==
  [c \in {97, 98, 102, 110, 114, 116, 118, DQ, SQ, 63, BackSlash} |->
     CASE c = 97 -> 7 [] c = 98 -> 8 [] c = 102 -> 12 [] c = 110 -> 10
       [] c = 114 -> 13 [] c = 116 -> 9 [] c = 118 -> 11 [] OTHER -> c]

(* basedigit.                                                              *)
Digit(c, base) ==
  LET i == CASE c \in 48..57 -> c - 48
             [] c \in 65..90 -> c - 55
             [] c \in 97..122 -> c - 87
             [] OTHER -> base
  IN  IF i < base THEN i ELSE -1

(* The number that the digits at the head of s denote, of which there are  *)
(* at most most, and how many they are.                                    *)
Number(s, base, most) ==
  LET n == Max({k \in 0..Min({most, Len(s)}) : \A i \in 1..k : Digit(s[i], base) >= 0})
  IN  [count |-> n,
       value |-> FoldLeft(LAMBDA v, c : v * base + Digit(c, base), 0, SubSeq(s, 1, n))]

Read(value, used) == [value |-> value, used |-> used]
Invalid == -1

Hex(n) == IF n.count = 0 THEN Read(Invalid, 2) ELSE Read(n.value, 2 + n.count)

(* \8 and \9 are 8 and 9; three digits must not exceed a byte.             *)
Octal(c, n) ==
  CASE n.count = 0 -> Read(c, 2)
    [] n.value > 255 -> Read(Invalid, 1 + n.count)
    [] OTHER -> Read(n.value, 1 + n.count)

(* cstrlit_chr: the character at the head of s; a plain one of code 255 is *)
(* -1 as a char.                                                           *)
ReadChr(s) ==
  CASE s[1] # BackSlash -> Read(IF s[1] = 255 THEN Invalid ELSE s[1], 1)
    [] s = <<BackSlash>> -> Read(Invalid, 1)
    [] OTHER ->
         CASE s[2] = LowerX -> Hex(Number(SubSeq(s, 3, Len(s)), 16, 2))
           [] s[2] \in 48..57 -> Octal(s[2], Number(Tail(s), 8, 3))
           [] s[2] \in DOMAIN Escapes -> Read(Escapes[s[2]], 2)
           [] OTHER -> Read(IF s[2] = 255 THEN Invalid ELSE s[2], 2)

(* cstrlit_str: the text that s denotes, if it is valid and has no more    *)
(* than most characters.                                                   *)
ParseStep(p) ==
  LET r == ReadChr(p.rest)
  IN  CASE p.rest = <<>> \/ ~p.valid -> p
        [] p.rest # <<>> /\ p.valid /\ r.value = Invalid -> [p EXCEPT !.valid = FALSE]
        [] OTHER -> [p EXCEPT !.rest = SubSeq(@, r.used + 1, Len(@)),
                              !.text = Append(@, r.value)]

Parsed(s, most) ==
  FoldLeft(LAMBDA p, i : ParseStep(p), [valid |-> TRUE, rest |-> s, text |-> <<>>],
           [i \in 1..Min({most, Len(s)}) |-> i])

Denotes(p) == p.valid /\ p.rest = <<>> /\ p.text # <<>>

(* ctxt_quotestring: where the string opened by the first character is     *)
(* closed, or 0; a backslash protects the character behind it.             *)
CloseStep(s, p, i) ==
  CASE p.close > 0 -> p
    [] p.close = 0 /\ p.protected -> [p EXCEPT !.protected = FALSE]
    [] p.close = 0 /\ ~p.protected /\ s[i] = BackSlash -> [p EXCEPT !.protected = TRUE]
    [] OTHER -> [p EXCEPT !.close = IF s[i] = s[1] THEN i ELSE 0]

Close(s) ==
  FoldLeft(LAMBDA p, i : CloseStep(s, p, i), [close |-> 0, protected |-> FALSE],
           [i \in 1..Len(s)-1 |-> i + 1]).close

(* What becomes of an argument: the text it denotes, a warning, or, for    *)
(* the empty string, a failed assertion.                                   *)
Text(t) == [kind |-> "text", text |-> t]
Warned == [kind |-> "warned", text |-> <<>>]
Aborts == [kind |-> "aborts", text |-> <<>>]

QuoteString(s, most) ==
  LET Taken(p) == IF Denotes(p) THEN Text(p.text) ELSE Warned
      Until(close) == CASE close = 0 -> Warned
                        [] close = 2 -> Aborts
                        [] OTHER -> Taken(Parsed(SubSeq(s, 2, close - 1), most))
  IN  IF s # <<>> /\ s[1] \in {SQ, DQ} THEN Until(Close(s)) ELSE Warned

(* quotify: the texts it has an answer for (the others fail an assertion), *)
(* and the answer.  The one for an empty text is an opening quote alone.   *)
AlreadyQuoted(s) == Len(s) > 1 /\ s[1] \in {SQ, DQ} /\ Last(s) = s[1]

Quotable(s, size) ==
  \/ Len(s) <= 1
  \/ AlreadyQuoted(s) /\ Len(s) < size
  \/ Len(s) + 3 <= size /\ \A i \in DOMAIN s : s[i] \notin {SQ, DQ}

Quotify(s) ==
  CASE s = <<>> -> <<SQ>>
    [] AlreadyQuoted(s) -> s
    [] s \in {<<SQ>>, <<DQ>>} -> <<SQ, BackSlash, s[1], SQ>>
    [] OTHER -> <<SQ>> \o s \o <<SQ>>

(* Mutant: an octal escape has as many digits as it needs.                 *)
ChrLitShort(u) ==
  CASE u \in 32..126 \ {SQ, DQ, BackSlash, 63} -> <<u>>
    [] OTHER -> IF u < 8 THEN <<BackSlash, 48 + u>>
                ELSE <<BackSlash, 48 + u \div 8, 48 + (u % 8)>>

(* chr_cstrlit, in the C locale and with room enough.                      *)
ChrLit(u) ==
  CASE u \in 32..126 \ {SQ, DQ, BackSlash, 63} -> <<u>>
    [] \E c \in DOMAIN Escapes : Escapes[c] = u ->
         <<BackSlash, CHOOSE c \in DOMAIN Escapes : Escapes[c] = u>>
    [] OTHER -> <<BackSlash, 48 + u \div 64, 48 + ((u \div 8) % 8), 48 + (u % 8)>>

(* str_cstrlit, between the quotes of ctxt_print_str.                      *)
Printed(t) == <<SQ>> \o FoldLeft(LAMBDA s, u : s \o ChrLit(u), <<>>, t) \o <<SQ>>
=============================================================================
