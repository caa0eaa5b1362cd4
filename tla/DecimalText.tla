------------------------------ MODULE DecimalText ------------------------------
(***************************************************************************)
(* The text of a DECIMAL in a column of fixed width (dec_fix, dec_sci and  *)
(* dec_setexp in decfix.c, decsci.c and decsetexp.c, rjust in output.c).   *)
(*                                                                         *)
(* A DECIMAL is [pos, exp, dgts]: 0.d1 d2 ... times 100^exp, where each d  *)
(* is a digit to the base of 100 and the first one is not 0; zero has no   *)
(* digits.  A value of a column has no more digits than the column, so     *)
(* that decround, which is called first, leaves it as it is.               *)
(***************************************************************************)
EXTENDS Integers, SequencesExt

Decimal(pos, exp, dgts) == [pos |-> pos, exp |-> exp, dgts |-> dgts]

(* The values the models use, by the text dectoasc has for them. *)
Decimals ==
  [text \in {<<"0">>, <<"-", "1">>, <<"3", "1">>, <<"3", "0", "0">>, <<"3", "1", ".", "4">>,
             <<"0", ".", "0", "5">>, <<"-", "0", ".", "0", "0", "1", "1">>} |->
     CASE text = <<"0">> -> Decimal(TRUE, 0, <<>>)
       [] text = <<"-", "1">> -> Decimal(FALSE, 1, <<1>>)
       [] text = <<"3", "1">> -> Decimal(TRUE, 1, <<31>>)
       [] text = <<"3", "0", "0">> -> Decimal(TRUE, 2, <<3>>)
       [] text = <<"3", "1", ".", "4">> -> Decimal(TRUE, 1, <<31, 40>>)
       [] text = <<"0", ".", "0", "5">> -> Decimal(TRUE, 0, <<5>>)
       [] text = <<"-", "0", ".", "0", "0", "1", "1">> -> Decimal(FALSE, -1, <<11>>)]

Digits == <<"0", "1", "2", "3", "4", "5", "6", "7", "8", "9">>
DigitChar(n) == Digits[n + 1]
Zeroes(n) == [i \in 1..n |-> "0"]
Sign(d) == IF d.pos THEN <<" ">> ELSE <<"-">>

(* The digits to the base of 10; dropping a leading zero. *)
Pairs(dgts) == FlattenSeq([i \in DOMAIN dgts |-> <<DigitChar(dgts[i] \div 10), DigitChar(dgts[i] % 10)>>])
Led(text) == IF text # <<>> /\ Head(text) = "0" THEN Tail(text) ELSE text

(* The first n digits, with zeroes for those that are missing. *)
FilledTo(text, n) == SubSeq(text \o Zeroes(n), 1, n)

(* VALID of decfix.c and of decsci.c. *)
FixDigits(n) == IF n > 162 THEN 162 ELSE IF n <= 0 THEN 0 ELSE n
SciDigits(n) == IF n > 32 THEN 32 ELSE IF n <= 0 THEN 6 ELSE n

(* Mutant: no pairs of zeroes between the last digit and the point. *)
DecFixUnpadded(d, ndigit) ==
  LET n == FixDigits(ndigit)
      whole == Min({IF d.exp > 0 THEN d.exp ELSE 0, Len(d.dgts)})
      integral == Led(Pairs(SubSeq(d.dgts, 1, whole)))
      fraction == Zeroes(IF d.exp < 0 THEN -2 * d.exp ELSE 0) \o Pairs(SubSeq(d.dgts, whole + 1, Len(d.dgts)))
  IN  Sign(d) \o (IF integral = <<>> THEN <<"0">> ELSE integral)
        \o (IF n > 0 THEN <<".">> \o FilledTo(fraction, n) ELSE <<>>)

(* dec_fix: ndigit digits after the point.  Before it stand the digits down  *)
(* to the point, without a leading zero, and pairs of zeroes if there are    *)
(* not enough of them; or a single zero.                                     *)
DecFix(d, ndigit) ==
  LET n == FixDigits(ndigit)
      before == IF d.exp > 0 /\ d.dgts # <<>> THEN d.exp ELSE 0
      whole == Min({before, Len(d.dgts)})
      integral == IF before = 0 THEN <<"0">>
                  ELSE Led(Pairs(SubSeq(d.dgts, 1, whole))) \o Zeroes(2 * (before - whole))
      fraction == Zeroes(IF d.exp < 0 THEN -2 * d.exp ELSE 0) \o Pairs(SubSeq(d.dgts, whole + 1, Len(d.dgts)))
  IN  Sign(d) \o integral \o (IF n > 0 THEN <<".">> \o FilledTo(fraction, n) ELSE <<>>)

(* dec_setexp: two digits and a blank, or three digits. *)
DecSetExp(e) ==
  LET a == IF e < 0 THEN -e ELSE e
  IN  <<"E", IF e < 0 THEN "-" ELSE "+">>
        \o (IF a >= 100 THEN <<DigitChar(a \div 100)>> ELSE <<>>)
        \o <<DigitChar((a \div 10) % 10), DigitChar(a % 10)>>
        \o (IF a < 100 THEN <<" ">> ELSE <<>>)

(* dec_sci: ndigits digits, the point after the first, and the exponent. *)
DecSci(d, ndigits) ==
  LET n == SciDigits(ndigits)
      digits == FilledTo(Led(Pairs(d.dgts)), n)
      exponent == IF d.dgts = <<>> THEN 0 ELSE 2 * d.exp - (IF Head(d.dgts) >= 10 THEN 1 ELSE 2)
  IN  (IF d.dgts = <<>> THEN <<" ">> ELSE Sign(d)) \o <<digits[1]>>
        \o (IF n > 1 THEN <<".">> \o Tail(digits) ELSE <<>>) \o DecSetExp(exponent)

(* A column of DECIMAL(p), whose scale is 0xFF, or of DECIMAL(p, scale), and *)
(* the width print_value and print_null give it.                             *)
Floating == 255
DecimalWidth(column) ==
  IF column.scale = Floating THEN column.size + 7
  ELSE column.size + 1 + (IF column.scale > 0 THEN 1 ELSE 0)

DecimalText(column, d) ==
  IF column.scale = Floating THEN DecSci(d, column.size) ELSE DecFix(d, column.scale)

(* rjust: the text has to fit the width, or the program is aborted by an     *)
(* assertion.                                                                *)
RJustFits(text, width) == Len(text) <= width
RJust(text, width) == [i \in 1..width - Len(text) |-> " "] \o text
=============================================================================
