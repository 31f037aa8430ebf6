------------------------------- MODULE Money --------------------------------
(***************************************************************************)
(* Money as text (src/internal/domain/money.go): ParseMoney turns decimal  *)
(* text into int64 minor units, String turns them back, Subtract is the    *)
(* checked difference.                                                     *)
(*                                                                         *)
(* A text is a sequence of characters: 0 to 9 are the digits, Point and    *)
(* Minus are themselves, and Minus also stands for every character that is *)
(* neither a digit nor a point: the parser does not tell them apart.       *)
(***************************************************************************)
EXTENDS Integers, FiniteSets, SequencesExt

CONSTANT MaxInt      \* math.MaxInt64

Point == 10
Minus == 11
Currencies == {"BRL", "USD", "EUR"}

Parsed(n) == [code |-> "", minor |-> n]
Invalid(code) == [code |-> code, minor |-> 0]

IsNumber(part) == part # <<>> /\ \A i \in DOMAIN part : part[i] \in 0 .. 9

\* strconv.ParseInt of digits; leading zeros count for nothing.
Value(digits) == FoldLeft(LAMBDA n, d : 10 * n + d, 0, digits)

\* Mutant: a single fractional digit counts as cents.
FractionUnpadded(part) ==
  CASE Len(part) = 0 -> <<0, 0>> [] Len(part) = 1 -> <<0>> \o part [] OTHER -> part

\* A fraction of at most two digits, as cents.
Fraction(part) ==
  CASE Len(part) = 0 -> <<0, 0>> [] Len(part) = 1 -> part \o <<0>> [] OTHER -> part

\* strings.Split(amount, ".").
Points(text) == {i \in DOMAIN text : text[i] = Point}
Whole(text) == IF Points(text) = {} THEN text
               ELSE LET p == CHOOSE p \in Points(text) : TRUE IN SubSeq(text, 1, p - 1)
AfterPoint(text) == IF Points(text) = {} THEN <<>>
                    ELSE LET p == CHOOSE p \in Points(text) : TRUE
                         IN SubSeq(text, p + 1, Len(text))

ParseMoney(text, currency) ==
  LET minor == Value(Whole(text) \o Fraction(AfterPoint(text))) IN
  IF currency \notin Currencies THEN Invalid("INVALID_CURRENCY")
  ELSE IF \/ Cardinality(Points(text)) > 1
          \/ ~IsNumber(Whole(text))
          \/ Points(text) # {} /\ ~IsNumber(AfterPoint(text))
    THEN Invalid("INVALID_AMOUNT")
  ELSE IF Len(AfterPoint(text)) > 2 THEN Invalid("INVALID_SCALE")
  ELSE IF minor > MaxInt THEN Invalid("OVERFLOW")
  ELSE Parsed(minor)

\* strconv.FormatInt of a number that is not negative.
FormatInt[n \in Nat] ==
  IF n < 10 THEN <<n>> ELSE Append(FormatInt[n \div 10], n % 10)

\* Money.String: at least three digits, the point before the last two.
String(minor) ==
  LET plain == FormatInt[IF minor < 0 THEN -minor ELSE minor]
      s     == CASE Len(plain) = 1 -> <<0, 0>> \o plain
                 [] Len(plain) = 2 -> <<0>> \o plain
                 [] OTHER -> plain
  IN (IF minor < 0 THEN <<Minus>> ELSE <<>>)
       \o SubSeq(s, 1, Len(s) - 2) \o <<Point>> \o SubSeq(s, Len(s) - 1, Len(s))

\* Money.Subtract, within MinInt64 .. MaxInt64.
Subtract(a, b) ==
  IF \/ b > 0 /\ a < -MaxInt - 1 + b
     \/ b < 0 /\ a > MaxInt + b
  THEN Invalid("OVERFLOW") ELSE Parsed(a - b)
=============================================================================
