------------------------------ MODULE Calculator ------------------------------
(***************************************************************************)
(* The keypad and the accumulator of the calculator:                       *)
(* src/kernel/apps/calculator/calculator_app.c.  A double is a whole       *)
(* number of steps of 1/Unit, and what is not a whole number of steps is   *)
(* rounded to the nearest, as a double is to the nearest double.  (Doubles *)
(* grow coarser with their size; steps do not.  No sequence of keys within *)
(* the bounds of a run reaches infinity.)                                  *)
(***************************************************************************)
EXTENDS Integers

CONSTANTS
    MaxLength,  \* 15, the longest text that can be typed
    IntMax,     \* 2^31 - 1
    Unit        \* the steps in 1

ASSUME CalculatorAssumption ==
    /\ MaxLength \in Nat \ {0}
    /\ IntMax \in Nat /\ IntMax >= 100
    /\ Unit \in Nat /\ Unit > 50

Digits == 0 .. 9
Operators == {"+", "-", "*", "/"}
None == "none"
NoDigits == -1

\* A text of the display: its sign, the number before the point, the number
\* after it over a power of ten, and, of a text being typed, whether it has a
\* point and how long it is.
Text(minus, whole, part, over) ==
    [minus |-> minus, whole |-> whole, part |-> part, over |-> over, point |-> over # 1, len |-> 1]

OneDigit(d) == Text(FALSE, d, 0, 1)

Texts == [minus : BOOLEAN, whole : Nat \union {NoDigits}, part : Nat, over : Nat \ {0},
          point : BOOLEAN, len : Nat]

VARIABLES display, stored_value, operation, new_number

keypad == <<display, stored_value, operation, new_number>>

KeypadInit ==
    /\ display = OneDigit(0)
    /\ stored_value = 0
    /\ operation = None
    /\ new_number = TRUE

-----------------------------------------------------------------------------
(* Texts and numbers.                                                       *)

Size(n) == IF n < 0 THEN -n ELSE n

\* n over d, rounded.  A divisor 0 is not met: Applied tests for it, and the first power
\* of ten that wraps to 0 is 10^32.
Nearest(n, d) ==
    CASE d > 0 -> (2 * n + d) \div (2 * d)
      [] d < 0 -> (2 * (-n) - d) \div (2 * (-d))
      [] d = 0 -> 0

\* An int that has been multiplied past its range.
Wrapped(n) == ((n + IntMax + 1) % (2 * (IntMax + 1))) - (IntMax + 1)

\* simple_atof, whose divisor is an int: from ten decimals on it has wrapped,
\* and the fraction that is read is not the one on display.
ReadBack(text) ==
    LET whole == IF text.whole = NoDigits THEN 0 ELSE text.whole
        value == whole * Unit + Nearest(text.part * Unit, Wrapped(text.over))
    IN  IF text.minus THEN -value ELSE value

\* The first number whose whole part no int can hold; the int it becomes,
\* -IntMax - 1, is its own negation and is printed without a digit.
Beyond == (IntMax + 1) * Unit

\* Two decimals, the rest cut off.  The sign is that of the whole part, and a
\* fraction is shown only when it is positive: between -1 and 0 neither is.
Cut(v) ==
    LET fraction == IF v \in 1 - Unit .. -1 THEN 0 ELSE Size(v) % Unit
    IN  Text(v <= -Unit, Size(v) \div Unit, (100 * fraction) \div Unit, IF fraction = 0 THEN 1 ELSE 100)

BareMinus == Text(TRUE, NoDigits, 0, 1)

\* After the bare minus of a number below the range come a point and two
\* characters of any value, those that are digits read as decimals.
Garbage == {Text(TRUE, NoDigits, p, 100) : p \in 0 .. 99}

\* simple_ftoa: what the display may show of a number.
Shown(v) ==
    CASE v \in 1 - Beyond .. Beyond - 1 -> {Cut(v)}
      [] v >= Beyond \/ v = -Beyond     -> {BareMinus}
      [] v < -Beyond                    -> Garbage

-----------------------------------------------------------------------------
(* The keys.                                                                *)

\* Nothing is divided by zero; with no operation pending the number is stored.
Applied(op, a, b) ==
    CASE op = "+" -> a + b
      [] op = "-" -> a - b
      [] op = "*" -> Nearest(a * b, Unit)
      [] op = "/" -> IF b = 0 THEN a ELSE Nearest(a * Unit, b)
      [] op = None -> b

RedisplayedNot(v) == {display}  \* mutant

\* With no operation pending the display is left alone.
Redisplayed(v) == IF operation = None THEN {display} ELSE Shown(v)

Execute ==
    LET result == Applied(operation, stored_value, ReadBack(display))
    IN  /\ stored_value' = result
        /\ display' \in Redisplayed(result)

ClearKey ==
    /\ display' = OneDigit(0)
    /\ stored_value' = 0
    /\ operation' = None
    /\ new_number' = TRUE

HasRoom == display.len < MaxLength

\* A lone 0 is replaced.
WithDigit(d) == [display EXCEPT !.whole = 10 * @ + d,
                                !.len = IF display.whole = 0 THEN 1 ELSE @ + 1]
WithDecimal(d) == [display EXCEPT !.part = 10 * @ + d, !.over = 10 * @, !.len = @ + 1]

Extended(d) ==
    CASE ~HasRoom                  -> display
      [] HasRoom /\ display.point  -> WithDecimal(d)
      [] HasRoom /\ ~display.point -> WithDigit(d)

DigitKey(d) ==
    /\ display' = IF new_number THEN OneDigit(d) ELSE Extended(d)
    /\ new_number' = FALSE
    /\ UNCHANGED <<stored_value, operation>>

\* A second point is ignored; a new number starts with "0.".
WithPoint(text) == [text EXCEPT !.point = TRUE, !.len = @ + 1]

PointKey ==
    /\ display' = CASE new_number -> WithPoint(OneDigit(0))
                    [] ~new_number /\ HasRoom /\ ~display.point -> WithPoint(display)
                    [] ~new_number /\ (~HasRoom \/ display.point) -> display
    /\ new_number' = FALSE
    /\ UNCHANGED <<stored_value, operation>>

EqualsKey ==
    /\ Execute
    /\ operation' = None
    /\ new_number' = TRUE

\* An operator after an operator, or after a result, replaces what is pending.
OperatorKey(op) ==
    /\ IF new_number THEN UNCHANGED <<display, stored_value>> ELSE Execute
    /\ operation' = op
    /\ new_number' = TRUE

\* Labels: a key is a pair of its kind and what it stands for.
Handle(key) ==
    \/ key.kind = "clear" /\ ClearKey
    \/ key.kind = "digit" /\ DigitKey(key.digit)
    \/ key.kind = "point" /\ PointKey
    \/ key.kind = "equals" /\ EqualsKey
    \/ key.kind = "operator" /\ OperatorKey(key.op)

-----------------------------------------------------------------------------
(* Properties.                                                              *)

\* Texts, numbers and pending operation; a text being typed has digits.
KeypadTypeOK ==
    /\ display \in Texts
    /\ ~new_number => display.whole # NoDigits
    /\ stored_value \in Int
    /\ operation \in Operators \union {None}
    /\ new_number \in BOOLEAN

\* What the text says, over text.over.
Numerator(text) ==
    LET n == text.whole * text.over + text.part IN IF text.minus THEN -n ELSE n

\* A text with digits, none of them beyond the reach of simple_atof's divisor.
Readable(text) == text.whole # NoDigits /\ text.over <= IntMax

WithinHundredth(text, v) ==
    100 * Size(Numerator(text) * Unit - v * text.over) < Unit * text.over

SignLost(text, v) == v \in 1 - Unit .. -1 /\ Numerator(text) = 0

Agrees(text, v) == Readable(text) => WithinHundredth(text, v) \/ SignLost(text, v)

\* Between numbers the display is less than a hundredth away from the number
\* the next operation will use: no mixture of the four operators, points,
\* results and clears lets them part further, but for what the code prints
\* wrongly or reads wrongly.  That is: a number beyond the range of an int has
\* no digits on display; a number between -1 and 0 is shown as 0; a typed text
\* of ten decimals or more is not the number stored.
ResultShown == new_number => Agrees(display, stored_value)
===============================================================================
