---------------------------- MODULE DesktopProofs ----------------------------
(***************************************************************************)
(* Proofs about the window system and the calculator, for a pointer that   *)
(* goes anywhere in the mouse's 640 by 480 or keeps to some of its points, *)
(* every set of windows that programs create, every length of the typed    *)
(* numbers, every width of an int and every size of a number's steps.      *)
(***************************************************************************)
EXTENDS Desktop, WellFoundedInduction, TLAPS

-----------------------------------------------------------------------------
(* The inductive invariant.                                                 *)

\* A click is remembered as long as the button is down: by the history that
\* counts it, and by the last_buttons of the one that handled it.
Remembered ==
    /\ guiUsed => mouse.left /\ gui_last
    /\ calcUsed => mouse.left /\ calc_last

\* calculator_update runs only while the calculator is there.
Attended == pc \in {"calc_read", "calc"} => active

\* Every window fits above the taskbar.  The offset of a drag was taken on the
\* title bar, so the window follows the pointer from above, not from below.
Placed ==
    /\ \A i \in DOMAIN windows : windows[i].w \in 1 .. Width /\ windows[i].h \in 1 .. Height - Taskbar
    /\ dragging_window # 0 => drag_offset[2] >= 0

IInv ==
    /\ TypeOK /\ Remembered /\ Attended /\ Placed
    /\ DragHeld /\ TitleOnScreen /\ ResultShown

-----------------------------------------------------------------------------
(* Lemmas.                                                                  *)

\* The order of the natural numbers is well founded, with its pairs in sight.
LEMMA LessIsWellFounded == IsWellFoundedOn({ss \in Nat \X Nat : ss[1] < ss[2]}, Nat)
  BY NatLessThanWellFounded, Zenon DEF OpToRel

\* The last created of the windows that react is one of them.
LEMMA MaxIn ==
  ASSUME NEW N \in Nat, NEW S \in SUBSET (1 .. N), S # {}
  PROVE  Max(S) \in S
  <1> DEFINE T == {N - k : k \in S}
  <1>1. T \subseteq Nat /\ T # {}
    <2>1. \A k \in S : N - k \in Nat
      OBVIOUS
    <2>2. T # {}
      OBVIOUS
    <2> QED
      BY <2>1, <2>2
  <1>2. PICK m \in T : \A k \in T : <<k, m>> \notin {ss \in Nat \X Nat : ss[1] < ss[2]}
    <2> HIDE DEF T
    <2> QED
      BY <1>1, LessIsWellFounded, WFMin, Zenon
  <1>3. N - m \in S /\ \A k \in S : N - m >= k
    <2>1. PICK j \in S : m = N - j
      OBVIOUS
    <2>2. ASSUME NEW k \in S PROVE N - k \in Nat /\ m \in Nat /\ ~(N - k < m)
      <3>1. N - k \in T
        OBVIOUS
      <3>2. N - k \in Nat /\ m \in Nat
        BY <1>1, <3>1
      <3> QED
        BY <1>2, <3>1, <3>2
    <2>3. j \in 1 .. N /\ N - m = j
      BY <2>1
    <2> HIDE DEF T
    <2> QED
      BY <2>1, <2>2, <2>3
  <1>4. \E x \in S : \A y \in S : x >= y
    BY <1>3
  <1> QED
    BY <1>4 DEF Max

\* The larger of a number and zero.
LEMMA MaxZero == ASSUME NEW v \in Int PROVE Max({v, 0}) = IF v < 0 THEN 0 ELSE v
  <1>1. CASE v < 0
    <2>1. \A x \in {v, 0} : (\A y \in {v, 0} : x >= y) <=> x = 0
      BY <1>1
    <2> QED
      BY <1>1, <2>1 DEF Max
  <1>2. CASE ~(v < 0)
    <2>1. \A x \in {v, 0} : (\A y \in {v, 0} : x >= y) <=> x = v
      BY <1>2
    <2> QED
      BY <1>2, <2>1 DEF Max
  <1> QED
    BY <1>1, <1>2

\* Where a drag may leave a window.
LEMMA KeptIs ==
  ASSUME NEW v \in Int, NEW size \in Int, NEW test \in Int, NEW limit \in Int
  PROVE  /\ Kept(v, size, test, limit) \in Int
         /\ \/ Kept(v, size, test, limit) = limit - size
            \/ /\ Kept(v, size, test, limit) = IF v < 0 THEN 0 ELSE v
               /\ Kept(v, size, test, limit) + size <= test
  <1> DEFINE w == IF v < 0 THEN 0 ELSE v
  <1>1. Kept(v, size, test, limit) = IF w + size > test THEN limit - size ELSE w
    BY MaxZero DEF Kept
  <1> QED
    BY <1>1

\* The pointer, scaled down, is on the screen.
LEMMA PointerOnScreen == ASSUME TypeOK PROVE Mx \in 0 .. Width - 1 /\ My \in 0 .. Height - 1
  <1>1. at[1] \in 0 .. 639 /\ at[2] \in 0 .. 479
    <2>1. CASE at \in Points
      <3>1. at \in (0 .. 639) \X (0 .. 479)
        BY <2>1, DesktopAssumption DEF Points
      <3> QED
        BY <3>1
    <2>2. CASE at = Nowhere
      BY <2>2 DEF Nowhere
    <2> QED
      BY <2>1, <2>2 DEF TypeOK
  <1>2. Mx \in 0 .. Width - 1
    <2>1. \A v \in 0 .. 639 : (v * 320) \div 640 \in 0 .. 319
      OBVIOUS
    <2> QED
      BY <1>1, <2>1 DEF Mx, Width
  <1>3. My \in 0 .. Height - 1
    <2>1. \A v \in 0 .. 479 : (v * 200) \div 480 \in 0 .. 199
      OBVIOUS
    <2> QED
      BY <1>1, <2>1 DEF My, Height
  <1> QED
    BY <1>2, <1>3

\* What a key of the keypad stands for.
LEMMA ButtonKeys ==
  ASSUME NEW b \in Buttons
  PROVE  /\ b.key.kind = "digit" => b.key.digit \in Digits
         /\ b.key.kind = "operator" => b.key.op \in Operators
  <1>1. CASE b \in {Key(10 + 45 * c, 60 + 35 * r, 40, DigitAt(c, r)) : c \in 0 .. 2, r \in 0 .. 2}
    <2>1. PICK c \in 0 .. 2, r \in 0 .. 2 : b = Key(10 + 45 * c, 60 + 35 * r, 40, DigitAt(c, r))
      BY <1>1
    <2>2. b.key = [kind |-> "digit", digit |-> 7 - 3 * r + c]
      BY <2>1 DEF Key, DigitAt, Digit
    <2>3. 7 - 3 * r + c \in 0 .. 9
      OBVIOUS
    <2> QED
      BY <2>2, <2>3 DEF Digits
  <1>2. CASE b \in {Key(145, 60, 40, Operator("/")), Key(145, 95, 40, Operator("*")),
                    Key(145, 130, 40, Operator("-")), Key(145, 165, 40, Operator("+"))}
    BY <1>2 DEF Key, Operator, Operators
  <1>3. CASE b = Key(10, 165, 85, Digit(0))
    BY <1>3 DEF Key, Digit, Digits
  <1>4. CASE b \in {Key(100, 165, 40, [kind |-> "point"]), Key(10, 200, 85, [kind |-> "clear"]),
                    Key(100, 200, 85, [kind |-> "equals"])}
    BY <1>4 DEF Key
  <1> QED
    BY <1>1, <1>2, <1>3, <1>4 DEF Buttons

\* The title bar is where the drag starts, and a window's parts are numbers.
LEMMA WindowTypes ==
  ASSUME TypeOK, NEW i \in DOMAIN windows
  PROVE  /\ i \in 1 .. Len(windows)
         /\ windows[i] \in [x : Int, y : Int, w : Nat, h : Nat, visible : BOOLEAN]
  <1> DEFINE Window == [x : Int, y : Int, w : Nat, h : Nat, visible : BOOLEAN]
  <1>1. windows \in Seq(Window)
    BY DEF TypeOK
  <1> HIDE DEF Window
  <1>2. i \in 1 .. Len(windows) /\ windows[i] \in Window
    BY <1>1
  <1> QED
    BY <1>2 DEF Window

LEMMA AskedReacts ==
  ASSUME TypeOK, Reacting # {}
  PROVE  /\ Max(Reacting) \in DOMAIN windows /\ Max(Reacting) \in 1 .. Len(windows)
         /\ Asked.visible /\ (OnClose(Asked) \/ OnTitle(Asked))
  <1>1. Len(windows) \in Nat /\ DOMAIN windows = 1 .. Len(windows)
    BY DEF TypeOK
  <1>2. Reacting \in SUBSET (1 .. Len(windows))
    BY <1>1 DEF Reacting
  <1>3. Max(Reacting) \in Reacting
    BY <1>1, <1>2, MaxIn
  <1> QED
    BY <1>1, <1>3 DEF Reacting, Asked

-----------------------------------------------------------------------------
(* Texts and numbers.                                                       *)

LEMMA Divided ==
  ASSUME NEW T \in Nat \ {0}, NEW x \in Int
  PROVE  x = (x \div T) * T + (x % T) /\ x % T \in 0 .. T - 1 /\ x \div T \in Int
  OBVIOUS

LEMMA SmallRemainder == ASSUME NEW T \in Nat \ {0}, NEW x \in 0 .. T - 1 PROVE x % T = x
  <1> DEFINE q == x \div T
             r == x % T
  <1>1. x = q * T + r /\ r \in 0 .. T - 1 /\ q \in Int
    BY Divided
  <1> HIDE DEF q, r
  <1>2. CASE q >= 1
    <2>1. q * T >= T
      BY <1>1, <1>2
    <2> QED
      BY <1>1, <2>1
  <1>3. CASE q <= -1
    <2>1. (-q) * T >= T
      BY <1>1, <1>3
    <2>2. (-q) * T = -(q * T)
      BY <1>1
    <2> QED
      BY <1>1, <2>1, <2>2
  <1>4. CASE q = 0
    <2>1. q * T = 0
      BY <1>4
    <2> QED
      BY <1>1, <2>1 DEF r
  <1> QED
    BY <1>1, <1>2, <1>3, <1>4

\* The nearest step is half a step away at most.
LEMMA NearestInt ==
  ASSUME NEW n \in Int, NEW d \in Int
  PROVE  /\ Nearest(n, d) \in Int
         /\ d > 0 => 2 * (Nearest(n, d) * d) - 2 * n \in -d .. d
  <1>1. CASE d > 0
    <2> DEFINE q == (2 * n + d) \div (2 * d)
               r == (2 * n + d) % (2 * d)
    <2>1. 2 * d \in Nat \ {0} /\ 2 * n + d \in Int
      BY <1>1
    <2>2. 2 * n + d = q * (2 * d) + r /\ r \in 0 .. 2 * d - 1 /\ q \in Int
      BY <2>1, Divided
    <2>3. Nearest(n, d) = q
      BY <1>1 DEF Nearest
    <2> HIDE DEF q, r
    <2>4. q * (2 * d) = 2 * (q * d) /\ q * d \in Int
      BY <2>2
    <2>5. 2 * (q * d) - 2 * n \in -d .. d
      BY <2>2, <2>4
    <2> QED
      BY <2>2, <2>3, <2>5
  <1>2. CASE d < 0
    <2>1. 2 * (-d) \in Nat \ {0} /\ 2 * (-n) - d \in Int
      BY <1>2
    <2>2. (2 * (-n) - d) \div (2 * (-d)) \in Int
      BY <2>1
    <2> QED
      BY <1>2, <2>2 DEF Nearest
  <1>3. CASE d = 0
    BY <1>3 DEF Nearest
  <1> QED
    BY <1>1, <1>2, <1>3

\* An int in its range does not wrap.
LEMMA WrappedInt ==
  ASSUME NEW n \in Nat
  PROVE  Wrapped(n) \in Int /\ (n <= IntMax => Wrapped(n) = n)
  <1> DEFINE T == 2 * (IntMax + 1)
             x == n + IntMax + 1
  <1>1. IntMax \in Nat
    BY CalculatorAssumption
  <1>2. T \in Nat \ {0} /\ x \in Int
    BY <1>1
  <1>3. x % T \in Int
    BY <1>2
  <1>4. Wrapped(n) = (x % T) - (IntMax + 1)
    BY DEF Wrapped
  <1>5. n <= IntMax => x \in 0 .. T - 1
    BY <1>1
  <1>6. n <= IntMax => x % T = x
    BY <1>2, <1>5, SmallRemainder
  <1> QED
    BY <1>1, <1>3, <1>4, <1>6

LEMMA OneDigitIsText == ASSUME NEW d \in Digits PROVE OneDigit(d) \in Texts
  BY DEF OneDigit, Text, Texts, Digits

LEMMA PointText ==
  ASSUME NEW text \in Texts
  PROVE  WithPoint(text) \in Texts /\ WithPoint(text).whole = text.whole
  <1>1. text.len + 1 \in Nat
    BY DEF Texts
  <1> QED
    BY <1>1 DEF WithPoint, Texts

LEMMA ZeroAgrees == Agrees(OneDigit(0), 0)
  <1>1. Numerator(OneDigit(0)) = 0 /\ OneDigit(0).over = 1
    BY DEF OneDigit, Text, Numerator
  <1>2. Unit \in Nat /\ Unit > 50
    BY CalculatorAssumption
  <1>3. Numerator(OneDigit(0)) * Unit - 0 * OneDigit(0).over = 0
    BY <1>1, <1>2
  <1>4. Size(0) = 0
    BY DEF Size
  <1> QED
    BY <1>1, <1>2, <1>3, <1>4 DEF Agrees, WithinHundredth

\* Within range of the divisor, simple_atof reads what is on display, but for
\* the rounding of the fraction.
LEMMA ReadBackAgrees ==
  ASSUME NEW text \in Texts
  PROVE  ReadBack(text) \in Int /\ Agrees(text, ReadBack(text))
  <1> DEFINE over == text.over
             part == text.part
             whole == IF text.whole = NoDigits THEN 0 ELSE text.whole
             q == Nearest(part * Unit, Wrapped(over))
             value == whole * Unit + q
  <1>1. /\ over \in Nat \ {0} /\ part \in Nat /\ text.minus \in BOOLEAN
        /\ text.whole \in Nat \union {NoDigits} /\ whole \in Nat
        /\ Unit \in Nat /\ Unit > 50 /\ IntMax \in Nat
    BY CalculatorAssumption DEF Texts, NoDigits
  <1>2. Wrapped(over) \in Int /\ (over <= IntMax => Wrapped(over) = over)
    BY <1>1, WrappedInt
  <1>3. part * Unit \in Int
    BY <1>1
  <1>4. /\ q \in Int
        /\ over <= IntMax => 2 * (q * over) - 2 * (part * Unit) \in -over .. over
    <2>1. CASE over <= IntMax
      <3>1. Wrapped(over) = over /\ over \in Int /\ over > 0
        BY <1>1, <1>2, <2>1
      <3> HIDE DEF over, part
      <3> QED
        BY <1>3, <3>1, NearestInt
    <2>2. CASE ~(over <= IntMax)
      <3> HIDE DEF over, part
      <3> QED
        BY <1>2, <1>3, <2>2, NearestInt
    <2> QED
      BY <2>1, <2>2
  <1>5. ReadBack(text) = IF text.minus THEN -value ELSE value
    BY DEF ReadBack
  <1>6. Numerator(text) = IF text.minus THEN -(text.whole * over + part) ELSE text.whole * over + part
    BY DEF Numerator
  <1>7. Readable(text) => over <= IntMax /\ whole = text.whole
    BY <1>1 DEF Readable
  <1> HIDE DEF q, over, part, whole
  <1>8. value \in Int
    BY <1>1, <1>4
  <1>9. ASSUME Readable(text) PROVE WithinHundredth(text, ReadBack(text))
    <2> DEFINE diff == part * Unit - q * over
    <2>1. (whole * over + part) * Unit - value * over = diff
      BY <1>1, <1>4
    <2>2. diff \in Int /\ 2 * diff \in -over .. over
      BY <1>1, <1>4, <1>7, <1>9
    <2>3. Numerator(text) * Unit - ReadBack(text) * over \in {diff, -diff}
      <3>1. CASE text.minus
        <4>1. Numerator(text) * Unit - ReadBack(text) * over
                = (-(whole * over + part)) * Unit - (-value) * over
          BY <1>5, <1>6, <1>7, <1>9, <3>1
        <4>2. (-(whole * over + part)) * Unit - (-value) * over
                = -((whole * over + part) * Unit - value * over)
          BY <1>1, <1>8
        <4> QED
          BY <2>1, <4>1, <4>2
      <3>2. CASE ~text.minus
        BY <1>5, <1>6, <1>7, <1>9, <2>1, <3>2
      <3> QED
        BY <3>1, <3>2
    <2> HIDE DEF diff
    <2>4. Size(Numerator(text) * Unit - ReadBack(text) * over) \in {diff, -diff}
      BY <2>2, <2>3 DEF Size
    <2>5. 100 * Size(Numerator(text) * Unit - ReadBack(text) * over) <= 50 * over
      BY <1>1, <2>2, <2>4
    <2>6. 50 * over < Unit * over
      BY <1>1
    <2>7. Unit * over \in Int
      BY <1>1
    <2>8. Size(Numerator(text) * Unit - ReadBack(text) * over) \in Int
      BY <2>2, <2>4
    <2>9. 100 * Size(Numerator(text) * Unit - ReadBack(text) * over) < Unit * over
      BY <1>1, <2>5, <2>6, <2>7, <2>8
    <2> QED
      BY <2>9 DEF WithinHundredth, over
  <1>10. ReadBack(text) \in Int
    BY <1>5, <1>8
  <1> QED
    BY <1>9, <1>10 DEF Agrees

\* Two decimals are cut off the number, the rest is less than a hundredth.
LEMMA CutAgrees ==
  ASSUME NEW v \in Int
  PROVE  Cut(v) \in Texts /\ Agrees(Cut(v), v)
  <1> DEFINE size == Size(v)
             w == size \div Unit
             f == size % Unit
             fraction == IF v \in 1 - Unit .. -1 THEN 0 ELSE f
             part == (100 * fraction) \div Unit
             rest == (100 * fraction) % Unit
             over == IF fraction = 0 THEN 1 ELSE 100
             minus == v <= -Unit
             text == Cut(v)
  <1>1. Unit \in Nat \ {0} /\ Unit > 50 /\ size \in Nat /\ size = IF v < 0 THEN -v ELSE v
    BY CalculatorAssumption DEF Size
  <1>2. size = w * Unit + f /\ f \in 0 .. Unit - 1 /\ w \in Nat
    <2> HIDE DEF size
    <2>1. size = w * Unit + f /\ f \in 0 .. Unit - 1 /\ w \in Int
      <3>1. size \in Int /\ Unit \in Nat \ {0}
        BY <1>1
      <3> QED
        BY <3>1, Divided
    <2>2. w >= 0
      BY <1>1
    <2> QED
      BY <2>1, <2>2
  <1>3. fraction \in 0 .. Unit - 1
    BY <1>1, <1>2
  <1>4. /\ 100 * fraction = part * Unit + rest /\ rest \in 0 .. Unit - 1 /\ part \in Nat
    <2> HIDE DEF fraction
    <2>1. 100 * fraction \in Nat
      BY <1>1, <1>3
    <2>2. 100 * fraction = part * Unit + rest /\ rest \in 0 .. Unit - 1 /\ part \in Int
      <3>1. 100 * fraction \in Int /\ Unit \in Nat \ {0}
        BY <1>1, <2>1
      <3> QED
        BY <3>1, Divided
    <2>3. part >= 0
      BY <1>1, <2>1
    <2> QED
      BY <2>2, <2>3
  <1>5. text = Text(minus, w, part, over)
    BY DEF Cut
  <1>6. over \in Nat \ {0} /\ (fraction = 0 => part = 0)
    <2>1. ASSUME fraction = 0 PROVE part = 0
      <3>1. 100 * fraction = 0
        BY <2>1
      <3>2. 0 \div Unit = 0
        BY <1>1
      <3> QED
        BY <3>1, <3>2
    <2> QED
      BY <2>1
  <1>7. /\ text.minus = minus /\ text.whole = w /\ text.part = part /\ text.over = over
        /\ text \in Texts
    <2> HIDE DEF w, part, over, minus
    <2>1. minus \in BOOLEAN
      BY DEF minus
    <2> QED
      BY <1>2, <1>4, <1>5, <1>6, <2>1 DEF Text, Texts
  <1> DEFINE n == w * over + part
  <1>8. Numerator(text) = IF minus THEN -n ELSE n
    <2> HIDE DEF minus, w, part, over, text
    <2> QED
      BY <1>7 DEF Numerator
  <1>9. CASE v \in 1 - Unit .. -1
    <2>1. w = 0
      <3>1. w * Unit < Unit
        BY <1>1, <1>2, <1>9
      <3> HIDE DEF w
      <3>2. w >= 1 => w * Unit >= Unit
        BY <1>1, <1>2
      <3> QED
        BY <1>1, <1>2, <3>1, <3>2
    <2>2. part = 0
      BY <1>6, <1>9
    <2>3. n = 0
      <3> HIDE DEF w, part, over
      <3> QED
        BY <1>6, <2>1, <2>2
    <2>4. Numerator(text) = 0
      <3>1. -n = 0
        BY <2>3
      <3> HIDE DEF n, text, minus
      <3> QED
        BY <1>8, <2>3, <3>1
    <2> QED
      BY <1>7, <1>9, <2>4 DEF Agrees, SignLost
  <1>10. CASE v \notin 1 - Unit .. -1
    <2>1. fraction = f
      BY <1>10
    <2>2. minus <=> v < 0
      BY <1>1, <1>10
    <2> HIDE DEF w, f, fraction, part, rest, minus, size, text
    <2>3. n * Unit - size * over \in -(Unit - 1) .. 0
      <3>1. CASE fraction = 0
        <4>1. over = 1 /\ part = 0 /\ f = 0
          BY <1>6, <2>1, <3>1
        <4>2. n = w /\ size = w * Unit
          <5> HIDE DEF over
          <5>1. w * over + part = w
            BY <1>2, <4>1
          <5>2. size = w * Unit
            BY <1>1, <1>2, <4>1
          <5> QED
            BY <5>1, <5>2
        <4> QED
          BY <1>1, <1>2, <4>1, <4>2
      <3>2. CASE fraction # 0
        <4>1. over = 100 /\ fraction = f
          BY <2>1, <3>2
        <4>2. n * Unit = (100 * w + part) * Unit
          BY <1>2, <1>4, <4>1
        <4>3. (100 * w + part) * Unit = 100 * (w * Unit) + part * Unit
          BY <1>1, <1>2, <1>4
        <4>4. size * over = 100 * (w * Unit) + 100 * f
          BY <1>1, <1>2, <4>1
        <4>5. w * Unit \in Int /\ part * Unit \in Int
          BY <1>1, <1>2, <1>4
        <4>6. n * Unit - size * over = part * Unit - 100 * f
          BY <1>2, <4>2, <4>3, <4>4, <4>5
        <4> QED
          BY <1>1, <1>4, <4>1, <4>5, <4>6
      <3> QED
        BY <3>1, <3>2
    <2> HIDE DEF over
    <2> DEFINE diff == n * Unit - size * over
    <2>4. Numerator(text) * Unit - v * over \in {diff, -diff}
      <3>1. n \in Int
        BY <1>2, <1>4, <1>6
      <3> HIDE DEF n
      <3>2. CASE minus
        <4>1. Numerator(text) = -n /\ v = -size
          BY <1>1, <1>8, <2>2, <3>2
        <4>2. (-n) * Unit - (-size) * over = -(n * Unit - size * over)
          BY <1>1, <1>6, <3>1
        <4> QED
          BY <4>1, <4>2
      <3>3. CASE ~minus
        BY <1>1, <1>8, <2>2, <3>3
      <3> QED
        BY <3>2, <3>3
    <2> HIDE DEF diff, n
    <2>5. diff \in -(Unit - 1) .. 0
      BY <2>3 DEF diff
    <2>6. Size(Numerator(text) * Unit - v * over) = -diff
      BY <1>1, <2>4, <2>5 DEF Size
    <2>7. 100 * (-diff) < Unit * 100
      BY <1>1, <2>5
    <2>8. CASE over = 100
      <3>1. 100 * Size(Numerator(text) * Unit - v * over) < Unit * over
        BY <2>6, <2>7, <2>8
      <3> QED
        BY <1>7, <3>1 DEF Agrees, WithinHundredth, text
    <2>9. CASE over = 1
      <3>1. diff = 0
        <4>1. fraction = 0 /\ part = 0 /\ f = 0
          BY <1>6, <2>1, <2>9 DEF over
        <4>2. n = w /\ size = w * Unit
          <5>1. w * over + part = w
            BY <1>2, <2>9, <4>1
          <5>2. size = w * Unit
            BY <1>1, <1>2, <4>1
          <5> QED
            BY <5>1, <5>2 DEF n
        <4> QED
          BY <1>1, <1>2, <2>9, <4>2 DEF diff
      <3>2. 100 * Size(Numerator(text) * Unit - v * over) < Unit * over
        BY <1>1, <2>6, <2>9, <3>1
      <3> QED
        BY <1>7, <3>2 DEF Agrees, WithinHundredth, text
    <2> QED
      BY <2>8, <2>9 DEF over
  <1> QED
    BY <1>7, <1>9, <1>10

\* Whatever simple_ftoa shows of a number is a text that agrees with it.
LEMMA ShownAgrees ==
  ASSUME NEW v \in Int, NEW text \in Shown(v)
  PROVE  text \in Texts /\ Agrees(text, v)
  <1>1. Beyond \in Int
    BY CalculatorAssumption DEF Beyond
  <1>2. CASE v \in 1 - Beyond .. Beyond - 1
    <2>1. text = Cut(v)
      BY <1>1, <1>2 DEF Shown
    <2> QED
      BY <2>1, CutAgrees
  <1>3. CASE v \notin 1 - Beyond .. Beyond - 1
    <2>1. text = BareMinus \/ text \in Garbage
      BY <1>1, <1>3 DEF Shown
    <2>2. \E p \in Nat, o \in {1, 100} : text = Text(TRUE, NoDigits, p, o)
      <3>1. 0 .. 99 \subseteq Nat
        OBVIOUS
      <3> QED
        BY <2>1, <3>1 DEF BareMinus, Garbage
    <2>3. text \in Texts /\ text.whole = NoDigits
      BY <2>2 DEF Text, Texts
    <2> QED
      BY <2>3 DEF Agrees, Readable
  <1> QED
    BY <1>2, <1>3

-----------------------------------------------------------------------------
(* gui_init, and the mouse.                                                 *)

LEMMA InitIInv == Init => IInv
  <1> SUFFICES ASSUME Init PROVE IInv
    OBVIOUS
  <1>1. TypeOK
    <2>1. Nowhere \in Int \X Int
      BY DEF Nowhere
    <2>2. windows \in Seq([x : Int, y : Int, w : Nat, h : Nat, visible : BOOLEAN]) /\ Len(windows) = 0
      BY DEF Init
    <2>3. KeypadTypeOK
      BY OneDigitIsText DEF Init, KeypadInit, KeypadTypeOK, Digits
    <2>4. MaxWindows \in Nat /\ MaxPresses \in Nat
      BY DesktopAssumption
    <2>5. mouse \in [at : Points, left : BOOLEAN]
      BY DEF Init
    <2>6. dragging_window \in 0 .. Len(windows) /\ presses \in 0 .. MaxPresses
      BY <2>2, <2>4 DEF Init
    <2>7. /\ drag_offset \in Int \X Int
          /\ calc \in [x : Int, y : Int, dragging : BOOLEAN, offset : Int \X Int]
      BY <2>1 DEF Init
    <2>8. /\ pc \in {"idle", "gui", "calc_read", "calc"} /\ at \in Points \union {Nowhere}
          /\ Len(windows) <= MaxWindows
      BY <2>2, <2>4 DEF Init
    <2>9. {gui_last, active, calc_last, guiUsed, calcUsed} \subseteq BOOLEAN
      BY DEF Init
    <2> QED
      BY <2>2, <2>3, <2>5, <2>6, <2>7, <2>8, <2>9 DEF TypeOK
  <1>2. Remembered /\ Attended
    BY DEF Init, Remembered, Attended
  <1>3. Placed /\ TitleOnScreen
    BY DEF Init, Placed, TitleOnScreen
  <1>4. DragHeld
    BY DEF Init, DragHeld
  <1>5. ResultShown
    <2>1. display = OneDigit(0) /\ stored_value = 0
      BY DEF Init, KeypadInit
    <2> QED
      BY <2>1, ZeroAgrees DEF ResultShown
  <1> QED
    BY <1>1, <1>2, <1>3, <1>4, <1>5 DEF IInv

\* A packet may come anywhere: it changes what is read next, nothing that was.
LEMMA PacketIInv ==
  ASSUME IInv, NEW p \in Points, NEW left \in BOOLEAN, Packet(p, left)
  PROVE  IInv'
  <1>1. /\ mouse' = [at |-> p, left |-> left]
        /\ guiUsed' = (guiUsed /\ left) /\ calcUsed' = (calcUsed /\ left)
        /\ UNCHANGED <<pc, at, gui, calculator>>
    BY DEF Packet
  <1>2. presses' \in 0 .. MaxPresses
    <2>1. presses \in 0 .. MaxPresses
      BY DEF IInv, TypeOK
    <2>2. presses' = presses \/ (presses < MaxPresses /\ presses' = presses + 1)
      BY DEF Packet
    <2>3. MaxPresses \in Nat
      BY DesktopAssumption
    <2> QED
      BY <2>1, <2>2, <2>3
  <1>3. TypeOK'
    <2>1. mouse' \in [at : Points, left : BOOLEAN]
      BY <1>1
    <2>2. guiUsed' \in BOOLEAN /\ calcUsed' \in BOOLEAN
      BY <1>1
    <2> QED
      BY <1>1, <1>2, <2>1, <2>2 DEF IInv, TypeOK, gui, calculator, keypad, KeypadTypeOK
  <1>4. Remembered'
    BY <1>1 DEF IInv, Remembered, gui, calculator
  <1>5. (Attended /\ Placed /\ DragHeld /\ TitleOnScreen /\ ResultShown)'
    BY <1>1 DEF IInv, Attended, Placed, DragHeld, TitleOnScreen, ResultShown, gui, calculator, keypad
  <1> QED
    BY <1>3, <1>4, <1>5 DEF IInv

\* A mouse_get_state copies the position.
LEMMA ReadIInv ==
  ASSUME IInv,
         ReadPosition("idle", "gui") \/ ReadPosition("calc_read", "calc")
  PROVE  IInv'
  <1>1. /\ pc' \in {"gui", "calc"} /\ (pc' = "calc" => pc = "calc_read") /\ at' = mouse.at
        /\ UNCHANGED <<mouse, gui, calculator, presses, guiUsed, calcUsed>>
    BY DEF ReadPosition
  <1>2. TypeOK'
    <2>1. mouse.at \in Points
      BY DEF IInv, TypeOK
    <2> QED
      BY <1>1, <2>1 DEF IInv, TypeOK, gui, calculator, keypad, KeypadTypeOK
  <1>3. Attended'
    BY <1>1 DEF IInv, Attended, calculator
  <1>4. (Remembered /\ Placed /\ DragHeld /\ TitleOnScreen /\ ResultShown)'
    BY <1>1 DEF IInv, Remembered, Placed, DragHeld, TitleOnScreen, ResultShown, gui, calculator, keypad
  <1> QED
    BY <1>2, <1>3, <1>4 DEF IInv

\* gui_create_window: the shapes fit above the taskbar.
LEMMA CreateWindowIInv == ASSUME IInv, NEW s \in Shapes, CreateWindow(s) PROVE IInv'
  <1> DEFINE new == [x |-> s.x, y |-> s.y, w |-> s.w, h |-> s.h, visible |-> TRUE]
             n == Len(windows)
             Window == [x : Int, y : Int, w : Nat, h : Nat, visible : BOOLEAN]
  <1>1. /\ windows' = Append(windows, new) /\ n < MaxWindows
        /\ UNCHANGED <<mouse, pc, at, dragging_window, drag_offset, gui_last, calculator,
                       presses, guiUsed, calcUsed>>
    BY DEF CreateWindow, HasSlot
  <1>2. /\ s.x \in 0 .. Width - 1 /\ s.y \in 0 .. Height - 1 /\ s.w \in 1 .. Width
        /\ s.h \in 1 .. Height /\ s.x + s.w <= Width /\ s.y + s.h <= Height - Taskbar
    <2>1. /\ s \in [x : 0 .. Width - 1, y : 0 .. Height - 1, w : 1 .. Width, h : 1 .. Height]
          /\ s.x + s.w <= Width /\ s.y + s.h <= Height - Taskbar
      BY DesktopAssumption
    <2> QED
      BY <2>1
  <1>3. new \in Window /\ s.h \in 1 .. Height - Taskbar
    <2>1. s.x \in Int /\ s.y \in Int /\ s.w \in Nat /\ s.h \in Nat
      BY <1>2 DEF Width, Height
    <2>2. s.h \in 1 .. Height - Taskbar
      <3>1. s.y >= 0 /\ s.h >= 1 /\ Height - Taskbar \in Int
        BY <1>2 DEF Height, Taskbar
      <3> QED
        BY <1>2, <2>1, <3>1
    <2> QED
      BY <2>1, <2>2
  <1>4. /\ windows \in Seq(Window) /\ n \in Nat /\ MaxWindows \in Nat
        /\ dragging_window \in 0 .. n
    <2>1. MaxWindows \in Nat
      BY DesktopAssumption
    <2> QED
      BY <2>1 DEF IInv, TypeOK
  <1> HIDE DEF new, Window
  <1>5. /\ windows' \in Seq(Window) /\ Len(windows') = n + 1 /\ windows'[n + 1] = new
        /\ \A i \in 1 .. n : windows'[i] = windows[i]
        /\ DOMAIN windows' = 1 .. n + 1 /\ DOMAIN windows = 1 .. n
    BY <1>1, <1>3, <1>4
  <1>6. TypeOK'
    <2>1. Len(windows') <= MaxWindows /\ dragging_window' \in 0 .. Len(windows')
      BY <1>1, <1>4, <1>5
    <2> QED
      BY <1>1, <1>5, <2>1 DEF IInv, TypeOK, calculator, keypad, KeypadTypeOK, Window
  <1>7. \A i \in DOMAIN windows' : \/ i \in DOMAIN windows /\ windows'[i] = windows[i]
                                   \/ windows'[i] = new
    BY <1>4, <1>5
  <1>8. Placed'
    BY <1>1, <1>2, <1>3, <1>7 DEF IInv, Placed, new
  <1>9. TitleOnScreen'
    <2> SUFFICES ASSUME NEW i \in DOMAIN windows'
                 PROVE  /\ windows'[i].x >= 0 /\ windows'[i].x + windows'[i].w <= Width
                        /\ windows'[i].y \in 0 .. Height - 1
      BY DEF TitleOnScreen
    <2>1. CASE i \in DOMAIN windows /\ windows'[i] = windows[i]
      BY <2>1 DEF IInv, TitleOnScreen
    <2>2. CASE windows'[i] = new
      BY <2>2, <1>2 DEF new, Width
    <2> QED
      BY <1>7, <2>1, <2>2
  <1>10. DragHeld'
    BY <1>1, <1>4, <1>5 DEF IInv, DragHeld, calculator
  <1>11. (Remembered /\ Attended /\ ResultShown)'
    BY <1>1 DEF IInv, Remembered, Attended, ResultShown, calculator, keypad
  <1> QED
    BY <1>6, <1>8, <1>9, <1>10, <1>11 DEF IInv

-----------------------------------------------------------------------------
(* gui_update.                                                              *)

\* What a click of the window system may do: nothing, close a window or take
\* hold of one.  Nothing is dragged when a click comes.
LEMMA ClickWindows ==
  ASSUME IInv, ClickNothing \/ ClickClose \/ ClickTitle, mouse.left, ~gui_last
  PROVE  /\ windows' \in Seq([x : Int, y : Int, w : Nat, h : Nat, visible : BOOLEAN])
         /\ DOMAIN windows' = DOMAIN windows /\ Len(windows') = Len(windows)
         /\ \A i \in DOMAIN windows : /\ windows'[i].x = windows[i].x /\ windows'[i].y = windows[i].y
                                      /\ windows'[i].w = windows[i].w /\ windows'[i].h = windows[i].h
         /\ dragging_window' \in 0 .. Len(windows) /\ drag_offset' \in Int \X Int
         /\ dragging_window' # 0 => windows'[dragging_window'].visible /\ drag_offset'[2] >= 0
  <1> DEFINE Window == [x : Int, y : Int, w : Nat, h : Nat, visible : BOOLEAN]
             top == Max(Reacting)
  <1>1. /\ windows \in Seq(Window) /\ dragging_window \in 0 .. Len(windows)
        /\ drag_offset \in Int \X Int /\ dragging_window = 0
    BY DEF IInv, TypeOK, DragHeld
  <1>2. CASE ClickNothing
    BY <1>1, <1>2 DEF ClickNothing
  <1>3. CASE ClickClose
    <2>1. /\ windows' = [windows EXCEPT ![top].visible = FALSE]
          /\ dragging_window' = 0 /\ drag_offset' = drag_offset /\ top \in DOMAIN windows
      BY <1>1, <1>3, AskedReacts DEF ClickClose, IInv
    <2>2. windows[top] \in Window /\ top \in 1 .. Len(windows)
      BY <2>1, WindowTypes DEF IInv
    <2>3. [windows[top] EXCEPT !.visible = FALSE] \in Window
      BY <2>2
    <2>4. windows' = [windows EXCEPT ![top] = [windows[top] EXCEPT !.visible = FALSE]]
      BY <2>1
    <2> HIDE DEF Window, top
    <2>5. windows' \in Seq(Window) /\ DOMAIN windows' = DOMAIN windows /\ Len(windows') = Len(windows)
      BY <1>1, <2>2, <2>3, <2>4
    <2>6. \A i \in DOMAIN windows : /\ windows'[i].x = windows[i].x /\ windows'[i].y = windows[i].y
                                    /\ windows'[i].w = windows[i].w /\ windows'[i].h = windows[i].h
      BY <2>2, <2>4 DEF Window
    <2> QED
      BY <1>1, <2>1, <2>5, <2>6 DEF Window
  <1>4. CASE ClickTitle
    <2>1. /\ windows' = windows /\ dragging_window' = top
          /\ drag_offset' = <<Mx - Asked.x, My - Asked.y>> /\ ~OnClose(Asked)
      BY <1>4 DEF ClickTitle
    <2>2. top \in 1 .. Len(windows) /\ top \in DOMAIN windows /\ windows[top].visible /\ OnTitle(windows[top])
      BY <1>4, <2>1, AskedReacts DEF ClickTitle, IInv, Asked
    <2>3. windows[top] \in Window
      BY <2>2, WindowTypes DEF IInv
    <2>4. Mx \in Int /\ My \in Int /\ windows[top].x \in Int /\ windows[top].y \in Int
      BY <2>3, PointerOnScreen DEF IInv, Width, Height
    <2>5. My - windows[top].y >= 0
      BY <2>2, <2>4 DEF OnTitle
    <2>6. drag_offset' = <<Mx - windows[top].x, My - windows[top].y>>
      BY <2>1 DEF Asked
    <2> HIDE DEF Window, top
    <2>7. drag_offset' \in Int \X Int /\ drag_offset'[2] >= 0
      BY <2>4, <2>5, <2>6
    <2>8. dragging_window' \in 0 .. Len(windows)
      BY <2>1, <2>2
    <2> QED
      BY <1>1, <2>1, <2>2, <2>7, <2>8 DEF Window
  <1> QED
    BY <1>2, <1>3, <1>4

\* A drag moves one window, and leaves it with its title bar on the screen.
LEMMA DragWindows ==
  ASSUME IInv, GuiDrag
  PROVE  /\ windows' \in Seq([x : Int, y : Int, w : Nat, h : Nat, visible : BOOLEAN])
         /\ DOMAIN windows' = DOMAIN windows /\ Len(windows') = Len(windows)
         /\ \A i \in DOMAIN windows : /\ windows'[i].w = windows[i].w /\ windows'[i].h = windows[i].h
                                      /\ windows'[i].visible = windows[i].visible
         /\ TitleOnScreen'
         /\ UNCHANGED <<dragging_window, drag_offset, guiUsed>>
  <1> DEFINE Window == [x : Int, y : Int, w : Nat, h : Nat, visible : BOOLEAN]
             d == dragging_window
             nx == GuiKeptX(Mx - drag_offset[1], windows[d].w)
             ny == GuiKeptY(My - drag_offset[2], windows[d].h)
  <1>1. /\ windows' = [windows EXCEPT ![d] = Moved(windows[d])] /\ d # 0
        /\ UNCHANGED <<dragging_window, drag_offset, guiUsed>>
    BY DEF GuiDrag
  <1>2. /\ windows \in Seq(Window) /\ d \in 0 .. Len(windows) /\ Len(windows) \in Nat
        /\ drag_offset \in Int \X Int
    BY DEF IInv, TypeOK
  <1>3. d \in 1 .. Len(windows) /\ d \in DOMAIN windows
    BY <1>1, <1>2
  <1>4. /\ windows[d] \in Window /\ windows[d].w \in 1 .. 320 /\ windows[d].h \in 1 .. 172
        /\ drag_offset[2] >= 0 /\ drag_offset[1] \in Int /\ drag_offset[2] \in Int
    BY <1>1, <1>2, <1>3, WindowTypes DEF IInv, Placed, Width, Height, Taskbar
  <1>5. Mx \in Int /\ My \in Int /\ My <= 199
    BY PointerOnScreen DEF IInv, Width, Height
  <1>6. Moved(windows[d]) = [windows[d] EXCEPT !.x = nx, !.y = ny]
    BY DEF Moved
  <1>7. nx \in Int /\ nx >= 0 /\ nx + windows[d].w <= 320
    <2> DEFINE v == Mx - drag_offset[1]
               w == windows[d].w
    <2>1. v \in Int /\ w \in 1 .. 320
      BY <1>4, <1>5
    <2> DEFINE edge == 320
    <2>2. nx = Kept(v, w, edge, edge)
      BY DEF GuiKeptX, Width
    <2>3. w \in Int /\ edge \in Int
      BY <2>1
    <2> HIDE DEF nx, v, w, edge
    <2>4. /\ Kept(v, w, edge, edge) \in Int
          /\ \/ Kept(v, w, edge, edge) = edge - w
             \/ /\ Kept(v, w, edge, edge) = IF v < 0 THEN 0 ELSE v
                /\ Kept(v, w, edge, edge) + w <= edge
      BY <2>1, <2>3, KeptIs
    <2>5. nx \in Int /\ nx >= 0 /\ nx + w <= 320
      BY <2>1, <2>2, <2>4 DEF edge
    <2> QED
      BY <2>5 DEF w
  <1>8. ny \in 0 .. 199
    <2> DEFINE v == My - drag_offset[2]
               h == windows[d].h
    <2>1. v \in Int /\ v <= 199 /\ h \in 1 .. 172
      BY <1>4, <1>5
    <2>2. ny = Kept(v, h, Width - Taskbar, Height - Taskbar)
      BY DEF GuiKeptY
    <2>3. Width - Taskbar \in Int /\ Height - Taskbar \in Int /\ Height - Taskbar = 172
      BY DEF Width, Height, Taskbar
    <2> DEFINE test == Width - Taskbar
               limit == Height - Taskbar
    <2> HIDE DEF ny, v, h, test, limit
    <2>4. /\ Kept(v, h, test, limit) \in Int
          /\ \/ Kept(v, h, test, limit) = limit - h
             \/ /\ Kept(v, h, test, limit) = IF v < 0 THEN 0 ELSE v
                /\ Kept(v, h, test, limit) + h <= test
      <3>1. v \in Int /\ h \in Int /\ test \in Int /\ limit \in Int
        BY <2>1, <2>3 DEF test, limit
      <3> QED
        BY <3>1, KeptIs
    <2>5. ny \in Int /\ (ny = 172 - h \/ ny = 0 \/ (ny = v /\ v >= 0))
      BY <2>1, <2>2, <2>3, <2>4 DEF test, limit
    <2> QED
      BY <2>1, <2>5
  <1>9. Moved(windows[d]) \in Window
    <2> HIDE DEF nx, ny
    <2> DEFINE old == windows[d]
    <2>1. nx \in Int /\ ny \in Int /\ old \in Window
      BY <1>4, <1>7, <1>8
    <2> HIDE DEF old
    <2>2. [[old EXCEPT !.x = nx] EXCEPT !.y = ny] \in Window
      BY <2>1
    <2> QED
      BY <1>6, <2>2 DEF old
  <1> HIDE DEF Window, d, nx, ny
  <1>10. windows' \in Seq(Window) /\ DOMAIN windows' = DOMAIN windows /\ Len(windows') = Len(windows)
    BY <1>1, <1>2, <1>3, <1>9
  <1>11. \A i \in DOMAIN windows : i # d => windows'[i] = windows[i]
    BY <1>1
  <1>12. /\ windows'[d].x = nx /\ windows'[d].y = ny /\ windows'[d].w = windows[d].w
         /\ windows'[d].h = windows[d].h /\ windows'[d].visible = windows[d].visible
    <2>1. windows'[d] = [windows[d] EXCEPT !.x = nx, !.y = ny]
      BY <1>1, <1>3, <1>6
    <2> QED
      BY <1>4, <2>1 DEF Window
  <1>13. TitleOnScreen'
    <2> SUFFICES ASSUME NEW i \in DOMAIN windows
                 PROVE  /\ windows'[i].x >= 0 /\ windows'[i].x + windows'[i].w <= Width
                        /\ windows'[i].y \in 0 .. Height - 1
      BY <1>10 DEF TitleOnScreen
    <2>1. CASE i = d
      BY <2>1, <1>7, <1>8, <1>12 DEF Width, Height
    <2>2. CASE i # d
      BY <2>2, <1>11 DEF IInv, TitleOnScreen
    <2> QED
      BY <2>1, <2>2
  <1> QED
    BY <1>1, <1>10, <1>11, <1>12, <1>13 DEF Window

\* One run of gui_update keeps the invariant whatever it does with the button.
LEMMA GuiUpdateIInv == ASSUME IInv, GuiUpdate PROVE IInv'
  <1>1. /\ pc = "gui" /\ gui_last' = mouse.left
        /\ pc' = (IF active THEN "calc_read" ELSE "idle") /\ at' = Nowhere
        /\ UNCHANGED <<mouse, calculator, presses, calcUsed>>
    BY DEF GuiUpdate, GuiSeen
  <1>2. /\ windows' \in Seq([x : Int, y : Int, w : Nat, h : Nat, visible : BOOLEAN])
        /\ DOMAIN windows' = DOMAIN windows /\ Len(windows') = Len(windows)
        /\ \A i \in DOMAIN windows : windows'[i].w = windows[i].w /\ windows'[i].h = windows[i].h
        /\ TitleOnScreen'
        /\ dragging_window' \in 0 .. Len(windows) /\ drag_offset' \in Int \X Int
        /\ dragging_window' # 0 => /\ mouse.left /\ windows'[dragging_window'].visible
                                   /\ drag_offset'[2] >= 0
        /\ guiUsed' \in BOOLEAN /\ (guiUsed' => mouse.left)
    <2>1. /\ windows \in Seq([x : Int, y : Int, w : Nat, h : Nat, visible : BOOLEAN])
          /\ dragging_window \in 0 .. Len(windows) /\ drag_offset \in Int \X Int
          /\ guiUsed \in BOOLEAN /\ (guiUsed => mouse.left)
          /\ dragging_window # 0 => /\ gui_last /\ windows[dragging_window].visible
                                    /\ drag_offset[2] >= 0
      BY DEF IInv, TypeOK, Remembered, DragHeld, Placed
    <2>2. CASE mouse.left /\ ~gui_last /\ GuiClick
      <3>1. (ClickNothing \/ ClickClose \/ ClickTitle) /\ guiUsed' = TRUE
        BY <2>2 DEF GuiClick
      <3>2. TitleOnScreen'
        BY <2>2, <3>1, ClickWindows DEF IInv, TitleOnScreen
      <3> QED
        BY <2>2, <3>1, <3>2, ClickWindows
    <2>3. CASE mouse.left /\ gui_last /\ GuiDrag
      <3>1. dragging_window \in DOMAIN windows
        BY <2>1, <2>3 DEF GuiDrag
      <3> QED
        BY <2>1, <2>3, <3>1, DragWindows
    <2>4. CASE ~mouse.left /\ gui_last /\ GuiRelease
      BY <2>1, <2>4 DEF GuiRelease, IInv, TitleOnScreen
    <2>5. CASE GuiIdle /\ (dragging_window # 0 => mouse.left)
      BY <2>1, <2>5 DEF GuiIdle, IInv, TitleOnScreen
    <2> QED
      BY <2>1, <2>2, <2>3, <2>4, <2>5 DEF GuiUpdate
  <1>3. TypeOK'
    <2>1. mouse.left \in BOOLEAN /\ Nowhere \in Points \union {Nowhere}
      BY DEF IInv, TypeOK
    <2>2. pc' \in {"idle", "gui", "calc_read", "calc"}
      BY <1>1
    <2> QED
      BY <1>1, <1>2, <2>1, <2>2 DEF IInv, TypeOK, calculator, keypad, KeypadTypeOK
  <1>4. Remembered'
    BY <1>1, <1>2 DEF IInv, Remembered, calculator
  <1>5. Attended'
    BY <1>1 DEF Attended, calculator
  <1>6. Placed'
    BY <1>2 DEF IInv, Placed
  <1>7. DragHeld'
    BY <1>1, <1>2 DEF IInv, DragHeld, calculator
  <1>8. ResultShown'
    BY <1>1 DEF IInv, ResultShown, calculator, keypad
  <1> QED
    BY <1>2, <1>3, <1>4, <1>5, <1>6, <1>7, <1>8 DEF IInv

-----------------------------------------------------------------------------
(* The keypad.                                                              *)

\* An operation on the accumulator: what is displayed is what the number it
\* gives shows; with none pending, what is stored is read off the display.
LEMMA ExecuteShows ==
  ASSUME KeypadTypeOK, Execute
  PROVE  /\ display' \in Texts /\ stored_value' \in Int
         /\ Agrees(display', stored_value')
  <1> DEFINE number == ReadBack(display)
             result == Applied(operation, stored_value, number)
  <1>1. /\ display \in Texts /\ stored_value \in Int /\ operation \in Operators \union {None}
        /\ Unit \in Nat
    BY CalculatorAssumption DEF KeypadTypeOK
  <1>2. number \in Int /\ Agrees(display, number)
    BY <1>1, ReadBackAgrees
  <1>3. stored_value' = result /\ display' \in Redisplayed(result)
    BY DEF Execute
  <1> HIDE DEF number
  <1>4. result \in Int /\ (operation = None => result = number)
    <2>1. CASE operation = "+"
      BY <1>1, <1>2, <2>1 DEF Applied, None
    <2>2. CASE operation = "-"
      BY <1>1, <1>2, <2>2 DEF Applied, None
    <2>3. CASE operation = "*"
      <3>1. stored_value * number \in Int
        BY <1>1, <1>2
      <3>2. Nearest(stored_value * number, Unit) \in Int
        BY <1>1, <3>1, NearestInt
      <3> QED
        BY <2>3, <3>2 DEF Applied, None
    <2>4. CASE operation = "/"
      <3>1. stored_value * Unit \in Int
        BY <1>1
      <3>2. Nearest(stored_value * Unit, number) \in Int
        BY <1>2, <3>1, NearestInt
      <3> QED
        BY <1>1, <2>4, <3>2 DEF Applied, None
    <2>5. CASE operation = None
      BY <1>2, <2>5 DEF Applied, None
    <2> QED
      BY <1>1, <2>1, <2>2, <2>3, <2>4, <2>5 DEF Operators
  <1> HIDE DEF result
  <1>5. CASE operation = None
    <2>1. display' = display /\ stored_value' = number
      BY <1>3, <1>4, <1>5 DEF Redisplayed
    <2> QED
      BY <1>1, <1>2, <2>1
  <1>6. CASE operation # None
    <2>1. display' \in Shown(result)
      BY <1>3, <1>6 DEF Redisplayed
    <2> QED
      BY <1>3, <1>4, <2>1, ShownAgrees
  <1> QED
    BY <1>5, <1>6

\* Typing keeps the display a text with digits.
LEMMA TypedTexts ==
  ASSUME KeypadTypeOK, ~new_number
  PROVE  /\ \A d \in Digits : Extended(d) \in Texts /\ Extended(d).whole # NoDigits
         /\ WithPoint(display) \in Texts /\ WithPoint(display).whole # NoDigits
  <1>1. display \in Texts /\ display.whole \in Nat
    BY DEF KeypadTypeOK, Texts
  <1>2. ASSUME NEW d \in Digits PROVE Extended(d) \in Texts /\ Extended(d).whole # NoDigits
    <2>1. d \in Nat
      BY DEF Digits
    <2>2. /\ 10 * display.whole + d \in Nat /\ 10 * display.part + d \in Nat
          /\ 10 * display.over \in Nat \ {0} /\ display.len + 1 \in Nat
      BY <1>1, <2>1 DEF Texts
    <2>3. WithDigit(d) \in Texts /\ WithDigit(d).whole \in Nat
      BY <1>1, <2>2 DEF WithDigit, Texts
    <2>4. WithDecimal(d) \in Texts /\ WithDecimal(d).whole \in Nat
      BY <1>1, <2>2 DEF WithDecimal, Texts
    <2>5. Extended(d) \in {display, WithDigit(d), WithDecimal(d)}
      <3>1. HasRoom \in BOOLEAN /\ display.point \in BOOLEAN
        BY <1>1 DEF HasRoom, Texts
      <3> QED
        BY <3>1 DEF Extended
    <2> QED
      BY <1>1, <2>3, <2>4, <2>5 DEF NoDigits
  <1>3. WithPoint(display) \in Texts /\ WithPoint(display).whole # NoDigits
    <2>1. WithPoint(display) \in Texts /\ WithPoint(display).whole = display.whole
      BY <1>1, PointText
    <2> QED
      BY <1>1, <2>1 DEF NoDigits
  <1> QED
    BY <1>2, <1>3

\* Every key keeps the display and the accumulator together.
LEMMA HandleKeys ==
  ASSUME KeypadTypeOK, ResultShown, NEW b \in Buttons, Handle(b.key)
  PROVE  KeypadTypeOK' /\ ResultShown'
  <1> DEFINE key == b.key
  <1>1. CASE ClearKey
    <2>1. OneDigit(0) \in Texts
      BY OneDigitIsText DEF Digits
    <2> QED
      BY <1>1, <2>1, ZeroAgrees DEF ClearKey, KeypadTypeOK, ResultShown
  <1>2. CASE key.kind = "digit" /\ DigitKey(key.digit)
    <2>1. key.digit \in Digits
      BY <1>2, ButtonKeys
    <2>2. OneDigit(key.digit) \in Texts /\ OneDigit(key.digit).whole # NoDigits
      <3>1. OneDigit(key.digit).whole = key.digit
        BY DEF OneDigit, Text
      <3> QED
        BY <2>1, <3>1, OneDigitIsText DEF Digits, NoDigits
    <2>3. display' \in Texts /\ display'.whole # NoDigits
      BY <1>2, <2>1, <2>2, TypedTexts DEF DigitKey
    <2> QED
      BY <1>2, <2>3 DEF DigitKey, KeypadTypeOK, ResultShown
  <1>3. CASE PointKey
    <2>1. WithPoint(OneDigit(0)) \in Texts /\ WithPoint(OneDigit(0)).whole # NoDigits
      <3>1. OneDigit(0) \in Texts /\ OneDigit(0).whole = 0
        BY OneDigitIsText DEF Digits, OneDigit, Text
      <3>2. WithPoint(OneDigit(0)) \in Texts /\ WithPoint(OneDigit(0)).whole = 0
        BY <3>1, PointText
      <3> QED
        BY <3>2 DEF NoDigits
    <2>2. /\ new_number => display' = WithPoint(OneDigit(0))
          /\ ~new_number => display' \in {display, WithPoint(display)}
      <3>1. new_number \in BOOLEAN /\ HasRoom \in BOOLEAN /\ display.point \in BOOLEAN
        BY DEF KeypadTypeOK, HasRoom, Texts
      <3> QED
        BY <1>3, <3>1 DEF PointKey
    <2>3. display' \in Texts /\ display'.whole # NoDigits
      BY <2>1, <2>2, TypedTexts DEF KeypadTypeOK
    <2> QED
      BY <1>3, <2>3 DEF PointKey, KeypadTypeOK, ResultShown
  <1>4. CASE EqualsKey
    <2>1. Execute /\ operation' = None /\ new_number' = TRUE
      BY <1>4 DEF EqualsKey
    <2> QED
      BY <2>1, ExecuteShows DEF KeypadTypeOK, ResultShown
  <1>5. CASE key.kind = "operator" /\ OperatorKey(key.op)
    <2>1. operation' \in Operators /\ new_number' = TRUE
      BY <1>5, ButtonKeys DEF OperatorKey
    <2>2. CASE new_number /\ UNCHANGED <<display, stored_value>>
      BY <2>1, <2>2 DEF KeypadTypeOK, ResultShown
    <2>3. CASE Execute
      BY <2>1, <2>3, ExecuteShows DEF KeypadTypeOK, ResultShown
    <2> QED
      BY <1>5, <2>2, <2>3 DEF OperatorKey
  <1> QED
    BY <1>1, <1>2, <1>3, <1>4, <1>5 DEF Handle

-----------------------------------------------------------------------------
(* calculator_update.                                                       *)

\* Where the calculator's window goes.
LEMMA DraggedTypes ==
  ASSUME TypeOK, NEW dragging \in BOOLEAN, NEW offset \in Int \X Int, Dragged(dragging, offset)
  PROVE  /\ calc' \in [x : Int, y : Int, dragging : BOOLEAN, offset : Int \X Int]
         /\ calc'.dragging => dragging /\ ~CalcReleased
  <1>1. Mx \in Int /\ My \in Int /\ offset[1] \in Int /\ offset[2] \in Int
    BY PointerOnScreen DEF Width, Height
  <1>2. calc.x \in Int /\ calc.y \in Int
    BY DEF TypeOK
  <1>3. CalcKeptX(Mx - offset[1]) \in Int
    <2>1. Mx - offset[1] \in Int /\ CalcWidth \in Int /\ Width \in Int
      BY <1>1 DEF CalcWidth, Width
    <2> QED
      BY <2>1, KeptIs, Zenon DEF CalcKeptX
  <1>4. CalcKeptY(My - offset[2]) \in Int
    <2>1. My - offset[2] \in Int /\ CalcHeight \in Int /\ Height - 24 \in Int
      BY <1>1 DEF CalcHeight, Height
    <2> QED
      BY <2>1, KeptIs, Zenon DEF CalcKeptY
  <1> DEFINE nx == IF dragging /\ mouse.left THEN CalcKeptX(Mx - offset[1]) ELSE calc.x
             ny == IF dragging /\ mouse.left THEN CalcKeptY(My - offset[2]) ELSE calc.y
             held == dragging /\ ~CalcReleased
  <1>5. nx \in Int /\ ny \in Int /\ held \in BOOLEAN
    BY <1>2, <1>3, <1>4
  <1>6. calc' = [x |-> nx, y |-> ny, dragging |-> held, offset |-> offset]
    BY DEF Dragged
  <1> HIDE DEF nx, ny
  <1> QED
    BY <1>5, <1>6

LEMMA CalcUpdateIInv == ASSUME IInv, CalcUpdate PROVE IInv'
  <1>1. /\ pc = "calc" /\ calc_last' = mouse.left /\ calcUsed' = (calcUsed \/ CalcClicked)
        /\ pc' = "idle" /\ at' = Nowhere
        /\ UNCHANGED <<mouse, gui, presses, guiUsed>>
    BY DEF CalcUpdate, CalcSeen
  <1>2. /\ active /\ active \in BOOLEAN /\ calc_last \in BOOLEAN /\ mouse.left \in BOOLEAN
        /\ calc \in [x : Int, y : Int, dragging : BOOLEAN, offset : Int \X Int]
        /\ calc.dragging => calc_last
        /\ KeypadTypeOK
    BY <1>1 DEF IInv, TypeOK, Attended, DragHeld
  <1>3. /\ calc' \in [x : Int, y : Int, dragging : BOOLEAN, offset : Int \X Int]
        /\ active' \in BOOLEAN
        /\ calc'.dragging => mouse.left /\ active'
        /\ KeypadTypeOK' /\ ResultShown'
    <2>1. CASE CalcClose
      <3>1. /\ calc' = calc /\ active' = FALSE /\ ~calc_last
            /\ UNCHANGED keypad
        BY <2>1 DEF CalcClose, CalcClicked
      <3> QED
        BY <1>2, <3>1 DEF IInv, keypad, KeypadTypeOK, ResultShown
    <2>2. CASE CalcGrab
      <3> DEFINE o == <<Mx - calc.x, My - calc.y>>
      <3>1. mouse.left /\ active' = active /\ UNCHANGED keypad /\ Dragged(TRUE, o)
        BY <2>2 DEF CalcGrab, CalcClicked
      <3>2. o \in Int \X Int
        BY <1>2, PointerOnScreen DEF IInv, Width, Height
      <3> HIDE DEF o
      <3>3. calc' \in [x : Int, y : Int, dragging : BOOLEAN, offset : Int \X Int]
        BY <3>1, <3>2, DraggedTypes DEF IInv
      <3> QED
        BY <1>2, <3>1, <3>3 DEF IInv, keypad, KeypadTypeOK, ResultShown
    <2>3. CASE CalcPress \/ CalcNoClick
      <3>1. Dragged(calc.dragging, calc.offset) /\ active' = active
        BY <2>3 DEF CalcPress, CalcNoClick
      <3>2. calc.dragging \in BOOLEAN /\ calc.offset \in Int \X Int
        BY <1>2
      <3>3. /\ calc' \in [x : Int, y : Int, dragging : BOOLEAN, offset : Int \X Int]
            /\ calc'.dragging => calc.dragging /\ ~CalcReleased
        BY <3>1, <3>2, DraggedTypes DEF IInv
      <3>4. calc'.dragging => mouse.left
        BY <1>2, <3>3 DEF CalcReleased
      <3>5. ASSUME UNCHANGED keypad PROVE KeypadTypeOK' /\ ResultShown'
        BY <1>2, <3>5 DEF IInv, keypad, KeypadTypeOK, ResultShown
      <3>6. ASSUME \E b \in Pointed : Handle(b.key) PROVE KeypadTypeOK' /\ ResultShown'
        <4>1. PICK b \in Buttons : Handle(b.key)
          BY <3>6 DEF Pointed
        <4> QED
          BY <1>2, <4>1, HandleKeys DEF IInv
      <3>7. UNCHANGED keypad \/ \E b \in Pointed : Handle(b.key)
        BY <2>3 DEF CalcPress, CalcNoClick
      <3>8. KeypadTypeOK' /\ ResultShown'
        BY <3>5, <3>6, <3>7
      <3> QED
        BY <1>2, <3>1, <3>3, <3>4, <3>8
    <2> QED
      BY <2>1, <2>2, <2>3 DEF CalcUpdate
  <1>4. TypeOK'
    <2>1. calcUsed' \in BOOLEAN /\ calc_last' \in BOOLEAN /\ at' \in Points \union {Nowhere}
      BY <1>1, <1>2
    <2> QED
      BY <1>1, <1>3, <2>1 DEF IInv, TypeOK, gui
  <1>5. Remembered'
    BY <1>1 DEF IInv, Remembered, CalcClicked, gui
  <1>6. DragHeld'
    BY <1>1, <1>3 DEF IInv, DragHeld, gui
  <1>7. (Attended /\ Placed /\ TitleOnScreen)'
    BY <1>1 DEF IInv, Attended, Placed, TitleOnScreen, gui
  <1> QED
    BY <1>3, <1>4, <1>5, <1>6, <1>7 DEF IInv

-----------------------------------------------------------------------------
(* The theorems.                                                            *)

LEMMA StepIInv == IInv /\ [Next]_vars => IInv'
  <1> SUFFICES ASSUME IInv, [Next]_vars PROVE IInv'
    OBVIOUS
  <1>1. ASSUME NEW p \in Reach, NEW left \in BOOLEAN, Packet(p, left) PROVE IInv'
    <2>1. p \in Points
      BY DEF Reach, Points
    <2> QED
      BY <1>1, <2>1, PacketIInv
  <1>2. ASSUME NEW s \in Shapes, CreateWindow(s) PROVE IInv'
    BY <1>2, CreateWindowIInv
  <1>3. CASE ReadPosition("idle", "gui") \/ ReadPosition("calc_read", "calc")
    BY <1>3, ReadIInv
  <1>4. CASE GuiUpdate
    BY <1>4, GuiUpdateIInv
  <1>5. CASE CalcUpdate
    BY <1>5, CalcUpdateIInv
  <1>6. CASE UNCHANGED vars
    <2>1. UNCHANGED <<mouse, pc, at, gui, calculator, presses, guiUsed, calcUsed>>
      BY <1>6 DEF vars
    <2>2. TypeOK'
      BY <2>1 DEF IInv, TypeOK, gui, calculator, keypad, KeypadTypeOK
    <2>3. (Remembered /\ Attended /\ Placed /\ DragHeld /\ TitleOnScreen /\ ResultShown)'
      BY <2>1 DEF IInv, Remembered, Attended, Placed, DragHeld, TitleOnScreen, ResultShown,
                  gui, calculator, keypad
    <2> QED
      BY <2>2, <2>3 DEF IInv
  <1> QED
    BY <1>1, <1>2, <1>3, <1>4, <1>5, <1>6 DEF Next

\* The inductive invariant of the window system, the calculator and the mouse.
THEOREM DesktopInvariant == Spec => []IInv
  BY InitIInv, StepIInv, PTL DEF Spec

\* Windows, offsets and accumulators keep their types, and only a window that
\* was created is dragged.
THEOREM DesktopTypeOK == Spec => []TypeOK
  <1>1. IInv => TypeOK
    BY DEF IInv
  <1> QED
    BY <1>1, DesktopInvariant, PTL

\* gui_update and calculator_update each take one press of the button for one
\* click at most, wherever the mouse's packets fall between their reads.
THEOREM DesktopClicksArePresses == Spec => []ClicksArePresses
  <1>1. IInv => ClicksArePresses
    BY DEF IInv, Remembered, ClicksArePresses, CalcClicked
  <1> QED
    BY <1>1, DesktopInvariant, PTL

\* A drag of gui_handle_mouse_drag or of the calculator's window lasts only
\* while the button was down when last looked at, and holds an open window.
THEOREM DesktopDragHeld == Spec => []DragHeld
  <1>1. IInv => DragHeld
    BY DEF IInv
  <1> QED
    BY <1>1, DesktopInvariant, PTL

\* No sequence of drags takes the title bar of a window of gui_create_window
\* off the screen.
THEOREM DesktopTitleOnScreen == Spec => []TitleOnScreen
  <1>1. IInv => TitleOnScreen
    BY DEF IInv
  <1> QED
    BY <1>1, DesktopInvariant, PTL

\* Between numbers the calculator's display is less than a hundredth away from
\* the accumulator, for every sequence of keys, points and divisions included,
\* that the mouse clicks; except for the texts that ResultShown names, which
\* are those that simple_ftoa prints or simple_atof reads wrongly.
THEOREM DesktopResultShown == Spec => []ResultShown
  <1>1. IInv => ResultShown
    BY DEF IInv
  <1> QED
    BY <1>1, DesktopInvariant, PTL

\* The window is higher than what is kept of the screen, so the limit of its
\* lower edge is negative.
LEMMA DraggedLost ==
  ASSUME TypeOK, NEW dragging \in BOOLEAN, NEW offset \in Int \X Int,
         Dragged(dragging, offset), DragLosesTitle
  PROVE  DragLosesTitle'
  <1>1. My - offset[2] \in Int
    BY PointerOnScreen DEF Width, Height
  <1>2. CalcHeight = 240 /\ Height - 24 = 176
    BY DEF CalcHeight, Height
  <1>3. CalcKeptY(My - offset[2]) = -64
    <2> DEFINE k == Kept(My - offset[2], CalcHeight, Height - 24, Height - 24)
               w == IF My - offset[2] < 0 THEN 0 ELSE My - offset[2]
    <2>1. CalcHeight \in Int /\ Height - 24 \in Int
      BY <1>2
    <2>2. k \in Int /\ (k = Height - 24 - CalcHeight \/ (k = w /\ k + CalcHeight <= Height - 24))
      BY <1>1, <2>1, KeptIs, Zenon
    <2>3. w >= 0
      BY <1>1
    <2> HIDE DEF k, w
    <2>4. k = -64
      BY <1>2, <2>2, <2>3
    <2> QED
      BY <2>4 DEF k, CalcKeptY
  <1>4. calc'.y = -64 \/ calc'.y = calc.y
    BY <1>3 DEF Dragged
  <1> QED
    BY <1>4 DEF DragLosesTitle

\* Every drag of the calculator's window, wherever it begins and however the
\* mouse moves, takes its title bar above the screen, for good.
THEOREM DesktopDragLosesTitle == Spec => []DragLosesTitle
  <1>1. Init => DragLosesTitle
    BY DEF Init, DragLosesTitle
  <1>2. IInv /\ DragLosesTitle /\ [Next]_vars => DragLosesTitle'
    <2> SUFFICES ASSUME IInv, DragLosesTitle, [Next]_vars PROVE DragLosesTitle'
      OBVIOUS
    <2>1. calc \in [x : Int, y : Int, dragging : BOOLEAN, offset : Int \X Int] /\ TypeOK
      BY DEF IInv, TypeOK
    <2>2. CASE CalcUpdate /\ CalcClose
      BY <2>2 DEF CalcClose, DragLosesTitle
    <2>3. CASE CalcUpdate /\ CalcGrab
      <3>1. <<Mx - calc.x, My - calc.y>> \in Int \X Int
        BY <2>1, PointerOnScreen DEF Width, Height
      <3> QED
        BY <2>1, <2>3, <3>1, DraggedLost DEF CalcGrab
    <2>4. CASE CalcUpdate /\ (CalcPress \/ CalcNoClick)
      <3>1. calc.dragging \in BOOLEAN /\ calc.offset \in Int \X Int
        BY <2>1
      <3> QED
        BY <2>1, <2>4, <3>1, DraggedLost DEF CalcPress, CalcNoClick
    <2>5. CASE ~CalcUpdate
      <3>1. UNCHANGED calc
        BY <2>5 DEF Next, vars, Packet, CreateWindow, ReadPosition, GuiUpdate, calculator
      <3> QED
        BY <3>1 DEF DragLosesTitle
    <2> QED
      BY <2>2, <2>3, <2>4, <2>5 DEF CalcUpdate
  <1> QED
    BY <1>1, <1>2, DesktopInvariant, PTL DEF Spec
==============================================================================
