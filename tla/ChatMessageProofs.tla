--------------------------- MODULE ChatMessageProofs ---------------------------
(***************************************************************************)
(* The text format of the chat programs for every text and every message:  *)
(* what is serialized is a text, whatever is parsed gives messages, and    *)
(* what is serialized parses back.                                         *)
(***************************************************************************)
EXTENDS ChatMessage, SequenceTheorems, WellFoundedInduction, TLAPS

(* Induction with a set for the property: the prover does not instantiate  *)
(* an operator.                                                            *)
LEMMA SetInduction ==
  ASSUME NEW S, 0 \in S, \A n \in Nat : n \in S => n + 1 \in S
  PROVE  Nat \subseteq S
<1>. DEFINE T == {n \in Nat : n \notin S}
            R == OpToRel(<, Nat)
<1>1. SUFFICES ASSUME T # {} PROVE FALSE
  OBVIOUS
<1>2. IsWellFoundedOn(R, Nat)
  BY NatLessThanWellFounded
<1>3. T \subseteq Nat
  OBVIOUS
<1>4. \A x, y \in Nat : <<y, x>> \in R <=> y < x
  BY DEF OpToRel
<1>. HIDE DEF R
<1>5. PICK x \in T : \A y \in T : ~ (<<y, x>> \in R)
  BY <1>1, <1>2, <1>3, WFMin
<1>6. x # 0 /\ x \in Nat
  OBVIOUS
<1>7. x - 1 \in Nat /\ x - 1 < x
  BY <1>6
<1>8. x - 1 \in S
  BY <1>4, <1>5, <1>7
<1>. QED
  BY <1>6, <1>7, <1>8

(* A function that is defined by recursion up to N exists.  H is what one  *)
(* step makes of the value before it.                                      *)
Recurs(f, base, H, N) == f[0] = base /\ \A n \in 1 .. N : f[n] = H[n, f[n - 1]]

(* One value more.                                                         *)
LEMMA RecursionExtends ==
  ASSUME NEW S, NEW N \in Nat, NEW base \in S, NEW H \in [(1 .. N) \X S -> S],
         NEW m \in Nat, m + 1 <= N, NEW f \in [0 .. m -> S], Recurs(f, base, H, m)
  PROVE  \E g \in [0 .. m + 1 -> S] : Recurs(g, base, H, m + 1)
<1>. DEFINE next == H[m + 1, f[m]]
            g == [i \in 0 .. m + 1 |-> IF i = m + 1 THEN next ELSE f[i]]
<1>1. m + 1 \in 1 .. N /\ f[m] \in S
  OBVIOUS
<1>2. next \in S
  BY <1>1
<1>. HIDE DEF next
<1>3. g \in [0 .. m + 1 -> S] /\ g[m + 1] = next /\ \A i \in 0 .. m : g[i] = f[i]
  <2>1. ASSUME NEW i \in 0 .. m + 1 PROVE i = m + 1 \/ i \in 0 .. m
    OBVIOUS
  <2>2. m + 1 \in 0 .. m + 1 /\ \A i \in 0 .. m : i \in 0 .. m + 1 /\ i # m + 1
    OBVIOUS
  <2>3. ASSUME NEW i \in 0 .. m + 1 PROVE (IF i = m + 1 THEN next ELSE f[i]) \in S
    BY <1>2, <2>1
  <2>4. g \in [0 .. m + 1 -> S]
    BY <2>3
  <2>5. g[m + 1] = next
    BY <2>2
  <2>6. \A i \in 0 .. m : g[i] = f[i]
    BY <2>2
  <2>. QED
    BY <2>4, <2>5, <2>6
<1>. HIDE DEF g
<1>4. g[0] = base
  <2>1. 0 \in 0 .. m
    OBVIOUS
  <2>. QED
    BY <1>3, <2>1 DEF Recurs
<1>5. ASSUME NEW n \in 1 .. m + 1 PROVE g[n] = H[n, g[n - 1]]
  <2>1. CASE n = m + 1
    <3>1. n - 1 = m /\ m \in 0 .. m
      BY <2>1
    <3>2. g[m] = f[m]
      BY <1>3, <3>1
    <3>. QED
      BY <1>3, <2>1, <3>1, <3>2 DEF next
  <2>2. CASE n # m + 1
    <3>1. n \in 1 .. m /\ n \in 0 .. m /\ n - 1 \in 0 .. m
      BY <2>2
    <3>2. g[n] = f[n] /\ g[n - 1] = f[n - 1]
      BY <1>3, <3>1
    <3>. QED
      BY <3>1, <3>2 DEF Recurs
  <2>. QED
    BY <2>1, <2>2
<1>. QED
  BY <1>3, <1>4, <1>5 DEF Recurs

LEMMA RecursionExists ==
  ASSUME NEW S, NEW N \in Nat, NEW base \in S, NEW H \in [(1 .. N) \X S -> S]
  PROVE  \E f \in [0 .. N -> S] : Recurs(f, base, H, N)
<1>. DEFINE T == {m \in Nat : m <= N => \E f \in [0 .. m -> S] : Recurs(f, base, H, m)}
<1>1. 0 \in T
  <2>. DEFINE f == [i \in 0 .. 0 |-> base]
  <2>1. f \in [0 .. 0 -> S] /\ f[0] = base
    OBVIOUS
  <2>. HIDE DEF f
  <2>2. Recurs(f, base, H, 0)
    BY <2>1 DEF Recurs
  <2>. QED
    BY <2>1, <2>2
<1>2. ASSUME NEW m \in Nat, m \in T PROVE m + 1 \in T
  <2>1. ASSUME m + 1 <= N
        PROVE  \E f \in [0 .. m + 1 -> S] : Recurs(f, base, H, m + 1)
    <3>1. PICK f \in [0 .. m -> S] : Recurs(f, base, H, m)
      BY <1>2, <2>1
    <3>. QED
      BY <2>1, <3>1, RecursionExtends
  <2>. QED
    BY <2>1
<1>. HIDE DEF T
<1>3. N \in T
  BY <1>1, <1>2, SetInduction
<1>. QED
  BY <1>3 DEF T

(* Induction up to N.                                                      *)
LEMMA BoundedInduction ==
  ASSUME NEW N \in Nat, NEW S, 0 \in S, \A n \in 1 .. N : n - 1 \in S => n \in S
  PROVE  \A n \in 0 .. N : n \in S
<1>. DEFINE T == {n \in Nat : n <= N => n \in S}
<1>1. ASSUME NEW n \in Nat, n \in T PROVE n + 1 \in T
  <2>1. ASSUME n + 1 <= N PROVE n + 1 \in S
    <3>1. n + 1 \in 1 .. N /\ (n + 1) - 1 = n /\ n \in S
      BY <1>1, <2>1
    <3>. QED
      BY <3>1
  <2>. QED
    BY <2>1
<1>2. 0 \in T
  OBVIOUS
<1>. HIDE DEF T
<1>3. Nat \subseteq T
  BY <1>1, <1>2, SetInduction
<1>. QED
  BY <1>3 DEF T

(* Among the first N numbers there is a first one in S, or none is.        *)
LEMMA FirstExists ==
  ASSUME NEW N \in Nat, NEW S
  PROVE  \E n \in 0 .. N : (n < N => n + 1 \in S) /\ \A i \in 1 .. n : i \notin S
<1>. DEFINE T == {m \in Nat : \E n \in 0 .. m :
                                (n < m => n + 1 \in S) /\ \A i \in 1 .. n : i \notin S}
<1>1. 0 \in T
  <2>1. 0 \in 0 .. 0 /\ 1 .. 0 = {}
    OBVIOUS
  <2>. QED
    BY <2>1
<1>2. ASSUME NEW m \in Nat, m \in T PROVE m + 1 \in T
  <2>1. PICK n \in 0 .. m : (n < m => n + 1 \in S) /\ \A i \in 1 .. n : i \notin S
    BY <1>2
  <2>2. CASE n < m \/ m + 1 \in S
    <3>1. n \in 0 .. m + 1 /\ n + 1 \in S
      BY <2>1, <2>2
    <3>. QED
      BY <2>1, <3>1
  <2>3. CASE n = m /\ m + 1 \notin S
    <3>1. m + 1 \in 0 .. m + 1 /\ ~(m + 1 < m + 1)
      OBVIOUS
    <3>2. \A i \in 1 .. m + 1 : i \in 1 .. m \/ i = m + 1
      OBVIOUS
    <3>3. \A i \in 1 .. m + 1 : i \notin S
      BY <2>1, <2>3, <3>2
    <3>. QED
      BY <3>1, <3>3
  <2>. QED
    BY <2>1, <2>2, <2>3
<1>. HIDE DEF T
<1>3. N \in T
  BY <1>1, <1>2, SetInduction
<1>. QED
  BY <1>3 DEF T
-----------------------------------------------------------------------------
(* What is in front of the first colon, and of the first that is no digit. *)
LEMMA ColonFound ==
  ASSUME NEW text \in Text
  PROVE  /\ FindColon(text) \in 0 .. Len(text)
         /\ FindColon(text) < Len(text) => text[FindColon(text) + 1] = ":"
         /\ \A i \in 1 .. FindColon(text) : text[i] # ":"
<1>. DEFINE P(n) == /\ n < Len(text) => text[n + 1] = ":"
                    /\ \A i \in 1 .. n : text[i] # ":"
<1>1. FindColon(text) = CHOOSE n \in 0 .. Len(text) : P(n)
  BY DEF FindColon, InFront
<1>2. \E n \in 0 .. Len(text) : P(n)
  <2>. DEFINE S == {i \in 1 .. Len(text) : text[i] = ":"}
  <2>1. Len(text) \in Nat
    BY LenProperties DEF Text
  <2>2. PICK n \in 0 .. Len(text) : (n < Len(text) => n + 1 \in S) /\ \A i \in 1 .. n : i \notin S
    BY <2>1, FirstExists
  <2>3. \A i \in 1 .. n : i \in 1 .. Len(text)
    BY <2>1
  <2>. QED
    BY <2>2, <2>3
<1>. QED
  BY <1>1, <1>2

(* Only one position has no colon in front of it and one at it.            *)
LEMMA ColonUnique ==
  ASSUME NEW text \in Text, NEW n \in 0 .. Len(text), n < Len(text), text[n + 1] = ":",
         \A i \in 1 .. n : text[i] # ":"
  PROVE  FindColon(text) = n
<1>1. Len(text) \in Nat
  BY LenProperties DEF Text
<1>2. CASE FindColon(text) < n
  <2>1. FindColon(text) < Len(text) /\ FindColon(text) + 1 \in 1 .. n
    BY <1>1, <1>2, ColonFound
  <2>. QED
    BY <2>1, ColonFound
<1>3. CASE FindColon(text) > n
  <2>1. n + 1 \in 1 .. FindColon(text)
    BY <1>1, <1>3, ColonFound
  <2>. QED
    BY <2>1, ColonFound
<1>. QED
  BY <1>1, <1>2, <1>3, ColonFound

(* The number of digits a text begins with.                                *)
DigitsOf(text) == InFront(text, LAMBDA c : ~IsDigit(c))

LEMMA DigitsFound ==
  ASSUME NEW text \in Text
  PROVE  /\ DigitsOf(text) \in 0 .. Len(text)
         /\ DigitsOf(text) < Len(text) => ~IsDigit(text[DigitsOf(text) + 1])
         /\ \A i \in 1 .. DigitsOf(text) : IsDigit(text[i])
<1>. DEFINE P(n) == /\ n < Len(text) => ~IsDigit(text[n + 1])
                    /\ \A i \in 1 .. n : ~~IsDigit(text[i])
<1>1. DigitsOf(text) = CHOOSE n \in 0 .. Len(text) : P(n)
  BY DEF DigitsOf, InFront
<1>2. \E n \in 0 .. Len(text) : P(n)
  <2>. DEFINE S == {i \in 1 .. Len(text) : ~IsDigit(text[i])}
  <2>1. Len(text) \in Nat
    BY LenProperties DEF Text
  <2>2. PICK n \in 0 .. Len(text) : (n < Len(text) => n + 1 \in S) /\ \A i \in 1 .. n : i \notin S
    BY <2>1, FirstExists
  <2>3. \A i \in 1 .. n : i \in 1 .. Len(text)
    BY <2>1
  <2>. QED
    BY <2>2, <2>3
<1>. QED
  BY <1>1, <1>2

LEMMA AllDigits ==
  ASSUME NEW text \in Text, \A i \in 1 .. Len(text) : IsDigit(text[i])
  PROVE  DigitsOf(text) = Len(text)
<1>1. Len(text) \in Nat
  BY LenProperties DEF Text
<1>2. CASE DigitsOf(text) < Len(text)
  <2>1. DigitsOf(text) + 1 \in 1 .. Len(text)
    BY <1>1, <1>2, DigitsFound
  <2>. QED
    BY <1>2, <2>1, DigitsFound
<1>. QED
  BY <1>1, <1>2, DigitsFound
-----------------------------------------------------------------------------
(* Digits and their values.                                                *)
LEMMA DigitsRange ==
  /\ DOMAIN Digits = 1 .. 10
  /\ Range(Digits) = {"0", "1", "2", "3", "4", "5", "6", "7", "8", "9"}
<1>1. DOMAIN Digits = 1 .. 10
  BY DEF Digits
<1>2. \A i \in 1 .. 10 : i \in {1, 2, 3, 4, 5, 6, 7, 8, 9, 10}
  OBVIOUS
<1>. QED
  BY <1>1, <1>2 DEF Range, Digits

LEMMA DigitType ==
  ASSUME NEW n \in 0 .. 9
  PROVE  /\ Digits[n + 1] \in Range(Digits) /\ Digits[n + 1] \in Symbols
         /\ Digits[n + 1] # ":" /\ Value(Digits[n + 1]) = n
<1>1. n + 1 \in 1 .. 10 /\ n \in {0, 1, 2, 3, 4, 5, 6, 7, 8, 9}
  OBVIOUS
<1>2. Digits[n + 1] \in Range(Digits)
  BY <1>1, DigitsRange DEF Range
<1>3. Digits[n + 1] \in Symbols
  BY <1>2, SymbolsAssumption
<1>4. Digits[n + 1] # ":"
  BY <1>1 DEF Digits
<1>5. \A i \in 1 .. 10 : Digits[i] = Digits[n + 1] => i = n + 1
  <2>1. \A i \in 1 .. 10 : i \in {1, 2, 3, 4, 5, 6, 7, 8, 9, 10}
    OBVIOUS
  <2>. QED
    BY <1>1, <2>1 DEF Digits
<1>6. (CHOOSE i \in 1 .. 10 : Digits[i] = Digits[n + 1]) = n + 1
  BY <1>1, <1>5
<1>7. Value(Digits[n + 1]) = (n + 1) - 1
  BY <1>6, DigitsRange DEF Value
<1>. QED
  BY <1>2, <1>3, <1>4, <1>7

LEMMA IsDigitType ==
  ASSUME NEW c, IsDigit(c)
  PROVE  c \in Symbols /\ c # ":" /\ Value(c) \in Nat
<1>1. PICK i \in 1 .. 10 : c = Digits[i]
  BY DigitsRange DEF IsDigit, Range
<1>2. i - 1 \in 0 .. 9 /\ (i - 1) + 1 = i
  OBVIOUS
<1>. QED
  BY <1>1, <1>2, DigitType
-----------------------------------------------------------------------------
(* std::to_string.                                                         *)
Numeral == {t \in Seq(Range(Digits)) : t # <<>>}

(* g is the recursion of Decimal as far as m.                              *)
Quotients(g, m) ==
  \A i \in 0 .. m : g[i] = IF i < 10 THEN <<Digits[i + 1]>>
                           ELSE Append(g[i \div 10], Digits[(i % 10) + 1])

LEMMA DivMod ==
  ASSUME NEW n \in Nat
  PROVE  /\ n \div 10 \in Nat /\ n % 10 \in 0 .. 9
         /\ n = 10 * (n \div 10) + (n % 10)
         /\ n >= 10 => n \div 10 < n
OBVIOUS

LEMMA NumeralGrows ==
  ASSUME NEW n \in Nat
  PROVE  /\ n < 10 => <<Digits[n + 1]>> \in Numeral
         /\ \A t \in Numeral : Append(t, Digits[(n % 10) + 1]) \in Numeral
<1>1. n < 10 => <<Digits[n + 1]>> \in Numeral
  <2>1. n < 10 => n \in 0 .. 9
    OBVIOUS
  <2>2. n < 10 => Digits[n + 1] \in Range(Digits)
    BY <2>1, DigitType
  <2>3. \A d \in Range(Digits) : <<d>> \in Seq(Range(Digits)) /\ <<d>> # <<>>
    OBVIOUS
  <2>. QED
    BY <2>2, <2>3 DEF Numeral
<1>2. ASSUME NEW t \in Numeral PROVE Append(t, Digits[(n % 10) + 1]) \in Numeral
  <2>1. Digits[(n % 10) + 1] \in Range(Digits)
    BY DivMod, DigitType
  <2>2. t \in Seq(Range(Digits))
    BY DEF Numeral
  <2>. QED
    BY <2>1, <2>2, AppendProperties DEF Numeral
<1>. QED
  BY <1>1, <1>2

(* Course-of-values recursion: there is such a function for every m ...    *)
LEMMA QuotientsExist ==
  ASSUME NEW m \in Nat
  PROVE  \E g \in [0 .. m -> Numeral] : Quotients(g, m)
<1>. DEFINE T == {n \in Nat : \E g \in [0 .. n -> Numeral] : Quotients(g, n)}
<1>1. 0 \in T
  <2>. DEFINE g == [i \in 0 .. 0 |-> <<Digits[1]>>]
  <2>1. <<Digits[0 + 1]>> \in Numeral
    BY NumeralGrows
  <2>2. g \in [0 .. 0 -> Numeral] /\ \A i \in 0 .. 0 : i = 0 /\ g[0] = <<Digits[1]>>
    BY <2>1
  <2>. HIDE DEF g
  <2>3. Quotients(g, 0)
    BY <2>2 DEF Quotients
  <2>. QED
    BY <2>2, <2>3
<1>2. ASSUME NEW n \in Nat, n \in T PROVE n + 1 \in T
  <2>1. PICK g \in [0 .. n -> Numeral] : Quotients(g, n)
    BY <1>2
  <2>. DEFINE next == IF n + 1 < 10 THEN <<Digits[(n + 1) + 1]>>
                      ELSE Append(g[(n + 1) \div 10], Digits[((n + 1) % 10) + 1])
              h == [i \in 0 .. n + 1 |-> IF i = n + 1 THEN next ELSE g[i]]
  <2>2. next \in Numeral
    <3>1. n + 1 >= 10 => (n + 1) \div 10 \in 0 .. n
      BY DivMod
    <3>. QED
      BY <3>1, NumeralGrows
  <2>3. \A i \in 0 .. n + 1 : i = n + 1 \/ i \in 0 .. n
    OBVIOUS
  <2>4. n + 1 \in 0 .. n + 1 /\ \A i \in 0 .. n : i \in 0 .. n + 1 /\ i # n + 1
    OBVIOUS
  <2>. HIDE DEF next
  <2>5. h \in [0 .. n + 1 -> Numeral]
    BY <2>2, <2>3
  <2>6. h[n + 1] = next /\ \A i \in 0 .. n : h[i] = g[i]
    BY <2>4
  <2>. HIDE DEF h
  <2>7. ASSUME NEW i \in 0 .. n + 1
        PROVE  h[i] = IF i < 10 THEN <<Digits[i + 1]>>
                      ELSE Append(h[i \div 10], Digits[(i % 10) + 1])
    <3>1. i >= 10 => i \div 10 \in 0 .. n
      BY DivMod
    <3>2. i >= 10 => h[i \div 10] = g[i \div 10]
      BY <2>6, <3>1
    <3>3. CASE i = n + 1
      BY <2>6, <3>2, <3>3 DEF next
    <3>4. CASE i \in 0 .. n
      <4>1. g[i] = IF i < 10 THEN <<Digits[i + 1]>> ELSE Append(g[i \div 10], Digits[(i % 10) + 1])
        BY <2>1, <3>4 DEF Quotients
      <4>2. h[i] = g[i] /\ (i < 10 \/ i >= 10)
        BY <2>6, <3>4
      <4>. QED
        BY <3>2, <4>1, <4>2
    <3>. QED
      BY <2>3, <3>3, <3>4
  <2>8. Quotients(h, n + 1)
    BY <2>7 DEF Quotients
  <2>. QED
    BY <2>5, <2>8
<1>. HIDE DEF T
<1>3. m \in T
  BY <1>1, <1>2, SetInduction
<1>. QED
  BY <1>3 DEF T

(* ... and any two of them agree as far as they both go.                   *)
LEMMA QuotientsAgree ==
  ASSUME NEW m \in Nat, NEW k \in Nat, NEW g, NEW h, Quotients(g, m), Quotients(h, k)
  PROVE  \A i \in Nat : i <= m /\ i <= k => g[i] = h[i]
<1>. DEFINE T == {n \in Nat : \A i \in 0 .. n : i <= m /\ i <= k => g[i] = h[i]}
<1>1. 0 \in T
  <2>1. g[0] = <<Digits[0 + 1]>> /\ h[0] = <<Digits[0 + 1]>>
    <3>1. 0 \in 0 .. m /\ 0 \in 0 .. k /\ 0 < 10
      OBVIOUS
    <3>. QED
      BY <3>1 DEF Quotients
  <2>2. \A i \in 0 .. 0 : i = 0
    OBVIOUS
  <2>. QED
    BY <2>1, <2>2
<1>2. ASSUME NEW n \in Nat, n \in T PROVE n + 1 \in T
  <2>1. ASSUME NEW i \in 0 .. n + 1, i <= m, i <= k PROVE g[i] = h[i]
    <3>1. i \in 0 .. m /\ i \in 0 .. k
      BY <2>1
    <3>2. i >= 10 => i \div 10 \in 0 .. n /\ i \div 10 <= m /\ i \div 10 <= k
      BY <2>1, DivMod
    <3>3. i >= 10 => g[i \div 10] = h[i \div 10]
      BY <1>2, <3>2
    <3>4. g[i] = IF i < 10 THEN <<Digits[i + 1]>> ELSE Append(g[i \div 10], Digits[(i % 10) + 1])
      BY <3>1 DEF Quotients
    <3>5. h[i] = IF i < 10 THEN <<Digits[i + 1]>> ELSE Append(h[i \div 10], Digits[(i % 10) + 1])
      BY <3>1 DEF Quotients
    <3>6. i < 10 \/ i >= 10
      OBVIOUS
    <3>. QED
      BY <3>3, <3>4, <3>5, <3>6
  <2>. QED
    BY <2>1
<1>. HIDE DEF T
<1>3. Nat \subseteq T
  BY <1>1, <1>2, SetInduction
<1>4. ASSUME NEW i \in Nat PROVE i <= m /\ i <= k => g[i] = h[i]
  <2>1. i \in T /\ i \in 0 .. i
    BY <1>3
  <2>. QED
    BY <2>1 DEF T
<1>. QED
  BY <1>4

(* So the recursive definition of Decimal defines what it says.            *)
LEMMA DecimalDef ==
  /\ Decimal \in [Nat -> Numeral]
  /\ \A n \in Nat : Decimal[n] = IF n < 10 THEN <<Digits[n + 1]>>
                                 ELSE Append(Decimal[n \div 10], Digits[(n % 10) + 1])
<1>. DEFINE Upto(n) == CHOOSE g \in [0 .. n -> Numeral] : Quotients(g, n)
            f == [n \in Nat |-> Upto(n)[n]]
<1>1. ASSUME NEW n \in Nat PROVE Upto(n) \in [0 .. n -> Numeral] /\ Quotients(Upto(n), n)
  BY QuotientsExist
<1>. HIDE DEF Upto
<1>2. \A n \in Nat : n \in 0 .. n /\ f[n] = Upto(n)[n]
  OBVIOUS
<1>3. f \in [Nat -> Numeral]
  BY <1>1, <1>2
<1>4. ASSUME NEW n \in Nat
      PROVE  f[n] = IF n < 10 THEN <<Digits[n + 1]>>
                    ELSE Append(f[n \div 10], Digits[(n % 10) + 1])
  <2>. DEFINE q == n \div 10
  <2>1. q \in Nat /\ (n >= 10 => q <= n)
    BY DivMod
  <2>2. n >= 10 => Upto(n)[q] = Upto(q)[q]
    BY <1>1, <2>1, QuotientsAgree
  <2>3. Upto(n)[n] = IF n < 10 THEN <<Digits[n + 1]>>
                     ELSE Append(Upto(n)[q], Digits[(n % 10) + 1])
    BY <1>1, <1>2 DEF Quotients
  <2>4. f[n] = Upto(n)[n] /\ f[q] = Upto(q)[q]
    BY <1>2, <2>1
  <2>. HIDE DEF f, q
  <2>5. f[n] = IF n < 10 THEN <<Digits[n + 1]>> ELSE Append(f[q], Digits[(n % 10) + 1])
    BY <2>2, <2>3, <2>4
  <2>. QED
    BY <2>5 DEF q
<1>5. f = [n \in Nat |-> IF n < 10 THEN <<Digits[n + 1]>>
                         ELSE Append(f[n \div 10], Digits[(n % 10) + 1])]
  BY <1>3, <1>4
<1>. HIDE DEF f
<1>6. Decimal = [n \in Nat |-> IF n < 10 THEN <<Digits[n + 1]>>
                               ELSE Append(Decimal[n \div 10], Digits[(n % 10) + 1])]
  <2>. DEFINE Eq(g) == g = [n \in Nat |-> IF n < 10 THEN <<Digits[n + 1]>>
                                        ELSE Append(g[n \div 10], Digits[(n % 10) + 1])]
  <2>1. Decimal = CHOOSE g : Eq(g)
    BY Zenon DEF Decimal
  <2>2. Eq(f)
    BY <1>5, Zenon
  <2>. HIDE DEF Eq
  <2>3. Eq(CHOOSE g : Eq(g))
    BY <2>2, Zenon
  <2>4. Eq(Decimal)
    BY <2>1, <2>3, Zenon
  <2>. QED
    BY <2>4, Zenon DEF Eq
<1>7. \A n \in Nat : Decimal[n] = IF n < 10 THEN <<Digits[n + 1]>>
                                  ELSE Append(Decimal[n \div 10], Digits[(n % 10) + 1])
  BY <1>6
<1>8. ASSUME NEW n \in Nat PROVE Decimal[n] \in Numeral
  <2>1. Quotients(Decimal, n)
    BY <1>7 DEF Quotients
  <2>2. n <= n /\ Decimal[n] = Upto(n)[n]
    BY <1>1, <2>1, QuotientsAgree
  <2>. QED
    BY <1>1, <1>2, <2>2
<1>. QED
  BY <1>6, <1>7, <1>8
-----------------------------------------------------------------------------
(* The digits in front of a text as a number.                              *)
Reads(v, text, N) == v[0] = 0 /\ \A n \in 1 .. N : v[n] = 10 * v[n - 1] + Value(text[n])

(* NumberInFront is the value of such a function at the last of the digits.         *)
LEMMA NumberDef ==
  ASSUME NEW text \in Text
  PROVE  \E v \in [0 .. DigitsOf(text) -> Nat] :
           Reads(v, text, DigitsOf(text)) /\ NumberInFront(text) = v[DigitsOf(text)]
<1>. DEFINE N == DigitsOf(text)
            H == [x \in (1 .. N) \X Nat |-> 10 * x[2] + Value(text[x[1]])]
            value == CHOOSE value : value = [n \in 0 .. N |->
                       IF n = 0 THEN 0 ELSE 10 * value[n - 1] + Value(text[n])]
<1>1. Len(text) \in Nat
  BY LenProperties DEF Text
<1>2. N \in Nat /\ \A i \in 1 .. N : Value(text[i]) \in Nat
  BY <1>1, DigitsFound, IsDigitType
<1>3. NumberInFront(text) = value[N]
  BY DEF NumberInFront, DigitsOf
<1>. HIDE DEF N, value
<1>4. H \in [(1 .. N) \X Nat -> Nat]
  <2>1. ASSUME NEW x \in (1 .. N) \X Nat PROVE 10 * x[2] + Value(text[x[1]]) \in Nat
    <3>1. x[2] \in Nat /\ Value(text[x[1]]) \in Nat
      BY <1>2
    <3>. QED
      BY <3>1
  <2>. QED
    BY <2>1
<1>5. \A n \in 1 .. N, k \in Nat : H[n, k] = 10 * k + Value(text[n])
  OBVIOUS
<1>. HIDE DEF H
<1>6. PICK f \in [0 .. N -> Nat] : Recurs(f, 0, H, N)
  BY <1>2, <1>4, RecursionExists
<1>7. \A n \in 1 .. N : n - 1 \in 0 .. N /\ f[n] = 10 * f[n - 1] + Value(text[n])
  <2>1. ASSUME NEW n \in 1 .. N PROVE n - 1 \in 0 .. N /\ f[n] = 10 * f[n - 1] + Value(text[n])
    <3>1. n - 1 \in 0 .. N
      BY <1>2
    <3>2. f[n - 1] \in Nat /\ f[n] = H[n, f[n - 1]]
      BY <1>6, <3>1 DEF Recurs
    <3>. QED
      BY <1>5, <3>1, <3>2
  <2>. QED
    BY <2>1
<1>8. f = [n \in 0 .. N |-> IF n = 0 THEN 0 ELSE 10 * f[n - 1] + Value(text[n])]
  <2>1. \A n \in 0 .. N : n = 0 \/ n \in 1 .. N
    BY <1>2
  <2>2. f[0] = 0
    BY <1>6 DEF Recurs
  <2>3. \A n \in 0 .. N : f[n] = IF n = 0 THEN 0 ELSE 10 * f[n - 1] + Value(text[n])
    BY <1>2, <1>7, <2>1, <2>2
  <2>. QED
    BY <2>3
<1>9. value = [n \in 0 .. N |-> IF n = 0 THEN 0 ELSE 10 * value[n - 1] + Value(text[n])]
  BY <1>8 DEF value
<1>10. value[0] = 0 /\ \A n \in 1 .. N : value[n] = 10 * value[n - 1] + Value(text[n])
  <2>1. 0 \in 0 .. N
    BY <1>2
  <2>2. \A n \in 1 .. N : n \in 0 .. N /\ n # 0
    BY <1>2
  <2>3. \A n \in 0 .. N : value[n] = IF n = 0 THEN 0 ELSE 10 * value[n - 1] + Value(text[n])
    BY <1>9
  <2>. QED
    BY <2>1, <2>2, <2>3
<1>11. \A n \in 0 .. N : n \in {k \in Nat : value[k] \in Nat}
  <2>. DEFINE S == {k \in Nat : value[k] \in Nat}
  <2>1. 0 \in S
    BY <1>10
  <2>2. ASSUME NEW n \in 1 .. N, n - 1 \in S PROVE n \in S
    <3>1. value[n - 1] \in Nat /\ n \in Nat
      BY <1>2, <2>2
    <3>. QED
      BY <1>2, <1>10, <3>1
  <2>. HIDE DEF S
  <2>3. \A n \in 0 .. N : n \in S
    BY <1>2, <2>1, <2>2, BoundedInduction
  <2>. QED
    BY <2>3 DEF S
<1>12. value \in [0 .. N -> Nat]
  <2>1. \A n \in 0 .. N : value[n] \in Nat
    BY <1>11
  <2>2. value = [n \in 0 .. N |-> value[n]]
    <3>1. DOMAIN value = 0 .. N
      BY <1>9
    <3>. QED
      BY <1>9, <3>1
  <2>. QED
    BY <2>1, <2>2
<1>13. Reads(value, text, N)
  BY <1>10 DEF Reads
<1>. QED
  BY <1>3, <1>12, <1>13 DEF N

LEMMA NumberType ==
  ASSUME NEW text \in Text
  PROVE  NumberInFront(text) \in Nat
<1>1. PICK v \in [0 .. DigitsOf(text) -> Nat] :
        Reads(v, text, DigitsOf(text)) /\ NumberInFront(text) = v[DigitsOf(text)]
  BY NumberDef
<1>2. DigitsOf(text) \in 0 .. DigitsOf(text)
  <2>1. Len(text) \in Nat
    BY LenProperties DEF Text
  <2>. QED
    BY <2>1, DigitsFound
<1>. QED
  BY <1>1, <1>2

LEMMA ReadsAgree ==
  ASSUME NEW N \in Nat, NEW s, NEW t, NEW v, NEW w, Reads(v, s, N), Reads(w, t, N),
         \A i \in 1 .. N : s[i] = t[i]
  PROVE  v[N] = w[N]
<1>. DEFINE S == {k \in Nat : v[k] = w[k]}
<1>1. 0 \in S
  BY DEF Reads
<1>2. ASSUME NEW n \in 1 .. N, n - 1 \in S PROVE n \in S
  <2>1. v[n] = 10 * v[n - 1] + Value(s[n])
    BY DEF Reads
  <2>2. w[n] = 10 * w[n - 1] + Value(t[n])
    BY DEF Reads
  <2>3. v[n - 1] = w[n - 1] /\ s[n] = t[n] /\ n \in Nat
    BY <1>2
  <2>. QED
    BY <2>1, <2>2, <2>3
<1>. HIDE DEF S
<1>3. N \in 0 .. N /\ \A n \in 0 .. N : n \in S
  BY <1>1, <1>2, BoundedInduction
<1>. QED
  BY <1>3 DEF S

LEMMA NumeralText ==
  ASSUME NEW t \in Numeral
  PROVE  /\ t \in Text /\ Len(t) \in Nat /\ Len(t) >= 1
         /\ \A i \in 1 .. Len(t) : IsDigit(t[i]) /\ t[i] # ":"
         /\ DigitsOf(t) = Len(t)
<1>1. t \in Seq(Range(Digits)) /\ t # <<>>
  BY DEF Numeral
<1>2. Range(Digits) \subseteq Symbols
  BY SymbolsAssumption
<1>3. t \in Text
  BY <1>1, <1>2 DEF Text
<1>4. Len(t) \in Nat /\ Len(t) >= 1
  BY <1>1, EmptySeq, LenProperties
<1>5. \A i \in 1 .. Len(t) : IsDigit(t[i])
  BY <1>1, ElementOfSeq DEF IsDigit
<1>. QED
  BY <1>3, <1>4, <1>5, IsDigitType, AllDigits

(* A numeral with one digit more.                                          *)
LEMMA NumberAppend ==
  ASSUME NEW t \in Numeral, NEW d \in Range(Digits)
  PROVE  NumberInFront(Append(t, d)) = 10 * NumberInFront(t) + Value(d)
<1>. DEFINE u == Append(t, d)
<1>1. t \in Seq(Range(Digits))
  BY DEF Numeral
<1>2. u \in Numeral /\ Len(u) = Len(t) + 1 /\ u[Len(t) + 1] = d
      /\ \A i \in 1 .. Len(t) : u[i] = t[i]
  BY <1>1, AppendProperties DEF Numeral
<1>. HIDE DEF u
<1>3. DigitsOf(t) = Len(t) /\ DigitsOf(u) = Len(t) + 1 /\ Len(t) \in Nat
  BY <1>2, NumeralText
<1>4. PICK v \in [0 .. Len(t) -> Nat] : Reads(v, t, Len(t)) /\ NumberInFront(t) = v[Len(t)]
  BY <1>3, NumeralText, NumberDef
<1>5. PICK w \in [0 .. Len(t) + 1 -> Nat] : Reads(w, u, Len(t) + 1) /\ NumberInFront(u) = w[Len(t) + 1]
  BY <1>2, <1>3, NumeralText, NumberDef
<1>6. Reads(w, u, Len(t))
  <2>1. \A n \in 1 .. Len(t) : n \in 1 .. Len(t) + 1
    BY <1>3
  <2>. QED
    BY <1>5, <2>1 DEF Reads
<1>7. v[Len(t)] = w[Len(t)]
  BY <1>2, <1>3, <1>4, <1>6, ReadsAgree
<1>8. w[Len(t) + 1] = 10 * w[(Len(t) + 1) - 1] + Value(u[Len(t) + 1])
  <2>1. Len(t) + 1 \in 1 .. Len(t) + 1
    BY <1>3
  <2>. QED
    BY <1>5, <2>1 DEF Reads
<1>9. (Len(t) + 1) - 1 = Len(t)
  BY <1>3
<1>. QED
  BY <1>2, <1>4, <1>5, <1>7, <1>8, <1>9 DEF u

LEMMA NumberDigit ==
  ASSUME NEW d \in Range(Digits)
  PROVE  NumberInFront(<<d>>) = Value(d)
<1>1. <<d>> \in Numeral /\ Len(<<d>>) = 1 /\ <<d>>[1] = d
  BY DEF Numeral
<1>2. PICK v \in [0 .. 1 -> Nat] : Reads(v, <<d>>, 1) /\ NumberInFront(<<d>>) = v[1]
  BY <1>1, NumeralText, NumberDef
<1>3. v[1] = 10 * v[1 - 1] + Value(d) /\ v[0] = 0 /\ 1 - 1 = 0
  <2>1. 1 \in 1 .. 1
    OBVIOUS
  <2>. QED
    BY <1>1, <1>2, <2>1 DEF Reads
<1>4. Value(d) \in Nat
  BY IsDigitType DEF IsDigit
<1>. QED
  BY <1>2, <1>3, <1>4

(* The digits of a number are read as that number.                         *)
LEMMA DecimalNumber ==
  \A n \in Nat : NumberInFront(Decimal[n]) = n
<1>. DEFINE Read == {n \in Nat : NumberInFront(Decimal[n]) = n}
            T == {n \in Nat : \A i \in 0 .. n : i \in Read}
<1>1. ASSUME NEW n \in Nat, n >= 10 => n \div 10 \in Read PROVE n \in Read
  <2>1. CASE n < 10
    <3>1. n \in 0 .. 9 /\ Decimal[n] = <<Digits[n + 1]>>
      BY <2>1, DecimalDef
    <3>. QED
      BY <3>1, DigitType, NumberDigit
  <2>2. CASE n >= 10
    <3>. DEFINE q == n \div 10
                r == n % 10
    <3>1. q \in Nat /\ r \in 0 .. 9 /\ n = 10 * q + r
      BY DivMod
    <3>2. Decimal[n] = Append(Decimal[q], Digits[r + 1]) /\ Decimal[q] \in Numeral
      <4>1. Decimal[n] = IF n < 10 THEN <<Digits[n + 1]>> ELSE Append(Decimal[q], Digits[r + 1])
        BY DecimalDef
      <4>2. ~(n < 10)
        BY <2>2
      <4>. QED
        BY <3>1, <4>1, <4>2, DecimalDef
    <3>3. Digits[r + 1] \in Range(Digits) /\ Value(Digits[r + 1]) = r
      BY <3>1, DigitType
    <3>4. NumberInFront(Decimal[q]) = q
      BY <1>1, <2>2
    <3>. HIDE DEF q, r
    <3>5. NumberInFront(Decimal[n]) = 10 * q + r
      BY <3>2, <3>3, <3>4, NumberAppend
    <3>. QED
      BY <3>1, <3>5
  <2>. QED
    BY <2>1, <2>2
<1>. HIDE DEF Read
<1>2. 0 \in T
  <2>1. 0 \in Read
    BY <1>1
  <2>2. \A i \in 0 .. 0 : i = 0
    OBVIOUS
  <2>. QED
    BY <2>1, <2>2
<1>3. ASSUME NEW n \in Nat, n \in T PROVE n + 1 \in T
  <2>1. n + 1 >= 10 => (n + 1) \div 10 \in 0 .. n
    BY DivMod
  <2>2. n + 1 \in Read
    BY <1>1, <1>3, <2>1
  <2>3. \A i \in 0 .. n + 1 : i = n + 1 \/ i \in 0 .. n
    OBVIOUS
  <2>. QED
    BY <1>3, <2>2, <2>3
<1>. HIDE DEF T
<1>4. Nat \subseteq T
  BY <1>2, <1>3, SetInduction
<1>5. ASSUME NEW n \in Nat PROVE n \in Read
  <2>1. n \in T /\ n \in 0 .. n
    BY <1>4
  <2>. QED
    BY <2>1 DEF T
<1>. QED
  BY <1>5 DEF Read
-----------------------------------------------------------------------------
(* Pieces of a text.                                                       *)
LEMMA Pieces ==
  ASSUME NEW text \in Text, NEW pos \in Nat, NEW n \in Nat
  PROVE  /\ From(text, pos) \in Text /\ Substr(text, pos, n) \in Text
         /\ Len(text) \in Nat
<1>1. Len(text) \in Nat /\ \A i \in 1 .. Len(text) : text[i] \in Symbols
  BY LenProperties, ElementOfSeq DEF Text
<1>2. From(text, pos) \in Text
  <2>1. \A i \in pos + 1 .. Len(text) : text[i] \in Symbols
    BY <1>1
  <2>. QED
    BY <1>1, <2>1, SubSeqProperties DEF From, Text
<1>3. Substr(text, pos, n) \in Text
  <2>. DEFINE end == IF pos + n < Len(text) THEN pos + n ELSE Len(text)
  <2>1. end \in Int /\ \A i \in pos + 1 .. end : text[i] \in Symbols
    BY <1>1
  <2>. HIDE DEF end
  <2>2. SubSeq(text, pos + 1, end) \in Text
    BY <2>1, SubSeqProperties DEF Text
  <2>. QED
    BY <2>2 DEF Substr, end
<1>. QED
  BY <1>1, <1>2, <1>3

(* std::atoi: how many blanks a text begins with.                          *)
BlanksOf(text) == InFront(text, LAMBDA c : c # "blank")

LEMMA BlanksFound ==
  ASSUME NEW text \in Text
  PROVE  /\ BlanksOf(text) \in 0 .. Len(text)
         /\ \A i \in 1 .. BlanksOf(text) : text[i] = "blank"
<1>. DEFINE P(n) == /\ n < Len(text) => text[n + 1] # "blank"
                    /\ \A i \in 1 .. n : ~(text[i] # "blank")
<1>1. BlanksOf(text) = CHOOSE n \in 0 .. Len(text) : P(n)
  BY DEF BlanksOf, InFront
<1>2. \E n \in 0 .. Len(text) : P(n)
  <2>. DEFINE S == {i \in 1 .. Len(text) : text[i] # "blank"}
  <2>1. Len(text) \in Nat
    BY LenProperties DEF Text
  <2>2. PICK n \in 0 .. Len(text) : (n < Len(text) => n + 1 \in S) /\ \A i \in 1 .. n : i \notin S
    BY <2>1, FirstExists
  <2>3. \A i \in 1 .. n : i \in 1 .. Len(text)
    BY <2>1
  <2>. QED
    BY <2>2, <2>3
<1>. QED
  BY <1>1, <1>2

LEMMA Wraps ==
  ASSUME NEW k \in Nat
  PROVE  /\ k % Modulus \in 0 .. Modulus - 1
         /\ (Modulus - (k % Modulus)) % Modulus \in Nat
         /\ k < Modulus => k % Modulus = k
<1>1. Modulus \in Nat /\ Modulus > 0
  BY ModulusAssumption
<1>2. k % Modulus \in 0 .. Modulus - 1
  BY <1>1
<1>3. Modulus - (k % Modulus) \in Nat
  BY <1>1, <1>2
<1>4. (Modulus - (k % Modulus)) % Modulus \in Nat
  BY <1>1, <1>3
<1>. QED
  BY <1>1, <1>2, <1>4

LEMMA AtoiType ==
  ASSUME NEW text \in Text
  PROVE  Atoi(text) \in Nat
<1>. DEFINE rest == From(text, BlanksOf(text))
            sign == Substr(rest, 0, 1)
            digits == IF sign \in {<<"plus">>, <<"minus">>} THEN From(rest, 1) ELSE rest
            value == NumberInFront(digits) % Modulus
<1>1. BlanksOf(text) \in Nat
  <2>1. Len(text) \in Nat
    BY LenProperties DEF Text
  <2>. QED
    BY <2>1, BlanksFound
<1>2. rest \in Text
  BY <1>1, Pieces
<1>. HIDE DEF rest
<1>3. From(rest, 1) \in Text
  BY <1>2, Pieces
<1>4. digits \in Text
  BY <1>2, <1>3
<1>5. NumberInFront(digits) \in Nat
  BY <1>4, NumberType
<1>. HIDE DEF digits, sign
<1>6. value \in Nat /\ (Modulus - value) % Modulus \in Nat
  <2>1. value \in 0 .. Modulus - 1
    BY <1>5, Wraps
  <2>2. (Modulus - value) % Modulus \in Nat
    BY <1>5, Wraps
  <2>. QED
    BY <2>1, <2>2, ModulusAssumption
<1>. HIDE DEF value
<1>7. Atoi(text) = IF sign = <<"minus">> THEN (Modulus - value) % Modulus ELSE value
  BY Zenon DEF Atoi, value, digits, sign, rest, BlanksOf
<1>. QED
  BY <1>6, <1>7

(* A numeral has no blanks and no sign in front.                           *)
LEMMA AtoiNumeral ==
  ASSUME NEW t \in Numeral
  PROVE  Atoi(t) = NumberInFront(t) % Modulus
<1>. DEFINE rest == From(t, BlanksOf(t))
            sign == Substr(rest, 0, 1)
<1>1. t \in Text /\ Len(t) \in Nat /\ Len(t) >= 1 /\ IsDigit(t[1])
  <2>1. t \in Text /\ Len(t) \in Nat /\ Len(t) >= 1
    BY NumeralText
  <2>2. 1 \in 1 .. Len(t)
    BY <2>1
  <2>. QED
    BY <2>1, <2>2, NumeralText
<1>2. t[1] # "blank" /\ t[1] # "plus" /\ t[1] # "minus"
  BY <1>1, DigitsRange DEF IsDigit
<1>3. BlanksOf(t) = 0
  BY <1>1, <1>2, BlanksFound
<1>4. rest = t
  BY <1>1, <1>3, SubSeqFull DEF From, Text
<1>5. sign[1] = t[1]
  <2>. DEFINE end == IF 0 + 1 < Len(t) THEN 0 + 1 ELSE Len(t)
  <2>1. end = 1
    BY <1>1
  <2>2. SubSeq(t, 0 + 1, end) = SubSeq(t, 1, 1)
    BY <2>1
  <2>3. SubSeq(t, 1, 1)[1] = t[1]
    <3>1. \A i \in 1 .. 1 : t[i] \in Symbols
      BY <1>1, ElementOfSeq DEF Text
    <3>2. \A i \in 1 .. 1 - 1 + 1 : SubSeq(t, 1, 1)[i] = t[1 + i - 1]
      BY <3>1, SubSeqProperties
    <3>3. 1 \in 1 .. 1 - 1 + 1 /\ 1 + 1 - 1 = 1
      OBVIOUS
    <3>. QED
      BY <3>2, <3>3
  <2>. QED
    BY <1>4, <2>2, <2>3 DEF Substr
<1>6. sign # <<"plus">> /\ sign # <<"minus">>
  BY <1>2, <1>5
<1>7. Atoi(t) = LET value == NumberInFront(IF sign \in {<<"plus">>, <<"minus">>}
                                          THEN From(rest, 1) ELSE rest) % Modulus
                IN  IF sign = <<"minus">> THEN (Modulus - value) % Modulus ELSE value
  BY DEF Atoi, BlanksOf
<1>. HIDE DEF sign, rest
<1>. QED
  BY <1>4, <1>6, <1>7

(* A number a uint32_t can hold is read back from its digits.              *)
LEMMA DecimalReadsBack ==
  ASSUME NEW n \in 0 .. Modulus - 1
  PROVE  Atoi(Decimal[n]) = n
<1>1. n \in Nat /\ n < Modulus
  BY ModulusAssumption
<1>2. Decimal[n] \in Numeral /\ NumberInFront(Decimal[n]) = n
  BY <1>1, DecimalDef, DecimalNumber
<1>. QED
  BY <1>1, <1>2, AtoiNumeral, Wraps

(* What joining two texts does to their lengths and symbols.               *)
LEMMA Joins ==
  ASSUME NEW s \in Text, NEW t \in Text
  PROVE  /\ s \o t \in Text /\ Len(s) \in Nat /\ Len(t) \in Nat
         /\ Len(s \o t) = Len(s) + Len(t)
         /\ \A i \in 1 .. Len(s) : (s \o t)[i] = s[i]
         /\ \A i \in 1 .. Len(t) : (s \o t)[Len(s) + i] = t[i]
<1>1. Len(s) \in Nat /\ Len(t) \in Nat
  BY LenProperties DEF Text
<1>2. /\ s \o t \in Text
      /\ Len(s \o t) = Len(s) + Len(t)
      /\ \A i \in 1 .. Len(s) + Len(t) : (s \o t)[i] = IF i <= Len(s) THEN s[i] ELSE t[i - Len(s)]
  BY ConcatProperties DEF Text
<1>3. ASSUME NEW i \in 1 .. Len(s) PROVE (s \o t)[i] = s[i]
  <2>1. i \in 1 .. Len(s) + Len(t) /\ i <= Len(s)
    BY <1>1
  <2>. QED
    BY <1>2, <2>1
<1>4. ASSUME NEW i \in 1 .. Len(t) PROVE (s \o t)[Len(s) + i] = t[i]
  <2>1. Len(s) + i \in 1 .. Len(s) + Len(t) /\ ~(Len(s) + i <= Len(s)) /\ (Len(s) + i) - Len(s) = i
    BY <1>1
  <2>. QED
    BY <1>2, <2>1
<1>. QED
  BY <1>1, <1>2, <1>3, <1>4

LEMMA Reassociate ==
  ASSUME NEW s \in Text, NEW t \in Text, NEW u \in Text
  PROVE  (s \o t) \o u = s \o (t \o u)
BY ConcatAssociative DEF Text

(* What stands behind the first part of a text, and a part within it.      *)
LEMMA Behind ==
  ASSUME NEW s \in Text, NEW t \in Text
  PROVE  From(s \o t, Len(s)) = t
<1>. DEFINE u == s \o t
            v == SubSeq(u, Len(s) + 1, Len(u))
<1>1. /\ u \in Text /\ Len(s) \in Nat /\ Len(t) \in Nat /\ Len(u) = Len(s) + Len(t)
      /\ \A i \in 1 .. Len(t) : u[Len(s) + i] = t[i]
  BY Joins
<1>2. \A i \in Len(s) + 1 .. Len(u) : u[i] \in Symbols
  BY <1>1, ElementOfSeq DEF Text
<1>. HIDE DEF u
<1>3. /\ v \in Text
      /\ Len(v) = IF Len(s) + 1 <= Len(u) THEN Len(u) - (Len(s) + 1) + 1 ELSE 0
      /\ \A i \in 1 .. Len(u) - (Len(s) + 1) + 1 : v[i] = u[(Len(s) + 1) + i - 1]
  BY <1>1, <1>2, SubSeqProperties DEF Text
<1>. HIDE DEF v
<1>4. Len(v) = Len(t)
  BY <1>1, <1>3
<1>5. ASSUME NEW i \in 1 .. Len(v) PROVE v[i] = t[i]
  <2>1. i \in 1 .. Len(u) - (Len(s) + 1) + 1 /\ (Len(s) + 1) + i - 1 = Len(s) + i /\ i \in 1 .. Len(t)
    BY <1>1, <1>4
  <2>. QED
    BY <1>1, <1>3, <2>1
<1>6. v = t
  BY <1>3, <1>4, <1>5, SeqEqual DEF Text
<1>. QED
  BY <1>6 DEF From, u, v

(* ... and so does cutting a piece out of it.                              *)
LEMMA Within ==
  ASSUME NEW s \in Text, NEW p \in Text, NEW t \in Text
  PROVE  Substr(s \o (p \o t), Len(s), Len(p)) = p
<1>. DEFINE w == p \o t
            u == s \o w
            end == IF Len(s) + Len(p) < Len(u) THEN Len(s) + Len(p) ELSE Len(u)
            v == SubSeq(u, Len(s) + 1, end)
<1>1. /\ w \in Text /\ Len(p) \in Nat /\ Len(t) \in Nat /\ Len(w) = Len(p) + Len(t)
      /\ \A i \in 1 .. Len(p) : w[i] = p[i]
  BY Joins
<1>. HIDE DEF w
<1>2. /\ u \in Text /\ Len(s) \in Nat /\ Len(u) = Len(s) + Len(w)
      /\ \A i \in 1 .. Len(w) : u[Len(s) + i] = w[i]
  BY <1>1, Joins
<1>. HIDE DEF u
<1>3. end = Len(s) + Len(p)
  BY <1>1, <1>2
<1>4. \A i \in Len(s) + 1 .. end : u[i] \in Symbols
  <2>1. \A i \in Len(s) + 1 .. end : i \in 1 .. Len(u)
    BY <1>1, <1>2, <1>3
  <2>. QED
    BY <1>2, <2>1, ElementOfSeq DEF Text
<1>. HIDE DEF end
<1>5. /\ v \in Text
      /\ Len(v) = IF Len(s) + 1 <= end THEN end - (Len(s) + 1) + 1 ELSE 0
      /\ \A i \in 1 .. end - (Len(s) + 1) + 1 : v[i] = u[(Len(s) + 1) + i - 1]
  <2>1. Len(s) + 1 \in Int /\ end \in Int
    BY <1>1, <1>2, <1>3
  <2>. QED
    BY <1>4, <2>1, SubSeqProperties DEF Text
<1>. HIDE DEF v
<1>6. Len(v) = Len(p)
  BY <1>1, <1>2, <1>3, <1>5
<1>7. ASSUME NEW i \in 1 .. Len(v) PROVE v[i] = p[i]
  <2>1. /\ i \in 1 .. end - (Len(s) + 1) + 1 /\ (Len(s) + 1) + i - 1 = Len(s) + i
        /\ i \in 1 .. Len(p) /\ i \in 1 .. Len(w)
    BY <1>1, <1>2, <1>3, <1>6
  <2>. QED
    BY <1>1, <1>2, <1>5, <2>1
<1>8. v = p
  BY <1>5, <1>6, <1>7, SeqEqual DEF Text
<1>. QED
  BY <1>8 DEF Substr, u, v, w, end

LEMMA Front ==
  ASSUME NEW p \in Text, NEW t \in Text
  PROVE  Substr(p \o t, 0, Len(p)) = p
<1>1. <<>> \in Text /\ Len(<<>>) = 0
  BY EmptySeq DEF Text
<1>2. p \o t \in Text
  BY Joins
<1>3. <<>> \o (p \o t) = p \o t
  BY <1>2, ConcatEmptySeq DEF Text
<1>4. Substr(<<>> \o (p \o t), Len(<<>>), Len(p)) = p
  BY <1>1, Within, Zenon
<1>. QED
  BY <1>1, <1>3, <1>4, Zenon

(* A colon behind a part without one is found there.                       *)
Plain == {t \in Text : \A i \in 1 .. Len(t) : t[i] # ":"}

LEMMA ColonBehind ==
  ASSUME NEW s \in Plain, NEW t \in Text
  PROVE  LET u == s \o (<<":">> \o t)
         IN  /\ u \in Text /\ FindColon(u) = Len(s) /\ Len(s) \in Nat /\ Len(s) # Len(u)
             /\ Substr(u, 0, Len(s)) = s /\ From(u, Len(s) + 1) = t
<1>. DEFINE c == <<":">>
            r == c \o t
            u == s \o r
<1>1. c \in Text /\ Len(c) = 1 /\ c[1] = ":"
  BY SymbolsAssumption DEF Text
<1>. HIDE DEF c
<1>2. s \in Text /\ \A i \in 1 .. Len(s) : s[i] # ":"
  BY DEF Plain
<1>3. r \in Text /\ Len(r) = 1 + Len(t) /\ Len(t) \in Nat /\ \A i \in 1 .. 1 : r[i] = c[i]
  <2>1. r \in Text /\ Len(r) = Len(c) + Len(t) /\ Len(t) \in Nat /\ \A i \in 1 .. Len(c) : r[i] = c[i]
    BY <1>1, Joins, Zenon
  <2>. QED
    BY <1>1, <2>1, Zenon
<1>4. /\ Substr(u, 0, Len(s)) = s
      /\ From(u, Len(s) + 1) = t
  <2>1. Len(s \o c) = Len(s) + 1 /\ s \o c \in Text /\ (s \o c) \o t = u
    <3>1. Len(s \o c) = Len(s) + Len(c) /\ s \o c \in Text
      BY <1>1, <1>2, Joins, Zenon
    <3>2. (s \o c) \o t = u
      BY <1>1, <1>2, Reassociate, Zenon
    <3>. QED
      BY <1>1, <3>1, <3>2, Zenon
  <2>2. From((s \o c) \o t, Len(s \o c)) = t
    BY <2>1, Behind, Zenon
  <2>3. Substr(u, 0, Len(s)) = s
    BY <1>2, <1>3, Front
  <2>. QED
    BY <2>1, <2>2, <2>3
<1>. HIDE DEF r
<1>5. /\ u \in Text /\ Len(s) \in Nat /\ Len(u) = Len(s) + Len(r)
      /\ \A i \in 1 .. Len(s) : u[i] = s[i]
      /\ \A i \in 1 .. Len(r) : u[Len(s) + i] = r[i]
  BY <1>2, <1>3, Joins
<1>. HIDE DEF u
<1>6. Len(s) \in 0 .. Len(u) /\ Len(s) < Len(u) /\ 1 \in 1 .. Len(r) /\ 1 \in 1 .. 1
  BY <1>3, <1>5
<1>7. u[Len(s) + 1] = ":" /\ \A i \in 1 .. Len(s) : u[i] # ":"
  BY <1>1, <1>2, <1>3, <1>5, <1>6
<1>8. FindColon(u) = Len(s)
  BY <1>5, <1>6, <1>7, ColonUnique
<1>9. Len(s) # Len(u)
  BY <1>5, <1>6
<1>. QED
  BY <1>4, <1>5, <1>8, <1>9 DEF u, r, c
-----------------------------------------------------------------------------
(* A header and a message that were serialized parse back, whatever is     *)
(* behind them.                                                            *)
LEMMA JoinType ==
  ASSUME NEW s \in Text, NEW t \in Text
  PROVE  /\ s \o t \in Text /\ Len(s) \in Nat /\ Len(t) \in Nat
         /\ Len(s \o t) = Len(s) + Len(t)
BY Joins

LEMMA DecimalPlain ==
  ASSUME NEW n \in Nat
  PROVE  Decimal[n] \in Plain /\ Decimal[n] \in Text /\ Len(Decimal[n]) \in Nat
<1>1. Decimal[n] \in Numeral
  BY DecimalDef
<1>. QED
  BY <1>1, NumeralText DEF Plain

(* What follows the header of a message or of a list, with the header.     *)
Framed(prefix, n, rest) == <<prefix, ":">> \o (Decimal[n] \o (<<":">> \o rest))

LEMMA EmptyText ==
  ASSUME NEW text \in Text
  PROVE  Len(text) \in Nat /\ (Len(text) = 0 <=> text = <<>>)
BY EmptySeq, LenProperties DEF Text

(* A header that was serialized is parsed as it was meant.                 *)
LEMMA HeaderReads ==
  ASSUME NEW prefix \in Symbols, NEW n \in 0 .. Modulus - 1, NEW rest \in Text
  PROVE  LET in == Framed(prefix, n, rest)
         IN  /\ ParseHeader(prefix, in) =
                  IF n = 0 THEN NotParsed
                  ELSE [ok |-> TRUE, number |-> n, used |-> 2 + Len(Decimal[n]) + 1]
             /\ in \in Text /\ From(in, 2 + Len(Decimal[n]) + 1) = rest
<1>. DEFINE in == Framed(prefix, n, rest)
            h == <<prefix, ":">>
            c == <<":">>
            D == Decimal[n]
            body == D \o (c \o rest)
<1>1. h \in Text /\ Len(h) = 2 /\ c \in Text /\ Len(c) = 1
  BY SymbolsAssumption DEF Text
<1>2. D \in Plain /\ D \in Text /\ Len(D) \in Nat /\ Atoi(D) = n
  <2>1. n \in Nat
    BY ModulusAssumption
  <2>. QED
    BY <2>1, DecimalPlain, DecimalReadsBack
<1>3. /\ body \in Text /\ FindColon(body) = Len(D) /\ Len(D) # Len(body)
      /\ Substr(body, 0, Len(D)) = D
  BY <1>2, ColonBehind
<1>4. c \o rest \in Text
  BY <1>1, JoinType, Zenon
<1>. HIDE DEF h, c, D
<1>5. in = h \o body
  BY DEF Framed, h, c, D
<1>. HIDE DEF in
<1>6. in = (h \o (D \o c)) \o rest /\ Len(h \o (D \o c)) = 2 + Len(D) + 1
      /\ h \o (D \o c) \in Text
  <2>1. D \o c \in Text /\ Len(D \o c) = Len(D) + Len(c)
    BY <1>1, <1>2, JoinType, Zenon
  <2>2. h \o (D \o c) \in Text /\ Len(h \o (D \o c)) = Len(h) + Len(D \o c)
    BY <1>1, <2>1, JoinType, Zenon
  <2>3. (h \o (D \o c)) \o rest = h \o ((D \o c) \o rest)
    BY <1>1, <2>1, Reassociate, Zenon
  <2>4. (D \o c) \o rest = D \o (c \o rest)
    BY <1>1, <1>2, Reassociate, Zenon
  <2>5. in = (h \o (D \o c)) \o rest
    BY <1>5, <2>3, <2>4, Zenon
  <2>6. Len(h \o (D \o c)) = 2 + (Len(D) + 1)
    BY <1>1, <2>1, <2>2, Zenon
  <2>. HIDE DEF body
  <2>7. 2 + (Len(D) + 1) = 2 + Len(D) + 1
    BY <1>2
  <2>. QED
    BY <2>2, <2>5, <2>6, <2>7, Zenon
<1>. HIDE DEF body
<1>7. in \in Text /\ Len(in) = Len(h) + Len(body) /\ Len(body) \in Nat
  BY <1>1, <1>3, <1>5, JoinType, Zenon
<1>8. From(in, Len(h)) = body /\ Substr(in, 0, Len(h)) = h
  BY <1>1, <1>3, <1>5, Behind, Front, Zenon
<1>9. From(in, Len(h \o (D \o c))) = rest
  BY <1>6, Behind, Zenon
<1>10. From(in, 2 + Len(D) + 1) = rest
  BY <1>6, <1>9, Zenon
<1>11. From(in, 2) = body /\ Substr(in, 0, 2) = h /\ ~(Len(in) < 2)
  <2>1. ~(Len(in) < 2)
    BY <1>1, <1>7
  <2>. QED
    BY <1>1, <1>8, <2>1, Zenon
<1>12. ParseHeader(prefix, in) = HeaderOf(prefix, in, body, Len(D))
  BY <1>3, <1>11, Zenon DEF ParseHeader
<1>13. HeaderOf(prefix, in, body, Len(D)) =
         IF n = 0 THEN NotParsed ELSE [ok |-> TRUE, number |-> n, used |-> 2 + Len(D) + 1]
  <2>1. Atoi(Substr(body, 0, Len(D))) = n
    BY <1>2, <1>3, Zenon
  <2>2. HeaderOf(prefix, in, body, Len(D)) =
          IF Len(in) < 2 \/ Substr(in, 0, 2) # h \/ Len(D) = Len(body) \/ n = 0
          THEN NotParsed ELSE [ok |-> TRUE, number |-> n, used |-> 2 + Len(D) + 1]
    BY <2>1 DEF HeaderOf, h
  <2>. QED
    BY <1>3, <1>11, <2>2
<1>. QED
  BY <1>7, <1>10, <1>12, <1>13, Zenon DEF D, in

(* What Serialize is given, a uint32_t can hold the length; and what of it *)
(* can be read again.                                                      *)
Typed    == [payload : Text, nickname : Text]
Wire     == {m \in [payload : Text, nickname : Plain] : Len(m.payload) < Modulus}
Sendable == {m \in Wire : m.payload # <<>>}

(* Six parts joined from the left are the six joined from the right: what  *)
(* is used of a concatenation is only that it is a text and associates.    *)
Concat(s, t) == s \o t

FromTheLeft(h, D, c, k, p, rest)  == (((((h \o D) \o c) \o k) \o c) \o p) \o rest
FromTheRight(h, D, c, k, p, rest) == h \o (D \o (c \o (k \o (c \o (p \o rest)))))

LEMMA SixParts ==
  ASSUME NEW h \in Text, NEW D \in Text, NEW c \in Text, NEW k \in Text,
         NEW p \in Text, NEW rest \in Text
  PROVE  FromTheLeft(h, D, c, k, p, rest) = FromTheRight(h, D, c, k, p, rest)
<1>1. \A s, t \in Text : Concat(s, t) \in Text
  BY JoinType, Zenon DEF Concat
<1>2. \A s, t, u \in Text : Concat(Concat(s, t), u) = Concat(s, Concat(t, u))
  BY Reassociate, Zenon DEF Concat
<1>. DEFINE a == Concat(h, D)
            b == Concat(a, c)
            d == Concat(b, k)
            e == Concat(d, c)
            q == Concat(p, rest)
            r == Concat(c, q)
            v == Concat(k, r)
            w == Concat(c, v)
<1>3. a \in Text /\ q \in Text
  BY <1>1
<1>4. b \in Text /\ r \in Text
  BY <1>1, <1>3
<1>5. d \in Text /\ v \in Text
  BY <1>1, <1>4
<1>6. e \in Text /\ w \in Text
  BY <1>1, <1>5
<1>7. Concat(Concat(e, p), rest) = Concat(e, q)
  BY <1>2, <1>6
<1>8. Concat(e, q) = Concat(d, r)
  BY <1>2, <1>3, <1>5
<1>9. Concat(d, r) = Concat(b, v)
  BY <1>2, <1>4
<1>10. Concat(b, v) = Concat(a, w)
  BY <1>2, <1>3, <1>5
<1>11. Concat(a, w) = Concat(h, Concat(D, w))
  BY <1>2, <1>6
<1>. QED
  BY <1>7, <1>8, <1>9, <1>10, <1>11, Zenon DEF Concat, FromTheLeft, FromTheRight

(* A serialized message is a text, of this form and length.                *)
LEMMA MessageText ==
  ASSUME NEW m \in Typed, NEW rest \in Text
  PROVE  /\ SerializeMessage(m) \in Text
         /\ SerializeMessage(m) \o rest =
              Framed("message", Len(m.payload), m.nickname \o (<<":">> \o (m.payload \o rest)))
         /\ Len(SerializeMessage(m)) =
              2 + Len(Decimal[Len(m.payload)]) + 1 + Len(m.nickname) + 1 + Len(m.payload)
<1>. DEFINE h == <<"message", ":">>
            c == <<":">>
            p == m.payload
            k == m.nickname
            D == Decimal[Len(p)]
            a == h \o D
            b == a \o c
            d == b \o k
            e == d \o c
            f == e \o p
<1>1. h \in Text /\ Len(h) = 2 /\ c \in Text /\ Len(c) = 1
  BY SymbolsAssumption DEF Text
<1>2. p \in Text /\ k \in Text /\ Len(p) \in Nat
  BY LenProperties DEF Typed, Text
<1>3. D \in Text /\ Len(D) \in Nat
  BY <1>2, DecimalPlain
<1>4. SerializeMessage(m) = f
  BY DEF SerializeMessage
<1>. HIDE DEF h, c, p, k, D
<1>5. a \in Text /\ Len(a) = Len(h) + Len(D) /\ Len(D) \in Nat
  BY <1>1, <1>3, JoinType, Zenon
<1>. HIDE DEF a
<1>6. b \in Text /\ Len(b) = Len(a) + Len(c)
  BY <1>1, <1>5, JoinType, Zenon
<1>. HIDE DEF b
<1>7. d \in Text /\ Len(d) = Len(b) + Len(k) /\ Len(k) \in Nat
  BY <1>2, <1>6, JoinType, Zenon
<1>. HIDE DEF d
<1>8. e \in Text /\ Len(e) = Len(d) + Len(c)
  BY <1>1, <1>7, JoinType, Zenon
<1>. HIDE DEF e
<1>9. f \in Text /\ Len(f) = Len(e) + Len(p)
  BY <1>2, <1>8, JoinType, Zenon
<1>. HIDE DEF f
<1>10. Len(f) = 2 + Len(D) + 1 + Len(k) + 1 + Len(p)
  BY <1>1, <1>2, <1>3, <1>5, <1>6, <1>7, <1>8, <1>9
<1>11. f \o rest = h \o (D \o (c \o (k \o (c \o (p \o rest)))))
  <2>1. f \o rest = FromTheLeft(h, D, c, k, p, rest)
    BY Zenon DEF a, b, d, e, f, FromTheLeft
  <2>2. FromTheLeft(h, D, c, k, p, rest) = FromTheRight(h, D, c, k, p, rest)
    BY <1>1, <1>2, <1>3, SixParts, SMTT(30)
  <2>. QED
    BY <2>1, <2>2, Zenon DEF FromTheRight
<1>. QED
  BY <1>4, <1>9, <1>10, <1>11, Zenon DEF Framed, h, c, p, k, D

(* A message that was serialized is parsed as it was, whatever follows it. *)
LEMMA MessageReads ==
  ASSUME NEW m \in Wire, NEW rest \in Text
  PROVE  LET read == ParseMessage(SerializeMessage(m) \o rest)
         IN  /\ m.payload # <<>> =>
                  read = [ok |-> TRUE, message |-> m, used |-> Len(SerializeMessage(m))]
             /\ m.payload = <<>> => ~read.ok
<1>. DEFINE c == <<":">>
            p == m.payload
            k == m.nickname
            D == Decimal[Len(p)]
            q == p \o rest
            tail == k \o (c \o q)
            in == SerializeMessage(m) \o rest
            head == ParseHeader("message", in)
<1>1. c \in Text /\ Len(c) = 1
  BY SymbolsAssumption DEF Text
<1>2. p \in Text /\ k \in Text /\ k \in Plain /\ Len(p) \in Nat /\ Len(k) \in Nat
      /\ m = Message(p, k) /\ m \in Typed /\ Len(p) < Modulus
  BY LenProperties DEF Plain, Text, Message, Wire, Typed
<1>3. /\ in = Framed("message", Len(p), tail)
      /\ Len(SerializeMessage(m)) = 2 + Len(D) + 1 + Len(k) + 1 + Len(p)
  BY <1>2, MessageText
<1>4. Len(D) \in Nat
  BY <1>2, DecimalPlain
<1>. HIDE DEF c, p, k
<1>5. q \in Text
  BY <1>2, JoinType, Zenon
<1>. HIDE DEF q
<1>6. /\ tail \in Text /\ FindColon(tail) = Len(k) /\ Len(k) # Len(tail)
      /\ Substr(tail, 0, Len(k)) = k
  BY <1>2, <1>5, ColonBehind DEF c
<1>7. Substr(tail, Len(k) + 1, Len(p)) = p
  <2>1. (k \o c) \o q = tail /\ k \o c \in Text /\ Len(k \o c) = Len(k) + Len(c)
    <3>1. (k \o c) \o q = tail
      <4>1. k \in Text /\ c \in Text /\ q \in Text
        BY <1>1, <1>2, <1>5
      <4>2. (k \o c) \o q = k \o (c \o q)
        BY <4>1, Reassociate, Zenon
      <4>. QED
        BY <4>2 DEF tail
    <3>2. k \o c \in Text /\ Len(k \o c) = Len(k) + Len(c)
      BY <1>1, <1>2, JoinType, Zenon
    <3>. QED
      BY <3>1, <3>2, Zenon
  <2>2. Substr((k \o c) \o q, Len(k \o c), Len(p)) = p
    BY <1>2, <2>1, Within, Zenon DEF q
  <2>. QED
    BY <1>1, <2>1, <2>2, Zenon
<1>. HIDE DEF tail, in, D
<1>8. /\ head = IF Len(p) = 0 THEN NotParsed
                ELSE [ok |-> TRUE, number |-> Len(p), used |-> 2 + Len(D) + 1]
      /\ From(in, 2 + Len(D) + 1) = tail
  <2>1. "message" \in Symbols
    BY SymbolsAssumption
  <2>2. Len(p) \in 0 .. Modulus - 1
    BY <1>2, ModulusAssumption
  <2>. QED
    BY <1>3, <1>6, <2>1, <2>2, HeaderReads, Zenon DEF D
<1>. HIDE DEF head
<1>9. ParseMessage(in) = MessageOf(head, From(in, head.used), FindColon(From(in, head.used)))
  BY DEF ParseMessage, head
<1>10. CASE Len(p) = 0
  <2>1. p = <<>>
    BY <1>2, <1>10, EmptyText
  <2>2. head.ok = FALSE
    BY <1>8, <1>10 DEF NotParsed
  <2>3. \A r, end : MessageOf(head, r, end).ok = FALSE
    BY <2>2 DEF MessageOf
  <2>4. ParseMessage(in).ok = FALSE
    BY <1>9, <2>3, Zenon
  <2>. QED
    BY <2>1, <2>4 DEF p, in
<1>11. CASE Len(p) # 0
  <2>1. p # <<>>
    <3>1. Len(<<>>) = 0
      OBVIOUS
    <3>. QED
      BY <1>11, <3>1
  <2>2. head = [ok |-> TRUE, number |-> Len(p), used |-> 2 + Len(D) + 1]
    BY <1>8, <1>11
  <2>3. head.ok = TRUE /\ head.number = Len(p) /\ head.used = 2 + Len(D) + 1
    BY <2>2
  <2>4. ParseMessage(in) = MessageOf(head, tail, Len(k))
    BY <1>6, <1>8, <1>9, <2>3, Zenon
  <2>5. MessageOf(head, tail, Len(k)) =
          [ok |-> TRUE, message |-> Message(p, k), used |-> 2 + Len(D) + 1 + Len(k) + 1 + Len(p)]
    BY <1>6, <1>7, <2>3 DEF MessageOf
  <2>. QED
    BY <1>2, <1>3, <2>1, <2>4, <2>5, Zenon DEF p, in
<1>. QED
  BY <1>10, <1>11
-----------------------------------------------------------------------------
(* Serialize and Parse have their types: every reader of a text gets       *)
(* messages, whatever the text is.                                         *)
Heads == [ok : BOOLEAN, number : Nat, used : Nat]
Readings == [ok : BOOLEAN, message : Typed, used : Nat]
States == [outcome : {"ok", "invalid", "throws"}, messages : Seq(Typed), used : Nat]

LEMMA HeaderType ==
  ASSUME NEW prefix, NEW in \in Text
  PROVE  ParseHeader(prefix, in) \in Heads
<1>. DEFINE body == From(in, 2)
            end == FindColon(body)
<1>1. body \in Text /\ Len(body) \in Nat
  BY Pieces, EmptyText
<1>. HIDE DEF body
<1>2. end \in Nat
  BY <1>1, ColonFound
<1>. HIDE DEF end
<1>3. Substr(body, 0, end) \in Text
  BY <1>1, <1>2, Pieces
<1>4. Atoi(Substr(body, 0, end)) \in Nat
  BY <1>3, AtoiType
<1>5. HeaderOf(prefix, in, body, end) \in Heads
  BY <1>2, <1>4 DEF HeaderOf, NotParsed, Heads
<1>6. ParseHeader(prefix, in) = HeaderOf(prefix, in, body, end)
  BY DEF ParseHeader, body, end
<1>. QED
  BY <1>5, <1>6

LEMMA MessageType ==
  ASSUME NEW in \in Text
  PROVE  ParseMessage(in) \in Readings
<1>. DEFINE head == ParseHeader("message", in)
            rest == From(in, head.used)
            end == FindColon(rest)
<1>1. head \in Heads
  BY HeaderType
<1>. HIDE DEF head
<1>2. head.ok \in BOOLEAN /\ head.number \in Nat /\ head.used \in Nat
  BY <1>1 DEF Heads
<1>3. rest \in Text /\ Len(rest) \in Nat
  BY <1>2, Pieces, EmptyText
<1>. HIDE DEF rest
<1>4. end \in Nat
  BY <1>3, ColonFound
<1>. HIDE DEF end
<1>5. Substr(rest, end + 1, head.number) \in Text /\ Substr(rest, 0, end) \in Text
  <2>1. end + 1 \in Nat /\ 0 \in Nat
    BY <1>4
  <2>. QED
    BY <1>2, <1>3, <1>4, <2>1, Pieces
<1>6. Message(Substr(rest, end + 1, head.number), Substr(rest, 0, end)) \in Typed
  BY <1>5 DEF Message, Typed
<1>7. MessageOf(head, rest, end) \in Readings
  <2>1. (head.ok /\ end # Len(rest)) \in BOOLEAN /\ head.used + end + 1 + head.number \in Nat
    BY <1>2, <1>4
  <2>. QED
    BY <1>6, <2>1 DEF MessageOf, Readings
<1>. QED
  BY <1>7 DEF ParseMessage, head, rest, end

LEMMA AdvanceType ==
  ASSUME NEW in \in Text, NEW p \in States
  PROVE  Advance(in, p) \in States
<1>. DEFINE m == ParseMessage(From(in, p.used))
<1>1. p.outcome \in {"ok", "invalid", "throws"} /\ p.messages \in Seq(Typed) /\ p.used \in Nat
  BY DEF States
<1>2. m \in Readings
  BY <1>1, Pieces, MessageType
<1>. HIDE DEF m
<1>3. m.message \in Typed /\ m.used \in Nat
  BY <1>2 DEF Readings
<1>4. Append(p.messages, m.message) \in Seq(Typed) /\ p.used + m.used \in Nat
  BY <1>1, <1>3, AppendProperties
<1>5. [p EXCEPT !.messages = Append(@, m.message), !.used = @ + m.used] \in States
  BY <1>4 DEF States
<1>6. [p EXCEPT !.outcome = "throws"] \in States /\ [p EXCEPT !.outcome = "invalid"] \in States
  BY DEF States
<1>7. Take(in, p, m) \in States
  BY <1>5, <1>6 DEF Take
<1>. QED
  BY <1>7 DEF Advance, m

(* What Parser::advance has read before the first message.                 *)
None(used) == [outcome |-> "ok", messages |-> <<>>, used |-> used]

LEMMA NoneType ==
  ASSUME NEW used \in Nat
  PROVE  None(used) \in States /\ [None(used) EXCEPT !.outcome = "invalid"] \in States
<1>1. <<>> \in Seq(Typed)
  BY EmptySeq
<1>. QED
  BY <1>1 DEF None, States

(* f[n] is what it has read after n turns.                                 *)
Parses(f, in, used, N) == f[0] = None(used) /\ \A n \in 1 .. N : f[n] = Advance(in, f[n - 1])

(* The recursion of Parser::advance.                                       *)
LEMMA ParseBehindDef ==
  ASSUME NEW in \in Text, NEW inv \in Heads
  PROVE  \E f \in [0 .. inv.number -> States] :
           /\ Parses(f, in, inv.used, inv.number)
           /\ ParseBehind(in, inv) = IF inv.ok THEN f[inv.number]
                                     ELSE [None(inv.used) EXCEPT !.outcome = "invalid"]
<1>. DEFINE N == inv.number
            none == None(inv.used)
            H == [x \in (1 .. N) \X States |-> Advance(in, x[2])]
            parsed == CHOOSE parsed : parsed = [count \in 0 .. N |->
                        IF count = 0 THEN none ELSE Advance(in, parsed[count - 1])]
<1>1. N \in Nat /\ none \in States
  BY NoneType DEF Heads
<1>2. ParseBehind(in, inv) = IF inv.ok THEN parsed[N] ELSE [none EXCEPT !.outcome = "invalid"]
  BY DEF ParseBehind, None
<1>. HIDE DEF N, none, parsed
<1>3. H \in [(1 .. N) \X States -> States] /\ \A n \in 1 .. N, p \in States : H[n, p] = Advance(in, p)
  <2>1. \A x \in (1 .. N) \X States : x[2] \in States /\ Advance(in, x[2]) \in States
    BY AdvanceType
  <2>. QED
    BY <2>1
<1>. HIDE DEF H
<1>4. PICK f \in [0 .. N -> States] : Recurs(f, none, H, N)
  BY <1>1, <1>3, RecursionExists
<1>5. \A n \in 0 .. N : f[n] = IF n = 0 THEN none ELSE Advance(in, f[n - 1])
  <2>1. f[0] = none
    BY <1>4 DEF Recurs
  <2>2. ASSUME NEW n \in 1 .. N PROVE f[n] = Advance(in, f[n - 1])
    <3>1. n - 1 \in 0 .. N
      BY <1>1
    <3>2. f[n - 1] \in States /\ f[n] = H[n, f[n - 1]]
      BY <1>4, <3>1 DEF Recurs
    <3>. QED
      BY <1>3, <3>2
  <2>3. \A n \in 0 .. N : n = 0 \/ n \in 1 .. N
    BY <1>1
  <2>4. \A n \in 1 .. N : n # 0
    BY <1>1
  <2>. QED
    BY <2>1, <2>2, <2>3, <2>4
<1>6. f = [count \in 0 .. N |-> IF count = 0 THEN none ELSE Advance(in, f[count - 1])]
  BY <1>5
<1>7. parsed = [count \in 0 .. N |-> IF count = 0 THEN none ELSE Advance(in, parsed[count - 1])]
  BY <1>6 DEF parsed
<1>8. parsed[0] = none /\ \A n \in 1 .. N : parsed[n] = Advance(in, parsed[n - 1])
  <2>1. \A n \in 0 .. N : parsed[n] = IF n = 0 THEN none ELSE Advance(in, parsed[n - 1])
    BY <1>7
  <2>2. 0 \in 0 .. N /\ \A n \in 1 .. N : n \in 0 .. N /\ n # 0
    BY <1>1
  <2>. QED
    BY <2>1, <2>2
<1>9. \A n \in 0 .. N : parsed[n] \in States
  <2>. DEFINE S == {k \in Nat : parsed[k] \in States}
  <2>1. 0 \in S
    BY <1>1, <1>8
  <2>2. ASSUME NEW n \in 1 .. N, n - 1 \in S PROVE n \in S
    <3>1. parsed[n - 1] \in States /\ n \in Nat
      BY <1>1, <2>2
    <3>. QED
      BY <1>8, <3>1, AdvanceType
  <2>. HIDE DEF S
  <2>3. \A n \in 0 .. N : n \in S
    BY <1>1, <2>1, <2>2, BoundedInduction
  <2>. QED
    BY <2>3 DEF S
<1>10. parsed \in [0 .. N -> States]
  <2>1. DOMAIN parsed = 0 .. N
    BY <1>7
  <2>2. parsed = [n \in 0 .. N |-> parsed[n]]
    BY <1>7, <2>1
  <2>. QED
    BY <1>9, <2>2
<1>11. Parses(parsed, in, inv.used, N)
  BY <1>8 DEF Parses, none
<1>. QED
  BY <1>2, <1>10, <1>11 DEF N, none

(* Whatever text Parse is given, its messages are messages.                *)
THEOREM ParseType ==
  \A in \in Text : Parse(in) \in States
<1>1. SUFFICES ASSUME NEW in \in Text PROVE Parse(in) \in States
  OBVIOUS
<1>. DEFINE inv == ParseHeader("inv", in)
<1>2. inv \in Heads
  BY HeaderType
<1>. HIDE DEF inv
<1>3. inv.number \in Nat /\ inv.used \in Nat
  BY <1>2 DEF Heads
<1>4. PICK f \in [0 .. inv.number -> States] :
        ParseBehind(in, inv) = IF inv.ok THEN f[inv.number]
                               ELSE [None(inv.used) EXCEPT !.outcome = "invalid"]
  BY <1>2, ParseBehindDef
<1>5. f[inv.number] \in States /\ [None(inv.used) EXCEPT !.outcome = "invalid"] \in States
  BY <1>3, NoneType
<1>. QED
  BY <1>4, <1>5 DEF Parse, inv
-----------------------------------------------------------------------------
(* out[n] is what Serializer::advance has written after n messages.        *)
Writes(out, messages) ==
  /\ out[0] = SerializeInv(Len(messages))
  /\ \A n \in 1 .. Len(messages) : out[n] = out[n - 1] \o SerializeMessage(messages[n])

LEMMA InvText ==
  ASSUME NEW n \in Nat, NEW rest \in Text
  PROVE  /\ SerializeInv(n) \in Text /\ Len(SerializeInv(n)) = 2 + Len(Decimal[n]) + 1
         /\ SerializeInv(n) \o rest = Framed("inv", n, rest)
<1>. DEFINE h == <<"inv", ":">>
            c == <<":">>
            D == Decimal[n]
            a == h \o D
<1>1. h \in Text /\ Len(h) = 2 /\ c \in Text /\ Len(c) = 1
  BY SymbolsAssumption DEF Text
<1>2. D \in Text /\ Len(D) \in Nat
  BY DecimalPlain
<1>3. SerializeInv(n) = a \o c
  BY DEF SerializeInv
<1>. HIDE DEF h, c, D
<1>4. a \in Text /\ Len(a) = Len(h) + Len(D)
  BY <1>1, <1>2, JoinType, Zenon
<1>5. h \o (D \o (c \o rest)) = (a \o c) \o rest
  <2>1. c \o rest \in Text
    BY <1>1, JoinType, Zenon
  <2>2. (h \o D) \o (c \o rest) = h \o (D \o (c \o rest))
    BY <1>1, <1>2, <2>1, Reassociate, Zenon
  <2>. HIDE DEF a
  <2>3. (a \o c) \o rest = a \o (c \o rest)
    BY <1>1, <1>4, Reassociate, Zenon
  <2>. QED
    BY <2>2, <2>3, Zenon DEF a
<1>. HIDE DEF a
<1>6. a \o c \in Text /\ Len(a \o c) = Len(a) + Len(c)
  BY <1>1, <1>4, JoinType, Zenon
<1>7. Len(a \o c) = 2 + Len(D) + 1
  BY <1>1, <1>2, <1>4, <1>6
<1>. QED
  BY <1>3, <1>5, <1>6, <1>7, Zenon DEF Framed, h, c, D

(* Serialize is the last value of such a function.                         *)
LEMMA SerializeDef ==
  ASSUME NEW messages \in Seq(Typed)
  PROVE  \E out \in [0 .. Len(messages) -> Text] :
           Writes(out, messages) /\ Serialize(messages) = out[Len(messages)]
<1>. DEFINE N == Len(messages)
            first == SerializeInv(N)
            H == [x \in (1 .. N) \X Text |-> x[2] \o SerializeMessage(messages[x[1]])]
            out == CHOOSE out : out = [n \in 0 .. N |->
                     IF n = 0 THEN first ELSE out[n - 1] \o SerializeMessage(messages[n])]
<1>1. N \in Nat /\ \A n \in 1 .. N : messages[n] \in Typed
  BY LenProperties, ElementOfSeq
<1>2. Serialize(messages) = out[N]
  BY DEF Serialize
<1>. HIDE DEF N, first, out
<1>3. first \in Text /\ <<>> \in Text
  BY <1>1, InvText, EmptySeq DEF first, Text
<1>4. ASSUME NEW n \in 1 .. N, NEW t \in Text
      PROVE  t \o SerializeMessage(messages[n]) \in Text
  <2>1. SerializeMessage(messages[n]) \in Text
    BY <1>1, <1>3, MessageText, Zenon
  <2>. QED
    BY <2>1, JoinType, Zenon
<1>5. H \in [(1 .. N) \X Text -> Text]
      /\ \A n \in 1 .. N, t \in Text : H[n, t] = t \o SerializeMessage(messages[n])
  <2>1. \A x \in (1 .. N) \X Text : x[2] \o SerializeMessage(messages[x[1]]) \in Text
    BY <1>4
  <2>. QED
    BY <2>1
<1>. HIDE DEF H
<1>6. PICK f \in [0 .. N -> Text] : Recurs(f, first, H, N)
  BY <1>1, <1>3, <1>5, RecursionExists
<1>7. \A n \in 0 .. N : f[n] = IF n = 0 THEN first ELSE f[n - 1] \o SerializeMessage(messages[n])
  <2>1. f[0] = first
    BY <1>6 DEF Recurs
  <2>2. ASSUME NEW n \in 1 .. N PROVE f[n] = f[n - 1] \o SerializeMessage(messages[n])
    <3>1. n - 1 \in 0 .. N
      BY <1>1
    <3>2. f[n - 1] \in Text /\ f[n] = H[n, f[n - 1]]
      BY <1>6, <3>1 DEF Recurs
    <3>. QED
      BY <1>5, <3>2
  <2>3. \A n \in 0 .. N : n = 0 \/ n \in 1 .. N
    BY <1>1
  <2>4. \A n \in 1 .. N : n # 0
    BY <1>1
  <2>. QED
    BY <2>1, <2>2, <2>3, <2>4
<1>8. f = [n \in 0 .. N |-> IF n = 0 THEN first ELSE f[n - 1] \o SerializeMessage(messages[n])]
  BY <1>7
<1>9. out = [n \in 0 .. N |-> IF n = 0 THEN first ELSE out[n - 1] \o SerializeMessage(messages[n])]
  BY <1>8 DEF out
<1>10. out[0] = first /\ \A n \in 1 .. N : out[n] = out[n - 1] \o SerializeMessage(messages[n])
  <2>1. \A n \in 0 .. N : out[n] = IF n = 0 THEN first ELSE out[n - 1] \o SerializeMessage(messages[n])
    BY <1>9
  <2>2. 0 \in 0 .. N /\ \A n \in 1 .. N : n \in 0 .. N /\ n # 0
    BY <1>1
  <2>. QED
    BY <2>1, <2>2
<1>11. \A n \in 0 .. N : out[n] \in Text
  <2>. DEFINE S == {k \in Nat : out[k] \in Text}
  <2>1. 0 \in S
    BY <1>3, <1>10
  <2>2. ASSUME NEW n \in 1 .. N, n - 1 \in S PROVE n \in S
    <3>1. out[n - 1] \in Text /\ n \in Nat
      BY <1>1, <2>2
    <3>. QED
      BY <1>4, <1>10, <3>1
  <2>. HIDE DEF S
  <2>3. \A n \in 0 .. N : n \in S
    BY <1>1, <2>1, <2>2, BoundedInduction
  <2>. QED
    BY <2>3 DEF S
<1>12. out \in [0 .. N -> Text]
  <2>1. DOMAIN out = 0 .. N
    BY <1>9
  <2>2. out = [n \in 0 .. N |-> out[n]]
    BY <1>9, <2>1
  <2>. QED
    BY <1>11, <2>2
<1>13. Writes(out, messages)
  BY <1>10 DEF Writes, N, first
<1>. QED
  BY <1>2, <1>12, <1>13 DEF N

(* Serializer::advance makes a text of any messages.                       *)
THEOREM SerializeType ==
  \A messages \in Seq(Typed) : Serialize(messages) \in Text
<1>1. SUFFICES ASSUME NEW messages \in Seq(Typed) PROVE Serialize(messages) \in Text
  OBVIOUS
<1>2. PICK out \in [0 .. Len(messages) -> Text] : Serialize(messages) = out[Len(messages)]
  BY SerializeDef
<1>3. Len(messages) \in 0 .. Len(messages)
  BY LenProperties
<1>. QED
  BY <1>2, <1>3
-----------------------------------------------------------------------------
(* One turn of Parser::advance at a message that was serialized.           *)
ReadSoFar(messages, front) ==
  [outcome |-> "ok", messages |-> messages, used |-> Len(front)]

(* ... of a message m: it is appended, or refused if it is empty.          *)
AfterOne(messages, front, m) ==
  IF m.payload # <<>> THEN ReadSoFar(Append(messages, m), front \o SerializeMessage(m))
                      ELSE [ReadSoFar(messages, front) EXCEPT !.outcome = "invalid"]

LEMMA AdvanceReads ==
  ASSUME NEW front \in Text, NEW m \in Wire, NEW rest \in Text, NEW messages
  PROVE  Advance(front \o (SerializeMessage(m) \o rest), ReadSoFar(messages, front)) =
           AfterOne(messages, front, m)
<1>. DEFINE p == ReadSoFar(messages, front)
            s == SerializeMessage(m)
            t == s \o rest
            in == front \o t
            read == ParseMessage(t)
<1>1. s \in Text
  <2>1. m \in Typed
    BY DEF Wire, Plain, Typed
  <2>. QED
    BY <2>1, MessageText
<1>2. /\ m.payload # <<>> => read = [ok |-> TRUE, message |-> m, used |-> Len(s)]
      /\ m.payload = <<>> => ~read.ok
  BY <1>1, MessageReads, Zenon
<1>. HIDE DEF s
<1>3. t \in Text
  BY <1>1, JoinType, Zenon
<1>. HIDE DEF t
<1>4. in \in Text /\ Len(front) \in Nat /\ Len(t) \in Nat /\ Len(in) = Len(front) + Len(t)
  BY <1>3, JoinType, Zenon
<1>5. From(in, Len(front)) = t
  BY <1>3, Behind, Zenon
<1>. HIDE DEF in
<1>6. Len(front \o s) = Len(front) + Len(s)
  BY <1>1, JoinType, Zenon
<1>7. ~(Len(front) > Len(in))
  BY <1>4
<1>8. p.outcome = "ok" /\ p.messages = messages /\ p.used = Len(front)
  BY DEF ReadSoFar
<1>. HIDE DEF p
<1>9. Advance(in, p) = Take(in, p, read)
  BY <1>5, <1>8, Zenon DEF Advance
<1>. HIDE DEF read
<1>10. Take(in, p, read) = IF read.ok THEN [p EXCEPT !.messages = Append(@, read.message),
                                                     !.used     = @ + read.used]
                           ELSE [p EXCEPT !.outcome = "invalid"]
  BY <1>7, <1>8 DEF Take
<1>11. CASE m.payload = <<>>
  BY <1>2, <1>9, <1>10, <1>11 DEF in, t, s, p, AfterOne
<1>12. CASE m.payload # <<>>
  <2>1. read.ok = TRUE /\ read.message = m /\ read.used = Len(s)
    BY <1>2, <1>12
  <2>2. Take(in, p, read) = [outcome |-> "ok", messages |-> Append(messages, m),
                             used |-> Len(front) + Len(s)]
    BY <1>8, <1>10, <2>1 DEF p, ReadSoFar
  <2>3. Advance(in, p) = ReadSoFar(Append(messages, m), front \o s)
    BY <1>6, <1>9, <2>2, Zenon DEF ReadSoFar
  <2>. QED
    BY <1>12, <2>3 DEF in, t, s, p, AfterOne
<1>. QED
  BY <1>11, <1>12
-----------------------------------------------------------------------------
(* What Parse begins with, and the text behind each message.               *)
LEMMA TailsOf ==
  ASSUME NEW messages \in Seq(Typed), NEW out \in [0 .. Len(messages) -> Text],
         Writes(out, messages)
  PROVE  \A n \in 0 .. Len(messages) :
           \E rest \in Text : out[Len(messages)] = out[n] \o rest
<1>. DEFINE N == Len(messages)
            S == {j \in Nat : \E rest \in Text : out[N] = out[N - j] \o rest}
<1>1. N \in Nat /\ \A n \in 1 .. N : messages[n] \in Typed
  BY LenProperties, ElementOfSeq
<1>2. /\ out \in [0 .. N -> Text]
      /\ \A n \in 1 .. N : out[n] = out[n - 1] \o SerializeMessage(messages[n])
  BY DEF Writes
<1>. HIDE DEF N
<1>3. 0 \in S
  <2>1. N - 0 = N /\ out[N] \in Text /\ <<>> \in Text
    BY <1>1, <1>2, EmptySeq DEF Text
  <2>2. out[N] \o <<>> = out[N]
    BY <2>1, ConcatEmptySeq DEF Text
  <2>. QED
    BY <2>1, <2>2
<1>4. ASSUME NEW j \in 1 .. N, j - 1 \in S PROVE j \in S
  <2>1. PICK rest \in Text : out[N] = out[N - (j - 1)] \o rest
    BY <1>4
  <2>. DEFINE n == N - j + 1
              s == SerializeMessage(messages[n])
  <2>2. n \in 1 .. N /\ n = N - (j - 1) /\ n - 1 = N - j /\ n - 1 \in 0 .. N /\ j \in Nat
    BY <1>1
  <2>. HIDE DEF n
  <2>3. out[n] = out[n - 1] \o s /\ out[n - 1] \in Text /\ messages[n] \in Typed
    BY <1>1, <1>2, <2>2
  <2>4. s \in Text
    BY <2>1, <2>3, MessageText, Zenon
  <2>. HIDE DEF s
  <2>5. (out[n - 1] \o s) \o rest = out[n - 1] \o (s \o rest) /\ s \o rest \in Text
    BY <2>3, <2>4, Reassociate, JoinType, Zenon
  <2>6. out[N] = out[N - j] \o (s \o rest)
    BY <2>1, <2>2, <2>3, <2>5, ZenonT(30)
  <2>. QED
    BY <2>2, <2>5, <2>6
<1>. HIDE DEF S
<1>5. \A j \in 0 .. N : j \in S
  BY <1>1, <1>3, <1>4, BoundedInduction
<1>6. ASSUME NEW n \in 0 .. N PROVE \E rest \in Text : out[N] = out[n] \o rest
  <2>1. N - n \in 0 .. N /\ N - (N - n) = n
    BY <1>1
  <2>. QED
    BY <1>5, <2>1 DEF S
<1>. QED
  BY <1>6 DEF N

LEMMA WireTyped ==
  /\ Wire \subseteq Typed /\ Sendable \subseteq Wire
  /\ Seq(Wire) \subseteq Seq(Typed) /\ Seq(Sendable) \subseteq Seq(Wire)
<1>1. Wire \subseteq Typed /\ Sendable \subseteq Wire
  BY DEF Wire, Typed, Sendable, Plain
<1>. QED
  BY <1>1, SeqMonotonic

(* What is parsed after the first n messages, if none of those is empty.   *)
LEMMA PrefixReads ==
  ASSUME NEW messages \in Seq(Wire), NEW out \in [0 .. Len(messages) -> Text],
         Writes(out, messages), NEW N \in 0 .. Len(messages),
         \A i \in 1 .. N : messages[i].payload # <<>>,
         NEW f, Parses(f, out[Len(messages)], Len(out[0]), Len(messages))
  PROVE  \A n \in 0 .. N :
           f[n] = ReadSoFar(SubSeq(messages, 1, n), out[n])
<1>. DEFINE in == out[Len(messages)]
            S == {k \in Nat : f[k] = ReadSoFar(SubSeq(messages, 1, k), out[k])}
<1>1. Len(messages) \in Nat /\ N \in Nat /\ \A n \in 1 .. N : n \in 1 .. Len(messages)
  BY LenProperties
<1>2. 0 \in S
  <2>1. SubSeq(messages, 1, 0) = <<>>
    BY SubSeqEmpty
  <2>2. f[0] = None(Len(out[0]))
    BY DEF Parses
  <2>. QED
    BY <2>1, <2>2 DEF None, ReadSoFar
<1>3. ASSUME NEW n \in 1 .. N, n - 1 \in S PROVE n \in S
  <2>. DEFINE m == messages[n]
              front == out[n - 1]
  <2>1. n \in 1 .. Len(messages) /\ n \in 0 .. Len(messages) /\ n - 1 \in 0 .. Len(messages)
    BY <1>1
  <2>2. m \in Wire /\ m.payload # <<>>
    BY <2>1, ElementOfSeq
  <2>3. front \in Text /\ out[n] = front \o SerializeMessage(m)
    BY <2>1 DEF Writes
  <2>4. PICK rest \in Text : in = out[n] \o rest
    BY <2>1, TailsOf, WireTyped
  <2>5. SerializeMessage(m) \in Text
    <3>1. m \in Typed
      BY <2>2, WireTyped
    <3>. QED
      BY <2>4, <3>1, MessageText, Zenon
  <2>. HIDE DEF front, m
  <2>6. in = front \o (SerializeMessage(m) \o rest)
    <3>1. (front \o SerializeMessage(m)) \o rest = front \o (SerializeMessage(m) \o rest)
      BY <2>3, <2>5, Reassociate, Zenon
    <3>. QED
      BY <2>3, <2>4, <3>1, Zenon
  <2>7. f[n] = Advance(in, f[n - 1]) /\ f[n - 1] = ReadSoFar(SubSeq(messages, 1, n - 1), front)
    BY <1>3, <2>1 DEF Parses, front
  <2>. HIDE DEF in
  <2>8. f[n] = ReadSoFar(Append(SubSeq(messages, 1, n - 1), m), front \o SerializeMessage(m))
    <3>1. Advance(front \o (SerializeMessage(m) \o rest), ReadSoFar(SubSeq(messages, 1, n - 1), front)) =
            AfterOne(SubSeq(messages, 1, n - 1), front, m)
      BY <2>2, <2>3, AdvanceReads, Zenon
    <3>. QED
      BY <2>2, <2>6, <2>7, <3>1, Zenon DEF AfterOne
  <2>9. Append(SubSeq(messages, 1, n - 1), m) = SubSeq(messages, 1, n)
    <3>1. \A i \in 1 .. n - 1 : messages[i] \in Wire
      <4>1. \A i \in 1 .. n - 1 : i \in 1 .. Len(messages)
        BY <2>1
      <4>. QED
        BY <4>1, ElementOfSeq
    <3>2. SubSeq(messages, 1, n - 1) \in Seq(Wire)
      BY <2>1, <3>1, SubSeqProperties
    <3>3. 1 \in 1 .. Len(messages) /\ n \in 1 .. Len(messages)
      BY <2>1
    <3>4. SubSeq(messages, 1, n) = SubSeq(messages, 1, n - 1) \o <<messages[n]>>
      BY <3>3, SubSeqRecursiveSecond
    <3>5. Append(SubSeq(messages, 1, n - 1), m) = SubSeq(messages, 1, n - 1) \o <<m>>
      BY <2>2, <3>2, AppendIsConcat
    <3>. QED
      BY <3>4, <3>5, Zenon DEF m
  <2>10. f[n] = ReadSoFar(SubSeq(messages, 1, n), out[n])
    BY <2>3, <2>8, <2>9, Zenon
  <2>. QED
    BY <2>1, <2>10
<1>. HIDE DEF S
<1>4. \A n \in 0 .. N : n \in S
  BY <1>1, <1>2, <1>3, BoundedInduction
<1>. QED
  BY <1>4 DEF S

(* The header of a serialized list, and what Parse then does.              *)
LEMMA ParseSerialized ==
  ASSUME NEW messages \in Seq(Wire), messages # <<>>, Len(messages) < Modulus
  PROVE  \E out \in [0 .. Len(messages) -> Text],
            f \in [0 .. Len(messages) -> States] :
           /\ Writes(out, messages) /\ Serialize(messages) = out[Len(messages)]
           /\ Parses(f, out[Len(messages)], Len(out[0]), Len(messages))
           /\ Parse(Serialize(messages)) = f[Len(messages)]
<1>. DEFINE N == Len(messages)
<1>1. N \in Nat /\ N # 0 /\ 0 \in 0 .. N /\ N \in 0 .. N /\ N \in 0 .. Modulus - 1
  BY EmptySeq, LenProperties, ModulusAssumption
<1>2. PICK out \in [0 .. N -> Text] : Writes(out, messages) /\ Serialize(messages) = out[N]
  BY SerializeDef, WireTyped
<1>3. PICK rest \in Text : out[N] = out[0] \o rest
  BY <1>1, <1>2, TailsOf, WireTyped
<1>. DEFINE in == out[N]
            inv == ParseHeader("inv", in)
<1>. HIDE DEF N
<1>4. out[0] = SerializeInv(N)
  BY <1>2 DEF Writes, N
<1>5. in = Framed("inv", N, rest) /\ Len(out[0]) = 2 + Len(Decimal[N]) + 1
  BY <1>1, <1>3, <1>4, InvText, Zenon
<1>6. in \in Text
  BY <1>1
<1>. HIDE DEF in
<1>7. inv = [ok |-> TRUE, number |-> N, used |-> Len(out[0])]
  <2>1. "inv" \in Symbols
    BY SymbolsAssumption
  <2>2. inv = IF N = 0 THEN NotParsed ELSE [ok |-> TRUE, number |-> N, used |-> 2 + Len(Decimal[N]) + 1]
    BY <1>1, <1>5, <2>1, HeaderReads, Zenon
  <2>. QED
    BY <1>1, <1>5, <2>2, Zenon
<1>8. inv \in Heads
  BY <1>6, HeaderType
<1>9. Parse(in) = ParseBehind(in, inv)
  BY DEF Parse
<1>. HIDE DEF inv
<1>10. PICK f \in [0 .. inv.number -> States] :
         /\ Parses(f, in, inv.used, inv.number)
         /\ ParseBehind(in, inv) = IF inv.ok THEN f[inv.number]
                                   ELSE [None(inv.used) EXCEPT !.outcome = "invalid"]
  BY <1>6, <1>8, ParseBehindDef
<1>11. inv.ok = TRUE /\ inv.number = N /\ inv.used = Len(out[0])
  BY <1>7
<1>12. f \in [0 .. N -> States] /\ Parses(f, in, Len(out[0]), N) /\ Parse(in) = f[N]
  BY <1>9, <1>10, <1>11
<1>. QED
  BY <1>2, <1>12 DEF N, in

(* A list of messages none of which is empty, with no colon in a name and  *)
(* no length and no count a uint32_t cannot hold, parses back to itself,   *)
(* and the whole text is read.                                             *)
THEOREM SerializedReadsBack ==
  \A messages \in Seq(Sendable) :
    messages # <<>> /\ Len(messages) < Modulus =>
      Parse(Serialize(messages)) =
        [outcome |-> "ok", messages |-> messages, used |-> Len(Serialize(messages))]
<1>1. SUFFICES ASSUME NEW messages \in Seq(Sendable), messages # <<>>, Len(messages) < Modulus
               PROVE  Parse(Serialize(messages)) =
                        [outcome |-> "ok", messages |-> messages, used |-> Len(Serialize(messages))]
  OBVIOUS
<1>. DEFINE N == Len(messages)
<1>2. messages \in Seq(Wire)
  BY WireTyped
<1>3. N \in Nat /\ N \in 0 .. N /\ \A i \in 1 .. N : messages[i].payload # <<>>
  <2>1. \A i \in 1 .. N : messages[i] \in Sendable
    BY ElementOfSeq
  <2>2. N \in Nat
    BY LenProperties
  <2>. QED
    BY <2>1, <2>2 DEF Sendable
<1>4. PICK out \in [0 .. N -> Text], f \in [0 .. N -> States] :
        /\ Writes(out, messages) /\ Serialize(messages) = out[N]
        /\ Parses(f, out[N], Len(out[0]), N)
        /\ Parse(Serialize(messages)) = f[N]
  BY <1>1, <1>2, ParseSerialized
<1>5. f[N] = ReadSoFar(SubSeq(messages, 1, N), out[N])
  BY <1>2, <1>3, <1>4, PrefixReads
<1>6. SubSeq(messages, 1, N) = messages
  BY SubSeqFull
<1>. QED
  BY <1>4, <1>5, <1>6, Zenon DEF ReadSoFar

(* A message with nothing in it is refused.                                *)
THEOREM EmptyIsRefused ==
  \A nickname \in Plain : Parse(Serialize(<<Message(<<>>, nickname)>>)).outcome = "invalid"
<1>1. SUFFICES ASSUME NEW nickname \in Plain
               PROVE  Parse(Serialize(<<Message(<<>>, nickname)>>)).outcome = "invalid"
  OBVIOUS
<1>. DEFINE m == Message(<<>>, nickname)
            messages == <<m>>
<1>2. m \in Wire /\ m \in Typed /\ m.payload = <<>> /\ <<>> \in Text
  <2>1. <<>> \in Text /\ Len(<<>>) = 0 /\ nickname \in Plain
    BY EmptySeq DEF Text
  <2>2. m \in [payload : Text, nickname : Plain] /\ m.payload = <<>>
    BY <2>1 DEF Message
  <2>. HIDE DEF m
  <2>3. Len(m.payload) = 0 /\ 0 < Modulus
    BY <2>1, <2>2, ModulusAssumption
  <2>4. m \in Wire
    BY <2>2, <2>3 DEF Wire
  <2>. QED
    BY <2>1, <2>2, <2>4, WireTyped
<1>. HIDE DEF m
<1>3. messages \in Seq(Wire) /\ Len(messages) = 1 /\ messages # <<>> /\ messages[1] = m
  BY <1>2
<1>. HIDE DEF messages
<1>4. PICK out \in [0 .. 1 -> Text], f \in [0 .. 1 -> States] :
        /\ Writes(out, messages) /\ Serialize(messages) = out[1]
        /\ Parses(f, out[1], Len(out[0]), 1)
        /\ Parse(Serialize(messages)) = f[1]
  <2>1. Len(messages) < Modulus
    BY <1>3, ModulusAssumption
  <2>. QED
    BY <1>3, <2>1, ParseSerialized, Zenon
<1>5. /\ 0 \in 0 .. 1 /\ 1 \in 1 .. 1 /\ 1 - 1 = 0
      /\ \A i \in 1 .. 0 : messages[i].payload # <<>>
  OBVIOUS
<1>6. f[0] = ReadSoFar(SubSeq(messages, 1, 0), out[0])
  <2>1. /\ Writes(out, messages) /\ out \in [0 .. Len(messages) -> Text]
        /\ Parses(f, out[Len(messages)], Len(out[0]), Len(messages))
    BY <1>3, <1>4, Zenon
  <2>2. 0 \in 0 .. Len(messages) /\ 0 \in 0 .. 0
    BY <1>3
  <2>3. \A n \in 0 .. 0 : f[n] = ReadSoFar(SubSeq(messages, 1, n), out[n])
    BY <1>3, <1>5, <2>1, <2>2, PrefixReads, Zenon
  <2>. QED
    BY <2>2, <2>3, Zenon
<1>7. out[1] = out[0] \o SerializeMessage(m) /\ out[0] \in Text
  BY <1>3, <1>4, <1>5 DEF Writes
<1>8. SerializeMessage(m) \in Text
  BY <1>2, MessageText, Zenon
<1>9. out[1] = out[0] \o (SerializeMessage(m) \o <<>>)
  <2>1. SerializeMessage(m) \o <<>> = SerializeMessage(m)
    BY <1>8, ConcatEmptySeq DEF Text
  <2>. QED
    BY <1>7, <2>1, Zenon
<1>10. Advance(out[1], f[0]) = [f[0] EXCEPT !.outcome = "invalid"]
  <2>1. Advance(out[0] \o (SerializeMessage(m) \o <<>>), ReadSoFar(SubSeq(messages, 1, 0), out[0])) =
          AfterOne(SubSeq(messages, 1, 0), out[0], m)
    BY <1>2, <1>7, AdvanceReads, Zenon
  <2>. QED
    BY <1>2, <1>6, <1>9, <2>1, Zenon DEF AfterOne
<1>11. f[1] = Advance(out[1], f[0])
  BY <1>4, <1>5 DEF Parses
<1>12. f[1].outcome = "invalid"
  BY <1>6, <1>10, <1>11 DEF ReadSoFar
<1>. QED
  BY <1>4, <1>12 DEF messages, m
=============================================================================
