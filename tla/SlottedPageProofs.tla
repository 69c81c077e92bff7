------------------------- MODULE SlottedPageProofs -------------------------
(***************************************************************************)
(* Proofs about Serialization and SlottedPage for every size of a page, of *)
(* a count and of a word and for all rows.                                 *)
(*                                                                         *)
(* The digits of a number give the number back, the bytes of a row give    *)
(* the row back, and no other number of these bytes is taken for a row.    *)
(* A page that was written can be loaded again, its slots give back the    *)
(* rows that were put into them, and its operations are RecordPage's.      *)
(***************************************************************************)
EXTENDS SlottedPage, WellFoundedInduction, SequenceTheorems, TLAPS

\* A set of numbers that is not empty has a smallest one.
LEMMA SmallestOf ==
    ASSUME NEW S \in SUBSET Nat, S # {}
    PROVE  \E n \in S : \A m \in S : n <= m
<1>1. IsWellFoundedOn({ss \in Nat \X Nat : ss[1] < ss[2]}, Nat)
  BY NatLessThanWellFounded DEF OpToRel
<1>2. PICK n \in S : \A m \in S : ~ (<<m, n>> \in {ss \in Nat \X Nat : ss[1] < ss[2]})
  BY <1>1, WFMin
<1>3. ASSUME NEW m \in S
      PROVE  n <= m
  <2>1. m \in Nat /\ n \in Nat
    OBVIOUS
  <2>2. <<m, n>> \in Nat \X Nat /\ <<m, n>>[1] = m /\ <<m, n>>[2] = n
    BY <2>1
  <2>3. ~ (m < n)
    BY <1>2, <2>2
  <2>4. QED
    BY <2>1, <2>3
<1>4. QED
  BY <1>3

\* Induction: a set with 0 and with the successor of each number in it has all.
LEMMA Induction ==
    ASSUME NEW S, 0 \in S, \A n \in Nat : n \in S => n + 1 \in S
    PROVE  Nat \subseteq S
<1>1. SUFFICES ASSUME Nat \ S # {}
               PROVE  FALSE
  OBVIOUS
<1>2. PICK n \in Nat \ S : \A m \in Nat \ S : n <= m
  BY <1>1, SmallestOf
<1>3. n - 1 \in Nat /\ n - 1 \in S
  BY <1>2
<1>4. QED
  BY <1>3, <1>2

\* Division by a positive number, which has one quotient and one remainder.
LEMMA Division ==
    ASSUME NEW a \in Int, NEW b \in Nat \ {0}
    PROVE  /\ a \div b \in Int /\ a % b \in 0 .. b - 1
           /\ a = b * (a \div b) + (a % b)
  OBVIOUS

\* A number has one quotient and one remainder.
LEMMA UniqueDivision ==
    ASSUME NEW a \in Int, NEW b \in Nat \ {0}, NEW q \in Int, NEW r \in 0 .. b - 1,
           a = b * q + r
    PROVE  a \div b = q /\ a % b = r
  OBVIOUS

\* The remainder by p * b is the remainder by p and the next digit.
LEMMA NextDigit ==
    ASSUME NEW n \in Int, NEW p \in Nat \ {0}, NEW b \in Nat \ {0}
    PROVE  n % (b * p) = (n % p) + ((n \div p) % b) * p
<1> DEFINE q == n \div p
           r == n % p
           q2 == q \div b
           d == q % b
<1>1. q \in Int /\ r \in 0 .. p - 1 /\ n = p * q + r
  BY Division
<1>2. q2 \in Int /\ d \in 0 .. b - 1 /\ q = b * q2 + d
  BY <1>1, Division
<1> HIDE DEF q, r, q2, d
<1>3. b * p \in Nat \ {0}
  OBVIOUS
<1>4. n = (b * p) * q2 + (r + d * p)
  <2>1. n = p * (b * q2 + d) + r
    BY <1>1, <1>2
  <2>2. QED
    BY <2>1, <1>1, <1>2
<1>5. r + d * p \in 0 .. b * p - 1
  <2>1. d * p + p <= b * p
    BY <1>2
  <2>2. d * p \in Nat /\ b * p \in Nat
    BY <1>2
  <2>3. QED
    BY <1>1, <2>1, <2>2
<1>6. n % (b * p) = r + d * p
  BY <1>2, <1>3, <1>4, <1>5, UniqueDivision
<1>7. QED
  BY <1>6 DEF q, r, d
----------------------------------------------------------------------------
\* The powers of Base up to n.
PowersTo(n, f) == f = [i \in 0 .. n |-> IF i = 0 THEN 1 ELSE Base * f[i - 1]]

\* The powers up to n follow their recursion.
LEMMA PowersToDef ==
    ASSUME NEW n \in Nat, NEW f, PowersTo(n, f)
    PROVE  \A i \in 0 .. n : f[i] = IF i = 0 THEN 1 ELSE Base * f[i - 1]
  BY DEF PowersTo

\* There are such powers,
LEMMA PowersExist == \A n \in Nat : \E f : PowersTo(n, f)
<1> DEFINE S == {n \in Nat : \E f : PowersTo(n, f)}
<1>1. 0 \in S
  <2> DEFINE f == [i \in 0 .. 0 |-> 1]
  <2>1. PowersTo(0, f)
    BY DEF PowersTo
  <2> HIDE DEF f
  <2>2. QED
    BY <2>1
<1>2. ASSUME NEW n \in Nat, n \in S
      PROVE  n + 1 \in S
  <2>1. PICK f : PowersTo(n, f)
    BY <1>2
  <2> DEFINE g == [i \in 0 .. n + 1 |-> IF i = 0 THEN 1 ELSE Base * f[i - 1]]
  <2>2. \A i \in 0 .. n : g[i] = f[i]
    BY <2>1, PowersToDef
  <2>3. g = [i \in 0 .. n + 1 |-> IF i = 0 THEN 1 ELSE Base * g[i - 1]]
    <3>1. ASSUME NEW i \in 0 .. n + 1, i # 0
          PROVE  f[i - 1] = g[i - 1]
      BY <2>2, <3>1, i - 1 \in 0 .. n
    <3> HIDE DEF g
    <3>2. g = [i \in 0 .. n + 1 |-> IF i = 0 THEN 1 ELSE Base * f[i - 1]]
      BY DEF g
    <3>3. QED
      BY <3>1, <3>2
  <2> HIDE DEF g
  <2>4. QED
    BY <2>3 DEF PowersTo
<1>3. QED
  <2> HIDE DEF S
  <2>1. Nat \subseteq S
    BY <1>1, <1>2, Induction
  <2>2. QED
    BY <2>1 DEF S

\* and only one of each.
LEMMA PowersAgree ==
    ASSUME NEW n \in Nat, NEW f, PowersTo(n, f), NEW m \in Nat, NEW g, PowersTo(m, g)
    PROVE  \A i \in Nat : i <= n /\ i <= m => f[i] = g[i]
<1> DEFINE S == {i \in Nat : i <= n /\ i <= m => f[i] = g[i]}
<1>1. 0 \in S
  BY PowersToDef, 0 \in 0 .. n, 0 \in 0 .. m
<1>2. ASSUME NEW i \in Nat, i \in S
      PROVE  i + 1 \in S
  <2>1. CASE i + 1 <= n /\ i + 1 <= m
    <3>1. i + 1 \in 0 .. n /\ i + 1 \in 0 .. m /\ i + 1 # 0 /\ (i + 1) - 1 = i
      BY <2>1
    <3>2. f[i + 1] = Base * f[i] /\ g[i + 1] = Base * g[i]
      BY <3>1, PowersToDef
    <3>3. f[i] = g[i]
      BY <1>2, <2>1
    <3>4. QED
      BY <3>2, <3>3
  <2>2. QED
    BY <2>1
<1>3. QED
  <2> HIDE DEF S
  <2>1. Nat \subseteq S
    BY <1>1, <1>2, Induction
  <2>2. QED
    BY <2>1 DEF S

\* Power is the function that its recursive definition says.
LEMMA PowerDef == Power[0] = 1 /\ \A i \in Nat : Power[i + 1] = Base * Power[i]
<1> DEFINE to(n) == CHOOSE f : PowersTo(n, f)
           F == [n \in Nat |-> to(n)[n]]
<1>1. \A n \in Nat : PowersTo(n, to(n))
  BY PowersExist
<1> HIDE DEF to
<1>2. F[0] = 1
  BY <1>1, PowersToDef, 0 \in 0 .. 0
<1>3. ASSUME NEW n \in Nat, n # 0
      PROVE  F[n] = Base * F[n - 1]
  <2>1. n \in 0 .. n /\ n - 1 \in Nat /\ n - 1 <= n
    BY <1>3
  <2>2. to(n)[n] = Base * to(n)[n - 1]
    BY <1>1, <1>3, <2>1, PowersToDef
  <2>3. to(n)[n - 1] = to(n - 1)[n - 1]
    BY <1>1, <2>1, PowersAgree
  <2>4. QED
    BY <2>1, <2>2, <2>3
<1>4. F = [n \in Nat |-> IF n = 0 THEN 1 ELSE Base * F[n - 1]]
  <2>1. F = [n \in Nat |-> F[n]]
    OBVIOUS
  <2> HIDE DEF F
  <2>2. QED
    BY <1>2, <1>3, <2>1
<1> HIDE DEF F
<1>5. Power = [n \in Nat |-> IF n = 0 THEN 1 ELSE Base * Power[n - 1]]
  BY <1>4 DEF Power
<1>6. \A n \in Nat : Power[n] = IF n = 0 THEN 1 ELSE Base * Power[n - 1]
  BY <1>5
<1>7. QED
  <2>1. Power[0] = 1
    BY <1>6
  <2>2. ASSUME NEW i \in Nat
        PROVE  Power[i + 1] = Base * Power[i]
    BY <1>6, i + 1 \in Nat, i + 1 # 0, (i + 1) - 1 = i
  <2>3. QED
    BY <2>1, <2>2

\* A power is a positive number.
LEMMA PowerPositive == \A i \in Nat : Power[i] \in Nat \ {0}
<1> DEFINE S == {i \in Nat : Power[i] \in Nat \ {0}}
<1>1. 0 \in S
  BY PowerDef
<1>2. ASSUME NEW i \in Nat, i \in S
      PROVE  i + 1 \in S
  <2>1. Power[i + 1] = Base * Power[i] /\ Base \in Nat \ {0} /\ Power[i] \in Nat \ {0}
    BY <1>2, PowerDef, FormatAssumption
  <2>2. QED
    BY <2>1
<1>3. QED
  <2> HIDE DEF S
  <2>1. Nat \subseteq S
    BY <1>1, <1>2, Induction
  <2>2. QED
    BY <2>1 DEF S
----------------------------------------------------------------------------
\* Digits are bytes, as many as the width.
LEMMA DigitsAreBytes ==
    ASSUME NEW n \in Int, NEW width \in Nat
    PROVE  /\ Digits(n, width) \in Seq(Byte) /\ Len(Digits(n, width)) = width
           /\ \A i \in 1 .. width : Digits(n, width)[i] = (n \div Power[i - 1]) % Base
<1>1. ASSUME NEW i \in 1 .. width
      PROVE  (n \div Power[i - 1]) % Base \in Byte
  <2>1. Power[i - 1] \in Nat \ {0} /\ Base \in Nat \ {0}
    BY PowerPositive, FormatAssumption
  <2>2. QED
    BY <2>1, Division DEF Byte
<1>2. QED
  BY <1>1, IsASeq DEF Digits

\* The sum that Number returns.
SumTo(digits, f) ==
    f = [i \in 0 .. Len(digits) |-> IF i = 0 THEN 0 ELSE f[i - 1] + digits[i] * Power[i - 1]]

\* The partial sums follow their recursion.
LEMMA SumToDef ==
    ASSUME NEW digits, NEW f, SumTo(digits, f)
    PROVE  \A i \in 0 .. Len(digits) :
              f[i] = IF i = 0 THEN 0 ELSE f[i - 1] + digits[i] * Power[i - 1]
  BY DEF SumTo

\* A number is what its digits say, modulo what the width holds.
LEMMA NumberOfDigits ==
    ASSUME NEW n \in Int, NEW digits, Len(digits) \in Nat,
           \A i \in 1 .. Len(digits) : digits[i] = (n \div Power[i - 1]) % Base
    PROVE  Number(digits) = n % Power[Len(digits)]
<1> DEFINE w == Len(digits)
           F == [i \in 0 .. w |-> n % Power[i]]
<1>1. ASSUME NEW i \in 0 .. w
      PROVE  F[i] = IF i = 0 THEN 0 ELSE F[i - 1] + digits[i] * Power[i - 1]
  <2>1. CASE i = 0
    <3>1. n % 1 = 0
      OBVIOUS
    <3>2. QED
      BY <2>1, <3>1, PowerDef
  <2>2. CASE i # 0
    <3>1. i - 1 \in Nat /\ i - 1 \in 0 .. w /\ i \in 1 .. w /\ (i - 1) + 1 = i
      BY <2>2
    <3>2. Power[i] = Base * Power[i - 1] /\ Power[i - 1] \in Nat \ {0} /\ Base \in Nat \ {0}
      BY <3>1, PowerDef, PowerPositive, FormatAssumption
    <3>3. n % (Base * Power[i - 1]) =
             (n % Power[i - 1]) + ((n \div Power[i - 1]) % Base) * Power[i - 1]
      BY <3>2, NextDigit
    <3>4. F[i] = n % Power[i] /\ F[i - 1] = n % Power[i - 1]
      BY <3>1
    <3>5. digits[i] = (n \div Power[i - 1]) % Base
      BY <3>1
    <3> HIDE DEF F
    <3>6. QED
      BY <2>2, <3>2, <3>3, <3>4, <3>5
  <2>3. QED
    BY <2>1, <2>2
<1>2. F = [i \in 0 .. w |-> F[i]]
  OBVIOUS
<1>3. F[w] = n % Power[w]
  OBVIOUS
<1> HIDE DEF F
<1>4. SumTo(digits, F)
  BY <1>1, <1>2 DEF SumTo
<1> DEFINE G == CHOOSE f : SumTo(digits, f)
<1>5. SumTo(digits, G)
  BY <1>4
<1>6. Number(digits) = G[w]
  BY DEF Number, SumTo
<1> HIDE DEF G
<1> DEFINE S == {i \in Nat : i <= w => G[i] = F[i]}
<1>7. 0 \in S
  BY <1>4, <1>5, SumToDef, 0 \in 0 .. w
<1>8. ASSUME NEW i \in Nat, i \in S
      PROVE  i + 1 \in S
  <2>1. CASE i + 1 <= w
    <3>1. i + 1 \in 0 .. w /\ i + 1 # 0 /\ (i + 1) - 1 = i /\ i <= w
      BY <2>1
    <3>2. /\ G[i + 1] = G[i] + digits[i + 1] * Power[i]
          /\ F[i + 1] = F[i] + digits[i + 1] * Power[i]
      BY <1>4, <1>5, <3>1, SumToDef
    <3>3. G[i] = F[i]
      BY <1>8, <3>1
    <3>4. QED
      BY <3>2, <3>3
  <2>2. QED
    BY <2>1
<1>9. G[w] = F[w]
  <2> HIDE DEF S
  <2>1. Nat \subseteq S
    BY <1>7, <1>8, Induction
  <2>2. w \in S
    BY <2>1
  <2>3. QED
    BY <2>2 DEF S
<1>10. QED
  BY <1>3, <1>6, <1>9

\* What is read from the digits of a number is the number modulo what they hold.
LEMMA NumberOf ==
    ASSUME NEW n \in Int, NEW width \in Nat
    PROVE  Number(Digits(n, width)) = n % Power[width]
  BY DigitsAreBytes, NumberOfDigits

\* Digits of a number that fits give it back, and those of a word in two's
\* complement the word's number.
LEMMA NumberBack ==
    ASSUME NEW width \in Nat, NEW n \in 0 .. Power[width] - 1
    PROVE  Number(Digits(n, width)) = n
<1>1. Power[width] \in Nat \ {0} /\ n \in Int
  BY PowerPositive
<1>2. Number(Digits(n, width)) = n % Power[width]
  BY <1>1, NumberOf
<1>3. n = Power[width] * 0 + n
  BY <1>1
<1>4. QED
  BY <1>1, <1>2, <1>3, UniqueDivision

\* A signed word read from its digits is the word.
LEMMA SignedBack ==
    ASSUME NEW word \in Word
    PROVE  /\ Signed(word) \in Int
           /\ Signed(Number(Digits(Signed(word), WordWidth))) = Signed(word)
<1> DEFINE p == Power[WordWidth]
           n == Signed(word)
<1>1. p \in Nat \ {0} /\ WordWidth \in Nat /\ word \in 0 .. p - 1
  BY PowerPositive, FormatAssumption DEF Word
<1>2. n = word \/ n = word - p
  BY DEF Signed
<1> HIDE DEF n, p
<1>3. n \in Int /\ (n = p * 0 + word \/ n = p * (-1) + word)
  BY <1>1, <1>2
<1>4. n % p = word
  BY <1>1, <1>3, UniqueDivision
<1>5. Number(Digits(n, WordWidth)) = n % p
  <2>1. Number(Digits(n, WordWidth)) = n % Power[WordWidth]
    BY <1>1, <1>3, NumberOf
  <2>2. QED
    BY <2>1 DEF p
<1>6. QED
  BY <1>3, <1>4, <1>5 DEF n
----------------------------------------------------------------------------
\* A value whose string, if it is one, has a length that fits its count.
Storable(value) ==
    /\ value \in Value
    /\ value.type = "varchar" => Len(value.chars) < Power[SizeWidth]

\* The bytes of each kind of value: its tag and its payload.
LEMMA BytesOfNull == ValueBytes(NullValue) = <<0>>
  BY ConcatEmptySeq, <<0>> \in Seq({0}) DEF ValueBytes, NullValue, Tag

\* An integer is its tag and the digits of its word,
LEMMA BytesOfInt ==
    ASSUME NEW n
    PROVE  ValueBytes(IntValue(n)) = <<1>> \o Digits(n, WordWidth)
  BY DEF ValueBytes, IntValue, Tag

\* a double its tag and its bits,
LEMMA BytesOfDouble ==
    ASSUME NEW bits
    PROVE  ValueBytes(DoubleValue(bits)) = <<2>> \o Digits(bits, WordWidth)
  BY DEF ValueBytes, DoubleValue, Tag

\* and a text its tag, its length and its characters.
LEMMA BytesOfText ==
    ASSUME NEW chars
    PROVE  ValueBytes(TextValue(chars)) = <<3>> \o (Digits(Len(chars), SizeWidth) \o chars)
  BY DEF ValueBytes, TextValue, Tag

\* Which kinds of value there are.
LEMMA KindsOfValue ==
    ASSUME NEW value, Storable(value)
    PROVE  \/ value = NullValue
           \/ \E word \in Word : value = IntValue(Signed(word))
           \/ \E word \in Word : value = DoubleValue(word)
           \/ \E chars \in Seq(Byte) : /\ value = TextValue(chars)
                                       /\ Len(chars) \in 0 .. Power[SizeWidth] - 1
<1>1. CASE value \in [type : {"null"}]
  BY <1>1 DEF NullValue
<1>2. CASE value \in [type : {"int"}, n : {Signed(word) : word \in Word}]
  <2>1. PICK word \in Word : value.n = Signed(word)
    BY <1>2
  <2>2. value = IntValue(Signed(word))
    BY <1>2, <2>1 DEF IntValue
  <2>3. QED
    BY <2>2
<1>3. CASE value \in [type : {"double"}, bits : Word]
  <2>1. value.bits \in Word /\ value = DoubleValue(value.bits)
    BY <1>3 DEF DoubleValue
  <2>2. QED
    BY <2>1
<1>4. CASE value \in [type : {"varchar"}, chars : Seq(Byte)]
  <2>1. value.chars \in Seq(Byte) /\ value = TextValue(value.chars) /\ value.type = "varchar"
    BY <1>4 DEF TextValue
  <2>2. Len(value.chars) \in Nat /\ Power[SizeWidth] \in Nat
    BY <2>1, LenProperties, PowerPositive, FormatAssumption
  <2>3. Len(value.chars) \in 0 .. Power[SizeWidth] - 1
    BY <2>1, <2>2 DEF Storable
  <2>4. QED
    BY <2>1, <2>3
<1>5. QED
  BY <1>1, <1>2, <1>3, <1>4 DEF Storable, Value

\* A byte in front of others.
LEMMA TagInFront ==
    ASSUME NEW tag \in 0 .. 3, NEW payload \in Seq(Byte)
    PROVE  /\ <<tag>> \o payload \in Seq(Byte)
           /\ Len(<<tag>> \o payload) = 1 + Len(payload) /\ Len(payload) \in Nat
           /\ (<<tag>> \o payload)[1] = tag
           /\ \A i \in 1 .. Len(payload) : (<<tag>> \o payload)[1 + i] = payload[i]
<1>1. tag \in Byte
  BY FormatAssumption DEF Byte
<1>2. <<tag>> \in Seq(Byte) /\ Len(<<tag>>) = 1 /\ <<tag>>[1] = tag
  BY <1>1
<1>3. Len(payload) \in Nat
  BY LenProperties
<1>4. /\ <<tag>> \o payload \in Seq(Byte)
      /\ Len(<<tag>> \o payload) = 1 + Len(payload)
      /\ \A i \in 1 .. 1 + Len(payload) :
            (<<tag>> \o payload)[i] = IF i <= 1 THEN <<tag>>[i] ELSE payload[i - 1]
  BY <1>2, ConcatProperties
<1>5. (<<tag>> \o payload)[1] = tag
  BY <1>2, <1>3, <1>4
<1>6. ASSUME NEW i \in 1 .. Len(payload)
      PROVE  (<<tag>> \o payload)[1 + i] = payload[i]
  BY <1>3, <1>4, 1 + i \in 1 .. 1 + Len(payload), ~ (1 + i <= 1), (1 + i) - 1 = i
<1>7. QED
  BY <1>3, <1>4, <1>5, <1>6

\* A value has at least the byte of its tag.
LEMMA BytesOfValue ==
    ASSUME NEW value, Storable(value)
    PROVE  ValueBytes(value) \in Seq(Byte) /\ Len(ValueBytes(value)) \in Nat \ {0}
<1> DEFINE Tagged == \E tag \in 0 .. 3, payload \in Seq(Byte) :
                        ValueBytes(value) = <<tag>> \o payload
<1>1. WordWidth \in Nat /\ SizeWidth \in Nat
  BY FormatAssumption
<1>2. ASSUME value = NullValue
      PROVE  Tagged
  <2>1. <<>> \in Seq(Byte) /\ <<0>> \o <<>> = <<0>>
    BY ConcatEmptySeq, <<0>> \in Seq({0})
  <2>2. ValueBytes(value) = <<0>> \o <<>>
    BY <1>2, <2>1, BytesOfNull
  <2>3. QED
    BY <2>1, <2>2, 0 \in 0 .. 3
<1>3. ASSUME \E word \in Word : value = IntValue(Signed(word))
      PROVE  Tagged
  <2>1. PICK word \in Word : value = IntValue(Signed(word))
    BY <1>3
  <2>2. Digits(Signed(word), WordWidth) \in Seq(Byte)
    BY <1>1, SignedBack, DigitsAreBytes
  <2>3. ValueBytes(value) = <<1>> \o Digits(Signed(word), WordWidth)
    BY <2>1, BytesOfInt
  <2>4. QED
    BY <2>2, <2>3, 1 \in 0 .. 3
<1>4. ASSUME \E word \in Word : value = DoubleValue(word)
      PROVE  Tagged
  <2>1. PICK word \in Word : value = DoubleValue(word)
    BY <1>4
  <2>2. Digits(word, WordWidth) \in Seq(Byte)
    BY <1>1, DigitsAreBytes DEF Word
  <2>3. ValueBytes(value) = <<2>> \o Digits(word, WordWidth)
    BY <2>1, BytesOfDouble
  <2>4. QED
    BY <2>2, <2>3, 2 \in 0 .. 3
<1>5. ASSUME \E chars \in Seq(Byte) : /\ value = TextValue(chars)
                                      /\ Len(chars) \in 0 .. Power[SizeWidth] - 1
      PROVE  Tagged
  <2>1. PICK chars \in Seq(Byte) : value = TextValue(chars)
    BY <1>5
  <2>2. Digits(Len(chars), SizeWidth) \in Seq(Byte)
    BY <1>1, LenProperties, DigitsAreBytes
  <2>3. Digits(Len(chars), SizeWidth) \o chars \in Seq(Byte)
    BY <2>2, ConcatProperties
  <2>4. ValueBytes(value) = <<3>> \o (Digits(Len(chars), SizeWidth) \o chars)
    BY <2>1, BytesOfText
  <2>5. QED
    BY <2>3, <2>4, 3 \in 0 .. 3
<1>6. PICK tag \in 0 .. 3, payload \in Seq(Byte) : ValueBytes(value) = <<tag>> \o payload
  BY <1>2, <1>3, <1>4, <1>5, KindsOfValue
<1>7. QED
  BY <1>6, TagInFront
----------------------------------------------------------------------------
\* A reader that has not failed.
Reading(bytes, at, values) ==
    [bytes |-> bytes, at |-> at, values |-> values, error |-> "none"]

\* After the first `at` bytes comes part, or what there is of it.
Comes(bytes, at, part) == \A i \in 1 .. Len(part) : at + i <= Len(bytes) => bytes[at + i] = part[i]

\* The bytes of part were read as value, or were not all there.
ReadAs(reader, bytes, at, values, n, value) ==
    IF at + n <= Len(bytes) THEN reader = Reading(bytes, at + n, Append(values, value))
    ELSE reader.error # "none"

\* A reader that has failed says so.
LEMMA FailedHasError ==
    ASSUME NEW bytes, NEW at, NEW values
    PROVE  Failed(Reading(bytes, at, values), "unexpected end").error # "none"
  BY DEF Failed, Reading

\* Taking n bytes yields the value where they are there and fails where they are not.
LEMMA TakeReads ==
    ASSUME NEW bytes, Len(bytes) \in Nat, NEW at \in Nat, NEW values, NEW n \in Nat, NEW value
    PROVE  ReadAs(Take(Reading(bytes, at, values), n, value), bytes, at, values, n, value)
<1> DEFINE r == Reading(bytes, at, values)
<1>1. Remaining(r) = Len(bytes) - at
  BY DEF Remaining, Reading
<1>2. CASE at + n <= Len(bytes)
  <2>1. ~ (Remaining(r) < n)
    BY <1>1, <1>2
  <2>2. [r EXCEPT !.at = @ + n, !.values = Append(@, value)] =
           Reading(bytes, at + n, Append(values, value))
    <3> DEFINE further == at + n
               longer  == Append(values, value)
    <3>1. r.at = at /\ r.values = values
      BY DEF Reading
    <3> HIDE DEF further, longer
    <3>2. [r EXCEPT !.at = further] = Reading(bytes, further, values)
      BY DEF Reading
    <3>3. [Reading(bytes, further, values) EXCEPT !.values = longer]
             = Reading(bytes, further, longer)
      BY DEF Reading
    <3> HIDE DEF r
    <3>4. [r EXCEPT !.at = further, !.values = longer]
             = [[r EXCEPT !.at = further] EXCEPT !.values = longer]
      OBVIOUS
    <3>5. [r EXCEPT !.at = further, !.values = longer] = Reading(bytes, further, longer)
      BY <3>2, <3>3, <3>4
    <3>6. QED
      BY <3>1, <3>5 DEF further, longer
  <2> HIDE DEF r
  <2>3. Take(r, n, value) = Reading(bytes, at + n, Append(values, value))
    BY <2>1, <2>2 DEF Take
  <2>4. QED
    BY <1>2, <2>3 DEF ReadAs, r
<1>3. CASE ~ (at + n <= Len(bytes))
  <2>1. Remaining(r) < n
    BY <1>1, <1>3
  <2> HIDE DEF r
  <2>2. Take(r, n, value) = Failed(r, "unexpected end")
    BY <2>1 DEF Take
  <2>3. QED
    BY <1>3, <2>2, FailedHasError DEF ReadAs, r
<1>4. QED
  BY <1>2, <1>3

\* All of part comes.
ComesWhole(bytes, at, from, part) ==
    \A i \in 1 .. Len(part) : bytes[at + from + i - 1] = part[i]

\* A part that lies whole ahead of the reader is what it sees there.
LEMMA AheadIs ==
    ASSUME NEW bytes, NEW at \in Nat, NEW values, NEW from \in Nat, NEW part \in Seq(Byte),
           ComesWhole(bytes, at, from, part)
    PROVE  Ahead(Reading(bytes, at, values), from, Len(part)) = part
<1> DEFINE m == at + from
           n == at + from + Len(part) - 1
           got == SubSeq(bytes, m, n)
<1>1. Len(part) \in Nat /\ m \in Int /\ n \in Int /\ n - m + 1 = Len(part)
  BY LenProperties
<1>2. \A j \in m .. n : bytes[j] \in Byte
  <2>1. ASSUME NEW j \in m .. n
        PROVE  bytes[j] \in Byte
    <3>1. j - m + 1 \in 1 .. Len(part) /\ at + from + (j - m + 1) - 1 = j
      BY <1>1
    <3>2. bytes[j] = part[j - m + 1] /\ part[j - m + 1] \in Byte
      BY <3>1, ElementOfSeq DEF ComesWhole
    <3>3. QED
      BY <3>2
  <2>2. QED
    BY <2>1
<1> HIDE DEF m, n
<1>3. /\ got \in Seq(Byte) /\ Len(got) = IF m <= n THEN n - m + 1 ELSE 0
      /\ \A i \in 1 .. n - m + 1 : got[i] = bytes[m + i - 1]
  BY <1>1, <1>2, SubSeqProperties
<1>4. Len(got) = Len(part)
  BY <1>1, <1>3
<1> HIDE DEF got
<1>5. \A i \in 1 .. Len(got) : got[i] = part[i]
  BY <1>1, <1>3, <1>4 DEF m, ComesWhole
<1>6. got = part
  BY <1>3, <1>4, <1>5, SeqEqual
<1>7. Ahead(Reading(bytes, at, values), from, Len(part)) = got
  BY DEF Ahead, Reading, got, m, n
<1>8. QED
  BY <1>6, <1>7

\* A payload has a part behind its first bytes.
Within(payload, from, part) ==
    /\ from + Len(part) <= Len(payload)
    /\ \A i \in 1 .. Len(part) : payload[from + i] = part[i]

\* A payload behind the tag, when it is all there.
LEMMA PayloadAhead ==
    ASSUME NEW bytes, Len(bytes) \in Nat, NEW at \in Nat, NEW values, NEW tag \in 0 .. 3,
           NEW payload \in Seq(Byte), Comes(bytes, at, <<tag>> \o payload),
           NEW part \in Seq(Byte), NEW from \in Nat, Within(payload, from, part),
           at + 1 + from + Len(part) <= Len(bytes)
    PROVE  Ahead(Reading(bytes, at, values), 2 + from, Len(part)) = part
<1>1. Len(part) \in Nat /\ Len(payload) \in Nat
  BY LenProperties
<1>2. ASSUME NEW i \in 1 .. Len(part)
      PROVE  bytes[at + (2 + from) + i - 1] = part[i]
  <2> DEFINE j == 1 + (from + i)
  <2>1. /\ from + i \in 1 .. Len(payload) /\ j \in 1 .. 1 + Len(payload)
        /\ at + j <= Len(bytes) /\ at + (2 + from) + i - 1 = at + j
    BY <1>1 DEF Within
  <2>2. bytes[at + j] = (<<tag>> \o payload)[j]
    BY <2>1, TagInFront DEF Comes
  <2>3. (<<tag>> \o payload)[j] = payload[from + i]
    BY <2>1, TagInFront
  <2>4. QED
    BY <2>1, <2>2, <2>3 DEF Within
<1>3. ComesWhole(bytes, at, 2 + from, part) /\ 2 + from \in Nat
  BY <1>2 DEF ComesWhole
<1>4. QED
  BY <1>3, AheadIs

\* The tag is there, or the reader is at the end.
LEMMA TagAhead ==
    ASSUME NEW bytes, Len(bytes) \in Nat, NEW at \in 0 .. Len(bytes), NEW tag \in 0 .. 3,
           NEW payload \in Seq(Byte), Comes(bytes, at, <<tag>> \o payload)
    PROVE  \/ at = Len(bytes)
           \/ at + 1 <= Len(bytes) /\ bytes[at + 1] = tag
<1>1. CASE at + 1 <= Len(bytes)
  <2>1. 1 \in 1 .. Len(<<tag>> \o payload)
    BY TagInFront
  <2>2. bytes[at + 1] = (<<tag>> \o payload)[1]
    BY <1>1, <2>1 DEF Comes
  <2>3. QED
    BY <1>1, <2>2, TagInFront
<1>2. QED
  BY <1>1

\* What the reader does with a tag.
LEMMA ReadsByTag ==
    ASSUME NEW bytes, Len(bytes) \in Nat, NEW at \in Nat, NEW values, at + 1 <= Len(bytes)
    PROVE  LET r    == Reading(bytes, at, values)
               word == Number(Ahead(r, 2, WordWidth))
           IN  /\ bytes[at + 1] = 0 => ReadValue(r) = Take(r, 1, NullValue)
               /\ bytes[at + 1] = 1 =>
                     ReadValue(r) = Take(r, 1 + WordWidth, IntValue(Signed(word)))
               /\ bytes[at + 1] = 2 =>
                     ReadValue(r) = Take(r, 1 + WordWidth, DoubleValue(word))
               /\ bytes[at + 1] = 3 => ReadValue(r) = ReadText(r)
<1> DEFINE r    == Reading(bytes, at, values)
           word == Number(Ahead(r, 2, WordWidth))
<1>1. r.error = "none" /\ r.bytes = bytes /\ r.at = at /\ Remaining(r) # 0
  BY DEF Remaining, Reading
<1> HIDE DEF r, word
<1>2. ReadValue(r) =
         LET tag == bytes[at + 1]
         IN  CASE tag = Tag.null    -> Take(r, 1, NullValue)
               [] tag = Tag.int     -> Take(r, 1 + WordWidth, IntValue(Signed(word)))
               [] tag = Tag.double  -> Take(r, 1 + WordWidth, DoubleValue(word))
               [] tag = Tag.varchar -> ReadText(r)
               [] OTHER             -> Failed(r, "invalid tag")
  BY <1>1 DEF ReadValue, word
<1>3. Tag.null = 0 /\ Tag.int = 1 /\ Tag.double = 2 /\ Tag.varchar = 3
  BY DEF Tag
<1>4. ASSUME bytes[at + 1] = 0
      PROVE  ReadValue(r) = Take(r, 1, NullValue)
  BY <1>2, <1>3, <1>4
<1>5. ASSUME bytes[at + 1] = 1
      PROVE  ReadValue(r) = Take(r, 1 + WordWidth, IntValue(Signed(word)))
  BY <1>2, <1>3, <1>5
<1>6. ASSUME bytes[at + 1] = 2
      PROVE  ReadValue(r) = Take(r, 1 + WordWidth, DoubleValue(word))
  BY <1>2, <1>3, <1>6
<1>7. ASSUME bytes[at + 1] = 3
      PROVE  ReadValue(r) = ReadText(r)
  BY <1>2, <1>3, <1>7
<1>8. QED
  BY <1>4, <1>5, <1>6, <1>7 DEF r, word

\* At the end of the bytes no value is read.
LEMMA ReadsAtEnd ==
    ASSUME NEW bytes, Len(bytes) \in Nat, NEW values
    PROVE  ReadValue(Reading(bytes, Len(bytes), values)).error # "none"
<1> DEFINE r == Reading(bytes, Len(bytes), values)
<1>1. r.error = "none" /\ Remaining(r) = 0
  BY DEF Remaining, Reading
<1> HIDE DEF r
<1>2. ReadValue(r) = Failed(r, "unexpected end")
  BY <1>1 DEF ReadValue
<1>3. QED
  BY <1>2, FailedHasError DEF r

\* A word behind the tag.
LEMMA WordAhead ==
    ASSUME NEW bytes, Len(bytes) \in Nat, NEW at \in Nat, NEW values, NEW tag \in 0 .. 3,
           NEW n \in Int, Comes(bytes, at, <<tag>> \o Digits(n, WordWidth)),
           at + 1 + WordWidth <= Len(bytes)
    PROVE  Ahead(Reading(bytes, at, values), 2, WordWidth) = Digits(n, WordWidth)
<1> DEFINE part == Digits(n, WordWidth)
<1>1. part \in Seq(Byte) /\ Len(part) = WordWidth /\ WordWidth \in Nat
  BY DigitsAreBytes, FormatAssumption
<1> HIDE DEF part
<1>2. /\ Comes(bytes, at, <<tag>> \o part) /\ Within(part, 0, part)
      /\ at + 1 + 0 + Len(part) <= Len(bytes)
  BY <1>1 DEF part, Within
<1>3. Ahead(Reading(bytes, at, values), 2 + 0, Len(part)) = part
  BY <1>1, <1>2, PayloadAhead
<1>4. QED
  BY <1>1, <1>3 DEF part

\* The length of a string and its bytes behind the tag.
LEMMA TextAhead ==
    ASSUME NEW bytes, Len(bytes) \in Nat, NEW at \in Nat, NEW values,
           NEW chars \in Seq(Byte),
           Comes(bytes, at, << 3 >> \o (Digits(Len(chars), SizeWidth) \o chars)),
           at + 1 + SizeWidth <= Len(bytes)
    PROVE  /\ Ahead(Reading(bytes, at, values), 2, SizeWidth) = Digits(Len(chars), SizeWidth)
           /\ at + 1 + SizeWidth + Len(chars) <= Len(bytes) =>
                 Ahead(Reading(bytes, at, values), 2 + SizeWidth, Len(chars)) = chars
<1> DEFINE size == Digits(Len(chars), SizeWidth)
           payload == size \o chars
<1>1. SizeWidth \in Nat /\ Len(chars) \in Nat
  BY LenProperties, FormatAssumption
<1>2. size \in Seq(Byte) /\ Len(size) = SizeWidth
  BY <1>1, DigitsAreBytes
<1>3. Comes(bytes, at, <<3>> \o payload) /\ 3 \in 0 .. 3
  OBVIOUS
<1> HIDE DEF size
<1>4. /\ payload \in Seq(Byte) /\ Len(payload) = Len(size) + Len(chars)
      /\ \A i \in 1 .. Len(size) + Len(chars) :
            payload[i] = IF i <= Len(size) THEN size[i] ELSE chars[i - Len(size)]
  BY <1>2, ConcatProperties
<1> HIDE DEF payload
<1>5. Ahead(Reading(bytes, at, values), 2, SizeWidth) = size
  <2>1. Within(payload, 0, size) /\ at + 1 + 0 + Len(size) <= Len(bytes)
    BY <1>1, <1>2, <1>4 DEF Within
  <2>2. Ahead(Reading(bytes, at, values), 2 + 0, Len(size)) = size
    BY <1>2, <1>3, <1>4, <2>1, 0 \in Nat, PayloadAhead
  <2>3. QED
    BY <1>2, <2>2
<1>6. ASSUME at + 1 + SizeWidth + Len(chars) <= Len(bytes)
      PROVE  Ahead(Reading(bytes, at, values), 2 + SizeWidth, Len(chars)) = chars
  <2>1. SizeWidth + Len(chars) <= Len(payload)
    BY <1>1, <1>2, <1>4
  <2>2. ASSUME NEW i \in 1 .. Len(chars)
        PROVE  payload[SizeWidth + i] = chars[i]
    BY <1>1, <1>2, <1>4, SizeWidth + i \in 1 .. Len(size) + Len(chars),
       ~ (SizeWidth + i <= Len(size)), (SizeWidth + i) - Len(size) = i
  <2>3. QED
    BY <1>1, <1>3, <1>4, <1>6, <2>1, <2>2, PayloadAhead DEF Within
<1>7. QED
  BY <1>5, <1>6 DEF size

\* Whether bytes are missing does not depend on the value.
LEMMA SameReadAs ==
    ASSUME NEW reader, NEW bytes, NEW at, NEW values, NEW n, NEW value, NEW other,
           ReadAs(reader, bytes, at, values, n, other),
           at + n <= Len(bytes) => other = value
    PROVE  ReadAs(reader, bytes, at, values, n, value)
  BY DEF ReadAs

\* A word is read back from behind its tag,
LEMMA WordReadsBack ==
    ASSUME NEW bytes, Len(bytes) \in Nat, NEW at \in Nat, NEW values, NEW word \in Word,
           at + 1 <= Len(bytes)
    PROVE  /\ bytes[at + 1] = 1 /\ Comes(bytes, at, ValueBytes(IntValue(Signed(word)))) =>
                 ReadAs(ReadValue(Reading(bytes, at, values)), bytes, at, values,
                        1 + WordWidth, IntValue(Signed(word)))
           /\ bytes[at + 1] = 2 /\ Comes(bytes, at, ValueBytes(DoubleValue(word))) =>
                 ReadAs(ReadValue(Reading(bytes, at, values)), bytes, at, values,
                        1 + WordWidth, DoubleValue(word))
<1> DEFINE r == Reading(bytes, at, values)
           got == Number(Ahead(r, 2, WordWidth))
<1>1. 1 + WordWidth \in Nat /\ WordWidth \in Nat /\ 1 \in 0 .. 3 /\ 2 \in 0 .. 3
  BY FormatAssumption
<1>2. ASSUME bytes[at + 1] = 1, Comes(bytes, at, ValueBytes(IntValue(Signed(word))))
      PROVE  ReadAs(ReadValue(r), bytes, at, values, 1 + WordWidth, IntValue(Signed(word)))
  <2>1. ReadValue(r) = Take(r, 1 + WordWidth, IntValue(Signed(got)))
    BY <1>2, ReadsByTag
  <2>2. ReadAs(ReadValue(r), bytes, at, values, 1 + WordWidth, IntValue(Signed(got)))
    BY <1>1, <2>1, TakeReads
  <2>3. ASSUME at + (1 + WordWidth) <= Len(bytes)
        PROVE  IntValue(Signed(got)) = IntValue(Signed(word))
    <3>1. Comes(bytes, at, <<1>> \o Digits(Signed(word), WordWidth))
      BY <1>2, BytesOfInt
    <3>2. at + 1 + WordWidth <= Len(bytes)
      BY <1>1, <2>3
    <3>3. Ahead(r, 2, WordWidth) = Digits(Signed(word), WordWidth)
      BY <1>1, <3>1, <3>2, SignedBack, WordAhead
    <3>4. QED
      BY <3>3, SignedBack
  <2> HIDE DEF r, got
  <2>4. QED
    BY <2>2, <2>3, SameReadAs
<1>3. ASSUME bytes[at + 1] = 2, Comes(bytes, at, ValueBytes(DoubleValue(word)))
      PROVE  ReadAs(ReadValue(r), bytes, at, values, 1 + WordWidth, DoubleValue(word))
  <2>1. ReadValue(r) = Take(r, 1 + WordWidth, DoubleValue(got))
    BY <1>3, ReadsByTag
  <2>2. ReadAs(ReadValue(r), bytes, at, values, 1 + WordWidth, DoubleValue(got))
    BY <1>1, <2>1, TakeReads
  <2>3. ASSUME at + (1 + WordWidth) <= Len(bytes)
        PROVE  DoubleValue(got) = DoubleValue(word)
    <3>1. Comes(bytes, at, <<2>> \o Digits(word, WordWidth))
      BY <1>3, BytesOfDouble
    <3>2. at + 1 + WordWidth <= Len(bytes) /\ word \in 0 .. Power[WordWidth] - 1
      BY <1>1, <2>3 DEF Word
    <3>3. Ahead(r, 2, WordWidth) = Digits(word, WordWidth)
      BY <1>1, <3>1, <3>2, WordAhead
    <3>4. QED
      BY <1>1, <3>2, <3>3, NumberBack
  <2> HIDE DEF r, got
  <2>4. QED
    BY <2>2, <2>3, SameReadAs
<1>4. QED
  BY <1>2, <1>3

\* and a string.
LEMMA TextReadsBack ==
    ASSUME NEW bytes, Len(bytes) \in Nat, NEW at \in Nat, NEW values, NEW chars \in Seq(Byte),
           Len(chars) \in 0 .. Power[SizeWidth] - 1, at + 1 <= Len(bytes), bytes[at + 1] = 3,
           Comes(bytes, at, ValueBytes(TextValue(chars)))
    PROVE  ReadAs(ReadValue(Reading(bytes, at, values)), bytes, at, values,
                  1 + SizeWidth + Len(chars), TextValue(chars))
<1> DEFINE r == Reading(bytes, at, values)
           n == 1 + SizeWidth + Len(chars)
<1>1. SizeWidth \in Nat /\ Len(chars) \in Nat /\ n \in Nat
  BY LenProperties, FormatAssumption
<1>2. ReadValue(r) = ReadText(r)
  BY ReadsByTag
<1>3. Comes(bytes, at, <<3>> \o (Digits(Len(chars), SizeWidth) \o chars))
  BY BytesOfText
<1>4. Remaining(r) = Len(bytes) - at
  BY DEF Remaining, Reading
<1>5. CASE at + 1 + SizeWidth <= Len(bytes)
  <2>1. ~ (Remaining(r) < 1 + SizeWidth)
    BY <1>1, <1>4, <1>5
  <2>2. Number(Ahead(r, 2, SizeWidth)) = Len(chars)
    BY <1>1, <1>3, <1>5, TextAhead, NumberBack
  <2> DEFINE got == TextValue(Ahead(r, 2 + SizeWidth, Len(chars)))
  <2>3. ReadText(r) = Take(r, n, got)
    <3> HIDE DEF r
    <3>1. QED
      BY <2>1, <2>2 DEF ReadText
  <2>4. ReadAs(ReadValue(r), bytes, at, values, n, got)
    <3> HIDE DEF n, got
    <3>1. QED
      BY <1>1, <1>2, <2>3, TakeReads
  <2>5. ASSUME at + n <= Len(bytes)
        PROVE  got = TextValue(chars)
    <3>1. at + 1 + SizeWidth + Len(chars) <= Len(bytes)
      BY <1>1, <2>5
    <3>2. QED
      BY <1>3, <1>5, <3>1, TextAhead
  <2> HIDE DEF r, got, n
  <2>6. ReadAs(ReadValue(r), bytes, at, values, n, TextValue(chars))
    BY <2>4, <2>5, SameReadAs
  <2>7. QED
    BY <2>6 DEF n, r
<1>6. CASE ~ (at + 1 + SizeWidth <= Len(bytes))
  <2>1. Remaining(r) < 1 + SizeWidth /\ ~ (at + n <= Len(bytes))
    BY <1>1, <1>4, <1>6
  <2> HIDE DEF n
  <2>2. ReadText(r) = Failed(r, "unexpected end")
    <3> HIDE DEF r
    <3>1. QED
      BY <2>1 DEF ReadText
  <2>3. ReadValue(r).error # "none"
    BY <1>2, <2>2, FailedHasError
  <2>4. QED
    BY <2>1, <2>3 DEF ReadAs, n
<1>7. QED
  BY <1>5, <1>6

\* A value is read back from its bytes, and not from less than all of them.
LEMMA ReadsBack ==
    ASSUME NEW value, Storable(value), NEW bytes, Len(bytes) \in Nat,
           NEW at \in 0 .. Len(bytes), NEW values, Comes(bytes, at, ValueBytes(value))
    PROVE  ReadAs(ReadValue(Reading(bytes, at, values)), bytes, at, values,
                  Len(ValueBytes(value)), value)
<1> DEFINE r == Reading(bytes, at, values)
           n == Len(ValueBytes(value))
           Back == ReadAs(ReadValue(r), bytes, at, values, n, value)
<1>1. n \in Nat \ {0} /\ at \in Nat /\ WordWidth \in Nat /\ SizeWidth \in Nat
  BY BytesOfValue, FormatAssumption
<1>2. ASSUME at = Len(bytes)
      PROVE  Back
  <2>1. ReadValue(r).error # "none"
    BY <1>2, ReadsAtEnd
  <2>2. ~ (at + n <= Len(bytes))
    BY <1>1, <1>2
  <2> HIDE DEF n
  <2>3. QED
    BY <2>1, <2>2 DEF ReadAs
<1>3. ASSUME value = NullValue
      PROVE  Back
  <2>1. <<>> \in Seq(Byte) /\ <<0>> \o <<>> = <<0>> /\ Len(<<0>>) = 1 /\ 0 \in 0 .. 3
    BY ConcatEmptySeq, <<0>> \in Seq({0})
  <2>2. Comes(bytes, at, <<0>> \o <<>>) /\ n = 1
    BY <1>3, <2>1, BytesOfNull
  <2>3. CASE at + 1 <= Len(bytes) /\ bytes[at + 1] = 0
    <3>1. ReadValue(r) = Take(r, 1, NullValue)
      BY <1>1, <2>3, ReadsByTag
    <3>2. ReadAs(ReadValue(r), bytes, at, values, 1, NullValue)
      BY <1>1, <3>1, TakeReads
    <3>3. QED
      BY <1>3, <2>2, <3>2
  <2>4. QED
    BY <1>2, <2>1, <2>2, <2>3, TagAhead
<1>4. ASSUME NEW word \in Word, value = IntValue(Signed(word))
      PROVE  Back
  <2>1. ValueBytes(value) = <<1>> \o Digits(Signed(word), WordWidth) /\ 1 \in 0 .. 3
    BY <1>4, BytesOfInt
  <2>2. Digits(Signed(word), WordWidth) \in Seq(Byte)
           /\ Len(Digits(Signed(word), WordWidth)) = WordWidth
    BY <1>1, SignedBack, DigitsAreBytes
  <2>3. n = 1 + WordWidth
    BY <2>1, <2>2, TagInFront
  <2>4. CASE at + 1 <= Len(bytes) /\ bytes[at + 1] = 1
    <3>1. ReadAs(ReadValue(r), bytes, at, values, 1 + WordWidth, value)
      BY <1>1, <1>4, <2>4, WordReadsBack
    <3>2. QED
      BY <2>3, <3>1
  <2>5. QED
    BY <1>2, <2>1, <2>2, <2>4, TagAhead
<1>5. ASSUME NEW word \in Word, value = DoubleValue(word)
      PROVE  Back
  <2>1. ValueBytes(value) = <<2>> \o Digits(word, WordWidth) /\ 2 \in 0 .. 3
    BY <1>5, BytesOfDouble
  <2>2. Digits(word, WordWidth) \in Seq(Byte) /\ Len(Digits(word, WordWidth)) = WordWidth
    <3>1. word \in Int
      BY DEF Word
    <3>2. QED
      BY <1>1, <3>1, DigitsAreBytes
  <2>3. n = 1 + WordWidth
    BY <2>1, <2>2, TagInFront
  <2>4. CASE at + 1 <= Len(bytes) /\ bytes[at + 1] = 2
    <3>1. ReadAs(ReadValue(r), bytes, at, values, 1 + WordWidth, value)
      BY <1>1, <1>5, <2>4, WordReadsBack
    <3>2. QED
      BY <2>3, <3>1
  <2>5. QED
    BY <1>2, <2>1, <2>2, <2>4, TagAhead
<1>6. ASSUME NEW chars \in Seq(Byte), value = TextValue(chars),
             Len(chars) \in 0 .. Power[SizeWidth] - 1
      PROVE  Back
  <2> DEFINE size == Digits(Len(chars), SizeWidth)
             payload == size \o chars
  <2>1. ValueBytes(value) = <<3>> \o payload /\ 3 \in 0 .. 3
    <3>1. ValueBytes(value) = <<3>> \o payload
      BY <1>6, BytesOfText
    <3> HIDE DEF payload
    <3>2. QED
      BY <3>1
  <2>2. payload \in Seq(Byte) /\ Len(payload) = SizeWidth + Len(chars) /\ Len(chars) \in Nat
    <3>1. Len(chars) \in Nat /\ Len(chars) \in Int
      BY LenProperties
    <3>2. size \in Seq(Byte) /\ Len(size) = SizeWidth
      BY ONLY <1>1, <3>1, DigitsAreBytes
    <3> HIDE DEF size
    <3>3. QED
      BY <3>1, <3>2, ConcatProperties
  <2> HIDE DEF payload, size
  <2>3. n = 1 + SizeWidth + Len(chars)
    <3>1. n = 1 + Len(payload)
      BY <2>1, <2>2, TagInFront
    <3>2. QED
      BY <1>1, <2>2, <3>1
  <2>4. CASE at + 1 <= Len(bytes) /\ bytes[at + 1] = 3
    <3>1. ReadAs(ReadValue(r), bytes, at, values, 1 + SizeWidth + Len(chars), value)
      BY <1>1, <1>6, <2>4, TextReadsBack
    <3>2. QED
      BY <2>3, <3>1
  <2>5. QED
    BY <1>2, <2>1, <2>2, <2>4, TagAhead
<1>7. QED
  <2>1. Back
    <3> HIDE DEF Back
    <3>1. QED
      BY <1>3, <1>4, <1>5, <1>6, KindsOfValue
  <2>2. QED
    BY <2>1
----------------------------------------------------------------------------
\* The loop of FlattenSeq over the first n parts.
JoinsTo(parts, n, f) ==
    f = [i \in 1 .. n |-> IF i = 1 THEN parts[i] ELSE f[i - 1] \o parts[i]]

\* The joins up to n follow their recursion.
LEMMA JoinsToDef ==
    ASSUME NEW parts, NEW n \in Nat, NEW f, JoinsTo(parts, n, f)
    PROVE  \A i \in 1 .. n : f[i] = IF i = 1 THEN parts[i] ELSE f[i - 1] \o parts[i]
  BY DEF JoinsTo

\* There are such joins.
LEMMA JoinsExist ==
    ASSUME NEW parts
    PROVE  \A n \in Nat : \E f : JoinsTo(parts, n, f)
<1> DEFINE S == {n \in Nat : \E f : JoinsTo(parts, n, f)}
<1>1. 0 \in S
  <2> DEFINE f == [i \in 1 .. 0 |-> parts[i]]
  <2>1. 1 .. 0 = {}
    OBVIOUS
  <2>2. JoinsTo(parts, 0, f)
    BY <2>1 DEF JoinsTo
  <2> HIDE DEF f
  <2>3. QED
    BY <2>2
<1>2. ASSUME NEW n \in Nat, n \in S
      PROVE  n + 1 \in S
  <2>1. PICK f : JoinsTo(parts, n, f)
    BY <1>2
  <2> DEFINE g == [i \in 1 .. n + 1 |-> IF i = 1 THEN parts[i] ELSE f[i - 1] \o parts[i]]
  <2>2. \A i \in 1 .. n : g[i] = f[i]
    BY <2>1, JoinsToDef
  <2>3. g = [i \in 1 .. n + 1 |-> IF i = 1 THEN parts[i] ELSE g[i - 1] \o parts[i]]
    <3>1. ASSUME NEW i \in 1 .. n + 1, i # 1
          PROVE  f[i - 1] = g[i - 1]
      BY <2>2, <3>1, i - 1 \in 1 .. n
    <3> HIDE DEF g
    <3>2. g = [i \in 1 .. n + 1 |-> IF i = 1 THEN parts[i] ELSE f[i - 1] \o parts[i]]
      BY DEF g
    <3>3. QED
      BY <3>1, <3>2
  <2> HIDE DEF g
  <2>4. JoinsTo(parts, n + 1, g)
    BY <2>3 DEF JoinsTo
  <2>5. QED
    BY <2>4
<1>3. QED
  <2> HIDE DEF S
  <2>1. Nat \subseteq S
    BY <1>1, <1>2, Induction
  <2>2. QED
    BY <2>1 DEF S

\* The first n parts are one behind the other in joined, and part i ends at end[i].
Joined(S, parts, n, joined, end) ==
    /\ joined \in Seq(S) /\ Len(joined) = end[n] /\ end[n] \in Nat /\ end[0] = 0
    /\ \A i \in 1 .. n : /\ end[i - 1] \in Nat /\ Len(parts[i]) \in Nat
                         /\ end[i] = end[i - 1] + Len(parts[i]) /\ end[i] <= end[n]
                         /\ \A k \in 1 .. Len(parts[i]) : joined[end[i - 1] + k] = parts[i][k]

\* One part more.
LEMMA JoinsNext ==
    ASSUME NEW S, NEW parts, NEW n \in Nat, NEW joined, NEW end, Joined(S, parts, n, joined, end),
           parts[n + 1] \in Seq(S), end[n + 1] = Len(joined \o parts[n + 1])
    PROVE  Joined(S, parts, n + 1, joined \o parts[n + 1], end)
<1> DEFINE part == parts[n + 1]
           longer == joined \o part
<1>1. /\ joined \in Seq(S) /\ Len(joined) = end[n] /\ end[n] \in Nat
      /\ part \in Seq(S) /\ Len(part) \in Nat
  BY LenProperties DEF Joined
<1> HIDE DEF part
<1>2. /\ longer \in Seq(S) /\ Len(longer) = end[n] + Len(part)
      /\ \A k \in 1 .. end[n] + Len(part) :
            longer[k] = IF k <= end[n] THEN joined[k] ELSE part[k - end[n]]
  <2>1. /\ longer \in Seq(S) /\ Len(longer) = Len(joined) + Len(part)
        /\ \A k \in 1 .. Len(joined) + Len(part) :
              longer[k] = IF k <= Len(joined) THEN joined[k] ELSE part[k - Len(joined)]
    BY <1>1, ConcatProperties
  <2> HIDE DEF longer
  <2>2. QED
    BY <1>1, <2>1
<1> HIDE DEF longer
<1>3. end[n + 1] = end[n] + Len(part)
  BY <1>2 DEF longer, part
<1>4. ASSUME NEW i \in 1 .. n
      PROVE  /\ end[i - 1] \in Nat /\ Len(parts[i]) \in Nat
             /\ end[i] = end[i - 1] + Len(parts[i]) /\ end[i] <= end[n + 1]
             /\ \A k \in 1 .. Len(parts[i]) : longer[end[i - 1] + k] = parts[i][k]
  <2>1. /\ end[i - 1] \in Nat /\ Len(parts[i]) \in Nat
        /\ end[i] = end[i - 1] + Len(parts[i]) /\ end[i] <= end[n]
        /\ \A k \in 1 .. Len(parts[i]) : joined[end[i - 1] + k] = parts[i][k]
    BY DEF Joined
  <2>2. ASSUME NEW k \in 1 .. Len(parts[i])
        PROVE  longer[end[i - 1] + k] = parts[i][k]
    <3>1. end[i - 1] + k \in 1 .. end[n] + Len(part) /\ end[i - 1] + k <= end[n]
      <4>1. k \in Nat /\ 1 <= k /\ k <= Len(parts[i])
        BY <2>1
      <4>2. /\ end[i - 1] \in Nat /\ end[n] \in Nat /\ Len(parts[i]) \in Nat
            /\ end[i - 1] + Len(parts[i]) <= end[n]
        BY <1>1, <2>1
      <4>3. end[i - 1] + k \in Nat /\ 1 <= end[i - 1] + k /\ end[i - 1] + k <= end[n]
        BY ONLY <4>1, <4>2
      <4>4. QED
        BY <1>1, <4>3
    <3>2. longer[end[i - 1] + k] = joined[end[i - 1] + k]
      BY <1>2, <3>1
    <3>3. QED
      BY <2>1, <3>2
  <2>3. end[i] <= end[n + 1]
    BY <1>1, <1>3, <2>1
  <2>4. QED
    BY <2>1, <2>2, <2>3
<1>5. /\ end[(n + 1) - 1] \in Nat /\ Len(part) \in Nat /\ end[n + 1] = end[(n + 1) - 1] + Len(part)
      /\ end[n + 1] <= end[n + 1]
      /\ \A k \in 1 .. Len(part) : longer[end[(n + 1) - 1] + k] = part[k]
  <2>1. (n + 1) - 1 = n
    OBVIOUS
  <2>2. ASSUME NEW k \in 1 .. Len(part)
        PROVE  longer[end[n] + k] = part[k]
    BY <1>1, <1>2, end[n] + k \in 1 .. end[n] + Len(part), ~ (end[n] + k <= end[n]),
       (end[n] + k) - end[n] = k
  <2>3. QED
    BY <1>1, <1>3, <2>1, <2>2
<1>6. \A i \in 1 .. n + 1 : i \in 1 .. n \/ i = n + 1
  OBVIOUS
<1>7. end[0] = 0 /\ end[n + 1] \in Nat /\ Len(longer) = end[n + 1]
  BY <1>1, <1>2, <1>3 DEF Joined
<1>8. QED
  BY <1>2, <1>4, <1>5, <1>6, <1>7 DEF Joined, longer, part

\* FlattenSeq puts the parts one behind the other.
LEMMA Flattened ==
    ASSUME NEW S, NEW parts \in Seq(Seq(S))
    PROVE  \E end : Joined(S, parts, Len(parts), FlattenSeq(parts), end)
<1> DEFINE n == Len(parts)
           F == CHOOSE f : JoinsTo(parts, n, f)
           end == [i \in 0 .. n |-> IF i = 0 THEN 0 ELSE Len(F[i])]
<1>1. n \in Nat /\ \A i \in 1 .. n : parts[i] \in Seq(S)
  BY LenProperties, ElementOfSeq
<1>2. CASE n = 0
  <2> DEFINE none == [i \in 0 .. 0 |-> 0]
  <2>1. parts = <<>> /\ FlattenSeq(parts) = parts
    BY <1>2, EmptySeq DEF FlattenSeq
  <2>2. FlattenSeq(parts) \in Seq(S) /\ Len(FlattenSeq(parts)) = 0
    <3>1. <<>> \in Seq(S) /\ Len(<<>>) = 0
      OBVIOUS
    <3>2. QED
      BY ONLY <2>1, <3>1
  <2>3. none[0] = 0 /\ 1 .. 0 = {}
    OBVIOUS
  <2> HIDE DEF none
  <2>4. Joined(S, parts, 0, FlattenSeq(parts), none)
    BY <2>2, <2>3 DEF Joined
  <2>5. QED
    BY <1>2, <2>4
<1>3. CASE n # 0
  <2>1. JoinsTo(parts, n, F)
    BY <1>1, JoinsExist
  <2>2. FlattenSeq(parts) = F[n]
    BY <1>3 DEF FlattenSeq, JoinsTo
  <2> HIDE DEF F
  <2>3. F[1] = parts[1] /\ \A i \in 1 .. n : i # 1 => F[i] = F[i - 1] \o parts[i]
    <3>1. \A i \in 1 .. n : F[i] = IF i = 1 THEN parts[i] ELSE F[i - 1] \o parts[i]
      BY <1>1, <2>1, JoinsToDef
    <3>2. 1 \in 1 .. n
      BY <1>1, <1>3
    <3>3. QED
      BY <3>1, <3>2
  <2>4. end[0] = 0 /\ \A i \in 1 .. n : end[i] = Len(F[i])
    BY <1>1
  <2> HIDE DEF end, n
  <2> DEFINE T == {j \in Nat : 1 <= j /\ j <= n => Joined(S, parts, j, F[j], end)}
  <2>5. 0 \in T
    OBVIOUS
  <2>6. ASSUME NEW j \in Nat, j \in T
        PROVE  j + 1 \in T
    <3>1. CASE j = 0
      <4>1. Joined(S, parts, 0, <<>>, end)
        BY <2>4 DEF Joined
      <4>2. 1 \in 1 .. n /\ parts[1] \in Seq(S)
        BY <1>1, <1>3
      <4>3. <<>> \o parts[1] = parts[1] /\ F[1] = parts[1] /\ end[1] = Len(F[1])
        BY <2>3, <2>4, <4>2, ConcatEmptySeq
      <4> DEFINE none == 0
      <4>4. none + 1 = 1 /\ none \in Nat /\ Joined(S, parts, none, <<>>, end)
        BY <4>1
      <4> HIDE DEF none
      <4>5. Joined(S, parts, none + 1, <<>> \o parts[none + 1], end)
        BY <4>2, <4>3, <4>4, JoinsNext
      <4>6. Joined(S, parts, 1, F[1], end)
        BY <4>3, <4>4, <4>5
      <4>7. QED
        BY <3>1, <4>6
    <3>2. CASE j # 0 /\ j + 1 <= n
      <4>1. Joined(S, parts, j, F[j], end)
        BY <1>1, <2>6, <3>2
      <4>2. j + 1 \in 1 .. n /\ j + 1 # 1 /\ (j + 1) - 1 = j
        BY <1>1, <3>2
      <4>3. F[j + 1] = F[j] \o parts[j + 1] /\ end[j + 1] = Len(F[j + 1])
        BY <2>3, <2>4, <4>2
      <4>4. Joined(S, parts, j + 1, F[j] \o parts[j + 1], end)
        BY <1>1, <4>1, <4>2, <4>3, JoinsNext
      <4>5. Joined(S, parts, j + 1, F[j + 1], end)
        BY <4>3, <4>4
      <4>6. QED
        BY <4>5
    <3>3. QED
      BY <3>1, <3>2
  <2>7. n \in T
    <3> HIDE DEF T
    <3>1. QED
      BY <1>1, <2>5, <2>6, Induction
  <2>8. Joined(S, parts, n, F[n], end)
    BY <1>1, <1>3, <2>7
  <2>9. QED
    BY <2>2, <2>8 DEF n
<1>4. QED
  BY <1>2, <1>3

\* The bytes of a row: its count, and value i from end[i - 1] up to end[i].
Laid(row, end) ==
    /\ RowBytes(row) \in Seq(Byte) /\ Len(RowBytes(row)) = end[Len(row)]
    /\ end[0] = SizeWidth
    /\ \A k \in 1 .. SizeWidth : RowBytes(row)[k] = Digits(Len(row), SizeWidth)[k]
    /\ \A i \in 1 .. Len(row) :
          LET part == ValueBytes(row[i])
          IN  /\ end[i - 1] \in Nat /\ Len(part) \in Nat \ {0}
              /\ end[i] = end[i - 1] + Len(part) /\ end[i] <= end[Len(row)]
              /\ \A k \in 1 .. Len(part) : RowBytes(row)[end[i - 1] + k] = part[k]

\* Each value of a serializable row can be stored.
LEMMA StorableValues ==
    ASSUME NEW row, Serializable(row)
    PROVE  /\ row \in Seq(Value) /\ Len(row) \in 0 .. Power[SizeWidth] - 1
           /\ DOMAIN row = 1 .. Len(row)
           /\ \A i \in 1 .. Len(row) : Storable(row[i])
<1>1. row \in Seq(Value) /\ Len(row) < Power[SizeWidth]
  BY DEF Serializable
<1>2. Len(row) \in Nat /\ DOMAIN row = 1 .. Len(row) /\ Power[SizeWidth] \in Nat
  BY <1>1, LenProperties, PowerPositive, FormatAssumption
<1>3. ASSUME NEW i \in 1 .. Len(row)
      PROVE  Storable(row[i])
  BY <1>1, <1>2, <1>3, ElementOfSeq DEF Storable, Serializable
<1>4. QED
  BY <1>1, <1>2, <1>3

\* The bytes of a row are laid out value by value.
LEMMA RowLaid ==
    ASSUME NEW row, Serializable(row)
    PROVE  \E end : Laid(row, end)
<1> DEFINE n == Len(row)
           parts == [i \in DOMAIN row |-> ValueBytes(row[i])]
           size == Digits(n, SizeWidth)
           flat == FlattenSeq(parts)
           whole == size \o flat
<1>1. n \in Nat /\ n \in Int /\ SizeWidth \in Nat
  BY StorableValues, PowerPositive, FormatAssumption
<1>2. parts = [i \in 1 .. n |-> ValueBytes(row[i])]
  BY StorableValues
<1>3. \A i \in 1 .. n : ValueBytes(row[i]) \in Seq(Byte) /\ Len(ValueBytes(row[i])) \in Nat \ {0}
  BY StorableValues, BytesOfValue
<1> HIDE DEF parts, n
<1>4. /\ parts \in Seq(Seq(Byte)) /\ Len(parts) = n
      /\ \A i \in 1 .. n : parts[i] = ValueBytes(row[i])
  BY <1>1, <1>2, <1>3
<1>5. PICK end : Joined(Byte, parts, n, flat, end)
  BY <1>4, Flattened
<1>6. size \in Seq(Byte) /\ Len(size) = SizeWidth
  BY <1>1, DigitsAreBytes
<1>7. RowBytes(row) = whole
  BY DEF RowBytes, parts, n
<1> HIDE DEF size, flat
<1>8. flat \in Seq(Byte) /\ Len(flat) = end[n] /\ end[n] \in Nat /\ end[0] = 0
  BY <1>5 DEF Joined
<1>9. /\ whole \in Seq(Byte) /\ Len(whole) = SizeWidth + end[n]
      /\ \A k \in 1 .. SizeWidth + end[n] :
            whole[k] = IF k <= SizeWidth THEN size[k] ELSE flat[k - SizeWidth]
  <2>1. /\ whole \in Seq(Byte) /\ Len(whole) = Len(size) + Len(flat)
        /\ \A k \in 1 .. Len(size) + Len(flat) :
              whole[k] = IF k <= Len(size) THEN size[k] ELSE flat[k - Len(size)]
    BY <1>6, <1>8, ConcatProperties
  <2> HIDE DEF whole
  <2>2. QED
    BY <1>6, <1>8, <2>1
<1> HIDE DEF whole
<1> DEFINE to == [i \in 0 .. n |-> SizeWidth + end[i]]
<1>10. \A i \in 0 .. n : to[i] = SizeWidth + end[i]
  OBVIOUS
<1> HIDE DEF to
<1>11. to[0] = SizeWidth /\ Len(whole) = to[n]
  BY <1>1, <1>8, <1>9, <1>10
<1>12. \A k \in 1 .. SizeWidth : whole[k] = size[k]
  BY <1>1, <1>8, <1>9
<1>13. ASSUME NEW i \in 1 .. n
       PROVE  LET part == ValueBytes(row[i])
              IN  /\ to[i - 1] \in Nat /\ Len(part) \in Nat \ {0}
                  /\ to[i] = to[i - 1] + Len(part) /\ to[i] <= to[n]
                  /\ \A k \in 1 .. Len(part) : whole[to[i - 1] + k] = part[k]
  <2> DEFINE part == ValueBytes(row[i])
  <2>1. parts[i] = part
    BY <1>4
  <2>2. /\ end[i - 1] \in Nat /\ Len(part) \in Nat \ {0}
        /\ end[i] = end[i - 1] + Len(part) /\ end[i] <= end[n]
        /\ \A k \in 1 .. Len(part) : flat[end[i - 1] + k] = part[k]
    BY <1>3, <1>5, <2>1 DEF Joined
  <2> HIDE DEF part
  <2>3. to[i] = SizeWidth + end[i] /\ to[i - 1] = SizeWidth + end[i - 1] /\ to[n] = SizeWidth + end[n]
    BY <1>1, <1>10
  <2>4. ASSUME NEW k \in 1 .. Len(part)
        PROVE  whole[to[i - 1] + k] = part[k]
    <3>1. /\ k \in Nat /\ 1 <= k /\ k <= Len(part) /\ end[i - 1] \in Nat /\ end[n] \in Nat
          /\ end[i - 1] + Len(part) <= end[n] /\ Len(part) \in Nat
      BY <1>8, <2>2
    <3>2. /\ to[i - 1] + k \in Nat /\ SizeWidth < to[i - 1] + k
          /\ to[i - 1] + k <= SizeWidth + end[n]
          /\ (to[i - 1] + k) - SizeWidth = end[i - 1] + k
      <4>1. SizeWidth \in Nat /\ to[i - 1] = SizeWidth + end[i - 1]
        BY <1>1, <2>3
      <4>2. to[i - 1] \in Nat /\ SizeWidth <= to[i - 1]
        BY <3>1, <4>1
      <4>3. to[i - 1] + k \in Nat /\ SizeWidth < to[i - 1] + k
        BY ONLY <3>1, <4>1, <4>2
      <4>4. to[i - 1] + k <= SizeWidth + end[n]
        BY ONLY <3>1, <4>1
      <4>5. (to[i - 1] + k) - SizeWidth = end[i - 1] + k
        BY ONLY <3>1, <4>1
      <4>6. QED
        BY <4>3, <4>4, <4>5
    <3>3. to[i - 1] + k \in 1 .. SizeWidth + end[n] /\ ~ (to[i - 1] + k <= SizeWidth)
      BY <1>1, <1>8, <3>2
    <3>4. whole[to[i - 1] + k] = flat[end[i - 1] + k]
      BY <1>9, <3>2, <3>3
    <3>5. QED
      BY <2>2, <3>4
  <2>5. to[i - 1] \in Nat /\ to[i] = to[i - 1] + Len(part) /\ to[i] <= to[n]
    <3>1. /\ end[i - 1] \in Nat /\ end[n] \in Nat /\ Len(part) \in Nat
          /\ end[i] = end[i - 1] + Len(part) /\ end[i] <= end[n]
      BY <1>8, <2>2
    <3>2. QED
      BY ONLY <1>1, <2>3, <3>1
  <2>6. QED
    BY <2>2, <2>4, <2>5 DEF part
<1>14. Laid(row, to)
  BY <1>7, <1>9, <1>11, <1>12, <1>13 DEF Laid, n, size
<1>15. QED
  BY <1>14

\* Every value takes at least one byte.
LEMMA LaidGrows ==
    ASSUME NEW row, Serializable(row), NEW end, Laid(row, end)
    PROVE  \A i \in 0 .. Len(row) : end[i] \in Nat /\ end[i] >= SizeWidth + i
<1> DEFINE n == Len(row)
           S == {i \in Nat : i <= n => end[i] \in Nat /\ end[i] >= SizeWidth + i}
<1>1. n \in Nat /\ SizeWidth \in Nat
  BY StorableValues, PowerPositive, FormatAssumption
<1>2. 0 \in S
  BY <1>1 DEF Laid
<1>3. ASSUME NEW i \in Nat, i \in S
      PROVE  i + 1 \in S
  <2>1. CASE i + 1 <= n
    <3>1. i + 1 \in 1 .. n /\ (i + 1) - 1 = i
      BY <1>1, <2>1
    <3>2. /\ Len(ValueBytes(row[i + 1])) \in Nat \ {0}
          /\ end[i + 1] = end[i] + Len(ValueBytes(row[i + 1]))
      BY <3>1 DEF Laid
    <3>3. end[i] \in Nat /\ end[i] >= SizeWidth + i
      BY <1>1, <1>3, <2>1
    <3>4. end[i + 1] \in Nat /\ end[i + 1] >= SizeWidth + (i + 1)
      BY ONLY <1>1, <3>2, <3>3, i \in Nat
    <3>5. QED
      BY <3>4
  <2>2. QED
    BY <2>1
<1>4. Nat \subseteq S
  <2> HIDE DEF S
  <2>1. QED
    BY <1>2, <1>3, Induction
<1>5. QED
  BY <1>1, <1>4

\* So a row has bytes, at least those of its count.
LEMMA BytesOfRow ==
    ASSUME NEW row, Serializable(row)
    PROVE  RowBytes(row) \in Seq(Byte) /\ Len(RowBytes(row)) \in Nat \ {0}
<1>1. PICK end : Laid(row, end)
  BY RowLaid
<1>2. Len(row) \in Nat /\ SizeWidth \in Nat \ {0}
  BY StorableValues, PowerPositive, FormatAssumption
<1>3. end[Len(row)] \in Nat /\ end[Len(row)] >= SizeWidth + Len(row)
  BY <1>1, <1>2, LaidGrows, Len(row) \in 0 .. Len(row)
<1>4. Len(RowBytes(row)) = end[Len(row)] /\ RowBytes(row) \in Seq(Byte)
  BY <1>1 DEF Laid
<1>5. QED
  BY <1>2, <1>3, <1>4
----------------------------------------------------------------------------
\* The loop of Deserialized over the first n values.
ReadsTo(start, n, f) ==
    f = [i \in 0 .. n |-> IF i = 0 THEN start ELSE ReadValue(f[i - 1])]

\* The first n reads follow their recursion.
LEMMA ReadsToDef ==
    ASSUME NEW start, NEW n \in Nat, NEW f, ReadsTo(start, n, f)
    PROVE  f[0] = start /\ \A i \in Nat : i + 1 <= n => f[i + 1] = ReadValue(f[i])
<1>1. \A i \in 0 .. n : f[i] = IF i = 0 THEN start ELSE ReadValue(f[i - 1])
  BY DEF ReadsTo
<1>2. f[0] = start
  BY <1>1, 0 \in 0 .. n
<1>3. ASSUME NEW i \in Nat, i + 1 <= n
      PROVE  f[i + 1] = ReadValue(f[i])
  BY <1>1, <1>3, i + 1 \in 0 .. n, i + 1 # 0, (i + 1) - 1 = i
<1>4. QED
  BY <1>2, <1>3

\* There are such reads.
LEMMA ReadsExist ==
    ASSUME NEW start
    PROVE  \A n \in Nat : \E f : ReadsTo(start, n, f)
<1> DEFINE S == {n \in Nat : \E f : ReadsTo(start, n, f)}
<1>1. 0 \in S
  <2> DEFINE f == [i \in 0 .. 0 |-> start]
  <2>1. ReadsTo(start, 0, f)
    BY DEF ReadsTo
  <2> HIDE DEF f
  <2>2. QED
    BY <2>1
<1>2. ASSUME NEW n \in Nat, n \in S
      PROVE  n + 1 \in S
  <2>1. PICK f : ReadsTo(start, n, f)
    BY <1>2
  <2> DEFINE g == [i \in 0 .. n + 1 |-> IF i = 0 THEN start ELSE ReadValue(f[i - 1])]
  <2>2. \A i \in 0 .. n : f[i] = IF i = 0 THEN start ELSE ReadValue(f[i - 1])
    BY <2>1 DEF ReadsTo
  <2>3. \A i \in 0 .. n : g[i] = f[i]
    BY <2>2
  <2>4. g = [i \in 0 .. n + 1 |-> IF i = 0 THEN start ELSE ReadValue(g[i - 1])]
    <3>1. ASSUME NEW i \in 0 .. n + 1, i # 0
          PROVE  f[i - 1] = g[i - 1]
      BY <2>3, <3>1, i - 1 \in 0 .. n
    <3> HIDE DEF g
    <3>2. g = [i \in 0 .. n + 1 |-> IF i = 0 THEN start ELSE ReadValue(f[i - 1])]
      BY DEF g
    <3>3. QED
      BY <3>1, <3>2
  <2> HIDE DEF g
  <2>5. ReadsTo(start, n + 1, g)
    BY <2>4 DEF ReadsTo
  <2>6. QED
    BY <2>5
<1>3. QED
  <2> HIDE DEF S
  <2>1. Nat \subseteq S
    BY <1>1, <1>2, Induction
  <2>2. QED
    BY <2>1 DEF S

\* After n values the reader has the first n values of the row, if their bytes
\* are all there.
ReadUpTo(reader, bytes, row, end, n) ==
    IF end[n] <= Len(bytes) THEN reader = Reading(bytes, end[n], SubSeq(row, 1, n))
    ELSE reader.error # "none"

\* The bytes of a value come where the value before it ends.
LEMMA ValueComes ==
    ASSUME NEW row, Serializable(row), NEW end, Laid(row, end), NEW bytes, Len(bytes) \in Nat,
           Comes(bytes, 0, RowBytes(row)), NEW i \in 1 .. Len(row)
    PROVE  Comes(bytes, end[i - 1], ValueBytes(row[i]))
<1> DEFINE part == ValueBytes(row[i])
           whole == RowBytes(row)
<1>1. /\ end[i - 1] \in Nat /\ Len(part) \in Nat \ {0}
      /\ end[i - 1] + Len(part) <= Len(whole)
      /\ \A k \in 1 .. Len(part) : whole[end[i - 1] + k] = part[k]
  BY DEF Laid
<1>2. Len(whole) \in Nat /\ \A k \in 1 .. Len(whole) : k <= Len(bytes) => bytes[k] = whole[k]
  <2>1. Len(whole) \in Nat
    BY LenProperties DEF Laid
  <2>2. \A k \in 1 .. Len(whole) : 0 + k <= Len(bytes) => bytes[0 + k] = whole[k]
    BY DEF Comes
  <2>3. \A k \in 1 .. Len(whole) : 0 + k = k
    BY <2>1
  <2>4. QED
    BY <2>1, <2>2, <2>3
<1> HIDE DEF part, whole
<1>3. ASSUME NEW k \in 1 .. Len(part), end[i - 1] + k <= Len(bytes)
      PROVE  bytes[end[i - 1] + k] = part[k]
  <2>1. k \in Nat /\ 1 <= k /\ k <= Len(part) /\ end[i - 1] \in Nat /\ Len(part) \in Nat
        /\ end[i - 1] + Len(part) <= Len(whole) /\ Len(whole) \in Nat
    BY <1>1, <1>2
  <2>2. end[i - 1] + k \in 1 .. Len(whole)
    BY ONLY <2>1
  <2>3. QED
    BY <1>1, <1>2, <1>3, <2>2
<1>4. QED
  BY <1>3 DEF Comes, part

\* One value more is read.
LEMMA ReadsNext ==
    ASSUME NEW row, Serializable(row), NEW end, Laid(row, end), NEW bytes, Len(bytes) \in Nat,
           Comes(bytes, 0, RowBytes(row)), NEW n \in Nat, n + 1 <= Len(row),
           NEW reader, ReadUpTo(reader, bytes, row, end, n)
    PROVE  ReadUpTo(ReadValue(reader), bytes, row, end, n + 1)
<1> DEFINE i == n + 1
           part == ValueBytes(row[i])
<1>1. i \in 1 .. Len(row) /\ i - 1 = n /\ Len(row) \in Nat /\ n \in 0 .. Len(row)
  BY StorableValues, PowerPositive, FormatAssumption
<1>2. /\ end[n] \in Nat /\ Len(part) \in Nat \ {0} /\ end[i] = end[n] + Len(part)
  BY <1>1 DEF Laid
<1>3. CASE end[n] <= Len(bytes)
  <2>1. reader = Reading(bytes, end[n], SubSeq(row, 1, n))
    BY <1>3 DEF ReadUpTo
  <2>2. Comes(bytes, end[n], part) /\ Storable(row[i])
    BY <1>1, ValueComes, StorableValues
  <2>3. ReadAs(ReadValue(reader), bytes, end[n], SubSeq(row, 1, n), Len(part), row[i])
    BY <1>2, <1>3, <2>1, <2>2, end[n] \in 0 .. Len(bytes), ReadsBack
  <2>4. Append(SubSeq(row, 1, n), row[i]) = SubSeq(row, 1, i)
    <3>1. row \in Seq(Value) /\ row[i] \in Value
      BY <1>1, StorableValues DEF Storable
    <3>2. SubSeq(row, 1, i) = SubSeq(row, 1, n) \o <<row[i]>>
      BY <1>1, <3>1, SubSeqRecursiveSecond, 1 \in 1 .. Len(row), i \in 1 .. Len(row)
    <3>3. SubSeq(row, 1, n) \in Seq(Value)
      <4>1. \A j \in 1 .. n : row[j] \in Value
        BY <1>1, <3>1, ElementOfSeq
      <4>2. QED
        BY <4>1, SubSeqProperties
    <3>4. QED
      BY <3>1, <3>2, <3>3, AppendIsConcat
  <2> HIDE DEF i, part
  <2>5. QED
    BY <1>2, <2>3, <2>4 DEF ReadAs, ReadUpTo, i
<1>4. CASE ~ (end[n] <= Len(bytes))
  <2>1. reader.error # "none"
    BY <1>4 DEF ReadUpTo
  <2>2. ReadValue(reader) = reader
    BY <2>1 DEF ReadValue
  <2>3. ~ (end[i] <= Len(bytes))
    BY <1>2, <1>4
  <2> HIDE DEF i
  <2>4. QED
    BY <2>1, <2>2, <2>3 DEF ReadUpTo, i
<1>5. QED
  BY <1>3, <1>4

\* The loop reads the row.
LEMMA LoopReads ==
    ASSUME NEW row, Serializable(row), NEW end, Laid(row, end), NEW bytes, Len(bytes) \in Nat,
           Comes(bytes, 0, RowBytes(row)), SizeWidth <= Len(bytes),
           NEW f, ReadsTo(Reading(bytes, SizeWidth, <<>>), Len(row), f)
    PROVE  ReadUpTo(f[Len(row)], bytes, row, end, Len(row))
<1> DEFINE S == {i \in Nat : i <= Len(row) => ReadUpTo(f[i], bytes, row, end, i)}
<1>1. Len(row) \in Nat
  BY StorableValues, PowerPositive, FormatAssumption
<1>2. f[0] = Reading(bytes, SizeWidth, <<>>) /\ \A i \in Nat : i + 1 <= Len(row) => f[i + 1] = ReadValue(f[i])
  BY <1>1, ReadsToDef
<1>3. 0 \in S
  <2>1. end[0] = SizeWidth
    BY DEF Laid
  <2>2. SubSeq(row, 1, 0) = <<>>
    BY SubSeqEmpty
  <2>3. ReadUpTo(f[0], bytes, row, end, 0)
    BY <1>2, <2>1, <2>2 DEF ReadUpTo
  <2>4. QED
    BY <2>3
<1>4. ASSUME NEW i \in Nat, i \in S
      PROVE  i + 1 \in S
  <2>1. CASE i + 1 <= Len(row)
    <3>1. ReadUpTo(f[i], bytes, row, end, i)
      BY <1>1, <1>4, <2>1
    <3>2. ReadUpTo(ReadValue(f[i]), bytes, row, end, i + 1)
      BY <2>1, <3>1, ReadsNext
    <3>3. ReadUpTo(f[i + 1], bytes, row, end, i + 1)
      BY <1>2, <2>1, <3>2
    <3>4. QED
      BY <3>3
  <2>2. QED
    BY <2>1
<1>5. Nat \subseteq S
  <2> HIDE DEF S
  <2>1. QED
    BY <1>3, <1>4, Induction
<1>6. QED
  BY <1>1, <1>5

\* deserialize_row gives a row back from its bytes, and it takes no part of them
\* and no bytes that begin with them for a row.
THEOREM RowsReadExactly ==
    ASSUME NEW row, Serializable(row), NEW bytes, Len(bytes) \in Nat,
           \A k \in 1 .. Len(RowBytes(row)) : k <= Len(bytes) => bytes[k] = RowBytes(row)[k]
    PROVE  /\ Len(bytes) = Len(RowBytes(row)) =>
                 Deserialized(bytes).error = "none" /\ Deserialized(bytes).values = row
           /\ Len(bytes) # Len(RowBytes(row)) => Deserialized(bytes).error # "none"
<1> DEFINE n == Len(row)
           start == Reader(bytes)
           count == Number(Ahead(start, 1, SizeWidth))
           first == Reading(bytes, SizeWidth, <<>>)
           F == CHOOSE f : ReadsTo(first, n, f)
<1>1. PICK end : Laid(row, end)
  BY RowLaid
<1>2. /\ n \in 0 .. Power[SizeWidth] - 1 /\ n \in Nat /\ SizeWidth \in Nat
      /\ row \in Seq(Value)
  BY StorableValues, PowerPositive, FormatAssumption
<1>3. /\ Len(RowBytes(row)) = end[n] /\ end[n] \in Nat /\ end[n] >= SizeWidth + n
  <2>1. Len(RowBytes(row)) = end[Len(row)]
    BY <1>1 DEF Laid
  <2>2. Len(row) \in 0 .. Len(row)
    BY <1>2
  <2>3. end[Len(row)] \in Nat /\ end[Len(row)] >= SizeWidth + Len(row)
    BY <1>1, <2>2, LaidGrows
  <2>4. QED
    BY <2>1, <2>3
<1>4. start = Reading(bytes, 0, <<>>) /\ start.error = "none" /\ Remaining(start) = Len(bytes)
  BY DEF Reader, Reading, Remaining
<1>5. [start EXCEPT !.at = SizeWidth] = first
  BY <1>4 DEF Reading
<1>6. Comes(bytes, 0, RowBytes(row))
  <2>1. \A k \in 1 .. Len(RowBytes(row)) : 0 + k = k
    BY <1>3
  <2>2. QED
    BY <2>1 DEF Comes
<1> HIDE DEF n, first
<1>7. ASSUME Len(bytes) < SizeWidth
      PROVE  Deserialized(bytes).error # "none" /\ Len(bytes) # Len(RowBytes(row))
  <2>1. Deserialized(bytes) = Failed(start, "unexpected end")
    BY <1>4, <1>7 DEF Deserialized
  <2>2. Failed(start, "unexpected end").error # "none"
    BY <1>4, FailedHasError
  <2>3. Len(bytes) # Len(RowBytes(row))
    BY <1>2, <1>3, <1>7
  <2>4. QED
    BY <2>1, <2>2, <2>3
<1>8. ASSUME ~ (Len(bytes) < SizeWidth)
      PROVE  count = n
  <2> DEFINE size == Digits(n, SizeWidth)
  <2>1. size \in Seq(Byte) /\ Len(size) = SizeWidth
    BY <1>2, DigitsAreBytes
  <2>2. ComesWhole(bytes, 0, 1, size)
    <3>1. ASSUME NEW i \in 1 .. SizeWidth
          PROVE  bytes[0 + 1 + i - 1] = size[i]
      <4>1. i \in 1 .. Len(RowBytes(row)) /\ i <= Len(bytes) /\ 0 + 1 + i - 1 = i
        BY <1>2, <1>3, <1>8
      <4>2. RowBytes(row)[i] = size[i]
        BY <1>1 DEF Laid, n
      <4>3. QED
        BY <4>1, <4>2
    <3>2. QED
      BY <2>1, <3>1 DEF ComesWhole
  <2>3. Ahead(start, 1, SizeWidth) = size
    BY <1>4, <2>1, <2>2, 0 \in Nat, 1 \in Nat, AheadIs
  <2>4. Number(size) = n
    BY <1>2, NumberBack
  <2>5. QED
    BY <2>3, <2>4
<1>9. ASSUME ~ (Len(bytes) < SizeWidth), n > Len(bytes) - SizeWidth
      PROVE  Deserialized(bytes).error # "none" /\ Len(bytes) # Len(RowBytes(row))
  <2>1. count > Remaining(start) - SizeWidth
    BY <1>4, <1>8, <1>9
  <2>2. Deserialized(bytes) = Failed(start, "unexpected end")
    BY <2>1 DEF Deserialized
  <2>3. Failed(start, "unexpected end").error # "none"
    BY <1>4, FailedHasError
  <2>4. Len(bytes) # Len(RowBytes(row))
    BY <1>2, <1>3, <1>9
  <2>5. QED
    BY <2>2, <2>3, <2>4
<1>10. ASSUME ~ (Len(bytes) < SizeWidth), ~ (n > Len(bytes) - SizeWidth)
       PROVE  Deserialized(bytes) = Ended(F[n])
  <2>1. count = n /\ ~ (Remaining(start) < SizeWidth) /\ ~ (n > Remaining(start) - SizeWidth)
    BY <1>4, <1>8, <1>10
  <2> HIDE DEF start
  <2>2. QED
    BY <1>5, <2>1 DEF Deserialized, start, ReadsTo
<1>11. ASSUME ~ (Len(bytes) < SizeWidth)
       PROVE  ReadUpTo(F[n], bytes, row, end, n)
  <2>1. ReadsTo(first, n, F)
    BY <1>2, ReadsExist
  <2> HIDE DEF F
  <2>2. SizeWidth <= Len(bytes)
    BY <1>2, <1>11
  <2>3. QED
    BY <1>1, <1>6, <2>1, <2>2, LoopReads DEF first, n
<1> HIDE DEF F, start, count
<1>12. CASE ~ (Len(bytes) < SizeWidth) /\ ~ (n > Len(bytes) - SizeWidth)
  <2>1. CASE end[n] <= Len(bytes)
    <3>1. F[n] = Reading(bytes, end[n], row)
      BY <1>2, <1>11, <1>12, <2>1, SubSeqFull DEF ReadUpTo, n
    <3>2. F[n].error = "none" /\ F[n].values = row /\ Remaining(F[n]) = Len(bytes) - end[n]
      BY <3>1 DEF Reading, Remaining
    <3>3. CASE end[n] = Len(bytes)
      <4>1. Ended(F[n]) = F[n]
        BY <1>3, <3>2, <3>3 DEF Ended
      <4>2. QED
        BY <1>3, <1>10, <1>12, <3>2, <3>3, <4>1
    <3>4. CASE end[n] # Len(bytes)
      <4>1. Remaining(F[n]) # 0
        BY <1>3, <3>2, <3>4
      <4>2. Ended(F[n]).error # "none"
        BY <3>1, <3>2, <4>1 DEF Ended, Failed, Reading
      <4>3. QED
        BY <1>3, <1>10, <1>12, <3>4, <4>2
    <3>5. QED
      BY <3>3, <3>4
  <2>2. CASE ~ (end[n] <= Len(bytes))
    <3>1. F[n].error # "none"
      BY <1>11, <1>12, <2>2 DEF ReadUpTo
    <3>2. Ended(F[n]) = F[n]
      BY <3>1 DEF Ended
    <3>3. Len(bytes) # Len(RowBytes(row))
      BY <1>3, <2>2
    <3>4. QED
      BY <1>10, <1>12, <3>1, <3>2, <3>3
  <2>3. QED
    BY <2>1, <2>2
<1>13. QED
  BY <1>7, <1>9, <1>12
----------------------------------------------------------------------------
USE DEF Magic, SlotCount, FreeStart, FreeEnd, HeaderSize, SlotSize

\* The cells of a page, of which there are enough for its header.
LEMMA PageCells == PageSize \in Nat /\ PageSize >= 4 /\ Cells = 0 .. PageSize - 1
  BY PageSizeAssumption DEF Cells

\* What header and directory of a page say: numbers, and regions that lie between
\* the directory and the end of the page and apart from one another.
Sound(pg) ==
    /\ pg = [c \in Cells |-> pg[c]]
    /\ pg[SlotCount] \in Nat /\ pg[FreeEnd] \in Nat
    /\ \A s \in Slots(pg) : Offset(pg, s) \in Nat /\ Length(pg, s) \in Nat
    /\ Valid(pg)

\* A record to be stored: at least its count of values.
Stored(record) == Len(record) \in Nat \ {0}

\* The next page has the slots of the other, with the same entries but for slot,
\* and the cells of the records but for those at which the record is written.
Rewritten(pg, slot, at, record, next) ==
    /\ \A s \in Slots(pg) \ {slot} : /\ Offset(next, s) = Offset(pg, s)
                                     /\ Length(next, s) = Length(pg, s)
    /\ Offset(next, slot) = at /\ Length(next, slot) = Len(record)
    /\ \A i \in 1 .. Len(record) : next[at + i - 1] = record[i]
    /\ \A c \in pg[FreeEnd] .. PageSize - 1 :
          c \notin at .. at + Len(record) - 1 => next[c] = pg[c]
----------------------------------------------------------------------------
\* Header and directory are cells of the page, before those of the records.
LEMMA Directory ==
    ASSUME NEW pg, Sound(pg)
    PROVE  /\ pg[SlotCount] \in Nat /\ pg[FreeEnd] \in Nat
           /\ pg[FreeStart] = HeaderSize + pg[SlotCount] * SlotSize
           /\ pg[FreeStart] <= pg[FreeEnd] /\ pg[FreeEnd] <= PageSize
           /\ \A s \in Slots(pg) : /\ s \in Nat /\ s < pg[SlotCount]
                                   /\ HeaderSize <= Entry(s)
                                   /\ Entry(s) + 1 < pg[FreeStart]
  BY PageCells DEF Sound, Valid, Slots, Entry

\* No two slots share a cell of the directory.
LEMMA EntriesApart ==
    ASSUME NEW pg, Sound(pg), NEW s \in Slots(pg), NEW t \in Slots(pg), s # t
    PROVE  /\ Entry(s) \in Nat /\ Entry(s) >= 4 /\ Entry(s) + 1 < pg[FreeEnd]
           /\ Entry(s) # Entry(t) + 1 /\ Entry(s) + 1 # Entry(t) + 1
<1>1. /\ s \in Nat /\ t \in Nat /\ Entry(s) + 1 < pg[FreeStart]
      /\ pg[FreeStart] <= pg[FreeEnd] /\ pg[FreeEnd] \in Nat /\ pg[FreeStart] \in Nat
  BY Directory
<1>2. Entry(s) = 4 + s * 2 /\ Entry(t) = 4 + t * 2
  BY DEF Entry
<1>3. QED
  BY ONLY <1>1, <1>2, s # t

\* What insertion makes of header, directory and cells.
LEMMA InsertedCells ==
    ASSUME NEW pg, Sound(pg), NEW record, Stored(record),
           Len(record) + SlotSize <= FreeSpace(pg)
    PROVE  LET slot == pg[SlotCount]
               at   == pg[FreeEnd] - Len(record)
               next == [Copied(pg, record, at) EXCEPT ![Entry(slot)]     = at,
                                                      ![Entry(slot) + 1] = Len(record),
                                                      ![SlotCount]       = slot + 1,
                                                      ![FreeStart] = Entry(slot) + SlotSize,
                                                      ![FreeEnd]         = at]
           IN  /\ next = [c \in Cells |-> next[c]]
               /\ next[Magic] = kMagic
               /\ next[SlotCount] = slot + 1
               /\ next[FreeStart] = HeaderSize + (slot + 1) * SlotSize
               /\ next[FreeEnd] = at
               /\ at \in Nat /\ next[FreeStart] <= at /\ at + Len(record) = pg[FreeEnd]
               /\ Rewritten(pg, slot, at, record, next)
<1> DEFINE slot == pg[SlotCount]
           at   == pg[FreeEnd] - Len(record)
           copy == Copied(pg, record, at)
           next == [copy EXCEPT ![Entry(slot)]     = at,
                                ![Entry(slot) + 1] = Len(record),
                                ![SlotCount]       = slot + 1,
                                ![FreeStart]       = Entry(slot) + SlotSize,
                                ![FreeEnd]         = at]
           n == Len(record)
           e == HeaderSize + slot * SlotSize
<1>1. /\ slot \in Nat /\ pg[FreeEnd] \in Nat /\ pg[FreeStart] = e
      /\ pg[FreeEnd] <= PageSize /\ n \in Nat \ {0}
      /\ pg[Magic] = kMagic
  BY Directory DEF Stored, Sound, Valid
<1>2. /\ e \in Nat /\ e >= 4 /\ Entry(slot) = e /\ e = 4 + slot * 2
  BY <1>1 DEF Entry
<1>3. at \in Nat /\ e + 2 <= at /\ at + n = pg[FreeEnd]
  <2>1. n + 2 <= pg[FreeEnd] - e
    BY <1>1 DEF FreeSpace
  <2>2. at = pg[FreeEnd] - n
    OBVIOUS
  <2> HIDE DEF at, e, n
  <2>3. QED
    BY ONLY <1>1, <1>2, <2>1, <2>2
<1>4. /\ copy = [c \in Cells |-> copy[c]]
      /\ \A c \in Cells : copy[c] = IF c \in at .. at + n - 1 THEN record[c - at + 1] ELSE pg[c]
  BY DEF Copied
<1> HIDE DEF copy
<1>5. /\ next = [c \in Cells |-> next[c]]
      /\ \A c \in Cells : next[c] = IF c = 3 THEN at
                                    ELSE IF c = 2 THEN e + 2
                                    ELSE IF c = 1 THEN slot + 1
                                    ELSE IF c = e + 1 THEN n
                                    ELSE IF c = e THEN at
                                    ELSE copy[c]
  BY <1>1, <1>2, <1>3, <1>4, PageCells
<1> HIDE DEF next, at, e, slot, n
<1>6. Cells = 0 .. PageSize - 1 /\ PageSize \in Nat /\ PageSize >= 4
  BY PageCells
<1>7. /\ next[0] = pg[0] /\ next[1] = slot + 1 /\ next[2] = e + 2 /\ next[3] = at
  <2>1. 0 \in Cells /\ 1 \in Cells /\ 2 \in Cells /\ 3 \in Cells
    BY <1>6
  <2>2. 0 \notin at .. at + n - 1
    BY <1>1, <1>2, <1>3
  <2>3. next[0] = copy[0] /\ copy[0] = pg[0]
    BY <1>2, <1>4, <1>5, <2>1, <2>2
  <2>4. QED
    BY <1>5, <2>1, <2>3
<1>8. next[e] = at /\ next[e + 1] = n
  <2>1. e \in Cells /\ e + 1 \in Cells
    BY <1>1, <1>2, <1>3, <1>6
  <2>2. QED
    BY <1>2, <1>5, <2>1
<1>9. ASSUME NEW c \in Cells, c >= 4, c # e, c # e + 1, c \notin at .. at + n - 1
      PROVE  next[c] = pg[c]
  BY <1>2, <1>4, <1>5, <1>6, <1>9
<1>10. ASSUME NEW i \in 1 .. n
       PROVE  next[at + i - 1] = record[i]
  <2>1. at + i - 1 \in Cells /\ at + i - 1 \in at .. at + n - 1 /\ at + i - 1 > e + 1
    BY <1>1, <1>2, <1>3, <1>6
  <2>2. next[at + i - 1] = copy[at + i - 1]
    BY <1>2, <1>5, <2>1
  <2>3. (at + i - 1) - at + 1 = i
    BY <1>1, <1>3
  <2>4. QED
    BY <1>4, <2>1, <2>2, <2>3
<1>11. ASSUME NEW s \in Slots(pg)
       PROVE  Offset(next, s) = Offset(pg, s) /\ Length(next, s) = Length(pg, s)
  <2>1. /\ Entry(s) \in Cells /\ Entry(s) + 1 \in Cells /\ Entry(s) >= 4 /\ Entry(s) + 1 < e
    BY <1>1, <1>2, <1>6, Directory DEF Entry
  <2>2. ASSUME NEW c \in Cells, c >= 4, c < e
        PROVE  next[c] = pg[c]
    <3>1. c \notin at .. at + n - 1 /\ c # e /\ c # e + 1
      BY <1>1, <1>2, <1>3, <1>6, <2>2
    <3>2. QED
      BY <1>9, <2>2, <3>1
  <2>3. Entry(s) < e /\ Entry(s) + 1 >= 4
    BY <1>2, <1>6, <2>1
  <2>4. QED
    BY <2>1, <2>2, <2>3 DEF Offset, Length
<1>12. \A c \in pg[FreeEnd] .. PageSize - 1 : c \notin at .. at + n - 1 => next[c] = pg[c]
  BY <1>1, <1>2, <1>3, <1>6, <1>9
<1>13. Offset(next, slot) = at /\ Length(next, slot) = n
  BY <1>2, <1>8 DEF Offset, Length
<1>14. Rewritten(pg, slot, at, record, next)
  BY <1>10, <1>11, <1>12, <1>13 DEF Rewritten, n
<1>15. e + 2 = HeaderSize + (slot + 1) * SlotSize
  BY <1>1, <1>2
<1>16. QED
  BY <1>1, <1>3, <1>5, <1>7, <1>14, <1>15
     DEF next, at, slot, n, copy

\* What an update in place makes of them.
LEMMA UpdatedCells ==
    ASSUME NEW pg, Sound(pg), NEW slot \in Slots(pg), NEW record, Stored(record),
           Len(record) <= Length(pg, slot)
    PROVE  LET at   == Offset(pg, slot)
               next == [Copied(pg, record, at) EXCEPT ![Entry(slot) + 1] = Len(record)]
           IN  /\ next = [c \in Cells |-> next[c]]
               /\ \A c \in 0 .. 3 : next[c] = pg[c]
               /\ Rewritten(pg, slot, at, record, next)
<1> DEFINE at   == Offset(pg, slot)
           copy == Copied(pg, record, at)
           next == [copy EXCEPT ![Entry(slot) + 1] = Len(record)]
           n == Len(record)
           e == Entry(slot)
           first == pg[FreeEnd]
<1>1. /\ n \in Nat \ {0} /\ n <= Length(pg, slot) /\ Length(pg, slot) \in Nat
      /\ at \in Nat /\ first <= at /\ at + Length(pg, slot) <= PageSize /\ first \in Nat
  BY DEF Stored, Sound, Valid
<1>2. /\ e \in Nat /\ e >= 4 /\ e + 1 < first
      /\ \A s \in Slots(pg) \ {slot} : /\ Entry(s) \in Nat /\ Entry(s) >= 4
                                       /\ Entry(s) + 1 < first
                                       /\ Entry(s) # e + 1 /\ Entry(s) + 1 # e + 1
  <2>1. e \in Nat /\ e >= 4 /\ e + 1 < first
    <3>1. /\ slot \in Nat /\ e + 1 < pg[FreeStart] /\ pg[FreeStart] <= first
          /\ first \in Nat /\ pg[FreeStart] \in Nat
      BY Directory
    <3>2. e = 4 + slot * 2
      BY DEF Entry
    <3> HIDE DEF e, first
    <3>3. QED
      BY ONLY <3>1, <3>2
  <2>2. QED
    BY <2>1, EntriesApart
<1>3. /\ copy = [c \in Cells |-> copy[c]]
      /\ \A c \in Cells : copy[c] = IF c \in at .. at + n - 1 THEN record[c - at + 1] ELSE pg[c]
  BY DEF Copied
<1>4. Cells = 0 .. PageSize - 1 /\ PageSize \in Nat /\ PageSize >= 4
  BY PageCells
<1> HIDE DEF copy
<1>5. /\ next = [c \in Cells |-> next[c]]
      /\ \A c \in Cells : next[c] = IF c = e + 1 THEN n ELSE copy[c]
  BY <1>1, <1>2, <1>3, <1>4
<1> HIDE DEF next, at, e, n, first
<1>6. ASSUME NEW c \in Cells, c \notin at .. at + n - 1, c # e + 1
      PROVE  next[c] = pg[c]
  BY <1>3, <1>5, <1>6
<1>7. e + 1 \in Cells /\ next[e + 1] = n
  <2>1. e + 1 \in Cells
    BY <1>1, <1>2, <1>4
  <2>2. QED
    BY <1>5, <2>1
<1>8. ASSUME NEW i \in 1 .. n
      PROVE  next[at + i - 1] = record[i]
  <2>1. at + i - 1 \in Cells /\ at + i - 1 \in at .. at + n - 1 /\ at + i - 1 # e + 1
    BY <1>1, <1>2, <1>4
  <2>2. next[at + i - 1] = copy[at + i - 1]
    BY <1>5, <2>1
  <2>3. (at + i - 1) - at + 1 = i
    BY <1>1
  <2>4. QED
    BY <1>3, <2>1, <2>2, <2>3
<1>9. ASSUME NEW c \in Cells, c < first, c # e + 1
      PROVE  next[c] = pg[c]
  <2>1. c \notin at .. at + n - 1
    BY <1>1, <1>4, <1>9
  <2>2. QED
    BY <1>6, <1>9, <2>1
<1>10. \A c \in 0 .. 3 : next[c] = pg[c]
  <2>1. \A c \in 0 .. 3 : c \in Cells /\ c < first /\ c # e + 1
    BY <1>1, <1>2, <1>4
  <2>2. QED
    BY <1>9, <2>1
<1>11. ASSUME NEW s \in Slots(pg) \ {slot}
       PROVE  Offset(next, s) = Offset(pg, s) /\ Length(next, s) = Length(pg, s)
  <2>1. /\ Entry(s) \in Cells /\ Entry(s) + 1 \in Cells /\ Entry(s) < first
        /\ Entry(s) + 1 < first /\ Entry(s) # e + 1 /\ Entry(s) + 1 # e + 1
    BY <1>1, <1>2, <1>4
  <2>2. next[Entry(s)] = pg[Entry(s)] /\ next[Entry(s) + 1] = pg[Entry(s) + 1]
    BY <1>9, <2>1
  <2>3. QED
    BY <2>2 DEF Offset, Length
<1>12. Offset(next, slot) = at /\ Length(next, slot) = n
  <2>1. e \in Cells /\ e < first /\ e # e + 1
    BY <1>1, <1>2, <1>4
  <2>2. next[e] = pg[e]
    BY <1>9, <2>1
  <2>3. QED
    BY <1>7, <2>2 DEF Offset, Length, e, at
<1>13. \A c \in first .. PageSize - 1 : c \notin at .. at + n - 1 => next[c] = pg[c]
  <2>1. \A c \in first .. PageSize - 1 : c \in Cells /\ c # e + 1
    BY <1>1, <1>2, <1>4
  <2>2. QED
    BY <1>6, <2>1
<1>14. Rewritten(pg, slot, at, record, next)
  BY <1>8, <1>11, <1>12, <1>13 DEF Rewritten, n, first
<1>15. QED
  BY <1>5, <1>10, <1>14 DEF next, at, n, copy, e

\* What a deletion makes of them.
LEMMA DeletedCells ==
    ASSUME NEW pg, Sound(pg), NEW slot \in Slots(pg)
    PROVE  LET next == [pg EXCEPT ![Entry(slot) + 1] = 0]
           IN  /\ next = [c \in Cells |-> next[c]]
               /\ \A c \in 0 .. 3 : next[c] = pg[c]
               /\ Rewritten(pg, slot, Offset(pg, slot), <<>>, next)
<1> DEFINE e == Entry(slot)
           next == [pg EXCEPT ![Entry(slot) + 1] = 0]
           first == pg[FreeEnd]
<1>1. pg = [c \in Cells |-> pg[c]] /\ first \in Nat /\ first <= PageSize
  BY DEF Sound, Valid
<1>2. /\ e \in Nat /\ e >= 4 /\ e + 1 < first
      /\ \A s \in Slots(pg) \ {slot} : /\ Entry(s) \in Nat /\ Entry(s) >= 4
                                       /\ Entry(s) + 1 < first
                                       /\ Entry(s) # e + 1 /\ Entry(s) + 1 # e + 1
  <2>1. e \in Nat /\ e >= 4 /\ e + 1 < first
    <3>1. /\ slot \in Nat /\ e + 1 < pg[FreeStart] /\ pg[FreeStart] <= first
          /\ first \in Nat /\ pg[FreeStart] \in Nat
      BY Directory
    <3>2. e = 4 + slot * 2
      BY DEF Entry
    <3> HIDE DEF e, first
    <3>3. QED
      BY ONLY <3>1, <3>2
  <2>2. QED
    BY <2>1, EntriesApart
<1>3. Cells = 0 .. PageSize - 1 /\ PageSize \in Nat /\ PageSize >= 4
  BY PageCells
<1>4. /\ next = [c \in Cells |-> next[c]]
      /\ \A c \in Cells : next[c] = IF c = e + 1 THEN 0 ELSE pg[c]
  BY <1>1
<1> HIDE DEF next, e, first
<1>5. \A c \in 0 .. 3 : next[c] = pg[c]
  BY <1>2, <1>3, <1>4
<1>6. ASSUME NEW s \in Slots(pg) \ {slot}
      PROVE  Offset(next, s) = Offset(pg, s) /\ Length(next, s) = Length(pg, s)
  <2>1. /\ Entry(s) \in Cells /\ Entry(s) + 1 \in Cells
        /\ Entry(s) # e + 1 /\ Entry(s) + 1 # e + 1
    BY <1>1, <1>2, <1>3
  <2>2. next[Entry(s)] = pg[Entry(s)] /\ next[Entry(s) + 1] = pg[Entry(s) + 1]
    BY <1>4, <2>1
  <2>3. QED
    BY <2>2 DEF Offset, Length
<1>7. Offset(next, slot) = Offset(pg, slot) /\ Length(next, slot) = 0
  <2>1. e \in Cells /\ e + 1 \in Cells /\ e # e + 1
    BY <1>1, <1>2, <1>3
  <2>2. next[e] = pg[e] /\ next[e + 1] = 0
    BY <1>4, <2>1
  <2>3. QED
    BY <2>2 DEF Offset, Length, e
<1>8. \A c \in first .. PageSize - 1 : next[c] = pg[c]
  <2>1. \A c \in first .. PageSize - 1 : c \in Cells /\ c # e + 1
    BY <1>1, <1>2, <1>3
  <2>2. QED
    BY <1>4, <2>1
<1>9. Len(<<>>) = 0 /\ 1 .. Len(<<>>) = {}
  OBVIOUS
<1>10. Rewritten(pg, slot, Offset(pg, slot), <<>>, next)
  BY <1>6, <1>7, <1>8, <1>9 DEF Rewritten, first
<1>11. QED
  BY <1>4, <1>5, <1>10 DEF next, e
----------------------------------------------------------------------------
\* A record is placed in front of the others, in a slot behind the others, or
\* where the longer record of its slot was.
Placed(pg, slot, at, record, next) ==
    /\ next = [c \in Cells |-> next[c]] /\ next[Magic] = kMagic
    /\ Len(record) \in Nat
    /\ Rewritten(pg, slot, at, record, next)
    /\ \/ /\ slot = pg[SlotCount] /\ next[SlotCount] = slot + 1
          /\ next[FreeStart] = HeaderSize + (slot + 1) * SlotSize
          /\ next[FreeStart] <= at /\ at + Len(record) = pg[FreeEnd]
          /\ at \in Nat /\ next[FreeEnd] = at
       \/ /\ slot \in Slots(pg) /\ next[SlotCount] = pg[SlotCount]
          /\ next[FreeStart] = pg[FreeStart] /\ next[FreeEnd] = pg[FreeEnd]
          /\ at = Offset(pg, slot) /\ Len(record) <= Length(pg, slot)

\* The record is apart from those of the other slots.
LEMMA PlacedApart ==
    ASSUME NEW pg, Sound(pg), NEW slot, NEW at, NEW record, NEW next,
           Placed(pg, slot, at, record, next), NEW s \in Slots(pg), s # slot
    PROVE  \/ Length(pg, s) = 0 \/ Len(record) = 0
           \/ Offset(pg, s) + Length(pg, s) <= at
           \/ at + Len(record) <= Offset(pg, s)
<1>1. CASE at + Len(record) = pg[FreeEnd]
  BY <1>1 DEF Sound, Valid
<1>2. CASE slot \in Slots(pg) /\ at = Offset(pg, slot) /\ Len(record) <= Length(pg, slot)
  <2>1. /\ Offset(pg, s) \in Nat /\ Length(pg, s) \in Nat
        /\ at \in Nat /\ Length(pg, slot) \in Nat /\ Len(record) \in Nat
    BY <1>2 DEF Sound, Placed
  <2>2. \/ Length(pg, s) = 0 \/ Length(pg, slot) = 0
        \/ Offset(pg, s) + Length(pg, s) <= at
        \/ at + Length(pg, slot) <= Offset(pg, s)
    BY <1>2 DEF Sound, Valid
  <2>3. QED
    BY <1>2, <2>1, <2>2
<1>3. QED
  BY <1>1, <1>2 DEF Placed

\* The page stays sound.
LEMMA PlacedSound ==
    ASSUME NEW pg, Sound(pg), NEW slot, NEW at, NEW record, NEW next,
           Placed(pg, slot, at, record, next)
    PROVE  /\ Sound(next) /\ Slots(next) = Slots(pg) \cup {slot}
           /\ next[FreeEnd] <= pg[FreeEnd]
<1> DEFINE n == Len(record)
           first == next[FreeEnd]
<1>1. /\ pg[SlotCount] \in Nat /\ pg[FreeEnd] \in Nat
      /\ pg[FreeStart] = HeaderSize + pg[SlotCount] * SlotSize
      /\ pg[FreeStart] <= pg[FreeEnd] /\ pg[FreeEnd] <= PageSize /\ PageSize \in Nat
      /\ n \in Nat
      /\ \A s \in Slots(pg) : /\ Offset(pg, s) \in Nat /\ Length(pg, s) \in Nat
                              /\ pg[FreeEnd] <= Offset(pg, s)
                              /\ Offset(pg, s) + Length(pg, s) <= PageSize
  BY PageCells DEF Sound, Valid, Placed
<1>2. /\ next[SlotCount] \in Nat /\ Slots(next) = Slots(pg) \cup {slot}
      /\ next[FreeStart] = HeaderSize + next[SlotCount] * SlotSize
      /\ next[FreeStart] <= first /\ first \in Nat /\ first <= pg[FreeEnd]
      /\ at \in Nat /\ first <= at /\ at + n <= PageSize
  <2>1. CASE /\ slot = pg[SlotCount] /\ next[SlotCount] = slot + 1
             /\ next[FreeStart] = HeaderSize + (slot + 1) * SlotSize
             /\ next[FreeStart] <= at /\ at + n = pg[FreeEnd]
             /\ at \in Nat /\ next[FreeEnd] = at
    <3>1. Slots(next) = Slots(pg) \cup {slot}
      <4>1. Slots(next) = 0 .. slot /\ Slots(pg) = 0 .. slot - 1 /\ slot \in Nat
        BY <1>1, <2>1 DEF Slots
      <4>2. 0 .. slot = (0 .. slot - 1) \cup {slot}
        BY <4>1
      <4>3. QED
        BY <4>1, <4>2
    <3>2. QED
      BY <1>1, <2>1, <3>1
  <2>2. CASE /\ slot \in Slots(pg) /\ next[SlotCount] = pg[SlotCount]
             /\ next[FreeStart] = pg[FreeStart] /\ next[FreeEnd] = pg[FreeEnd]
             /\ at = Offset(pg, slot) /\ n <= Length(pg, slot)
    <3>1. Slots(next) = Slots(pg) \cup {slot}
      BY <2>2 DEF Slots
    <3>2. QED
      BY <1>1, <2>2, <3>1
  <2>3. QED
    BY <2>1, <2>2 DEF Placed
<1>3. /\ \A s \in Slots(pg) : s # slot => /\ Offset(next, s) = Offset(pg, s)
                                          /\ Length(next, s) = Length(pg, s)
      /\ Offset(next, slot) = at /\ Length(next, slot) = n
  BY DEF Placed, Rewritten
<1> HIDE DEF n, first
<1>4. ASSUME NEW s \in Slots(next)
      PROVE  /\ Offset(next, s) \in Nat /\ Length(next, s) \in Nat
             /\ first <= Offset(next, s) /\ Offset(next, s) + Length(next, s) <= PageSize
  <2>1. CASE s = slot
    BY <1>1, <1>2, <1>3, <2>1
  <2>2. CASE s # slot
    BY <1>1, <1>2, <1>3, <2>2
  <2>3. QED
    BY <2>1, <2>2
<1>5. ASSUME NEW s \in Slots(next), NEW t \in Slots(next), s # t
      PROVE  \/ Length(next, s) = 0 \/ Length(next, t) = 0
             \/ Offset(next, s) + Length(next, s) <= Offset(next, t)
             \/ Offset(next, t) + Length(next, t) <= Offset(next, s)
  <2>1. CASE s # slot /\ t # slot
    <3>1. s \in Slots(pg) /\ t \in Slots(pg)
      BY <1>2, <2>1
    <3>2. QED
      BY <1>3, <1>5, <2>1, <3>1 DEF Sound, Valid
  <2>2. CASE s = slot
    <3>1. t \in Slots(pg) /\ t # slot
      BY <1>2, <1>5, <2>2
    <3>2. QED
      BY <1>3, <2>2, <3>1, PlacedApart DEF n
  <2>3. CASE t = slot
    <3>1. s \in Slots(pg) /\ s # slot
      BY <1>2, <1>5, <2>3
    <3>2. QED
      BY <1>3, <2>3, <3>1, PlacedApart DEF n
  <2>4. QED
    BY <2>1, <2>2, <2>3
<1>6. next = [c \in Cells |-> next[c]] /\ next[Magic] = kMagic
  BY DEF Placed
<1>7. Sound(next)
  <2>1. next[FreeStart] <= next[FreeEnd] /\ next[FreeEnd] <= PageSize /\ next[FreeEnd] \in Nat
    BY <1>1, <1>2 DEF first
  <2>2. Valid(next)
    BY <1>2, <1>4, <1>5, <1>6, <2>1 DEF Valid, first
  <2>3. QED
    BY <1>2, <1>4, <1>6, <2>1, <2>2 DEF Sound
<1>8. QED
  BY <1>2, <1>7 DEF first

\* A slot holds the bytes of a row, or nothing.
Holds(pg, s, row) ==
    IF row = Deleted THEN Length(pg, s) = 0
    ELSE /\ Length(pg, s) = Len(RowBytes(row))
         /\ \A i \in 1 .. Length(pg, s) : pg[Offset(pg, s) + i - 1] = RowBytes(row)[i]

\* The other slots hold what they held.
LEMMA PlacedHolds ==
    ASSUME NEW pg, Sound(pg), NEW slot, NEW at, NEW record, NEW next,
           Placed(pg, slot, at, record, next), NEW s \in Slots(pg), s # slot,
           NEW row, Holds(pg, s, row)
    PROVE  Holds(next, s, row)
<1>1. /\ Offset(next, s) = Offset(pg, s) /\ Length(next, s) = Length(pg, s)
      /\ \A c \in pg[FreeEnd] .. PageSize - 1 :
            c \notin at .. at + Len(record) - 1 => next[c] = pg[c]
  BY DEF Placed, Rewritten
<1>2. /\ Offset(pg, s) \in Nat /\ Length(pg, s) \in Nat /\ pg[FreeEnd] <= Offset(pg, s)
      /\ Offset(pg, s) + Length(pg, s) <= PageSize
      /\ pg[FreeEnd] \in Nat /\ Len(record) \in Nat /\ PageSize \in Nat
  BY PageCells DEF Sound, Valid, Placed
<1>3. at \in Nat
  BY DEF Placed, Sound
<1>4. ASSUME NEW i \in 1 .. Length(pg, s)
      PROVE  next[Offset(pg, s) + i - 1] = pg[Offset(pg, s) + i - 1]
  <2> DEFINE c == Offset(pg, s) + i - 1
  <2>1. c \in pg[FreeEnd] .. PageSize - 1
    BY <1>2
  <2>2. \/ Length(pg, s) = 0 \/ Len(record) = 0
        \/ Offset(pg, s) + Length(pg, s) <= at
        \/ at + Len(record) <= Offset(pg, s)
    BY PlacedApart
  <2>3. c \notin at .. at + Len(record) - 1
    BY <1>2, <1>3, <2>2
  <2>4. QED
    BY <1>1, <2>1, <2>3
<1>5. QED
  BY <1>1, <1>4 DEF Holds
----------------------------------------------------------------------------
\* A page and the rows that its slots hold.
Good(pg, rows) ==
    /\ Sound(pg)
    /\ rows \in Seq(Rows \cup {Deleted}) /\ Len(rows) = pg[SlotCount]
    /\ \A s \in Slots(pg) : Holds(pg, s, rows[s + 1])

\* What every step keeps.
IInv == Good(page, held)

\* The rows of a page can be stored and are told from what a deleted slot holds.
LEMMA RowsStored ==
    ASSUME NEW row \in Rows
    PROVE  /\ Serializable(row) /\ row # Deleted
           /\ Stored(RowBytes(row)) /\ RowBytes(row) \in Seq(Byte)
<1>1. Serializable(row) /\ row # Deleted
  BY PageSizeAssumption
<1>2. QED
  BY <1>1, BytesOfRow DEF Stored

\* A slot whose row is known.
LEMMA HeldRows ==
    ASSUME NEW pg, NEW rows, Good(pg, rows), NEW s \in Slots(pg)
    PROVE  /\ s + 1 \in 1 .. Len(rows) /\ s \in Nat /\ rows[s + 1] \in Rows \cup {Deleted}
           /\ Length(pg, s) \in Nat /\ Holds(pg, s, rows[s + 1])
           /\ Length(pg, s) = 0 <=> rows[s + 1] = Deleted
<1>1. /\ s + 1 \in 1 .. Len(rows) /\ s \in Nat
      /\ Length(pg, s) \in Nat /\ Holds(pg, s, rows[s + 1]) /\ rows \in Seq(Rows \cup {Deleted})
  <2>1. /\ Sound(pg) /\ rows \in Seq(Rows \cup {Deleted}) /\ Len(rows) = pg[SlotCount]
        /\ Holds(pg, s, rows[s + 1])
    BY DEF Good
  <2>2. Length(pg, s) \in Nat /\ pg[SlotCount] \in Nat
    BY <2>1 DEF Sound
  <2>3. s \in 0 .. pg[SlotCount] - 1
    BY DEF Slots
  <2>4. QED
    BY <2>1, <2>2, <2>3
<1>2. rows[s + 1] \in Rows \cup {Deleted}
  BY <1>1, ElementOfSeq
<1>3. Length(pg, s) = 0 <=> rows[s + 1] = Deleted
  BY <1>1, <1>2, RowsStored DEF Holds, Stored
<1>4. QED
  BY <1>1, <1>2, <1>3

\* The record that is placed in a slot is what it holds then,
LEMMA PlacedIsHeld ==
    ASSUME NEW pg, NEW slot, NEW at, NEW row \in Rows, NEW next,
           Placed(pg, slot, at, RowBytes(row), next)
    PROVE  Holds(next, slot, row)
  BY RowsStored DEF Placed, Rewritten, Holds

\* Of the rows only that of the slot has changed.
OnlyChanged(pg, rows, slot, value, after) ==
    /\ after \in Seq(Rows \cup {Deleted}) /\ after[slot + 1] = value
    /\ \A s \in Slots(pg) : s # slot => after[s + 1] = rows[s + 1]

\* and the other slots hold what they held.
LEMMA PlacedGood ==
    ASSUME NEW pg, NEW rows, Good(pg, rows), NEW slot, NEW at, NEW record, NEW next,
           Placed(pg, slot, at, record, next), NEW value, Holds(next, slot, value),
           NEW after, Len(after) = next[SlotCount],
           OnlyChanged(pg, rows, slot, value, after)
    PROVE  Good(next, after)
<1>1. Sound(pg) /\ Sound(next) /\ Slots(next) = Slots(pg) \cup {slot}
  BY PlacedSound DEF Good
<1>2. ASSUME NEW s \in Slots(next)
      PROVE  Holds(next, s, after[s + 1])
  <2>1. CASE s = slot
    BY <2>1 DEF OnlyChanged
  <2>2. CASE s # slot
    <3>1. s \in Slots(pg) /\ after[s + 1] = rows[s + 1]
      BY <1>1, <2>2 DEF OnlyChanged
    <3>2. Holds(pg, s, rows[s + 1])
      BY <3>1 DEF Good
    <3>3. QED
      BY <1>1, <2>2, <3>1, <3>2, PlacedHolds
  <2>3. QED
    BY <2>1, <2>2
<1>3. QED
  BY <1>1, <1>2 DEF Good, OnlyChanged

\* The rows with one changed.
LEMMA RowChanged ==
    ASSUME NEW pg, NEW rows, Good(pg, rows), NEW slot \in Slots(pg),
           NEW value \in Rows \cup {Deleted}
    PROVE  LET after == [rows EXCEPT ![slot + 1] = value]
           IN  Len(after) = Len(rows) /\ OnlyChanged(pg, rows, slot, value, after)
<1> DEFINE after == [rows EXCEPT ![slot + 1] = value]
<1>1. slot + 1 \in 1 .. Len(rows) /\ rows \in Seq(Rows \cup {Deleted}) /\ slot \in Nat
  BY HeldRows DEF Good
<1>2. /\ after \in Seq(Rows \cup {Deleted}) /\ Len(after) = Len(rows)
      /\ \A j \in 1 .. Len(rows) : after[j] = IF j = slot + 1 THEN value ELSE rows[j]
  BY <1>1, ExceptSeq
<1> HIDE DEF after
<1>3. ASSUME NEW s \in Slots(pg), s # slot
      PROVE  after[s + 1] = rows[s + 1]
  <2>1. s + 1 \in 1 .. Len(rows) /\ s \in Nat
    BY HeldRows
  <2>2. s + 1 # slot + 1
    BY <1>1, <1>3, <2>1
  <2>3. QED
    BY <1>2, <2>1, <2>2
<1>4. after[slot + 1] = value
  BY <1>1, <1>2
<1>5. QED
  BY <1>2, <1>3, <1>4 DEF after, OnlyChanged

\* The rows with one more.
LEMMA RowAdded ==
    ASSUME NEW pg, NEW rows, Good(pg, rows), NEW value \in Rows
    PROVE  LET after == Append(rows, value)
           IN  /\ Len(after) = pg[SlotCount] + 1
               /\ OnlyChanged(pg, rows, pg[SlotCount], value, after)
<1>1. rows \in Seq(Rows \cup {Deleted}) /\ Len(rows) = pg[SlotCount]
  BY DEF Good
<1> DEFINE after == Append(rows, value)
<1>2. /\ after \in Seq(Rows \cup {Deleted}) /\ Len(after) = Len(rows) + 1
      /\ \A i \in 1 .. Len(rows) : after[i] = rows[i]
      /\ after[Len(rows) + 1] = value
  BY <1>1, AppendProperties
<1> HIDE DEF after
<1>3. \A s \in Slots(pg) : s + 1 \in 1 .. Len(rows)
  BY HeldRows
<1>4. QED
  BY <1>1, <1>2, <1>3 DEF after, OnlyChanged
----------------------------------------------------------------------------
\* What the operations do to the page and to its rows: InsertRecord,
Inserts(pg, rows, row, next, after) ==
    /\ Placed(pg, pg[SlotCount], pg[FreeEnd] - Len(RowBytes(row)), RowBytes(row), next)
    /\ Len(RowBytes(row)) + SlotSize <= FreeSpace(pg)
    /\ FreeSpace(next) = FreeSpace(pg) - Len(RowBytes(row)) - SlotSize
    /\ after = Append(rows, row)

\* UpdateRecord
Updates(pg, rows, slot, row, next, after) ==
    /\ slot \in Slots(pg) /\ Length(pg, slot) # 0 /\ Len(RowBytes(row)) <= Length(pg, slot)
    /\ Placed(pg, slot, Offset(pg, slot), RowBytes(row), next)
    /\ FreeSpace(next) = FreeSpace(pg) /\ next[SlotCount] = pg[SlotCount]
    /\ after = [rows EXCEPT ![slot + 1] = row]

\* and DeleteRecord.
Deletes(pg, rows, slot, next, after) ==
    /\ slot \in Slots(pg) /\ Length(pg, slot) # 0
    /\ Placed(pg, slot, Offset(pg, slot), <<>>, next)
    /\ FreeSpace(next) = FreeSpace(pg) /\ next[SlotCount] = pg[SlotCount]
    /\ after = [rows EXCEPT ![slot + 1] = Deleted]

\* InsertRecord is an insertion,
LEMMA InsertedPlaced ==
    ASSUME IInv, NEW row \in Rows, InsertRecord(row)
    PROVE  Inserts(page, held, row, page', held')
<1> DEFINE record == RowBytes(row)
           slot == page[SlotCount]
           at == page[FreeEnd] - Len(record)
           next == [Copied(page, record, at) EXCEPT ![Entry(slot)]     = at,
                                                    ![Entry(slot) + 1] = Len(record),
                                                    ![SlotCount]       = slot + 1,
                                                    ![FreeStart]       = Entry(slot) + SlotSize,
                                                    ![FreeEnd]         = at]
<1>1. Sound(page) /\ Stored(record) /\ Len(record) \in Nat
  BY RowsStored DEF IInv, Good, Stored
<1>2. Len(record) + SlotSize <= FreeSpace(page) /\ held' = Append(held, row)
  BY DEF InsertRecord, Room
<1>3. page' = next
  BY DEF InsertRecord
<1> HIDE DEF record
<1>4. /\ page' = [c \in Cells |-> page'[c]]
      /\ page'[Magic] = kMagic
      /\ page'[SlotCount] = slot + 1
      /\ page'[FreeStart] = HeaderSize + (slot + 1) * SlotSize
      /\ page'[FreeEnd] = at
      /\ at \in Nat /\ page'[FreeStart] <= at /\ at + Len(record) = page[FreeEnd]
      /\ Rewritten(page, slot, at, record, page')
  <2>1. /\ next = [c \in Cells |-> next[c]]
        /\ next[Magic] = kMagic
        /\ next[SlotCount] = slot + 1
        /\ next[FreeStart] = HeaderSize + (slot + 1) * SlotSize
        /\ next[FreeEnd] = at
        /\ at \in Nat /\ next[FreeStart] <= at /\ at + Len(record) = page[FreeEnd]
        /\ Rewritten(page, slot, at, record, next)
    BY <1>1, <1>2, InsertedCells
  <2> HIDE DEF next, at
  <2>2. QED
    BY <1>3, <2>1
<1>5. /\ page[SlotCount] \in Nat /\ page[FreeEnd] \in Nat
      /\ page[FreeStart] = HeaderSize + page[SlotCount] * SlotSize
  BY <1>1, Directory
<1>6. FreeSpace(page') = FreeSpace(page) - Len(record) - SlotSize
  <2>1. FreeSpace(page') = page'[3] - page'[2] /\ FreeSpace(page) = page[3] - page[2]
    BY DEF FreeSpace
  <2>2. page'[2] = 4 + (slot + 1) * 2 /\ page'[3] = page[3] - Len(record)
    BY <1>4
  <2> HIDE DEF at
  <2>3. QED
    BY <1>1, <1>5, <2>1, <2>2
<1>7. QED
  BY <1>1, <1>2, <1>4, <1>6 DEF Inserts, Placed, record

\* UpdateRecord an update
LEMMA UpdatedPlaced ==
    ASSUME IInv, NEW slot, NEW row \in Rows, UpdateRecord(slot, row)
    PROVE  Updates(page, held, slot, row, page', held')
<1> DEFINE record == RowBytes(row)
           at == Offset(page, slot)
           next == [Copied(page, record, at) EXCEPT ![Entry(slot) + 1] = Len(record)]
<1>1. Sound(page) /\ Stored(record) /\ Len(record) \in Nat
  BY RowsStored DEF IInv, Good, Stored
<1>2. /\ slot \in Slots(page) /\ Length(page, slot) # 0 /\ Len(record) <= Length(page, slot)
      /\ held' = [held EXCEPT ![slot + 1] = row]
      /\ page' = next
  BY DEF UpdateRecord
<1> HIDE DEF record
<1>3. /\ page' = [c \in Cells |-> page'[c]]
      /\ \A c \in 0 .. 3 : page'[c] = page[c]
      /\ Rewritten(page, slot, at, record, page')
  <2>1. /\ next = [c \in Cells |-> next[c]]
        /\ \A c \in 0 .. 3 : next[c] = page[c]
        /\ Rewritten(page, slot, at, record, next)
    BY <1>1, <1>2, UpdatedCells
  <2> HIDE DEF next, at
  <2>2. QED
    BY <1>2, <2>1
<1>4. page'[0] = page[0] /\ page'[1] = page[1] /\ page'[2] = page[2] /\ page'[3] = page[3]
  BY <1>3
<1>5. page[Magic] = kMagic
  BY <1>1 DEF Sound, Valid
<1>6. FreeSpace(page') = FreeSpace(page)
  BY <1>4 DEF FreeSpace
<1>7. QED
  BY <1>1, <1>2, <1>3, <1>4, <1>5, <1>6 DEF Updates, Placed, record

\* and DeleteRecord a deletion.
LEMMA DeletedPlaced ==
    ASSUME IInv, NEW slot, DeleteRecord(slot)
    PROVE  Deletes(page, held, slot, page', held')
<1> DEFINE at == Offset(page, slot)
           next == [page EXCEPT ![Entry(slot) + 1] = 0]
<1>1. Sound(page)
  BY DEF IInv, Good
<1>2. /\ slot \in Slots(page) /\ Length(page, slot) # 0
      /\ held' = [held EXCEPT ![slot + 1] = Deleted]
      /\ page' = next
  BY DEF DeleteRecord
<1>3. /\ page' = [c \in Cells |-> page'[c]]
      /\ \A c \in 0 .. 3 : page'[c] = page[c]
      /\ Rewritten(page, slot, at, <<>>, page')
  <2>1. /\ next = [c \in Cells |-> next[c]]
        /\ \A c \in 0 .. 3 : next[c] = page[c]
        /\ Rewritten(page, slot, at, <<>>, next)
    BY <1>1, <1>2, DeletedCells
  <2> HIDE DEF next, at
  <2>2. QED
    BY <1>2, <2>1
<1>4. page'[0] = page[0] /\ page'[1] = page[1] /\ page'[2] = page[2] /\ page'[3] = page[3]
  BY <1>3
<1>5. page[Magic] = kMagic /\ Length(page, slot) \in Nat
  BY <1>1, <1>2 DEF Sound, Valid
<1>6. FreeSpace(page') = FreeSpace(page)
  BY <1>4 DEF FreeSpace
<1>7. Len(<<>>) \in Nat /\ Len(<<>>) <= Length(page, slot)
  <2>1. Len(<<>>) = 0
    OBVIOUS
  <2>2. QED
    BY <1>5, <2>1
<1>8. QED
  BY <1>2, <1>3, <1>4, <1>5, <1>6, <1>7 DEF Deletes, Placed
----------------------------------------------------------------------------
\* An empty page is sound and holds nothing.
LEMMA InitIInv == Init => IInv
<1>1. SUFFICES ASSUME Init
               PROVE  Good(page, held)
  BY DEF IInv
<1>2. Cells = 0 .. PageSize - 1 /\ PageSize \in Nat /\ PageSize >= 4
  BY PageCells
<1>3. /\ page = [c \in Cells |-> page[c]] /\ page[0] = kMagic /\ page[1] = 0
      /\ page[2] = 4 /\ page[3] = PageSize
  <2>1. 0 \in Cells /\ 1 \in Cells /\ 2 \in Cells /\ 3 \in Cells
    BY <1>2
  <2>2. QED
    BY <1>1, <2>1 DEF Init
<1>4. Slots(page) = {}
  BY <1>3 DEF Slots
<1>5. Valid(page)
  BY <1>2, <1>3, <1>4 DEF Valid
<1>6. Sound(page)
  BY <1>2, <1>3, <1>4, <1>5 DEF Sound
<1>7. held \in Seq(Rows \cup {Deleted}) /\ Len(held) = page[SlotCount]
  BY <1>1, <1>3 DEF Init
<1>8. QED
  BY <1>4, <1>6, <1>7 DEF Good

\* Every operation keeps the page sound and what its slots hold.
LEMMA InsertedGood ==
    ASSUME NEW pg, NEW rows, Good(pg, rows), NEW row \in Rows, NEW next, NEW after,
           Inserts(pg, rows, row, next, after)
    PROVE  Good(next, after)
<1> DEFINE slot == pg[SlotCount]
           at == pg[FreeEnd] - Len(RowBytes(row))
<1>1. Placed(pg, slot, at, RowBytes(row), next) /\ after = Append(rows, row)
  BY DEF Inserts
<1>2. Len(after) = slot + 1 /\ OnlyChanged(pg, rows, slot, row, after)
  BY <1>1, RowAdded
<1>3. next[SlotCount] = slot + 1
  <2>1. slot \notin Slots(pg)
    BY Directory DEF Good, Slots
  <2>2. QED
    BY <1>1, <2>1 DEF Placed
<1>4. Holds(next, slot, row)
  BY <1>1, PlacedIsHeld
<1> HIDE DEF slot, at
<1>5. QED
  BY <1>1, <1>2, <1>3, <1>4, PlacedGood

\* An update leaves a page whose slots hold what they should,
LEMMA UpdatedGood ==
    ASSUME NEW pg, NEW rows, Good(pg, rows), NEW slot \in Slots(pg), NEW row \in Rows,
           NEW next, NEW after, Updates(pg, rows, slot, row, next, after)
    PROVE  /\ Good(next, after)
           /\ Len(after) = Len(rows) /\ OnlyChanged(pg, rows, slot, row, after)
<1>1. /\ Placed(pg, slot, Offset(pg, slot), RowBytes(row), next)
      /\ after = [rows EXCEPT ![slot + 1] = row] /\ next[SlotCount] = pg[SlotCount]
  BY DEF Updates
<1>2. Len(after) = Len(rows) /\ OnlyChanged(pg, rows, slot, row, after)
  <2> DEFINE changed == [rows EXCEPT ![slot + 1] = row]
  <2>1. Len(changed) = Len(rows) /\ OnlyChanged(pg, rows, slot, row, changed)
    BY row \in Rows \cup {Deleted}, RowChanged
  <2> HIDE DEF changed
  <2>2. after = changed
    BY <1>1 DEF changed
  <2>3. QED
    BY <2>1, <2>2
<1>3. Holds(next, slot, row)
  BY <1>1, PlacedIsHeld
<1>4. Len(after) = next[SlotCount]
  BY <1>1, <1>2 DEF Good
<1>5. QED
  BY <1>1, <1>2, <1>3, <1>4, PlacedGood

\* and so does a deletion.
LEMMA DeletedGood ==
    ASSUME NEW pg, NEW rows, Good(pg, rows), NEW slot \in Slots(pg),
           NEW next, NEW after, Deletes(pg, rows, slot, next, after)
    PROVE  /\ Good(next, after)
           /\ Len(after) = Len(rows) /\ OnlyChanged(pg, rows, slot, Deleted, after)
<1>1. /\ Placed(pg, slot, Offset(pg, slot), <<>>, next)
      /\ after = [rows EXCEPT ![slot + 1] = Deleted] /\ next[SlotCount] = pg[SlotCount]
  BY DEF Deletes
<1>2. Len(after) = Len(rows) /\ OnlyChanged(pg, rows, slot, Deleted, after)
  <2> DEFINE changed == [rows EXCEPT ![slot + 1] = Deleted]
  <2>1. Len(changed) = Len(rows) /\ OnlyChanged(pg, rows, slot, Deleted, changed)
    BY Deleted \in Rows \cup {Deleted}, RowChanged
  <2> HIDE DEF changed
  <2>2. after = changed
    BY <1>1 DEF changed
  <2>3. QED
    BY <2>1, <2>2
<1>3. Holds(next, slot, Deleted)
  <2>1. Length(next, slot) = Len(<<>>) /\ Len(<<>>) = 0
    BY <1>1 DEF Placed, Rewritten
  <2>2. QED
    BY <2>1 DEF Holds
<1>4. Len(after) = next[SlotCount]
  BY <1>1, <1>2 DEF Good
<1>5. QED
  BY <1>1, <1>2, <1>3, <1>4, PlacedGood

\* Every step keeps the invariant.
LEMMA NextIInv == IInv /\ [Next]_vars => IInv'
<1>1. SUFFICES ASSUME IInv, [Next]_vars
               PROVE  Good(page', held')
  BY DEF IInv
<1>2. Good(page, held)
  BY <1>1 DEF IInv
<1>3. ASSUME NEW row \in Rows, InsertRecord(row)
      PROVE  Good(page', held')
  BY <1>1, <1>2, <1>3, InsertedPlaced, InsertedGood
<1>4. ASSUME NEW slot, DeleteRecord(slot)
      PROVE  Good(page', held')
  <2>1. slot \in Slots(page)
    BY <1>4 DEF DeleteRecord
  <2>2. QED
    BY <1>1, <1>2, <1>4, <2>1, DeletedPlaced, DeletedGood
<1>5. ASSUME NEW slot, NEW row \in Rows, UpdateRecord(slot, row)
      PROVE  Good(page', held')
  <2>1. slot \in Slots(page)
    BY <1>5 DEF UpdateRecord
  <2>2. QED
    BY <1>1, <1>2, <1>5, <2>1, UpdatedPlaced, UpdatedGood
<1>6. CASE UNCHANGED vars
  BY <1>2, <1>6 DEF vars
<1>7. QED
  BY <1>1, <1>3, <1>4, <1>5, <1>6 DEF Next

\* The page is always sound, and its slots always hold the bytes of the rows that
\* were last put into them.
THEOREM InvariantHolds == Spec => []IInv
<1>1. QED
  BY InitIInv, NextIInv, PTL DEF Spec

\* load_slotted_page takes every page that was written: the directory never runs
\* into the records, and no record into another one.
THEOREM AlwaysLoadsAgain == Spec => []LoadsAgain
<1>1. IInv => LoadsAgain
  BY DEF IInv, Good, Sound, LoadsAgain
<1>2. QED
  BY <1>1, InvariantHolds, PTL
----------------------------------------------------------------------------
\* The record of a live slot, or the cells that a slot of another length would
\* have, begin like the bytes of the row.
LEMMA CellsOfRow ==
    ASSUME NEW pg, NEW rows, Good(pg, rows), NEW s \in Slots(pg), rows[s + 1] # Deleted,
           NEW n \in Nat
    PROVE  LET bytes == [i \in 1 .. n |-> pg[Offset(pg, s) + i - 1]]
           IN  /\ n = Length(pg, s) => Deserialized(bytes).error = "none"
                                       /\ Deserialized(bytes).values = rows[s + 1]
               /\ n # Length(pg, s) => Deserialized(bytes).error # "none"
<1> DEFINE bytes == [i \in 1 .. n |-> pg[Offset(pg, s) + i - 1]]
           row == rows[s + 1]
           whole == RowBytes(row)
<1>1. row \in Rows /\ Holds(pg, s, row) /\ Length(pg, s) \in Nat
  BY HeldRows
<1>2. Serializable(row)
  BY <1>1, RowsStored
<1>3. Len(bytes) = n
  OBVIOUS
<1>4. \A i \in 1 .. n : bytes[i] = pg[Offset(pg, s) + i - 1]
  OBVIOUS
<1> HIDE DEF bytes, row, whole
<1>5. /\ Length(pg, s) = Len(whole)
      /\ \A i \in 1 .. Len(whole) : pg[Offset(pg, s) + i - 1] = whole[i]
  BY <1>1 DEF Holds, row, whole
<1>6. \A k \in 1 .. Len(whole) : k <= Len(bytes) => bytes[k] = whole[k]
  <2>1. ASSUME NEW k \in 1 .. Len(whole), k <= Len(bytes)
        PROVE  bytes[k] = whole[k]
    BY <1>1, <1>3, <1>4, <1>5, <2>1, k \in 1 .. n
  <2>2. QED
    BY <2>1
<1>7. /\ Len(bytes) = Len(whole) =>
            Deserialized(bytes).error = "none" /\ Deserialized(bytes).values = row
      /\ Len(bytes) # Len(whole) => Deserialized(bytes).error # "none"
  BY <1>2, <1>3, <1>6, RowsReadExactly DEF whole
<1>8. QED
  BY <1>3, <1>5, <1>7 DEF bytes, row

\* The record of a slot, read back.
LEMMA RecordRead ==
    ASSUME NEW pg, NEW rows, Good(pg, rows), NEW s \in Slots(pg), rows[s + 1] # Deleted
    PROVE  /\ Deserialized(Record(pg, s)).error = "none"
           /\ Deserialized(Record(pg, s)).values = rows[s + 1]
<1>1. Length(pg, s) \in Nat
  BY HeldRows
<1>2. QED
  BY <1>1, CellsOfRow DEF Record

\* read_record and deserialize_row yield the row that a live slot was last given,
\* also where a shorter row has left the end of a longer one behind it.
THEOREM AlwaysReadsBack == Spec => []RowsReadBack
<1>1. ASSUME IInv
      PROVE  RowsReadBack
  <2>1. Good(page, held)
    BY <1>1 DEF IInv
  <2>2. Slots(page) = 0 .. Len(held) - 1
    BY <2>1 DEF Good, Slots
  <2>3. ASSUME NEW s \in Slots(page)
        PROVE  IF held[s + 1] = Deleted THEN Length(page, s) = 0
               ELSE IsRow(Record(page, s), held[s + 1])
    BY <2>1, HeldRows, RecordRead DEF IsRow
  <2>4. QED
    BY <2>2, <2>3 DEF RowsReadBack
<1>2. QED
  BY <1>1, InvariantHolds, PTL

\* A slot whose length is wrong is noticed when its row is read.
THEOREM WrongLengthAlwaysNoticed == Spec => []WrongLengthNoticed
<1>1. ASSUME IInv
      PROVE  WrongLengthNoticed
  <2>1. Good(page, held)
    BY <1>1 DEF IInv
  <2>2. ASSUME NEW s \in Slots(page), held[s + 1] # Deleted,
               NEW n \in 0 .. PageSize - Offset(page, s), n # Length(page, s)
        PROVE  Deserialized([i \in 1 .. n |-> page[Offset(page, s) + i - 1]]).error # "none"
    <3>1. n \in Nat
      BY <2>1, PageCells DEF Good, Sound
    <3>2. QED
      BY <2>1, <2>2, <3>1, CellsOfRow
  <2>3. QED
    BY <2>2 DEF WrongLengthNoticed
<1>2. QED
  BY <1>1, InvariantHolds, PTL
----------------------------------------------------------------------------
\* A page as RecordPage has it: the lengths of its slots and the rows they hold.
Mapped(pg, rows) ==
    [slots |-> [s \in 1 .. Len(rows) |-> [len |-> Length(pg, s - 1), rec |-> rows[s]]],
     free  |-> FreeSpace(pg)]

\* AsRecordPage of a page.
PageOf(pg) ==
    [slots |-> [s \in 1 .. pg[SlotCount] |->
                   [len |-> Length(pg, s - 1),
                    rec |-> IF Length(pg, s - 1) = 0 THEN Deleted
                            ELSE Deserialized(Record(pg, s - 1)).values]],
     free  |-> FreeSpace(pg)]

\* What is read from the bytes are the rows that were put there.
LEMMA PageOfRows ==
    ASSUME NEW pg, NEW rows, Good(pg, rows)
    PROVE  PageOf(pg) = Mapped(pg, rows)
<1>1. Len(rows) = pg[SlotCount] /\ pg[SlotCount] \in Nat
  BY DEF Good, Sound
<1>2. ASSUME NEW s \in 1 .. Len(rows)
      PROVE  (IF Length(pg, s - 1) = 0 THEN Deleted
              ELSE Deserialized(Record(pg, s - 1)).values) = rows[s]
  <2>1. s - 1 \in Slots(pg) /\ (s - 1) + 1 = s
    BY <1>1 DEF Slots
  <2>2. Length(pg, s - 1) = 0 <=> rows[s] = Deleted
    BY <2>1, HeldRows
  <2>3. rows[s] # Deleted => Deserialized(Record(pg, s - 1)).values = rows[s]
    BY <2>1, RecordRead
  <2>4. QED
    BY <2>2, <2>3
<1>3. QED
  BY <1>1, <1>2 DEF PageOf, Mapped

\* The slots of a mapped page: a sequence, one for every row.
AreSlots(slots, pg, rows) ==
    /\ slots \in Seq([len : Nat, rec : Rows \cup {Deleted}])
    /\ Len(slots) = Len(rows) /\ Len(rows) \in Nat
    /\ \A s \in 1 .. Len(rows) : slots[s] = [len |-> Length(pg, s - 1), rec |-> rows[s]]

\* The slots of a page as RecordPage has it are such a sequence.
LEMMA MappedSlots ==
    ASSUME NEW pg, NEW rows, Good(pg, rows)
    PROVE  AreSlots(Mapped(pg, rows).slots, pg, rows)
<1> DEFINE n == Len(rows)
           slots == [s \in 1 .. n |-> [len |-> Length(pg, s - 1), rec |-> rows[s]]]
<1>1. n = pg[SlotCount] /\ n \in Nat
  BY DEF Good, Sound
<1>2. ASSUME NEW s \in 1 .. n
      PROVE  Length(pg, s - 1) \in Nat /\ rows[s] \in Rows \cup {Deleted}
  <2>1. s - 1 \in Slots(pg) /\ (s - 1) + 1 = s
    BY <1>1 DEF Slots
  <2>2. QED
    BY <2>1, HeldRows
<1>3. Mapped(pg, rows).slots = slots
  BY DEF Mapped
<1> HIDE DEF n
<1>4. /\ slots \in Seq([len : Nat, rec : Rows \cup {Deleted}]) /\ Len(slots) = n
      /\ \A s \in 1 .. n : slots[s] = [len |-> Length(pg, s - 1), rec |-> rows[s]]
  <2> DEFINE S == [len : Nat, rec : Rows \cup {Deleted}]
             value(s) == [len |-> Length(pg, s - 1), rec |-> rows[s]]
  <2>1. \A s \in 1 .. n : value(s) \in S
    BY <1>2
  <2>2. slots = [s \in 1 .. n |-> value(s)]
    OBVIOUS
  <2> HIDE DEF S, value, slots
  <2>3. slots \in Seq(S) /\ Len(slots) = n
    BY <1>1, <2>1, <2>2, IsASeq
  <2>4. \A s \in 1 .. n : slots[s] = value(s)
    BY <2>2
  <2>5. QED
    BY <2>3, <2>4 DEF S, value
<1> HIDE DEF slots
<1>5. QED
  BY <1>1, <1>3, <1>4 DEF n, AreSlots

\* InsertRecord is WithRecord,
LEMMA InsertsMapped ==
    ASSUME NEW pg, NEW rows, Good(pg, rows), NEW row \in Rows, NEW next, NEW after,
           Inserts(pg, rows, row, next, after)
    PROVE  RecordPageStep(Mapped(pg, rows), Mapped(next, after))
<1> DEFINE slot == pg[SlotCount]
           n == Len(RowBytes(row))
           at == pg[FreeEnd] - n
           new == [len |-> n, rec |-> row]
           S == [len : Nat, rec : Rows \cup {Deleted}]
           before == Mapped(pg, rows).slots
           got == Mapped(next, after).slots
<1>1. /\ Placed(pg, slot, at, RowBytes(row), next) /\ after = Append(rows, row)
      /\ n + SlotSize <= FreeSpace(pg) /\ FreeSpace(next) = FreeSpace(pg) - n - SlotSize
  BY DEF Inserts
<1>2. Good(next, after) /\ n \in Nat
  BY InsertedGood, RowsStored DEF Stored
<1>3. Len(after) = slot + 1 /\ OnlyChanged(pg, rows, slot, row, after) /\ Len(rows) = slot
  <2>1. after = Append(rows, row)
    BY <1>1
  <2>2. QED
    BY <2>1, RowAdded DEF Good
<1>4. /\ \A s \in Slots(pg) \ {slot} : Length(next, s) = Length(pg, s)
      /\ Length(next, slot) = n
  BY <1>1 DEF Placed, Rewritten
<1>5. /\ before \in Seq(S) /\ Len(before) = slot /\ slot \in Nat
      /\ \A s \in 1 .. slot : before[s] = [len |-> Length(pg, s - 1), rec |-> rows[s]]
  <2>1. AreSlots(before, pg, rows)
    BY MappedSlots
  <2> HIDE DEF before
  <2>2. QED
    BY <1>3, <2>1 DEF AreSlots
<1>6. /\ got \in Seq(S) /\ Len(got) = slot + 1
      /\ \A s \in 1 .. slot + 1 : got[s] = [len |-> Length(next, s - 1), rec |-> after[s]]
  <2>1. AreSlots(got, next, after)
    BY <1>2, MappedSlots
  <2> HIDE DEF got
  <2>2. QED
    BY <1>3, <2>1 DEF AreSlots
<1> HIDE DEF before, got
<1>7. /\ Append(before, new) \in Seq(S) /\ Len(Append(before, new)) = slot + 1
      /\ \A s \in 1 .. slot : Append(before, new)[s] = before[s]
      /\ Append(before, new)[slot + 1] = new
  <2>1. new \in S
    BY <1>2
  <2> HIDE DEF new, S
  <2>2. QED
    BY <1>5, <2>1, AppendProperties
<1>8. ASSUME NEW s \in 1 .. slot + 1
      PROVE  got[s] = Append(before, new)[s]
  <2>1. CASE s = slot + 1
    <3>1. s - 1 = slot /\ after[s] = row
      BY <1>3, <1>5, <2>1 DEF OnlyChanged
    <3>2. QED
      BY <1>4, <1>6, <1>7, <2>1, <3>1
  <2>2. CASE s # slot + 1
    <3>1. s \in 1 .. slot /\ s - 1 \in Slots(pg) /\ s - 1 # slot /\ (s - 1) + 1 = s
      BY <1>5, <2>2 DEF Slots
    <3>2. Length(next, s - 1) = Length(pg, s - 1) /\ after[s] = rows[s]
      BY <1>3, <1>4, <3>1 DEF OnlyChanged
    <3>3. QED
      BY <1>5, <1>6, <1>7, <3>1, <3>2
  <2>3. QED
    BY <2>1, <2>2
<1>9. got = Append(before, new)
  <2> HIDE DEF new, S
  <2>1. QED
    BY <1>6, <1>7, <1>8, SeqEqual
<1>10. Abstract!Fits(Mapped(pg, rows), n)
  BY <1>1 DEF Abstract!Fits, Mapped
<1>11. Mapped(next, after) = Abstract!WithRecord(Mapped(pg, rows), row, n)
  <2>1. Abstract!WithRecord(Mapped(pg, rows), row, n) =
           [slots |-> Append(before, new), free |-> FreeSpace(pg) - n - SlotSize]
    BY DEF Abstract!WithRecord, Mapped, before
  <2>2. Mapped(next, after) = [slots |-> got, free |-> FreeSpace(next)]
    BY DEF Mapped, got
  <2>3. QED
    BY <1>1, <1>9, <2>1, <2>2
<1>12. QED
  BY <1>10, <1>11 DEF RecordPageStep

\* A change of one slot is a change of that slot.
LEMMA ChangedMapped ==
    ASSUME NEW pg, NEW rows, Good(pg, rows), NEW slot \in Slots(pg), NEW at, NEW record,
           NEW next, Placed(pg, slot, at, record, next), NEW value, NEW after,
           OnlyChanged(pg, rows, slot, value, after), Good(next, after),
           Len(after) = Len(rows), FreeSpace(next) = FreeSpace(pg)
    PROVE  /\ slot + 1 \in Abstract!SlotsOf(Mapped(pg, rows))
           /\ Mapped(pg, rows).slots[slot + 1].len = Length(pg, slot)
           /\ Mapped(next, after) =
                 [Mapped(pg, rows) EXCEPT !.slots[slot + 1] = [len |-> Len(record), rec |-> value]]
<1> DEFINE n == Len(rows)
           new == [len |-> Len(record), rec |-> value]
           before == Mapped(pg, rows).slots
           got == Mapped(next, after).slots
<1>1. slot + 1 \in 1 .. n /\ slot \in Nat /\ (slot + 1) - 1 = slot /\ n \in Nat
  <2>1. n = pg[SlotCount] /\ pg[SlotCount] \in Nat
    BY DEF Good, Sound
  <2>2. slot \in 0 .. pg[SlotCount] - 1
    BY DEF Slots
  <2> HIDE DEF n
  <2>3. QED
    BY <2>1, <2>2
<1>2. /\ DOMAIN before = 1 .. n /\ before = [s \in 1 .. n |-> before[s]]
      /\ \A s \in 1 .. n : before[s] = [len |-> Length(pg, s - 1), rec |-> rows[s]]
  <2>1. before = [s \in 1 .. n |-> [len |-> Length(pg, s - 1), rec |-> rows[s]]]
    BY DEF Mapped
  <2> HIDE DEF before
  <2>2. QED
    BY <2>1
<1>3. /\ got = [s \in 1 .. n |-> got[s]]
      /\ \A s \in 1 .. n : got[s] = [len |-> Length(next, s - 1), rec |-> after[s]]
  <2>1. got = [s \in 1 .. n |-> [len |-> Length(next, s - 1), rec |-> after[s]]]
    BY DEF Mapped
  <2> HIDE DEF got
  <2>2. QED
    BY <2>1
<1>4. /\ \A s \in Slots(pg) \ {slot} : Length(next, s) = Length(pg, s)
      /\ Length(next, slot) = Len(record)
  BY DEF Placed, Rewritten
<1> HIDE DEF before, got
<1>5. ASSUME NEW s \in 1 .. n
      PROVE  got[s] = IF s = slot + 1 THEN new ELSE before[s]
  <2>1. CASE s = slot + 1
    <3>1. s - 1 = slot /\ after[s] = value
      BY <1>1, <2>1 DEF OnlyChanged
    <3>2. QED
      BY <1>3, <1>4, <2>1, <3>1
  <2>2. CASE s # slot + 1
    <3>1. s - 1 \in Slots(pg) /\ s - 1 # slot /\ (s - 1) + 1 = s
      BY <1>1, <2>2 DEF Slots, Good
    <3>2. Length(next, s - 1) = Length(pg, s - 1) /\ after[s] = rows[s]
      BY <1>4, <3>1 DEF OnlyChanged
    <3>3. QED
      BY <1>2, <1>3, <2>2, <3>2
  <2>3. QED
    BY <2>1, <2>2
<1>6. got = [before EXCEPT ![slot + 1] = new]
  <2> HIDE DEF new, n
  <2>1. QED
    BY <1>1, <1>2, <1>3, <1>5
<1>7. slot + 1 \in Abstract!SlotsOf(Mapped(pg, rows))
  BY <1>1, <1>2 DEF Abstract!SlotsOf, before
<1>8. before[slot + 1].len = Length(pg, slot)
  BY <1>1, <1>2
<1>9. Mapped(next, after) = [Mapped(pg, rows) EXCEPT !.slots[slot + 1] = new]
  <2>1. Mapped(pg, rows) = [slots |-> before, free |-> FreeSpace(pg)]
    BY DEF Mapped, before
  <2>2. Mapped(next, after) = [slots |-> got, free |-> FreeSpace(next)]
    BY DEF Mapped, got
  <2> HIDE DEF new
  <2>3. [[slots |-> before, free |-> FreeSpace(pg)] EXCEPT !.slots[slot + 1] = new] =
           [slots |-> [before EXCEPT ![slot + 1] = new], free |-> FreeSpace(pg)]
    OBVIOUS
  <2>4. QED
    BY <1>6, <2>1, <2>2, <2>3
<1>10. QED
  BY <1>7, <1>8, <1>9 DEF before

\* UpdateRecord is WithReplaced,
LEMMA UpdatesMapped ==
    ASSUME NEW pg, NEW rows, Good(pg, rows), NEW slot \in Slots(pg), NEW row \in Rows,
           NEW next, NEW after, Updates(pg, rows, slot, row, next, after)
    PROVE  RecordPageStep(Mapped(pg, rows), Mapped(next, after))
<1> DEFINE before == Mapped(pg, rows)
           record == RowBytes(row)
<1>1. /\ Placed(pg, slot, Offset(pg, slot), record, next)
      /\ Length(pg, slot) # 0 /\ Len(record) <= Length(pg, slot)
      /\ FreeSpace(next) = FreeSpace(pg)
  BY DEF Updates
<1>2. Good(next, after) /\ Len(after) = Len(rows) /\ OnlyChanged(pg, rows, slot, row, after)
  BY UpdatedGood
<1>3. /\ slot + 1 \in Abstract!SlotsOf(before)
      /\ before.slots[slot + 1].len = Length(pg, slot)
      /\ Mapped(next, after) =
            [before EXCEPT !.slots[slot + 1] = [len |-> Len(record), rec |-> row]]
  BY <1>1, <1>2, ChangedMapped
<1> HIDE DEF before, record
<1>4. /\ Abstract!Live(before, slot + 1)
      /\ Abstract!FitsInPlace(before, slot + 1, Len(record))
      /\ Mapped(next, after) = Abstract!WithReplaced(before, slot + 1, row, Len(record))
  BY <1>1, <1>3 DEF Abstract!Live, Abstract!FitsInPlace, Abstract!WithReplaced
<1>5. QED
  BY <1>3, <1>4 DEF RecordPageStep, record, before

\* and DeleteRecord is WithoutRecord.
LEMMA DeletesMapped ==
    ASSUME NEW pg, NEW rows, Good(pg, rows), NEW slot \in Slots(pg),
           NEW next, NEW after, Deletes(pg, rows, slot, next, after)
    PROVE  RecordPageStep(Mapped(pg, rows), Mapped(next, after))
<1> DEFINE before == Mapped(pg, rows)
<1>1. /\ Placed(pg, slot, Offset(pg, slot), <<>>, next)
      /\ Length(pg, slot) # 0 /\ FreeSpace(next) = FreeSpace(pg)
  BY DEF Deletes
<1>2. Good(next, after) /\ Len(after) = Len(rows) /\ OnlyChanged(pg, rows, slot, Deleted, after)
  BY DeletedGood
<1>3. /\ slot + 1 \in Abstract!SlotsOf(before)
      /\ before.slots[slot + 1].len = Length(pg, slot)
      /\ Mapped(next, after) =
            [before EXCEPT !.slots[slot + 1] = [len |-> Len(<<>>), rec |-> Deleted]]
  BY <1>1, <1>2, ChangedMapped
<1> HIDE DEF before
<1>4. Len(<<>>) = 0
  OBVIOUS
<1>5. /\ Abstract!Live(before, slot + 1)
      /\ Mapped(next, after) = Abstract!WithoutRecord(before, slot + 1)
  BY <1>1, <1>3, <1>4 DEF Abstract!Live, Abstract!WithoutRecord, Abstract!Tombstone
<1>6. QED
  BY <1>3, <1>5 DEF RecordPageStep, before

\* A step on the bytes is a step of RecordPage on the slots.
LEMMA NextMapped ==
    ASSUME IInv, IInv', Next
    PROVE  RecordPageStep(PageOf(page), PageOf(page'))
<1>1. /\ Good(page, held) /\ Good(page', held')
      /\ PageOf(page) = Mapped(page, held) /\ PageOf(page') = Mapped(page', held')
  <2>1. Good(page, held) /\ Good(page', held')
    BY DEF IInv
  <2>2. QED
    BY <2>1, PageOfRows
<1>2. SUFFICES RecordPageStep(Mapped(page, held), Mapped(page', held'))
  BY <1>1
<1>3. ASSUME NEW row \in Rows, InsertRecord(row)
      PROVE  RecordPageStep(Mapped(page, held), Mapped(page', held'))
  BY <1>1, <1>3, InsertedPlaced, InsertsMapped
<1>4. ASSUME NEW slot, DeleteRecord(slot)
      PROVE  RecordPageStep(Mapped(page, held), Mapped(page', held'))
  <2>1. slot \in Slots(page)
    BY <1>4 DEF DeleteRecord
  <2>2. QED
    BY <1>1, <1>4, <2>1, DeletedPlaced, DeletesMapped
<1>5. ASSUME NEW slot, NEW row \in Rows, UpdateRecord(slot, row)
      PROVE  RecordPageStep(Mapped(page, held), Mapped(page', held'))
  <2>1. slot \in Slots(page)
    BY <1>5 DEF UpdateRecord
  <2>2. QED
    BY <1>1, <1>5, <2>1, UpdatedPlaced, UpdatesMapped
<1>6. QED
  BY <1>3, <1>4, <1>5 DEF Next

\* A new page is RecordPage's empty one.
LEMMA InitMapped ==
    ASSUME Init
    PROVE  AsRecordPage = Abstract!EmptyPage
<1>1. 0 \in Cells /\ 1 \in Cells /\ 2 \in Cells /\ 3 \in Cells
  BY PageCells
<1>2. page[1] = 0 /\ FreeSpace(page) = PageSize - 4
  BY <1>1, PageCells DEF Init, FreeSpace
<1>3. AsRecordPage.slots = <<>> /\ AsRecordPage.free = PageSize - 4
  <2>1. 1 .. page[1] = {}
    BY <1>2
  <2>2. AsRecordPage.slots = [s \in {} |-> s]
    BY <2>1 DEF AsRecordPage
  <2>3. QED
    BY <1>2, <2>2 DEF AsRecordPage
<1>4. QED
  BY <1>3 DEF AsRecordPage, Abstract!EmptyPage

\* The header, the slot directory and the serialized rows of a page are the page
\* that TableHeap works on: every operation of slotted_page.cpp on the bytes is
\* the one of RecordPage on the lengths of the slots and the rows read from them.
THEOREM AlwaysRecordPage == Spec => ImplementsRecordPage
<1> DEFINE Step == \E pg \in {AsRecordPage}, next \in {AsRecordPage'} :
                      RecordPageStep(pg, next)
<1>1. AsRecordPage = PageOf(page) /\ AsRecordPage' = PageOf(page')
  BY DEF AsRecordPage, PageOf, Length, Offset, Entry, FreeSpace, Record
<1>2. IInv /\ IInv' /\ [Next]_vars => [Step]_vars
  <2>1. ASSUME IInv, IInv', Next
        PROVE  Step
    BY <1>1, <2>1, NextMapped
  <2> HIDE DEF Step
  <2>2. QED
    BY <2>1
<1>3. Init => AsRecordPage = Abstract!EmptyPage
  BY InitMapped
<1>4. QED
  BY <1>2, <1>3, InvariantHolds, PTL DEF Spec, ImplementsRecordPage
=============================================================================
