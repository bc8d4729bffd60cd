------------------------ MODULE DuckdbValues_proofs ------------------------
(***************************************************************************)
(* Values of DuckDB, proved for words of any width, units of any size,     *)
(* times of any distance and every type of column.                         *)
(*                                                                         *)
(* First the arithmetic: the quotient by a product in two steps, which is  *)
(* how bindValue makes microseconds of a time, and the way back with its   *)
(* correction for times before 1970.  Then one lemma for each switch       *)
(* statement of the driver, by its branches, and from these what a row is  *)
(* read as and what an argument is stored as.                              *)
(***************************************************************************)
EXTENDS DuckdbValues, TLAPS

-----------------------------------------------------------------------------
(* Division.                                                               *)

\* Quotient and remainder are the only ones.
LEMMA DivisionIsUnique ==
  ASSUME NEW n \in Nat \ {0}, NEW d \in Int, NEW k \in Int,
         NEW m \in 0..(n - 1), NEW b \in 0..(n - 1),
         d * n + m = k * n + b
  PROVE  d = k
<1>1. ASSUME NEW x \in Int, NEW y \in Int, x > y PROVE x * n >= y * n + n
  <2>1. (x - y - 1) * n >= 0
    BY <1>1
  <2>2. (x - y - 1) * n = x * n - y * n - n
    OBVIOUS
  <2> QED
    BY <2>1, <2>2
<1>2. ~(d > k)
  BY <1>1
<1>3. ~(k > d)
  BY <1>1
<1> QED
  BY <1>2, <1>3

LEMMA Divides ==
  ASSUME NEW n \in Nat \ {0}, NEW i \in Int
  PROVE  /\ i \div n \in Int /\ i % n \in 0..(n - 1)
         /\ i = (i \div n) * n + (i % n)
OBVIOUS

\* The quotient by a product, in two steps.
LEMMA UnitsDivide ==
  ASSUME NEW n \in Nat \ {0}, NEW s \in Nat \ {0}, NEW i \in Int
  PROVE  (i \div (n * s)) * s + ((i % (n * s)) \div n) = i \div n
<1> DEFINE q == i \div (n * s)
           r == i % (n * s)
           a == r \div n
           b == r % n
           d == i \div n
           m == i % n
<1>1. n * s \in Nat \ {0}
  OBVIOUS
<1>2. q \in Int /\ r \in Nat /\ i = q * (n * s) + r
  <2> DEFINE w == n * s
  <2>1. w \in Nat \ {0}
    BY <1>1
  <2> HIDE DEF w
  <2>2. i \div w \in Int /\ i % w \in 0..(w - 1) /\ i = (i \div w) * w + (i % w)
    BY <2>1, Divides
  <2> QED
    BY <2>1, <2>2 DEF w
<1>3. a \in Int /\ b \in 0..(n - 1) /\ r = a * n + b
  BY <1>2, Divides
<1>4. d \in Int /\ m \in 0..(n - 1) /\ i = d * n + m
  BY Divides
<1> HIDE DEF q, r, a, b, d, m
<1>5. q * (n * s) = (q * s) * n
  BY <1>2
<1>6. q * s \in Int
  BY <1>2
<1>7. (q * s) * n + a * n = (q * s + a) * n
  BY <1>3, <1>6
<1>8. d * n + m = (q * s + a) * n + b
  BY <1>2, <1>3, <1>4, <1>5, <1>6, <1>7
<1>9. d = q * s + a
  <2> DEFINE k == q * s + a
  <2>1. k \in Int /\ d * n + m = k * n + b
    BY <1>3, <1>6, <1>8
  <2> HIDE DEF k
  <2>2. d = k
    BY <1>3, <1>4, <2>1, DivisionIsUnique
  <2> QED
    BY <2>2 DEF k
<1> QED
  BY <1>9 DEF q, r, a, d
\* The mutual places of the units of time.
LEMMA UnitsAreNumbers ==
  /\ NanosPerMicro \in Nat \ {0} /\ MicrosPerSecond \in Nat \ {0}
  /\ MicrosPerMilli \in Nat \ {0} /\ MillisPerSecond \in Nat \ {0}
  /\ NanosPerSecond \in Nat \ {0}
  /\ MicrosPerSecond = MicrosPerMilli * MillisPerSecond
  /\ NanosPerSecond = NanosPerMicro * MicrosPerSecond
<1>1. \A a, b \in Nat \ {0} : a * b \in Nat \ {0}
  OBVIOUS
<1> QED
  BY <1>1, UnitsAssumption DEF MicrosPerSecond, NanosPerSecond

-----------------------------------------------------------------------------
(* Words.                                                                  *)

\* A sum of the low bits of a word is the word it wraps to.
LEMMA Wraps ==
  ASSUME NEW half \in Nat \ {0}, NEW n \in Int
  PROVE  /\ ((n + half) % (2 * half)) - half \in (-half)..(half - 1)
         /\ n \in (-half)..(half - 1) => ((n + half) % (2 * half)) - half = n
OBVIOUS

LEMMA WordsFit ==
  /\ \A n \in Signed(Width) : n \in Int /\ ToSigned(n, Width) = n
  /\ \A n \in Int : ToSigned(n, Width) \in Signed(Width)
  /\ \A n \in Signed(NarrowBits) : n \in Signed(Width)
  /\ \A n \in Unsigned(NarrowBits) : n \in Signed(Width)
  /\ \A n \in Unsigned(Width) : n \in Nat
  /\ 2 ^ Width \in Nat \ {0}
<1> DEFINE half == 2 ^ (Width - 1)
           narrow == 2 ^ (NarrowBits - 1)
<1>1. /\ half \in Nat \ {0} /\ 2 ^ Width = 2 * half
      /\ narrow \in Nat \ {0} /\ 2 ^ NarrowBits = 2 * narrow /\ 2 * narrow <= half
  BY PowersAssumption
<1>2. /\ Signed(Width) = (-half)..(half - 1) /\ Signed(NarrowBits) = (-narrow)..(narrow - 1)
      /\ Unsigned(NarrowBits) = 0..(2 * narrow - 1) /\ Unsigned(Width) = 0..(2 * half - 1)
      /\ \A n : ToSigned(n, Width) = ((n + half) % (2 * half)) - half
  BY <1>1 DEF Signed, Unsigned, ToSigned
<1> HIDE DEF half, narrow
<1>3. ASSUME NEW n \in Int
      PROVE  /\ ToSigned(n, Width) \in (-half)..(half - 1)
             /\ n \in (-half)..(half - 1) => ToSigned(n, Width) = n
  <2>1. ToSigned(n, Width) = ((n + half) % (2 * half)) - half
    BY <1>2
  <2>2. /\ ((n + half) % (2 * half)) - half \in (-half)..(half - 1)
        /\ n \in (-half)..(half - 1) => ((n + half) % (2 * half)) - half = n
    BY <1>1, Wraps
  <2> QED
    BY <2>1, <2>2, Zenon
<1>4. \A n \in (-half)..(half - 1) : n \in Int
  OBVIOUS
<1>5. \A n \in (-narrow)..(narrow - 1) : n \in (-half)..(half - 1)
  BY <1>1
<1>6. \A n \in 0..(2 * narrow - 1) : n \in (-half)..(half - 1)
  BY <1>1
<1>7. \A n \in Signed(Width) : n \in Int /\ ToSigned(n, Width) = n
  BY <1>2, <1>3, <1>4
<1>8. \A n \in Int : ToSigned(n, Width) \in Signed(Width)
  BY <1>2, <1>3
<1>9. \A n \in Signed(NarrowBits) : n \in Signed(Width)
  BY <1>2, <1>5
<1>10. \A n \in Unsigned(NarrowBits) : n \in Signed(Width)
  BY <1>2, <1>6
<1>11. \A n \in Unsigned(Width) : n \in Nat
  <2>1. \A n \in 0..(2 * half - 1) : n \in Nat
    BY <1>1
  <2> QED
    BY <1>2, <2>1
<1>12. 2 ^ Width \in Nat \ {0}
  BY <1>1
<1> QED
  BY <1>7, <1>8, <1>9, <1>10, <1>11, <1>12

\* bindValue of a time and the microseconds of its instant.
LEMMA TimesStored ==
  ASSUME NEW t \in Int, NEW z
  PROVE  /\ TimeToTimestamp(Time(t, z)) = ToSigned(t \div NanosPerMicro, Width)
         /\ TimeToTimestamp(Time(t, z)) \in Signed(Width)
<1> DEFINE rest == t % NanosPerSecond
<1>1. Time(t, z).instant = t
  BY DEF Time
<1>2. rest \in Nat
  BY UnitsAreNumbers, Divides
<1>3. Quot(rest, NanosPerMicro) = rest \div NanosPerMicro
  BY <1>2 DEF Quot
<1>4. (t \div NanosPerSecond) * MicrosPerSecond + (rest \div NanosPerMicro)
        = t \div NanosPerMicro
  <2>1. \A n, s \in Nat \ {0} :
          (t \div (n * s)) * s + ((t % (n * s)) \div n) = t \div n
    BY UnitsDivide
  <2> QED
    BY <2>1, UnitsAreNumbers
<1>5. TimeToTimestamp(Time(t, z)) = ToSigned(t \div NanosPerMicro, Width)
  BY <1>1, <1>3, <1>4 DEF TimeToTimestamp
<1>6. t \div NanosPerMicro \in Int
  BY UnitsAreNumbers, Divides
<1> QED
  BY <1>5, <1>6, WordsFit

\* A timestamp is read as its microseconds, before 1970 too.
LEMMA TimestampsRead ==
  ASSUME NEW n \in Int
  PROVE  TimestampToTime(n) = Utc(n * NanosPerMicro)
<1> DEFINE s == MicrosPerSecond
           u == NanosPerMicro
           q == Quot(n, s)
           rest == n - s * q
<1>1. q \in Int
  <2>1. n \div s \in Int /\ (-n) \div s \in Int
    BY UnitsAreNumbers, Divides
  <2> QED
    BY <2>1 DEF Quot
<1>2. /\ s \in Nat /\ u \in Nat /\ NanosPerSecond = u * s
  BY UnitsAreNumbers
<1>3. TimestampToTime(n) = IF rest < 0 THEN Utc((q - 1) * NanosPerSecond + (rest + s) * u)
                           ELSE Utc(q * NanosPerSecond + rest * u)
  BY DEF TimestampToTime, Rem
<1> HIDE DEF s, u, q
<1>4. q * (u * s) + (n - s * q) * u = n * u
  BY <1>1, <1>2
<1>5. (q - 1) * (u * s) + (n - s * q + s) * u = n * u
  BY <1>1, <1>2
<1>6. rest = n - s * q
  OBVIOUS
<1> QED
  BY <1>2, <1>3, <1>4, <1>5, <1>6 DEF u

LEMMA MillisRead ==
  ASSUME NEW n \in Int
  PROVE  MillisToTime(n) = Utc(n * (NanosPerMicro * MicrosPerMilli))
<1> DEFINE k == MillisPerSecond
           c == MicrosPerMilli
           u == NanosPerMicro
           q == Quot(n, k)
<1>1. q \in Int
  <2>1. n \div k \in Int /\ (-n) \div k \in Int
    BY UnitsAreNumbers, Divides
  <2> QED
    BY <2>1 DEF Quot
<1>2. k \in Nat /\ c \in Nat /\ u \in Nat /\ NanosPerSecond = u * (c * k)
  BY UnitsAreNumbers
<1>3. MillisToTime(n) = Utc(q * NanosPerSecond + (n - k * q) * c * u)
  BY DEF MillisToTime, Rem
<1> HIDE DEF k, c, u, q
<1>4. q * (u * (c * k)) + (n - k * q) * c * u = n * (u * c)
  BY <1>1, <1>2
<1> QED
  BY <1>2, <1>3, <1>4 DEF u, c

\* The text of a HUGEINT of 64 bits and a sign is its value.
LEMMA HugeintsRead ==
  ASSUME NEW upper \in Signed(Width), NEW lower \in Unsigned(Width), NEW h,
         h = [upper |-> upper, lower |-> lower],
         HugeintValue(h) \in -(2 ^ Width - 1) .. 2 ^ Width - 1
  PROVE  HugeintToString(h) = [digits |-> HugeintValue(h)]
<1> DEFINE p == 2 ^ Width
<1>1. p \in Nat \ {0} /\ upper \in Int /\ lower \in 0..(p - 1)
  BY WordsFit DEF Unsigned
<1>2. h.upper = upper /\ h.lower = lower
  OBVIOUS
<1>3. HugeintValue(h) = upper * p + lower
  BY <1>2 DEF HugeintValue
<1>4. upper * p + lower \in -(p - 1) .. p - 1
  BY <1>3
<1>5. HugeintToString(h) =
        LET negLower == (p - lower) % p
            negUpper == -upper - 1
        IN  CASE upper = 0 -> [digits |-> lower]
              [] upper < 0 /\ lower = 0 ->
                   IF -upper \in Signed(Width) THEN [digits |-> upper * 10 ^ (DecimalDigits - 1)]
                   ELSE [malformed |-> TRUE]
              [] upper < 0 /\ lower # 0 ->
                   IF negUpper = 0 THEN [digits |-> -negLower]
                   ELSE Minus(Digits(negUpper, negLower))
              [] upper > 0 -> Digits(upper, lower)
  BY <1>2 DEF HugeintToString
<1> HIDE DEF p
<1>6. ~(upper > 0)
  <2>1. upper > 0 => (upper - 1) * p >= 0
    BY <1>1
  <2>2. (upper - 1) * p = upper * p - p
    BY <1>1
  <2> QED
    BY <1>1, <1>4, <2>1, <2>2
<1>7. ~(upper < -1)
  <2>1. upper < -1 => (-2 - upper) * p >= 0
    BY <1>1
  <2>2. (-2 - upper) * p = -(2 * p) - upper * p
    BY <1>1
  <2> QED
    BY <1>1, <1>4, <2>1, <2>2
<1>8. CASE upper = 0
  <2>1. upper * p + lower = lower
    BY <1>1, <1>8
  <2> QED
    BY <1>3, <1>5, <1>8, <2>1
<1>9. CASE upper = -1
  <2>1. upper * p + lower = lower - p
    BY <1>1, <1>9
  <2>2. lower # 0
    BY <1>1, <1>4, <2>1
  <2>3. (p - lower) % p = p - lower
    BY <1>1, <2>2
  <2>4. -upper - 1 = 0 /\ upper < 0 /\ ~(upper = 0) /\ ~(upper > 0)
    <3>1. \A x \in Int : x + 1 = 0 => -x - 1 = 0 /\ x < 0 /\ ~(x = 0) /\ ~(x > 0)
      OBVIOUS
    <3>2. upper + 1 = 0
      BY <1>9
    <3> QED
      BY <1>1, <3>1, <3>2
  <2>5. HugeintToString(h) = [digits |-> -((p - lower) % p)]
    <3> DEFINE negLower == (p - lower) % p
    <3>1. HugeintToString(h) = IF -upper - 1 = 0 THEN [digits |-> -negLower]
                               ELSE Minus(Digits(-upper - 1, negLower))
      BY <1>5, <2>2, <2>4
    <3> QED
      BY <2>4, <3>1
  <2>6. -(p - lower) = lower - p
    BY <1>1
  <2> QED
    BY <1>3, <2>1, <2>3, <2>5, <2>6
<1> QED
  BY <1>1, <1>6, <1>7, <1>8, <1>9

-----------------------------------------------------------------------------
(* Vectors.                                                                *)

\* What a column of a type holds, by the branches of its definition.
LEMMA ContentsOf ==
  ASSUME NEW type
  PROVE  /\ type = "BOOLEAN" => Contents(type) = {[bool |-> b] : b \in BOOLEAN}
         /\ type \in SignedTypes => Contents(type) = {[int |-> n] : n \in Signed(WidthOf(type))}
         /\ type \in UnsignedTypes => Contents(type) = {[int |-> n] : n \in Unsigned(WidthOf(type))}
         /\ type \in FloatTypes => Contents(type) = {[float |-> x] : x \in {0, 1}}
         /\ type \in {"VARCHAR", "BLOB"} => Contents(type) = {Chars(s) : s \in CharStrings}
         /\ type \in TimestampTypes => Contents(type) = {[int |-> n] : n \in Signed(Width)}
         /\ type = "DATE" => Contents(type) = {[int |-> n] : n \in Signed(NarrowBits)}
         /\ type = "TIME" => Contents(type) = {[int |-> n] : n \in 0..MicrosPerSecond}
         /\ type = "TIME_TZ" =>
              Contents(type) = {[micros |-> n, zone |-> z] : n \in 0..MicrosPerSecond, z \in {0, 1}}
         /\ type = "HUGEINT" =>
              Contents(type) =
                {[upper |-> u, lower |-> l] : u \in Signed(Width), l \in Unsigned(Width)}
         /\ type = "DECIMAL" =>
              Contents(type) = {[unscaled |-> n, scale |-> c] : n \in Signed(Width), c \in {0, 1}}
         /\ type \in OtherTypes => Contents(type) = {[other |-> type]}
<1> USE DEF SignedTypes, UnsignedTypes, FloatTypes, TimestampTypes, OtherTypes
<1>1. type = "BOOLEAN" => Contents(type) = {[bool |-> b] : b \in BOOLEAN}
  BY DEF Contents
<1>2. type \in SignedTypes => Contents(type) = {[int |-> n] : n \in Signed(WidthOf(type))}
  BY DEF Contents
<1>3. type \in UnsignedTypes => Contents(type) = {[int |-> n] : n \in Unsigned(WidthOf(type))}
  BY DEF Contents
<1>4. type \in FloatTypes => Contents(type) = {[float |-> x] : x \in {0, 1}}
  BY DEF Contents
<1>5. type \in {"VARCHAR", "BLOB"} => Contents(type) = {Chars(s) : s \in CharStrings}
  BY DEF Contents
<1>6. type \in TimestampTypes => Contents(type) = {[int |-> n] : n \in Signed(Width)}
  BY DEF Contents
<1>7. type = "DATE" => Contents(type) = {[int |-> n] : n \in Signed(NarrowBits)}
  BY DEF Contents
<1>8. type = "TIME" => Contents(type) = {[int |-> n] : n \in 0..MicrosPerSecond}
  BY DEF Contents
<1>9. type = "TIME_TZ" =>
        Contents(type) = {[micros |-> n, zone |-> z] : n \in 0..MicrosPerSecond, z \in {0, 1}}
  BY DEF Contents
<1>10. type = "HUGEINT" =>
         Contents(type) = {[upper |-> u, lower |-> l] : u \in Signed(Width), l \in Unsigned(Width)}
  BY DEF Contents
<1>11. type = "DECIMAL" =>
         Contents(type) = {[unscaled |-> n, scale |-> c] : n \in Signed(Width), c \in {0, 1}}
  BY DEF Contents
<1>12. type \in OtherTypes => Contents(type) = {[other |-> type]}
  BY DEF Contents
<1> QED
  BY <1>1, <1>2, <1>3, <1>4, <1>5, <1>6, <1>7, <1>8, <1>9, <1>10, <1>11, <1>12

\* What a column holds, one type at a time.
LEMMA ContentsByType ==
  ASSUME NEW type, NEW data \in Contents(type)
  PROVE  /\ type = "BOOLEAN" => \E b \in BOOLEAN : data = [bool |-> b]
         /\ type \in SignedTypes => \E n \in Signed(WidthOf(type)) : data = [int |-> n]
         /\ type \in UnsignedTypes => \E n \in Unsigned(WidthOf(type)) : data = [int |-> n]
         /\ type \in FloatTypes => \E x \in {0, 1} : data = [float |-> x]
         /\ type \in {"VARCHAR", "BLOB"} => \E s \in CharStrings : data = Chars(s)
         /\ type \in TimestampTypes => \E n \in Signed(Width) : data = [int |-> n]
         /\ type = "DATE" => \E n \in Signed(NarrowBits) : data = [int |-> n]
         /\ type = "TIME" => \E n \in 0..MicrosPerSecond : data = [int |-> n]
         /\ type = "TIME_TZ" =>
              \E n \in 0..MicrosPerSecond, z \in {0, 1} : data = [micros |-> n, zone |-> z]
         /\ type = "HUGEINT" =>
              \E u \in Signed(Width), l \in Unsigned(Width) : data = [upper |-> u, lower |-> l]
         /\ type = "DECIMAL" =>
              \E n \in Signed(Width), c \in {0, 1} : data = [unscaled |-> n, scale |-> c]
         /\ type \in OtherTypes => data = [other |-> type]
BY ContentsOf

AllTypes ==
  {"BOOLEAN", "VARCHAR", "BLOB", "HUGEINT", "DECIMAL", "DATE", "TIME", "TIME_TZ"}
  \cup SignedTypes \cup UnsignedTypes \cup FloatTypes \cup TimestampTypes \cup OtherTypes

LEMMA TypesAreAll == Types = AllTypes
BY DEF Types, AllTypes, TimeTypes

\* What is in a column is no NULL and nothing that lies between two rows.
LEMMA ContentsAreData ==
  ASSUME NEW type \in Types, NEW data \in Contents(type)
  PROVE  data \notin {SqlNull, Garbage}
<1>1. \A n, m : /\ [bool |-> n] \notin {SqlNull, Garbage}
                /\ [int |-> n] \notin {SqlNull, Garbage}
                /\ [float |-> n] \notin {SqlNull, Garbage}
                /\ Chars(n) \notin {SqlNull, Garbage}
                /\ [micros |-> n, zone |-> m] \notin {SqlNull, Garbage}
                /\ [upper |-> n, lower |-> m] \notin {SqlNull, Garbage}
                /\ [unscaled |-> n, scale |-> m] \notin {SqlNull, Garbage}
                /\ [other |-> n] \notin {SqlNull, Garbage}
  BY DEF SqlNull, Garbage, Chars
<1> QED
  BY <1>1, ContentsByType, TypesAreAll DEF AllTypes

IsVector(vector) ==
  /\ vector.type \in Types
  /\ vector.rows \in Seq(Contents(vector.type) \cup {SqlNull})
  /\ Len(vector.rows) \in {1, 2}

\* The driver multiplies with the size of a row.
LEMMA StridesAreSizes ==
  ASSUME NEW type \in Types
  PROVE  /\ SizeOf(type) \in {1, 2, 4, 8, 16}
         /\ type \notin OtherTypes => Stride(type) = SizeOf(type)
<1> USE DEF SizeOf, Stride
<1>1. type \in {"BOOLEAN", "TINYINT", "UTINYINT"} => SizeOf(type) = 1 /\ Stride(type) = 1
  OBVIOUS
<1>2. type \in {"SMALLINT", "USMALLINT"} => SizeOf(type) = 2 /\ Stride(type) = 2
  OBVIOUS
<1>3. type \in {"INTEGER", "UINTEGER", "FLOAT", "DATE"} => SizeOf(type) = 4 /\ Stride(type) = 4
  OBVIOUS
<1>4. type \in {"VARCHAR", "BLOB", "HUGEINT"} => SizeOf(type) = 16 /\ Stride(type) = 16
  OBVIOUS
<1>5. type \in OtherTypes => SizeOf(type) = 16
  BY DEF OtherTypes
<1>6. type \in {"BIGINT", "UBIGINT", "DOUBLE", "TIME", "TIME_TZ", "DECIMAL"} \cup TimestampTypes =>
        SizeOf(type) = 8 /\ Stride(type) = 8
  BY DEF TimestampTypes
<1> HIDE DEF SizeOf, Stride
<1> QED
  BY <1>1, <1>2, <1>3, <1>4, <1>5, <1>6, TypesAreAll
     DEF AllTypes, SignedTypes, UnsignedTypes, FloatTypes

\* readValue finds its own row.
LEMMA RowsAreFound ==
  ASSUME NEW vector, IsVector(vector), NEW row \in 0..1, row < Len(vector.rows)
  PROVE  LET data == vector.rows[row + 1]
             got == ReadValue(vector, row)
         IN  /\ data \in Contents(vector.type) \cup {SqlNull}
             /\ data = SqlNull => got = Nil
             /\ data # SqlNull /\ vector.type \in OtherTypes =>
                  got = Str([unsupported |-> vector.type])
             /\ data # SqlNull /\ vector.type \notin OtherTypes => got = ReadData(vector.type, data)
<1> DEFINE data == vector.rows[row + 1]
           type == vector.type
           size == SizeOf(type)
<1>1. type \in Types /\ size \in {1, 2, 4, 8, 16}
  BY StridesAreSizes DEF IsVector
<1>2. data \in Contents(type) \cup {SqlNull}
  BY DEF IsVector
<1>3. data = SqlNull => ReadValue(vector, row) = Nil
  BY DEF ReadValue
<1>4. data # SqlNull /\ type \in OtherTypes =>
        ReadValue(vector, row) = Str([unsupported |-> vector.type])
  BY DEF ReadValue
<1>5. ASSUME data # SqlNull, type \notin OtherTypes
      PROVE  ReadValue(vector, row) = ReadData(type, data)
  <2>1. Stride(type) = size
    BY <1>1, <1>5, StridesAreSizes
  <2>2. (row * size) \div size = row /\ (row * size) % size = 0
    <3> HIDE DEF size
    <3>1. row = 0 \/ row = 1
      OBVIOUS
    <3> QED
      BY <1>1, <3>1
  <2>3. At(vector, row * size) = data
    BY <2>2 DEF At
  <2>4. data \notin {SqlNull, Garbage}
    BY <1>1, <1>2, <1>5, ContentsAreData
  <2> HIDE DEF data
  <2> QED
    BY <1>5, <2>1, <2>3, <2>4 DEF ReadValue, data
<1> QED
  BY <1>2, <1>3, <1>4, <1>5

\* The branches of readValue.
LEMMA ReadByType ==
  ASSUME NEW type, NEW data
  PROVE  /\ type = "BOOLEAN" => ReadData(type, data) = Bool(data.bool)
         /\ type \in SignedTypes \cup UnsignedTypes =>
              ReadData(type, data) = Number("int64", ToSigned(data.int, Width))
         /\ type \in FloatTypes => ReadData(type, data) = Float("float64", data.float)
         /\ type = "VARCHAR" =>
              ReadData(type, data) = Str(Chars(ReadChars(StringT(data.chars))))
         /\ type = "BLOB" => ReadData(type, data) = Bytes(ReadChars(StringT(data.chars)))
         /\ type \in {"TIMESTAMP", "TIMESTAMP_TZ"} =>
              ReadData(type, data) = TimestampToTime(data.int)
         /\ type = "TIMESTAMP_S" => ReadData(type, data) = Utc(data.int * NanosPerSecond)
         /\ type = "TIMESTAMP_MS" => ReadData(type, data) = MillisToTime(data.int)
         /\ type \in {"TIMESTAMP_NS", "DATE", "TIME"} => ReadData(type, data) = Utc(data.int)
         /\ type = "TIME_TZ" => ReadData(type, data) = Utc(data.micros * 2 + data.zone)
         /\ type = "HUGEINT" => ReadData(type, data) = Str(HugeintToString(data))
         /\ type = "DECIMAL" => ReadData(type, data) = ReadDecimalValue(data)
<1> USE DEF SignedTypes, UnsignedTypes, FloatTypes
<1>1. type = "BOOLEAN" => ReadData(type, data) = Bool(data.bool)
  BY DEF ReadData
<1>2. type \in SignedTypes \cup UnsignedTypes =>
        ReadData(type, data) = Number("int64", ToSigned(data.int, Width))
  BY DEF ReadData
<1>3. type \in FloatTypes => ReadData(type, data) = Float("float64", data.float)
  BY DEF ReadData
<1>4. type = "VARCHAR" => ReadData(type, data) = Str(Chars(ReadChars(StringT(data.chars))))
  BY DEF ReadData
<1>5. type = "BLOB" => ReadData(type, data) = Bytes(ReadChars(StringT(data.chars)))
  BY DEF ReadData
<1>6. type \in {"TIMESTAMP", "TIMESTAMP_TZ"} => ReadData(type, data) = TimestampToTime(data.int)
  BY DEF ReadData
<1>7. type = "TIMESTAMP_S" => ReadData(type, data) = Utc(data.int * NanosPerSecond)
  BY DEF ReadData
<1>8. type = "TIMESTAMP_MS" => ReadData(type, data) = MillisToTime(data.int)
  BY DEF ReadData
<1>9. type \in {"TIMESTAMP_NS", "DATE", "TIME"} => ReadData(type, data) = Utc(data.int)
  BY DEF ReadData
<1>10. type = "TIME_TZ" => ReadData(type, data) = Utc(data.micros * 2 + data.zone)
  BY DEF ReadData
<1>11. type = "HUGEINT" => ReadData(type, data) = Str(HugeintToString(data))
  BY DEF ReadData
<1>12. type = "DECIMAL" => ReadData(type, data) = ReadDecimalValue(data)
  BY DEF ReadData
<1> QED
  BY <1>1, <1>2, <1>3, <1>4, <1>5, <1>6, <1>7, <1>8, <1>9, <1>10, <1>11, <1>12

\* A string is read from where its length says it is.
LEMMA StringsAreFound ==
  ASSUME NEW s \in CharStrings
  PROVE  ReadChars(StringT(s)) = s
<1>1. StringT(s).length = Len(s)
  BY DEF StringT
<1>2. Len(s) <= InlineLimit => StringT(s).inline = s
  BY DEF StringT
<1>3. ~(Len(s) <= InlineLimit) => StringT(s).pointer = s
  BY DEF StringT
<1> QED
  BY <1>1, <1>2, <1>3 DEF ReadChars

-----------------------------------------------------------------------------
(* What is read of a row.                                                  *)

\* What RowsReadTrue says of a row that is not NULL, one type at a time.
DataTrue(type, data, got) ==
  /\ type \in SignedTypes \cup UnsignedTypes =>
       got = Number("int64", data.int) \/ data.int \notin Signed(Width)
  /\ type = "BOOLEAN" => got = Bool(data.bool)
  /\ type \in FloatTypes => got = Float("float64", data.float)
  /\ type = "VARCHAR" => got = Str(data)
  /\ type = "BLOB" => got = Bytes(data.chars)
  /\ type \in TimeTypes \ {"TIME_TZ"} => got = Utc(data.int * NanosOf(type))
  /\ type = "HUGEINT" /\ HugeintValue(data) \in -(2 ^ Width - 1) .. 2 ^ Width - 1 =>
       got = Str([digits |-> HugeintValue(data)])

LEMMA TimesRead ==
  ASSUME NEW type \in TimeTypes \ {"TIME_TZ"}, NEW n \in Int
  PROVE  ReadData(type, [int |-> n]) = Utc(n * NanosOf(type))
<1> DEFINE data == [int |-> n]
<1>1. data.int = n
  OBVIOUS
<1> HIDE DEF data
<1>2. CASE type \in {"TIMESTAMP", "TIMESTAMP_TZ"}
  <2>1. NanosOf(type) = NanosPerMicro
    BY <1>2 DEF NanosOf
  <2>2. ReadData(type, data) = TimestampToTime(n)
    BY <1>1, <1>2, ReadByType
  <2> QED
    BY <2>1, <2>2, TimestampsRead DEF data
<1>3. CASE type = "TIMESTAMP_S"
  <2>1. NanosOf(type) = NanosPerSecond
    BY <1>3 DEF NanosOf
  <2>2. ReadData(type, data) = Utc(n * NanosPerSecond)
    BY <1>1, <1>3, ReadByType
  <2> QED
    BY <2>1, <2>2 DEF data
<1>4. CASE type = "TIMESTAMP_MS"
  <2>1. NanosOf(type) = NanosPerMicro * MicrosPerMilli
    BY <1>4 DEF NanosOf
  <2>2. ReadData(type, data) = MillisToTime(n)
    BY <1>1, <1>4, ReadByType
  <2> QED
    BY <2>1, <2>2, MillisRead DEF data
<1>5. CASE type \in {"TIMESTAMP_NS", "DATE", "TIME"}
  <2>1. NanosOf(type) = 1
    BY <1>5 DEF NanosOf
  <2>2. ReadData(type, data) = Utc(n)
    BY <1>1, <1>5, ReadByType
  <2>3. n * 1 = n
    OBVIOUS
  <2> QED
    BY <2>1, <2>2, <2>3 DEF data
<1> QED
  BY <1>2, <1>3, <1>4, <1>5 DEF TimeTypes, TimestampTypes

LEMMA DataIsRead ==
  ASSUME NEW type \in Types \ OtherTypes, NEW data \in Contents(type)
  PROVE  DataTrue(type, data, ReadData(type, data))
<1> DEFINE got == ReadData(type, data)
<1>1. ASSUME type \in SignedTypes \cup UnsignedTypes
      PROVE  got = Number("int64", data.int) \/ data.int \notin Signed(Width)
  <2>1. got = Number("int64", ToSigned(data.int, Width))
    BY <1>1, ReadByType
  <2> QED
    BY <2>1, WordsFit
<1>2. type = "BOOLEAN" => got = Bool(data.bool)
  BY ReadByType
<1>3. type \in FloatTypes => got = Float("float64", data.float)
  BY ReadByType
<1>4. ASSUME type \in {"VARCHAR", "BLOB"}
      PROVE  /\ type = "VARCHAR" => got = Str(data)
             /\ type = "BLOB" => got = Bytes(data.chars)
  <2>1. PICK s \in CharStrings : data = Chars(s)
    BY <1>4, ContentsByType
  <2>2. data.chars = s
    BY <2>1 DEF Chars
  <2>3. ReadChars(StringT(data.chars)) = s
    BY <2>2, StringsAreFound
  <2> QED
    BY <2>1, <2>2, <2>3, ReadByType
<1>5. ASSUME type \in TimeTypes \ {"TIME_TZ"} PROVE got = Utc(data.int * NanosOf(type))
  <2>1. PICK n \in Int : data = [int |-> n]
    <3>1. CASE type \in TimestampTypes
      BY <3>1, ContentsByType, WordsFit
    <3>2. CASE type = "DATE"
      BY <3>2, ContentsByType, WordsFit
    <3>3. CASE type = "TIME"
      <4>1. \A n \in 0..MicrosPerSecond : n \in Int
        OBVIOUS
      <4> QED
        BY <3>3, <4>1, ContentsByType
    <3> QED
      BY <1>5, <3>1, <3>2, <3>3 DEF TimeTypes
  <2>2. data.int = n
    BY <2>1
  <2> QED
    BY <1>5, <2>1, <2>2, TimesRead
<1>6. ASSUME type = "HUGEINT",
             HugeintValue(data) \in -(2 ^ Width - 1) .. 2 ^ Width - 1
      PROVE  got = Str([digits |-> HugeintValue(data)])
  <2>1. PICK u \in Signed(Width), l \in Unsigned(Width) : data = [upper |-> u, lower |-> l]
    BY <1>6, ContentsByType
  <2>2. HugeintToString(data) = [digits |-> HugeintValue(data)]
    BY <1>6, <2>1, HugeintsRead
  <2> QED
    BY <1>6, <2>2, ReadByType
<1> HIDE DEF got
<1> QED
  BY <1>1, <1>2, <1>3, <1>4, <1>5, <1>6 DEF DataTrue, got

\* The kind of a Go value that readValue answers is the one that
\* ColumnTypeScanType announced.
LEMMA KindsAreAnnounced ==
  ASSUME NEW type \in Types \ OtherTypes, NEW data
  PROVE  ReadData(type, data).kind = ScanType(type)
<1> USE DEF SignedTypes, UnsignedTypes, FloatTypes, TimestampTypes, TimeTypes
<1>1. /\ \A b : Bool(b).kind = "bool"
      /\ \A k, n : Number(k, n).kind = k /\ Float(k, n).kind = k
      /\ \A t : Str(t).kind = "string" /\ Bytes(t).kind = "[]byte" /\ Utc(t).kind = "time"
  BY DEF Bool, Number, Float, Str, Bytes, Utc, Time
<1>2. /\ \A n : TimestampToTime(n).kind = "time" /\ MillisToTime(n).kind = "time"
      /\ ReadDecimalValue(data).kind = "string"
  BY <1>1 DEF TimestampToTime, MillisToTime, ReadDecimalValue, DecimalTypeId
<1>3. type = "BOOLEAN" => ScanType(type) = "bool"
  BY DEF ScanType
<1>4. type \in SignedTypes \cup UnsignedTypes => ScanType(type) = "int64"
  BY DEF ScanType
<1>5. type \in FloatTypes => ScanType(type) = "float64"
  BY DEF ScanType
<1>6. type \in TimeTypes => ScanType(type) = "time"
  BY DEF ScanType
<1>7. type = "BLOB" => ScanType(type) = "[]byte"
  BY DEF ScanType
<1>8. type \in {"VARCHAR", "HUGEINT", "DECIMAL"} => ScanType(type) = "string"
  BY DEF ScanType
<1>9. type = "BOOLEAN" => ReadData(type, data).kind = "bool"
  BY <1>1, ReadByType
<1>10. type \in SignedTypes \cup UnsignedTypes => ReadData(type, data).kind = "int64"
  BY <1>1, ReadByType
<1>11. type \in FloatTypes => ReadData(type, data).kind = "float64"
  BY <1>1, ReadByType
<1>12. type \in TimeTypes => ReadData(type, data).kind = "time"
  BY <1>1, <1>2, ReadByType
<1>13. type = "BLOB" => ReadData(type, data).kind = "[]byte"
  BY <1>1, ReadByType
<1>14. type \in {"VARCHAR", "HUGEINT", "DECIMAL"} => ReadData(type, data).kind = "string"
  BY <1>1, <1>2, ReadByType
<1> QED
  BY <1>3, <1>4, <1>5, <1>6, <1>7, <1>8, <1>9, <1>10, <1>11, <1>12, <1>13, <1>14, TypesAreAll
     DEF AllTypes

\* The announced type is a function of the announced name.
LEMMA NamesTellKinds ==
  ASSUME NEW type \in Types
  PROVE  ScanType(type) = IF DatabaseTypeName(type) = "UNKNOWN" THEN "string"
                          ELSE ScanType(DatabaseTypeName(type))
<1> USE DEF SignedTypes, UnsignedTypes, FloatTypes, TimestampTypes, TimeTypes, OtherTypes
<1>1. CASE type \in TimestampTypes
  <2>1. DatabaseTypeName(type) = "TIMESTAMP"
    BY <1>1 DEF DatabaseTypeName
  <2>2. ScanType(type) = "time" /\ ScanType("TIMESTAMP") = "time"
    BY <1>1 DEF ScanType
  <2> QED
    BY <2>1, <2>2
<1>2. CASE type \in {"TIME", "TIME_TZ"}
  <2>1. DatabaseTypeName(type) = "TIME"
    BY <1>2 DEF DatabaseTypeName
  <2>2. ScanType(type) = "time" /\ ScanType("TIME") = "time"
    BY <1>2 DEF ScanType
  <2> QED
    BY <2>1, <2>2
<1>3. CASE type \in OtherTypes \ {"INTERVAL"}
  <2>1. DatabaseTypeName(type) = "UNKNOWN"
    BY <1>3 DEF DatabaseTypeName
  <2>2. ScanType(type) = "string"
    BY <1>3 DEF ScanType
  <2> QED
    BY <2>1, <2>2
<1>4. CASE /\ type \notin TimestampTypes \cup {"TIME", "TIME_TZ"}
           /\ type \notin OtherTypes \ {"INTERVAL"}
  <2>1. DatabaseTypeName(type) = type
    BY <1>4 DEF DatabaseTypeName
  <2>2. type # "UNKNOWN"
    BY <1>4 DEF Types
  <2> QED
    BY <2>1, <2>2
<1> QED
  BY <1>1, <1>2, <1>3, <1>4

-----------------------------------------------------------------------------
(* What is sent.                                                           *)

\* A C string without a NUL is left as it is, and one with a NUL is cut to one
\* that a column can hold.
LEMMA CStringKeeps ==
  ASSUME NEW text, ~HasNul(Str(text))
  PROVE  CString(text) = text
<1>1. "chars" \in DOMAIN text => {i \in DOMAIN text.chars : text.chars[i] = "NUL"} = {}
  BY DEF HasNul, Str
<1> QED
  BY <1>1 DEF CString

LEMMA CStringCuts ==
  ASSUME NEW s \in CharStrings
  PROVE  \E c \in CharStrings : CString(Chars(s)) = Chars(c)
<1>1. DOMAIN Chars(s) = {"chars"} /\ Chars(s).chars = s
  BY DEF Chars
<1>2. CASE s = << >> \/ s = <<"a">>
  <2>1. \A i \in DOMAIN s : s[i] # "NUL"
    BY <1>2
  <2>2. ~HasNul(Str(Chars(s)))
    BY <1>1, <2>1 DEF HasNul, Str
  <2> QED
    BY <2>2, CStringKeeps
<1>3. CASE s = <<"a", "NUL", "a">>
  <2> DEFINE nuls == {i \in DOMAIN s : s[i] = "NUL"}
  <2>1. nuls = {2}
    BY <1>3
  <2>2. (CHOOSE i \in nuls : \A j \in nuls : i <= j) = 2
    BY <2>1
  <2>3. CString(Chars(s)) = Chars(SubSeq(s, 1, 2 - 1))
    BY <1>1, <2>1, <2>2 DEF CString
  <2>4. SubSeq(s, 1, 2 - 1) = <<"a">>
    <3>1. s \in Seq({"a", "NUL"}) /\ Len(s) = 3 /\ s[1] = "a"
      BY <1>3
    <3>2. SubSeq(s, 1, 2 - 1) = [i \in 1..1 |-> s[i]]
      BY <3>1
    <3>3. [i \in 1..1 |-> s[i]] = [i \in 1..1 |-> "a"]
      BY <3>1
    <3>4. <<"a">> = [i \in 1..1 |-> "a"]
      OBVIOUS
    <3> QED
      BY <3>2, <3>3, <3>4
  <2> QED
    BY <2>3, <2>4 DEF CharStrings
<1> QED
  BY <1>2, <1>3 DEF CharStrings

\* The values without a Valuer around them, by the way they are stored.
IsSignedValue(v) == \E k \in SignedKinds : \E n \in Signed(BitsOf(k)) : v = Number(k, n)
IsUnsignedValue(v) == \E k \in UnsignedKinds : \E n \in Unsigned(BitsOf(k)) : v = Number(k, n)
IsFloatValue(v) == \E k \in {"float32", "float64"}, x \in {0, 1} : v = Float(k, x)
IsTimeValue(v) == \E t \in Int, z \in Int : v = Time(t, z)

HasForm(v) ==
  \/ v \in {Nil, NilBytes, Struct, Error}
  \/ \E b \in BOOLEAN : v = Bool(b)
  \/ IsSignedValue(v) \/ IsUnsignedValue(v) \/ IsFloatValue(v)
  \/ \E text \in Texts : v = Str(text)
  \/ \E s \in CharStrings : v = Bytes(s)
  \/ IsTimeValue(v)

LEMMA FormsOfValues ==
  ASSUME NEW v \in BasicValues(Texts, Times)
  PROVE  HasForm(v)
<1>1. v \in NoValues \/ v \in Bools => HasForm(v)
  BY DEF HasForm, NoValues, Bools
<1>2. v \in SignedValues => HasForm(v)
  BY DEF HasForm, IsSignedValue, SignedValues
<1>3. v \in UnsignedValues => HasForm(v)
  BY DEF HasForm, IsUnsignedValue, UnsignedValues
<1>4. v \in Floats => HasForm(v)
  BY DEF HasForm, IsFloatValue, Floats
<1>5. v \in Strings(Texts) => HasForm(v)
  BY DEF HasForm, Strings
<1>6. v \in Slices => HasForm(v)
  BY DEF HasForm, Slices
<1>7. ASSUME v \in Times PROVE HasForm(v)
  <2>1. \E t \in -TimeBound..TimeBound, z \in {0, 2} : v = Time(t, z)
    BY <1>7 DEF Times
  <2>2. \A t \in -TimeBound..TimeBound : t \in Int
    BY UnitsAssumption
  <2>3. \A z \in {0, 2} : z \in Int
    OBVIOUS
  <2> QED
    BY <2>1, <2>2, <2>3 DEF IsTimeValue, HasForm
<1> QED
  BY <1>1, <1>2, <1>3, <1>4, <1>5, <1>6, <1>7 DEF BasicValues

\* A Valuer is opened once.
LEMMA PlainIsBasic ==
  ASSUME NEW v \in Arguments(Texts, Times)
  PROVE  /\ Plain(v) \in BasicValues(Texts, Times)
         /\ Normalize(v) = NormalizeBasic(Plain(v))
<1>1. CASE v \in BasicValues(Texts, Times)
  <2>1. v.kind # "valuer"
    <3>1. IsSignedValue(v) \/ IsUnsignedValue(v) \/ IsFloatValue(v) \/ IsTimeValue(v)
            => v.kind # "valuer"
      BY DEF IsSignedValue, IsUnsignedValue, IsFloatValue, IsTimeValue, Number, Float, Time,
         SignedKinds, UnsignedKinds
    <3>2. /\ Nil.kind # "valuer" /\ NilBytes.kind # "valuer" /\ Struct.kind # "valuer"
          /\ Error.kind # "valuer"
      BY DEF Nil, NilBytes, Struct, Error
    <3>3. \A b, text, s : Bool(b).kind # "valuer" /\ Str(text).kind # "valuer"
                            /\ Bytes(s).kind # "valuer"
      BY DEF Bool, Str, Bytes
    <3> QED
      BY <1>1, <3>1, <3>2, <3>3, FormsOfValues DEF HasForm
  <2> QED
    BY <1>1, <2>1 DEF Plain, Normalize
<1>2. ASSUME NEW w \in BasicValues(Texts, Times), v = Valuer(w)
      PROVE  Plain(v) = w /\ Normalize(v) = NormalizeBasic(w)
  BY <1>2 DEF Plain, Normalize, Valuer
<1> QED
  BY <1>1, <1>2 DEF Arguments

\* What is refused before it is sent.
LEMMA ValuesRefused ==
  ASSUME NEW v, NormalizeBasic(v) = Error
  PROVE  \/ v.kind \in {"struct", "error"}
         \/ v.kind \in {"uint", "uint64"} /\ v.int \notin Signed(Width)
<1> SUFFICES ASSUME v.kind \notin {"struct", "error"}
             PROVE  v.kind \in {"uint", "uint64"} /\ v.int \notin Signed(Width)
  OBVIOUS
<1>1. Error.kind = "error"
  BY DEF Error
<1>2. CASE v.kind \in SignedKinds \cup {"uint8"}
  <2>1. NormalizeBasic(v) = Number("int64", v.int)
    BY <1>2 DEF NormalizeBasic, SignedKinds
  <2>2. Number("int64", v.int).kind = "int64"
    BY DEF Number
  <2> QED
    BY <1>1, <2>1, <2>2
<1>3. CASE v.kind \in {"uint", "uint64"}
  <2>1. NormalizeBasic(v) = IF v.int \in Signed(Width) THEN Number("int64", v.int) ELSE Error
    BY <1>3 DEF NormalizeBasic, SignedKinds
  <2>2. Number("int64", v.int).kind = "int64"
    BY DEF Number
  <2> QED
    BY <1>1, <1>3, <2>1, <2>2
<1>4. CASE v.kind \in {"float32", "float64"}
  <2>1. NormalizeBasic(v) = Float("float64", v.float)
    BY <1>4 DEF NormalizeBasic, SignedKinds
  <2>2. Float("float64", v.float).kind = "float64"
    BY DEF Float
  <2> QED
    BY <1>1, <2>1, <2>2
<1>5. CASE v.kind \notin SignedKinds \cup {"uint8", "uint", "uint64", "float32", "float64"}
  <2>1. NormalizeBasic(v) = v
    BY <1>5 DEF NormalizeBasic
  <2> QED
    BY <1>1, <2>1
<1> QED
  BY <1>2, <1>3, <1>4, <1>5

-----------------------------------------------------------------------------
(* What is stored of it.                                                   *)

\* The branches of bindValue.
LEMMA BindByKind ==
  ASSUME NEW v
  PROVE  /\ v.kind = "nil" => Bind(v) = [type |-> "VARCHAR", value |-> SqlNull]
         /\ v.kind = "bool" => Bind(v) = [type |-> "BOOLEAN", value |-> [bool |-> v.bool]]
         /\ v.kind = "int64" => Bind(v) = [type |-> "BIGINT", value |-> [int |-> v.int]]
         /\ v.kind = "float64" => Bind(v) = [type |-> "DOUBLE", value |-> [float |-> v.float]]
         /\ v.kind = "string" => Bind(v) = [type |-> "VARCHAR", value |-> CString(v.text)]
         /\ v.kind = "[]byte" => Bind(v) = [type |-> "BLOB", value |-> Chars(v.bytes)]
         /\ v.kind = "nil []byte" => Bind(v) = [type |-> "BLOB", value |-> Chars(<< >>)]
         /\ v.kind = "time" =>
              Bind(v) = [type |-> "TIMESTAMP", value |-> [int |-> TimeToTimestamp(v)]]
<1>1. v.kind = "nil" => Bind(v) = [type |-> "VARCHAR", value |-> SqlNull]
  BY DEF Bind
<1>2. v.kind = "bool" => Bind(v) = [type |-> "BOOLEAN", value |-> [bool |-> v.bool]]
  BY DEF Bind
<1>3. v.kind = "int64" => Bind(v) = [type |-> "BIGINT", value |-> [int |-> v.int]]
  BY DEF Bind
<1>4. v.kind = "float64" => Bind(v) = [type |-> "DOUBLE", value |-> [float |-> v.float]]
  BY DEF Bind
<1>5. v.kind = "string" => Bind(v) = [type |-> "VARCHAR", value |-> CString(v.text)]
  BY DEF Bind
<1>6. v.kind = "[]byte" => Bind(v) = [type |-> "BLOB", value |-> Chars(v.bytes)]
  BY DEF Bind
<1>7. v.kind = "nil []byte" => Bind(v) = [type |-> "BLOB", value |-> Chars(<< >>)]
  BY DEF Bind
<1>8. v.kind = "time" =>
        Bind(v) = [type |-> "TIMESTAMP", value |-> [int |-> TimeToTimestamp(v)]]
  BY DEF Bind
<1> QED
  BY <1>1, <1>2, <1>3, <1>4, <1>5, <1>6, <1>7, <1>8

\* How each value is stored: in a column of which type, and as what.
StoredAs(v, type, value) == Bind(NormalizeBasic(v)) = [type |-> type, value |-> value]

LEMMA IntegersStored ==
  ASSUME NEW v, IsSignedValue(v) \/ IsUnsignedValue(v), NormalizeBasic(v) # Error
  PROVE  /\ v.kind \in SignedKinds \cup UnsignedKinds /\ v.int \in Signed(Width)
         /\ StoredAs(v, "BIGINT", [int |-> v.int])
<1> USE DEF SignedKinds, UnsignedKinds
<1>1. /\ v.kind \in SignedKinds \cup UnsignedKinds
      /\ v.kind \in {"int8"} => v.int \in Signed(NarrowBits)
      /\ v.kind \in {"int", "int64"} => v.int \in Signed(Width)
      /\ v.kind = "uint8" => v.int \in Unsigned(NarrowBits)
  BY DEF IsSignedValue, IsUnsignedValue, BitsOf, Number
<1>2. NormalizeBasic(v) = Number("int64", v.int) /\ v.int \in Signed(Width)
  <2>1. CASE v.kind \in {"int", "int8", "int64", "uint8"}
    <3>1. NormalizeBasic(v) = Number("int64", v.int)
      BY <2>1 DEF NormalizeBasic
    <3> QED
      BY <1>1, <2>1, <3>1, WordsFit
  <2>2. CASE v.kind \in {"uint", "uint64"}
    <3>1. NormalizeBasic(v) = IF v.int \in Signed(Width) THEN Number("int64", v.int) ELSE Error
      BY <2>2 DEF NormalizeBasic
    <3> QED
      BY <3>1
  <2> QED
    BY <1>1, <2>1, <2>2
<1>3. Number("int64", v.int).kind = "int64" /\ Number("int64", v.int).int = v.int
  BY DEF Number
<1>4. Bind(Number("int64", v.int)) = [type |-> "BIGINT", value |-> [int |-> v.int]]
  BY <1>3, BindByKind
<1> QED
  BY <1>1, <1>2, <1>4 DEF StoredAs

LEMMA OthersStored ==
  /\ NormalizeBasic(Struct) = Error /\ NormalizeBasic(Error) = Error
  /\ StoredAs(Nil, "VARCHAR", SqlNull) /\ StoredAs(NilBytes, "BLOB", Chars(<< >>))
  /\ \A b \in BOOLEAN : StoredAs(Bool(b), "BOOLEAN", [bool |-> b])
  /\ \A x : \A k \in {"float32", "float64"} : StoredAs(Float(k, x), "DOUBLE", [float |-> x])
  /\ \A text : StoredAs(Str(text), "VARCHAR", CString(text))
  /\ \A s : StoredAs(Bytes(s), "BLOB", Chars(s))
  /\ \A t, z : StoredAs(Time(t, z), "TIMESTAMP", [int |-> TimeToTimestamp(Time(t, z))])
<1> USE DEF SignedKinds, UnsignedKinds
<1>1. NormalizeBasic(Struct) = Error /\ NormalizeBasic(Error) = Error
  BY DEF NormalizeBasic, Struct, Error
<1>2. StoredAs(Nil, "VARCHAR", SqlNull) /\ StoredAs(NilBytes, "BLOB", Chars(<< >>))
  <2>1. NormalizeBasic(Nil) = Nil /\ NormalizeBasic(NilBytes) = NilBytes
    BY DEF NormalizeBasic, Nil, NilBytes
  <2>2. Nil.kind = "nil" /\ NilBytes.kind = "nil []byte"
    BY DEF Nil, NilBytes
  <2>3. /\ Bind(Nil) = [type |-> "VARCHAR", value |-> SqlNull]
        /\ Bind(NilBytes) = [type |-> "BLOB", value |-> Chars(<< >>)]
    BY <2>2, BindByKind
  <2> QED
    BY <2>1, <2>3 DEF StoredAs
<1>3. ASSUME NEW b \in BOOLEAN PROVE StoredAs(Bool(b), "BOOLEAN", [bool |-> b])
  <2>1. NormalizeBasic(Bool(b)) = Bool(b)
    BY DEF NormalizeBasic, Bool
  <2>2. Bool(b).kind = "bool" /\ Bool(b).bool = b
    BY DEF Bool
  <2>3. Bind(Bool(b)) = [type |-> "BOOLEAN", value |-> [bool |-> b]]
    BY <2>2, BindByKind
  <2> QED
    BY <2>1, <2>3 DEF StoredAs
<1>4. ASSUME NEW x, NEW k \in {"float32", "float64"}
      PROVE  StoredAs(Float(k, x), "DOUBLE", [float |-> x])
  <2>1. NormalizeBasic(Float(k, x)) = Float("float64", x)
    BY DEF NormalizeBasic, Float
  <2>2. Float("float64", x).kind = "float64" /\ Float("float64", x).float = x
    BY DEF Float
  <2>3. Bind(Float("float64", x)) = [type |-> "DOUBLE", value |-> [float |-> x]]
    BY <2>2, BindByKind
  <2> QED
    BY <2>1, <2>3 DEF StoredAs
<1>5. ASSUME NEW text PROVE StoredAs(Str(text), "VARCHAR", CString(text))
  <2>1. NormalizeBasic(Str(text)) = Str(text)
    BY DEF NormalizeBasic, Str
  <2>2. Str(text).kind = "string" /\ Str(text).text = text
    BY DEF Str
  <2>3. Bind(Str(text)) = [type |-> "VARCHAR", value |-> CString(text)]
    BY <2>2, BindByKind
  <2> QED
    BY <2>1, <2>3 DEF StoredAs
<1>6. ASSUME NEW s PROVE StoredAs(Bytes(s), "BLOB", Chars(s))
  <2>1. NormalizeBasic(Bytes(s)) = Bytes(s)
    BY DEF NormalizeBasic, Bytes
  <2>2. Bytes(s).kind = "[]byte" /\ Bytes(s).bytes = s
    BY DEF Bytes
  <2>3. Bind(Bytes(s)) = [type |-> "BLOB", value |-> Chars(s)]
    BY <2>2, BindByKind
  <2> QED
    BY <2>1, <2>3 DEF StoredAs
<1>7. ASSUME NEW t, NEW z
      PROVE  StoredAs(Time(t, z), "TIMESTAMP", [int |-> TimeToTimestamp(Time(t, z))])
  <2>1. NormalizeBasic(Time(t, z)) = Time(t, z)
    BY DEF NormalizeBasic, Time
  <2>2. Time(t, z).kind = "time"
    BY DEF Time
  <2>3. Bind(Time(t, z)) = [type |-> "TIMESTAMP", value |-> [int |-> TimeToTimestamp(Time(t, z))]]
    BY <2>2, BindByKind
  <2> QED
    BY <2>1, <2>3 DEF StoredAs
<1> QED
  BY <1>1, <1>2, <1>3, <1>4, <1>5, <1>6, <1>7

\* The types that arguments are bound to, and what their columns hold.
LEMMA ColumnsHold ==
  /\ \A n \in Signed(Width) :
       [int |-> n] \in Contents("BIGINT") /\ [int |-> n] \in Contents("TIMESTAMP")
  /\ \A b \in BOOLEAN : [bool |-> b] \in Contents("BOOLEAN")
  /\ \A x \in {0, 1} : [float |-> x] \in Contents("DOUBLE")
  /\ \A s \in CharStrings : Chars(s) \in Contents("VARCHAR") /\ Chars(s) \in Contents("BLOB")
<1> USE DEF SignedTypes, UnsignedTypes, FloatTypes, TimestampTypes
<1>1. Contents("BIGINT") = {[int |-> n] : n \in Signed(Width)}
  BY ContentsOf DEF WidthOf
<1>2. Contents("TIMESTAMP") = {[int |-> n] : n \in Signed(Width)}
  BY ContentsOf
<1>3. Contents("BOOLEAN") = {[bool |-> b] : b \in BOOLEAN}
  BY ContentsOf
<1>4. Contents("DOUBLE") = {[float |-> x] : x \in {0, 1}}
  BY ContentsOf
<1>5. /\ Contents("VARCHAR") = {Chars(s) : s \in CharStrings}
      /\ Contents("BLOB") = {Chars(s) : s \in CharStrings}
  BY ContentsOf
<1> QED
  BY <1>1, <1>2, <1>3, <1>4, <1>5

OneRow(type, value) == [type |-> type, rows |-> <<value>>]

BoundTypes == {"BOOLEAN", "BIGINT", "DOUBLE", "VARCHAR", "BLOB", "TIMESTAMP"}

\* A column of the type of an argument holds the argument alone.
LEMMA ArgumentsAreVectors ==
  ASSUME NEW type \in BoundTypes, NEW value \in Contents(type) \cup {SqlNull}
  PROVE  LET got == ReadValue(OneRow(type, value), 0)
         IN  /\ IsVector(OneRow(type, value))
             /\ value = SqlNull => got = Nil
             /\ value \in Contents(type) => DataTrue(type, value, got)
<1> DEFINE vector == OneRow(type, value)
<1>1. vector.type = type /\ vector.rows = <<value>>
  BY DEF OneRow
<1> HIDE DEF vector
<1>2. vector.rows \in Seq(Contents(type) \cup {SqlNull}) /\ Len(vector.rows) = 1
      /\ vector.rows[1] = value
  BY <1>1
<1>3. type \in Types \ OtherTypes
  BY DEF BoundTypes, Types, SignedTypes, FloatTypes, TimeTypes, TimestampTypes, OtherTypes
<1>4. IsVector(vector)
  BY <1>1, <1>2, <1>3 DEF IsVector
<1>5. 0 \in 0..1 /\ 0 < Len(vector.rows) /\ vector.rows[0 + 1] = value
  BY <1>2
<1>6. value = SqlNull => ReadValue(vector, 0) = Nil
  BY <1>4, <1>5, RowsAreFound
<1>7. ASSUME value \in Contents(type) PROVE DataTrue(type, value, ReadValue(vector, 0))
  <2>1. value # SqlNull
    BY <1>3, <1>7, ContentsAreData
  <2>2. ReadValue(vector, 0) = ReadData(type, value)
    BY <1>1, <1>3, <1>4, <1>5, <2>1, RowsAreFound
  <2> QED
    BY <1>3, <1>7, <2>2, DataIsRead
<1> QED
  BY <1>4, <1>6, <1>7 DEF vector

AllKinds ==
  SignedKinds \cup UnsignedKinds
  \cup {"bool", "float32", "float64", "string", "[]byte", "nil", "nil []byte", "time"}

\* What DuckdbRoundTrip says of a value and what was read of it, one kind at a
\* time.
ReadBack(v, got) ==
  /\ v.kind \in AllKinds
  /\ v.kind \in SignedKinds \cup UnsignedKinds => got = Number("int64", v.int)
  /\ v.kind \in {"float32", "float64"} => got = Float("float64", v.float)
  /\ v.kind = "string" => got = v \/ HasNul(v)
  /\ v.kind = "nil []byte" => got = Bytes(<< >>)
  /\ v.kind \in {"bool", "nil", "[]byte"} => got = v
  /\ v.kind = "time" /\ v.instant \div NanosPerMicro \in Signed(Width) =>
       got = Utc((v.instant \div NanosPerMicro) * NanosPerMicro)

SentWell(v, vector) == IsVector(vector) /\ ReadBack(v, ReadValue(vector, 0))

LEMMA ValuesReadBack ==
  ASSUME NEW v, HasForm(v), NormalizeBasic(v) # Error
  PROVE  \E type, value : StoredAs(v, type, value) /\ SentWell(v, OneRow(type, value))
<1> USE DEF SentWell
<1>1. CASE IsSignedValue(v) \/ IsUnsignedValue(v)
  <2> DEFINE value == [int |-> v.int]
             got == ReadValue(OneRow("BIGINT", value), 0)
  <2>1. /\ v.kind \in SignedKinds \cup UnsignedKinds /\ v.int \in Signed(Width)
        /\ StoredAs(v, "BIGINT", value)
    BY <1>1, IntegersStored
  <2>2. value \in Contents("BIGINT") /\ value.int = v.int
    BY <2>1, ColumnsHold
  <2> HIDE DEF value
  <2>3. IsVector(OneRow("BIGINT", value)) /\ DataTrue("BIGINT", value, got)
    BY <2>2, ArgumentsAreVectors DEF BoundTypes
  <2>4. got = Number("int64", v.int)
    BY <2>1, <2>2, <2>3 DEF DataTrue, SignedTypes
  <2> HIDE DEF got
  <2>5. ReadBack(v, got)
    <3>1. v.kind \notin {"bool", "float32", "float64", "string", "[]byte", "nil", "nil []byte",
                         "time"}
      BY <2>1 DEF SignedKinds, UnsignedKinds
    <3> QED
      BY <2>1, <2>4, <3>1 DEF ReadBack, AllKinds
  <2> QED
    BY <2>1, <2>3, <2>5 DEF got
<1>2. ASSUME NEW b \in BOOLEAN, v = Bool(b)
      PROVE  \E type, value : StoredAs(v, type, value) /\ SentWell(v, OneRow(type, value))
  <2> DEFINE value == [bool |-> b]
             got == ReadValue(OneRow("BOOLEAN", value), 0)
  <2>1. v.kind = "bool" /\ StoredAs(v, "BOOLEAN", value)
    BY <1>2, OthersStored DEF Bool
  <2>2. value \in Contents("BOOLEAN") /\ value.bool = b
    BY ColumnsHold
  <2> HIDE DEF value
  <2>3. IsVector(OneRow("BOOLEAN", value)) /\ DataTrue("BOOLEAN", value, got)
    BY <2>2, ArgumentsAreVectors DEF BoundTypes
  <2>4. got = v
    BY <1>2, <2>2, <2>3 DEF DataTrue
  <2> HIDE DEF got
  <2>5. ReadBack(v, got)
    BY <2>1, <2>4 DEF ReadBack, AllKinds, SignedKinds, UnsignedKinds
  <2> QED
    BY <2>1, <2>3, <2>5 DEF got
<1>3. CASE IsFloatValue(v)
  <2>1. PICK k \in {"float32", "float64"}, x \in {0, 1} : v = Float(k, x)
    BY <1>3 DEF IsFloatValue
  <2> DEFINE value == [float |-> x]
             got == ReadValue(OneRow("DOUBLE", value), 0)
  <2>2. v.kind = k /\ v.float = x /\ StoredAs(v, "DOUBLE", value)
    BY <2>1, OthersStored DEF Float
  <2>3. value \in Contents("DOUBLE") /\ value.float = x
    BY ColumnsHold
  <2> HIDE DEF value
  <2>4. IsVector(OneRow("DOUBLE", value)) /\ DataTrue("DOUBLE", value, got)
    BY <2>3, ArgumentsAreVectors DEF BoundTypes
  <2>5. got = Float("float64", v.float)
    BY <2>2, <2>3, <2>4 DEF DataTrue, FloatTypes
  <2> HIDE DEF got
  <2>6. ReadBack(v, got)
    BY <2>2, <2>5 DEF ReadBack, AllKinds, SignedKinds, UnsignedKinds
  <2> QED
    BY <2>2, <2>4, <2>6 DEF got
<1>4. ASSUME NEW text \in Texts, v = Str(text)
      PROVE  \E type, value : StoredAs(v, type, value) /\ SentWell(v, OneRow(type, value))
  <2> DEFINE value == CString(text)
             got == ReadValue(OneRow("VARCHAR", value), 0)
  <2>1. v.kind = "string" /\ StoredAs(v, "VARCHAR", value)
    BY <1>4, OthersStored DEF Str
  <2>2. value \in Contents("VARCHAR")
    BY CStringCuts, ColumnsHold DEF Texts
  <2>3. ~HasNul(v) => Str(value) = v
    BY <1>4, CStringKeeps
  <2> HIDE DEF value
  <2>4. IsVector(OneRow("VARCHAR", value)) /\ DataTrue("VARCHAR", value, got)
    BY <2>2, ArgumentsAreVectors DEF BoundTypes
  <2>5. got = Str(value)
    BY <2>4 DEF DataTrue
  <2> HIDE DEF got
  <2>6. ReadBack(v, got)
    BY <2>1, <2>3, <2>5 DEF ReadBack, AllKinds, SignedKinds, UnsignedKinds
  <2> QED
    BY <2>1, <2>4, <2>6 DEF got
<1>5. ASSUME NEW s \in CharStrings, v = Bytes(s) \/ (s = << >> /\ v = NilBytes)
      PROVE  \E type, value : StoredAs(v, type, value) /\ SentWell(v, OneRow(type, value))
  <2> DEFINE value == Chars(s)
             got == ReadValue(OneRow("BLOB", value), 0)
  <2>1. Bytes(s).kind = "[]byte" /\ NilBytes.kind = "nil []byte"
    BY DEF Bytes, NilBytes
  <2>2. StoredAs(v, "BLOB", value)
    BY <1>5, OthersStored
  <2>3. value \in Contents("BLOB") /\ value.chars = s
    BY ColumnsHold DEF Chars
  <2> HIDE DEF value
  <2>4. IsVector(OneRow("BLOB", value)) /\ DataTrue("BLOB", value, got)
    BY <2>3, ArgumentsAreVectors DEF BoundTypes
  <2>5. got = Bytes(s)
    BY <2>3, <2>4 DEF DataTrue
  <2> HIDE DEF got
  <2>6. ReadBack(v, got)
    <3>1. CASE v = Bytes(s)
      BY <3>1, <2>1, <2>5 DEF ReadBack, AllKinds, SignedKinds, UnsignedKinds
    <3>2. CASE s = << >> /\ v = NilBytes
      BY <3>2, <2>1, <2>5 DEF ReadBack, AllKinds, SignedKinds, UnsignedKinds
    <3> QED
      BY <1>5, <3>1, <3>2
  <2> QED
    BY <2>2, <2>4, <2>6 DEF got
<1>6. CASE v \in {Nil, NilBytes, Struct, Error}
  <2>1. v = Nil \/ v = NilBytes
    BY <1>6, OthersStored
  <2>2. CASE v = NilBytes
    BY <2>2, <1>5 DEF CharStrings
  <2>3. CASE v = Nil
    <3> DEFINE got == ReadValue(OneRow("VARCHAR", SqlNull), 0)
    <3>1. v.kind = "nil" /\ StoredAs(v, "VARCHAR", SqlNull)
      BY <2>3, OthersStored DEF Nil
    <3>2. IsVector(OneRow("VARCHAR", SqlNull)) /\ got = v
      BY <2>3, ArgumentsAreVectors DEF BoundTypes
    <3> HIDE DEF got
    <3>3. ReadBack(v, got)
      BY <3>1, <3>2 DEF ReadBack, AllKinds, SignedKinds, UnsignedKinds
    <3> QED
      BY <3>1, <3>2, <3>3 DEF got
  <2> QED
    BY <2>1, <2>2, <2>3
<1>7. CASE IsTimeValue(v)
  <2>1. PICK t \in Int, z \in Int : v = Time(t, z)
    BY <1>7 DEF IsTimeValue
  <2> DEFINE value == [int |-> TimeToTimestamp(v)]
             got == ReadValue(OneRow("TIMESTAMP", value), 0)
             micros == t \div NanosPerMicro
  <2>2. v.kind = "time" /\ v.instant = t
    BY <2>1 DEF Time
  <2>3. StoredAs(v, "TIMESTAMP", value)
    BY <2>1, OthersStored
  <2>4. /\ TimeToTimestamp(v) \in Signed(Width)
        /\ micros \in Signed(Width) => TimeToTimestamp(v) = micros
    BY <2>1, TimesStored, WordsFit
  <2>5. value \in Contents("TIMESTAMP") /\ value.int = TimeToTimestamp(v)
    BY <2>4, ColumnsHold
  <2> HIDE DEF value
  <2>6. IsVector(OneRow("TIMESTAMP", value)) /\ DataTrue("TIMESTAMP", value, got)
    BY <2>5, ArgumentsAreVectors DEF BoundTypes
  <2>7. got = Utc(value.int * NanosPerMicro)
    <3>1. "TIMESTAMP" \in TimeTypes \ {"TIME_TZ"} /\ NanosOf("TIMESTAMP") = NanosPerMicro
      BY DEF TimeTypes, TimestampTypes, NanosOf
    <3> HIDE DEF got
    <3> QED
      BY <2>6, <3>1 DEF DataTrue
  <2> HIDE DEF got, micros
  <2>8. micros \in Signed(Width) => got = Utc(micros * NanosPerMicro)
    BY <2>4, <2>5, <2>7
  <2>9. v.instant \div NanosPerMicro = micros
    BY <2>2 DEF micros
  <2>10. ReadBack(v, got)
    BY <2>2, <2>8, <2>9 DEF ReadBack, AllKinds, SignedKinds, UnsignedKinds
  <2> QED
    BY <2>3, <2>6, <2>10 DEF got
<1> QED
  BY <1>1, <1>2, <1>3, <1>4, <1>5, <1>6, <1>7 DEF HasForm

-----------------------------------------------------------------------------
(* The invariant.                                                          *)

\* A value that was refused has no int64.  What is stored is a vector, and one
\* that an argument was stored in gives it back.  What was read is a row of it.
CellInv ==
  /\ cell.at \in {"nowhere", "refused", "stored", "read"}
  /\ cell.at = "refused" => cell.sent \in Arguments(Texts, Times) /\ Normalize(cell.sent) = Error
  /\ cell.at \in {"stored", "read"} =>
       /\ IsVector(cell.vector)
       /\ Len(cell.vector.rows) = 1 => SentWell(Plain(cell.sent), cell.vector)
  /\ cell.at = "read" =>
       /\ cell.row \in 0..1 /\ cell.row < Len(cell.vector.rows)
       /\ cell.got = ReadValue(cell.vector, cell.row)

LEMMA CellStarts == Init => CellInv
BY DEF Init, CellInv

LEMMA SendKeepsCell ==
  ASSUME NEW v \in Arguments(Texts, Times), Send(v)
  PROVE  CellInv'
<1> DEFINE bound == Bind(Normalize(v))
           vector == [type |-> bound.type, rows |-> <<bound.value>>]
<1>1. CASE Normalize(v) = Error
  <2>1. cell' = [at |-> "refused", sent |-> v]
    BY <1>1 DEF Send
  <2>2. cell'.at = "refused" /\ cell'.sent = v
    BY <2>1
  <2> QED
    BY <1>1, <2>2 DEF CellInv
<1>2. CASE Normalize(v) # Error
  <2>1. cell' = [at |-> "stored", sent |-> v, vector |-> vector]
    BY <1>2 DEF Send
  <2>2. HasForm(Plain(v)) /\ Normalize(v) = NormalizeBasic(Plain(v))
    BY PlainIsBasic, FormsOfValues
  <2>3. PICK type, value : /\ StoredAs(Plain(v), type, value)
                           /\ SentWell(Plain(v), OneRow(type, value))
    BY <1>2, <2>2, ValuesReadBack
  <2>4. bound = [type |-> type, value |-> value]
    BY <2>2, <2>3 DEF StoredAs
  <2>5. vector = OneRow(type, value)
    BY <2>4 DEF OneRow
  <2> HIDE DEF vector, bound
  <2>6. cell'.at = "stored" /\ cell'.sent = v /\ cell'.vector = vector
    BY <2>1
  <2>7. SentWell(Plain(v), vector) /\ IsVector(vector)
    BY <2>3, <2>5 DEF SentWell
  <2> QED
    BY <2>6, <2>7 DEF CellInv
<1> QED
  BY <1>1, <1>2

LEMMA ProduceKeepsCell ==
  ASSUME NEW type \in Types, Produce(type)
  PROVE  CellInv'
<1> DEFINE Row == Contents(type) \cup {SqlNull}
<1>1. PICK first, second \in Row :
        cell' = [at |-> "stored", sent |-> Nil,
                 vector |-> [type |-> type, rows |-> <<first, second>>]]
  BY DEF Produce
<1> DEFINE vector == [type |-> type, rows |-> <<first, second>>]
<1>2. vector.type = type /\ vector.rows = <<first, second>>
  OBVIOUS
<1> HIDE DEF vector, Row
<1>3. vector.rows \in Seq(Row) /\ Len(vector.rows) = 2
  BY <1>2
<1>4. IsVector(vector)
  BY <1>2, <1>3 DEF IsVector, Row
<1>5. cell'.at = "stored" /\ cell'.vector = vector
  BY <1>1 DEF vector
<1>6. Len(vector.rows) # 1
  BY <1>3
<1> HIDE DEF IsVector
<1> QED
  BY <1>4, <1>5, <1>6, Zenon DEF CellInv

LEMMA ReadKeepsCell ==
  ASSUME CellInv, NEW row \in 0..1, Read(row)
  PROVE  CellInv'
<1>1. cell.at = "stored" /\ row < Len(cell.vector.rows)
  BY DEF Read
<1> DEFINE got == ReadValue(cell.vector, row)
<1>2. cell' = [at |-> "read", sent |-> cell.sent, vector |-> cell.vector, row |-> row, got |-> got]
  BY DEF Read
<1>3. /\ cell'.at = "read" /\ cell'.sent = cell.sent /\ cell'.vector = cell.vector
      /\ cell'.row = row /\ cell'.got = got
  <2> HIDE DEF got
  <2> QED
    BY <1>2
<1> QED
  BY <1>1, <1>3 DEF CellInv

\* Whatever is in the cell was stored as its type demands and is read by
\* readValue.
THEOREM Invariance == Spec => []CellInv
<1>1. CellInv /\ [Next]_cell => CellInv'
  <2> SUFFICES ASSUME CellInv, [Next]_cell PROVE CellInv'
    OBVIOUS
  <2>1. ASSUME NEW v \in Arguments(Texts, Times), Send(v) PROVE CellInv'
    BY <2>1, SendKeepsCell
  <2>2. ASSUME NEW type \in Types, Produce(type) PROVE CellInv'
    BY <2>2, ProduceKeepsCell
  <2>3. ASSUME NEW row \in 0..1, Read(row) PROVE CellInv'
    BY <2>3, ReadKeepsCell
  <2>4. CASE UNCHANGED cell
    BY <2>4 DEF CellInv
  <2> QED
    BY <2>1, <2>2, <2>3, <2>4 DEF Next
<1> QED
  BY <1>1, CellStarts, PTL DEF Spec

-----------------------------------------------------------------------------
(* What follows from it.                                                   *)

LEMMA CellsRoundTrip == CellInv => DuckdbRoundTrip
<1> SUFFICES ASSUME CellInv PROVE DuckdbRoundTrip
  OBVIOUS
<1> DEFINE v == Plain(cell.sent)
           micros == v.instant \div NanosPerMicro
<1>1. ASSUME cell.at = "refused"
      PROVE  \/ v.kind \in {"struct", "error"}
             \/ v.kind \in {"uint", "uint64"} /\ v.int \notin Signed(Width)
  BY <1>1, PlainIsBasic, ValuesRefused DEF CellInv
<1>2. ASSUME cell.at = "read", Len(cell.vector.rows) = 1
      PROVE  ReadBack(v, cell.got)
  <2>1. SentWell(v, cell.vector) /\ cell.row = 0
    BY <1>2 DEF CellInv
  <2>2. cell.got = ReadValue(cell.vector, 0)
    BY <1>2, <2>1 DEF CellInv
  <2> QED
    BY <2>1, <2>2 DEF SentWell
<1> HIDE DEF v
<1>3. ASSUME ReadBack(v, cell.got)
      PROVE  CASE v.kind \in SignedKinds \cup UnsignedKinds -> cell.got = Number("int64", v.int)
               [] v.kind \in {"float32", "float64"} -> cell.got = Float("float64", v.float)
               [] v.kind = "string" -> cell.got = v \/ HasNul(v)
               [] v.kind = "nil []byte" -> cell.got = Bytes(<< >>)
               [] v.kind \in {"bool", "nil", "[]byte"} -> cell.got = v
               [] v.kind = "time" ->
                    micros \in Signed(Width) => cell.got = Utc(micros * NanosPerMicro)
  <2> HIDE DEF micros
  <2>1. CASE v.kind \in SignedKinds \cup UnsignedKinds
    BY <1>3, <2>1 DEF ReadBack, SignedKinds, UnsignedKinds
  <2>2. CASE v.kind \in {"float32", "float64"}
    BY <1>3, <2>2 DEF ReadBack, SignedKinds, UnsignedKinds
  <2>3. CASE v.kind = "string"
    BY <1>3, <2>3 DEF ReadBack, SignedKinds, UnsignedKinds
  <2>4. CASE v.kind = "nil []byte"
    BY <1>3, <2>4 DEF ReadBack, SignedKinds, UnsignedKinds
  <2>5. CASE v.kind \in {"bool", "nil", "[]byte"}
    BY <1>3, <2>5 DEF ReadBack, SignedKinds, UnsignedKinds
  <2>6. CASE v.kind = "time"
    BY <1>3, <2>6 DEF ReadBack, SignedKinds, UnsignedKinds, micros
  <2> QED
    BY <1>3, <2>1, <2>2, <2>3, <2>4, <2>5, <2>6 DEF ReadBack, AllKinds
<1> QED
  BY <1>1, <1>2, <1>3 DEF DuckdbRoundTrip, v

LEMMA CellsReadTrue == CellInv => RowsReadTrue
<1> SUFFICES ASSUME CellInv, cell.at = "read" PROVE RowsReadTrue
  BY DEF RowsReadTrue
<1> DEFINE type == cell.vector.type
           data == cell.vector.rows[cell.row + 1]
<1>1. IsVector(cell.vector) /\ cell.row \in 0..1 /\ cell.row < Len(cell.vector.rows)
      /\ cell.got = ReadValue(cell.vector, cell.row)
  BY DEF CellInv
<1>2. /\ data \in Contents(type) \cup {SqlNull} /\ type \in Types
      /\ data = SqlNull => cell.got = Nil
      /\ data # SqlNull /\ type \notin OtherTypes => cell.got = ReadData(type, data)
  BY <1>1, RowsAreFound DEF IsVector
<1> HIDE DEF type, data
<1>3. data # SqlNull /\ type \notin OtherTypes => DataTrue(type, data, cell.got)
  BY <1>2, DataIsRead
<1>4. type \in OtherTypes =>
        type \notin SignedTypes \cup UnsignedTypes \cup FloatTypes \cup TimeTypes
                    \cup {"BOOLEAN", "VARCHAR", "BLOB", "HUGEINT"}
  BY DEF OtherTypes, SignedTypes, UnsignedTypes, FloatTypes, TimeTypes, TimestampTypes
<1>5. CASE data # SqlNull /\ type \in OtherTypes
  BY <1>4, <1>5 DEF RowsReadTrue, type, data
<1>6. CASE data = SqlNull
  BY <1>2, <1>6 DEF RowsReadTrue, type, data
<1>7. CASE data # SqlNull /\ type \notin OtherTypes
  BY <1>3, <1>7 DEF RowsReadTrue, DataTrue, type, data
<1> QED
  BY <1>5, <1>6, <1>7

LEMMA CellsAnnounced == CellInv => ScanTypeTrue
<1> SUFFICES ASSUME CellInv, cell.at = "read" PROVE ScanTypeTrue
  BY DEF ScanTypeTrue
<1> DEFINE type == cell.vector.type
           data == cell.vector.rows[cell.row + 1]
<1>1. IsVector(cell.vector) /\ cell.row \in 0..1 /\ cell.row < Len(cell.vector.rows)
      /\ cell.got = ReadValue(cell.vector, cell.row)
  BY DEF CellInv
<1>2. /\ type \in Types
      /\ data = SqlNull => cell.got = Nil
      /\ data # SqlNull /\ type \in OtherTypes => cell.got = Str([unsupported |-> type])
      /\ data # SqlNull /\ type \notin OtherTypes => cell.got = ReadData(type, data)
  BY <1>1, RowsAreFound DEF IsVector
<1> HIDE DEF type, data
<1>3. Nil.kind = "nil" /\ \A t : Str(t).kind = "string"
  BY DEF Nil, Str
<1>4. type \in OtherTypes => ScanType(type) = "string"
  BY DEF ScanType, OtherTypes, SignedTypes, UnsignedTypes, FloatTypes, TimeTypes, TimestampTypes
<1>5. data # SqlNull /\ type \notin OtherTypes => cell.got.kind = ScanType(type)
  BY <1>2, KindsAreAnnounced
<1>6. cell.got.kind \in {ScanType(type), "nil"}
  BY <1>2, <1>3, <1>4, <1>5
<1>7. \A other \in Types :
        DatabaseTypeName(other) = DatabaseTypeName(type) => ScanType(other) = ScanType(type)
  BY <1>2, NamesTellKinds
<1> QED
  BY <1>6, <1>7 DEF ScanTypeTrue, type

\* What bindValue stored is what readValue answers: every integer that an int64
\* holds, every instant to the microsecond, strings, slices and no value.
THEOREM ValuesComeBack == Spec => []DuckdbRoundTrip
BY Invariance, CellsRoundTrip, PTL

\* readValue answers what is in its own row of the vector, for every type,
\* whatever the size of the rows and the sign of the time.
THEOREM RowsAreTrue == Spec => []RowsReadTrue
BY Invariance, CellsReadTrue, PTL

\* What Next answers is of the type that ColumnTypeScanType announced, and
\* columns of one name are announced alike.
THEOREM TypesAreAnnounced == Spec => []ScanTypeTrue
BY Invariance, CellsAnnounced, PTL
=============================================================================
