--------------------------- MODULE DuckdbValues ---------------------------
(***************************************************************************)
(* Values on their way between Go and DuckDB: duckdb.go, and the reading   *)
(* of vectors in duckdbsys/load.go.                                        *)
(*                                                                         *)
(* An argument is bound and stored in a column of its own type, or a query *)
(* produces a vector of any type; Rows.Next reads one row of the vector.   *)
(* A vector is memory: rows of a fixed size, one after the other, which    *)
(* the driver finds by its own multiplication.                             *)
(*                                                                         *)
(* Small numbers: a half of a hugeint and an int64 have Width bits, and    *)
(* times count nanoseconds, of which few make a second.                    *)
(***************************************************************************)
EXTENDS GoValues

CONSTANTS
  DecimalDigits, \* what the larger half of a hugeint needs; 20 in the code
  InlineLimit,   \* a string this short lies in the vector itself; 12 in the code
  NanosPerMicro, MicrosPerMilli, MillisPerSecond,
  TimeBound      \* how far from 1970 the times lie that are sent, in nanoseconds

ASSUME DigitsAssumption ==
  /\ DecimalDigits \in Nat \ {0}
  /\ 10 ^ (DecimalDigits - 1) <= 2 ^ Width - 1 /\ 2 ^ Width - 1 < 10 ^ DecimalDigits
ASSUME UnitsAssumption ==
  /\ {NanosPerMicro, MicrosPerMilli, MillisPerSecond} \subseteq Nat \ {0}
  /\ InlineLimit \in Nat /\ TimeBound \in Nat

VARIABLE cell \* one value on its way

MicrosPerSecond == MicrosPerMilli * MillisPerSecond
NanosPerSecond == NanosPerMicro * MicrosPerSecond

\* Go's / and % round towards zero.
Quot(a, b) == IF a >= 0 THEN a \div b ELSE -((-a) \div b)
Rem(a, b) == a - b * Quot(a, b)

-----------------------------------------------------------------------------
(* DuckDB's side.                                                          *)

SqlNull == [null |-> TRUE]
Garbage == [garbage |-> TRUE]

SignedTypes == {"TINYINT", "SMALLINT", "INTEGER", "BIGINT"}
UnsignedTypes == {"UTINYINT", "USMALLINT", "UINTEGER", "UBIGINT"}
FloatTypes == {"FLOAT", "DOUBLE"}
TimestampTypes == {"TIMESTAMP", "TIMESTAMP_TZ", "TIMESTAMP_S", "TIMESTAMP_MS", "TIMESTAMP_NS"}
TimeTypes == TimestampTypes \cup {"DATE", "TIME", "TIME_TZ"}
OtherTypes == {"INTERVAL", "UHUGEINT", "UUID", "LIST"}
Types == {"BOOLEAN", "VARCHAR", "BLOB", "HUGEINT", "DECIMAL"}
         \cup SignedTypes \cup UnsignedTypes \cup FloatTypes \cup TimeTypes \cup OtherTypes

WidthOf(type) == IF type \in {"BIGINT", "UBIGINT"} THEN Width ELSE NarrowBits

\* What a column of a type holds: numbers and points in time as DuckDB counts
\* them, a TIME_TZ packed with its offset into one number.
Contents(type) ==
  CASE type = "BOOLEAN" -> {[bool |-> b] : b \in BOOLEAN}
    [] type \in SignedTypes -> {[int |-> n] : n \in Signed(WidthOf(type))}
    [] type \in UnsignedTypes -> {[int |-> n] : n \in Unsigned(WidthOf(type))}
    [] type \in FloatTypes -> {[float |-> x] : x \in {0, 1}}
    [] type \in {"VARCHAR", "BLOB"} -> {Chars(s) : s \in CharStrings}
    [] type \in TimestampTypes -> {[int |-> n] : n \in Signed(Width)}
    [] type = "DATE" -> {[int |-> n] : n \in Signed(NarrowBits)}
    [] type = "TIME" -> {[int |-> n] : n \in 0..MicrosPerSecond}
    [] type = "TIME_TZ" -> {[micros |-> n, zone |-> z] : n \in 0..MicrosPerSecond, z \in {0, 1}}
    [] type = "HUGEINT" -> {[upper |-> u, lower |-> l] : u \in Signed(Width), l \in Unsigned(Width)}
    [] type = "DECIMAL" -> {[unscaled |-> n, scale |-> c] : n \in Signed(Width), c \in {0, 1}}
    [] type \in OtherTypes -> {[other |-> type]}

\* Bytes of a row.
SizeOf(type) ==
  CASE type \in {"BOOLEAN", "TINYINT", "UTINYINT"} -> 1
    [] type \in {"SMALLINT", "USMALLINT"} -> 2
    [] type \in {"INTEGER", "UINTEGER", "FLOAT", "DATE"} -> 4
    [] type \in {"VARCHAR", "BLOB", "HUGEINT", "INTERVAL", "UHUGEINT", "UUID", "LIST"} -> 16
    [] OTHER -> 8

\* What lies at an offset of a vector.
At(vector, offset) ==
  LET row == offset \div SizeOf(vector.type)
  IN  IF offset % SizeOf(vector.type) = 0 /\ row < Len(vector.rows)
        THEN vector.rows[row + 1] ELSE Garbage

\* A duckdb_string_t.
StringT(chars) ==
  [length |-> Len(chars),
   inline |-> IF Len(chars) <= InlineLimit THEN chars ELSE <<"garbage">>,
   pointer |-> IF Len(chars) <= InlineLimit THEN <<"garbage">> ELSE chars]

\* duckdb_get_type_id of a decimal's type: not the one it is stored in.
DecimalTypeId == "DECIMAL"

-----------------------------------------------------------------------------
(* Arguments.                                                              *)

\* Mutation: UnixNano()/1000, which rounds towards zero.
TimeToTimestampTruncated(t) == ToSigned(Quot(t.instant, NanosPerMicro), Width)

\* t.Unix()*1_000_000 + int64(t.Nanosecond())/1000; Unix and Nanosecond round
\* down.  Far from 1970 the product overflows.
TimeToTimestamp(t) ==
  ToSigned((t.instant \div NanosPerSecond) * MicrosPerSecond
           + Quot(t.instant % NanosPerSecond, NanosPerMicro), Width)

\* bindValue of a normalised value.
Bind(v) ==
  CASE v.kind = "nil" -> [type |-> "VARCHAR", value |-> SqlNull]
    [] v.kind = "bool" -> [type |-> "BOOLEAN", value |-> [bool |-> v.bool]]
    [] v.kind = "int64" -> [type |-> "BIGINT", value |-> [int |-> v.int]]
    [] v.kind = "float64" -> [type |-> "DOUBLE", value |-> [float |-> v.float]]
    [] v.kind = "string" -> [type |-> "VARCHAR", value |-> CString(v.text)]
    [] v.kind = "[]byte" -> [type |-> "BLOB", value |-> Chars(v.bytes)]
    [] v.kind = "nil []byte" -> [type |-> "BLOB", value |-> Chars(<< >>)]
    [] v.kind = "time" -> [type |-> "TIMESTAMP", value |-> [int |-> TimeToTimestamp(v)]]

-----------------------------------------------------------------------------
(* Columns.                                                                *)

Utc(instant) == Time(instant, 0)

TimestampToTime(micros) ==
  LET seconds == Quot(micros, MicrosPerSecond)
      rest == Rem(micros, MicrosPerSecond)
  IN  IF rest < 0 THEN Utc((seconds - 1) * NanosPerSecond + (rest + MicrosPerSecond) * NanosPerMicro)
      ELSE Utc(seconds * NanosPerSecond + rest * NanosPerMicro)

MillisToTime(millis) ==
  Utc(Quot(millis, MillisPerSecond) * NanosPerSecond
      + Rem(millis, MillisPerSecond) * MicrosPerMilli * NanosPerMicro)

\* The text of two numbers, the second one filled with zeros.
Digits(high, low) == [digits |-> high * 10 ^ DecimalDigits + low]
Minus(text) == [digits |-> -text.digits]

HugeintToString(h) ==
  LET negLower == (2 ^ Width - h.lower) % 2 ^ Width
      negUpper == -h.upper - 1
  IN  CASE h.upper = 0 -> [digits |-> h.lower]
        [] h.upper < 0 /\ h.lower = 0 ->
             \* -upper of the least int64 is itself
             IF -h.upper \in Signed(Width) THEN [digits |-> h.upper * 10 ^ (DecimalDigits - 1)]
             ELSE [malformed |-> TRUE]
        [] h.upper < 0 /\ h.lower # 0 ->
             IF negUpper = 0 THEN [digits |-> -negLower] ELSE Minus(Digits(negUpper, negLower))
        [] h.upper > 0 -> Digits(h.upper, h.lower)

\* An integer where the scale is zero, and the text of a fraction elsewhere.
ReadDecimalValue(d) ==
  IF DecimalTypeId = "BIGINT"
    THEN IF d.scale = 0 THEN Number("int64", d.unscaled) ELSE Str([fraction |-> d])
    ELSE Str([digits |-> 0])

\* Mutation: rows of less than four bytes are taken for bytes.
StrideNarrow(type) ==
  CASE type \in {"BOOLEAN", "TINYINT", "UTINYINT", "SMALLINT", "USMALLINT"} -> 1
    [] type \in {"INTEGER", "UINTEGER", "FLOAT", "DATE"} -> 4
    [] type \in {"VARCHAR", "BLOB", "HUGEINT"} -> 16
    [] OTHER -> 8

\* The multiplications of readValue and ReadStringFromVector.
Stride(type) ==
  CASE type \in {"BOOLEAN", "TINYINT", "UTINYINT"} -> 1
    [] type \in {"SMALLINT", "USMALLINT"} -> 2
    [] type \in {"INTEGER", "UINTEGER", "FLOAT", "DATE"} -> 4
    [] type \in {"VARCHAR", "BLOB", "HUGEINT"} -> 16
    [] OTHER -> 8

\* ReadStringFromVector and ReadBlobFromVector: the length tells where it is.
ReadChars(s) == IF s.length <= InlineLimit THEN s.inline ELSE s.pointer

\* readValue of a row that is valid.  A date and a time of day count from the
\* epoch here; a TIME_TZ is read as if it were a TIME.
ReadData(type, data) ==
  CASE type = "BOOLEAN" -> Bool(data.bool)
    [] type \in SignedTypes \cup UnsignedTypes -> Number("int64", ToSigned(data.int, Width))
    [] type \in FloatTypes -> Float("float64", data.float)
    [] type = "VARCHAR" -> Str(Chars(ReadChars(StringT(data.chars))))
    [] type = "BLOB" -> Bytes(ReadChars(StringT(data.chars)))
    [] type \in {"TIMESTAMP", "TIMESTAMP_TZ"} -> TimestampToTime(data.int)
    [] type = "TIMESTAMP_S" -> Utc(data.int * NanosPerSecond)
    [] type = "TIMESTAMP_MS" -> MillisToTime(data.int)
    [] type = "TIMESTAMP_NS" -> Utc(data.int)
    [] type \in {"DATE", "TIME"} -> Utc(data.int)
    [] type = "TIME_TZ" -> Utc(data.micros * 2 + data.zone)
    [] type = "HUGEINT" -> Str(HugeintToString(data))
    [] type = "DECIMAL" -> ReadDecimalValue(data)

\* The validity of a row lies apart from its data, which the types that are not
\* supported do not look at.  What lies elsewhere is anything: Error here.
ReadValue(vector, row) ==
  LET data == At(vector, row * Stride(vector.type))
  IN  CASE vector.rows[row + 1] = SqlNull -> Nil
        [] vector.rows[row + 1] # SqlNull /\ vector.type \in OtherTypes ->
             Str([unsupported |-> vector.type])
        [] OTHER -> IF data \in {SqlNull, Garbage} THEN Error ELSE ReadData(vector.type, data)

\* Mutation: a type left out of the long case.
ScanTypeForgets(type) ==
  CASE type = "BOOLEAN" -> "bool"
    [] type \in SignedTypes \cup UnsignedTypes -> "int64"
    [] type \in FloatTypes -> "float64"
    [] type \in TimeTypes \ {"TIME_TZ"} -> "time"
    [] type = "BLOB" -> "[]byte"
    [] OTHER -> "string"

\* ColumnTypeScanType, as the kind of a Go value.
ScanType(type) ==
  CASE type = "BOOLEAN" -> "bool"
    [] type \in SignedTypes \cup UnsignedTypes -> "int64"
    [] type \in FloatTypes -> "float64"
    [] type \in TimeTypes -> "time"
    [] type = "BLOB" -> "[]byte"
    [] OTHER -> "string"

DatabaseTypeName(type) ==
  CASE type \in TimestampTypes -> "TIMESTAMP"
    [] type \in {"TIME", "TIME_TZ"} -> "TIME"
    [] type \in OtherTypes \ {"INTERVAL"} -> "UNKNOWN"
    [] OTHER -> type

-----------------------------------------------------------------------------
Init == cell = [at |-> "nowhere"]

Texts == {Chars(s) : s \in CharStrings}
Times == {Time(t, z) : t \in -TimeBound..TimeBound, z \in {0, 2}}

\* Exec with one argument, bound by BindVarchar and its like to a column of its type.
Send(v) ==
  /\ cell.at = "nowhere"
  /\ cell' = IF Normalize(v) = Error THEN [at |-> "refused", sent |-> v]
             ELSE LET bound == Bind(Normalize(v))
                  IN  [at |-> "stored", sent |-> v,
                       vector |-> [type |-> bound.type, rows |-> <<bound.value>>]]

\* A query of a column of any type: a row before the one looked at.
Produce(type) ==
  /\ cell.at = "nowhere"
  /\ \E first, second \in Contents(type) \cup {SqlNull} :
       /\ first \in {SqlNull, CHOOSE v \in Contents(type) : TRUE}
       /\ cell' = [at |-> "stored", sent |-> Nil, vector |-> [type |-> type, rows |-> <<first, second>>]]

\* Rows.Next.
Read(row) ==
  /\ cell.at = "stored"
  /\ row < Len(cell.vector.rows)
  /\ cell' = [at |-> "read", sent |-> cell.sent, vector |-> cell.vector, row |-> row,
              got |-> ReadValue(cell.vector, row)]

Next ==
  \/ \E v \in Arguments(Texts, Times) : Send(v)
  \/ \E type \in Types : Produce(type)
  \/ \E row \in 0..1 : Read(row)

Spec == Init /\ [][Next]_cell

-----------------------------------------------------------------------------
\* A value that was stored is read back: integers as the same int64, a time as
\* the same instant in UTC, without its nanoseconds, and no value is refused
\* that an int64 can hold.  Not claimed: a string with a NUL, which is cut
\* there; a time too far away for the microseconds of an int64.  A nil slice
\* comes back as an empty one, unlike in SQLite.
DuckdbRoundTrip ==
  LET v == Plain(cell.sent)
      micros == v.instant \div NanosPerMicro
  IN  /\ cell.at = "refused" =>
           \/ v.kind \in {"struct", "error"}
           \/ v.kind \in {"uint", "uint64"} /\ v.int \notin Signed(Width)
      /\ cell.at = "read" /\ Len(cell.vector.rows) = 1 =>
           CASE v.kind \in SignedKinds \cup UnsignedKinds -> cell.got = Number("int64", v.int)
             [] v.kind \in {"float32", "float64"} -> cell.got = Float("float64", v.float)
             [] v.kind = "string" -> cell.got = v \/ HasNul(v)
             [] v.kind = "nil []byte" -> cell.got = Bytes(<< >>)
             [] v.kind \in {"bool", "nil", "[]byte"} -> cell.got = v
             [] v.kind = "time" ->
                  micros \in Signed(Width) => cell.got = Utc(micros * NanosPerMicro)

\* What the number of a cell means.
NanosOf(type) ==
  CASE type \in {"TIMESTAMP", "TIMESTAMP_TZ"} -> NanosPerMicro
    [] type = "TIMESTAMP_S" -> NanosPerSecond
    [] type = "TIMESTAMP_MS" -> NanosPerMicro * MicrosPerMilli
    [] OTHER -> 1

HugeintValue(h) == h.upper * 2 ^ Width + h.lower

\* Rows.Next answers what is in its own row of the vector, for every type and
\* the rows around it, before 1970 too.  Not claimed: a UBIGINT that no int64
\* holds, which comes out negative; a HUGEINT of more than Width bits; a
\* DECIMAL, which is "0"; a TIME_TZ; the types that are not supported.
RowsReadTrue ==
  cell.at = "read" =>
    LET type == cell.vector.type
        data == cell.vector.rows[cell.row + 1]
    IN  CASE data = SqlNull -> cell.got = Nil
          [] data # SqlNull /\ type \in SignedTypes \cup UnsignedTypes ->
               cell.got = Number("int64", data.int) \/ data.int \notin Signed(Width)
          [] data # SqlNull /\ type = "BOOLEAN" -> cell.got = Bool(data.bool)
          [] data # SqlNull /\ type \in FloatTypes -> cell.got = Float("float64", data.float)
          [] data # SqlNull /\ type = "VARCHAR" -> cell.got = Str(data)
          [] data # SqlNull /\ type = "BLOB" -> cell.got = Bytes(data.chars)
          [] data # SqlNull /\ type \in TimeTypes \ {"TIME_TZ"} ->
               cell.got = Utc(data.int * NanosOf(type))
          [] data # SqlNull /\ type = "HUGEINT" ->
               HugeintValue(data) \in -(2 ^ Width - 1) .. 2 ^ Width - 1 =>
                 cell.got = Str([digits |-> HugeintValue(data)])
          [] OTHER -> TRUE

\* ColumnTypeScanType and readValue are two switch statements over the same
\* types: what Next answers has the type that was announced for its column,
\* and columns of one type name are announced alike.
ScanTypeTrue ==
  cell.at = "read" =>
    LET type == cell.vector.type
    IN  /\ cell.got.kind \in {ScanType(type), "nil"}
        /\ \A other \in Types :
             DatabaseTypeName(other) = DatabaseTypeName(type) => ScanType(other) = ScanType(type)

\* generated.go says of a HUGEINT: "Its value is upper * 2^64 + lower."  Left out
\* is the least HUGEINT, whose upper half has no negative: its text has two
\* minus signs and is no number.
HugeintTextIsValue ==
  LET h == cell.vector.rows[cell.row + 1]
  IN  /\ cell.at = "read" /\ cell.vector.type = "HUGEINT" /\ cell.got # Nil
      /\ h.lower = 0 => -h.upper \in Signed(Width)
      => cell.got = Str([digits |-> HugeintValue(h)])
============================================================================
