--------------------------- MODULE SqliteValues ---------------------------
(***************************************************************************)
(* Values on their way between Go and SQLite: sqlite3.go.                  *)
(*                                                                         *)
(* The text of a time is a record with the local time it shows and, if it  *)
(* shows one, the offset from UTC; times and offsets count half minutes,   *)
(* and every local time outside 0..LastYear needs more than four digits of *)
(* a year, or a sign.                                                      *)
(*                                                                         *)
(* Left out: what the affinity of a column does to a value.                *)
(***************************************************************************)
EXTENDS GoValues, SequencesExt

CONSTANTS
  LastYear, \* the last time that is written with four digits for its year
  OffsetOf  \* of a location, from UTC

ASSUME LastYearAssumption == LastYear \in Nat
ASSUME OffsetsAssumption == OffsetOf \in [{"auto", "zone"} -> Int]

Integer(n) == [type |-> "INTEGER", int |-> n]
Real(x) == [type |-> "FLOAT", float |-> x]
Text(text) == [type |-> "TEXT", text |-> text]
Blob(bytes) == [type |-> "BLOB", bytes |-> bytes]
SqlNull == [type |-> "NULL"]
SqlError == [type |-> "error"]

Shown(local) == [local |-> local]
ShownWithZone(local, zone) == [local |-> local, zone |-> zone]

-----------------------------------------------------------------------------
(* Parameters.                                                             *)

\* The layout -07:00 shows whole minutes only.
ZoneShown(offset) == IF offset >= 0 THEN (offset \div 2) * 2 ELSE -((-offset \div 2) * 2)
FormatTime(t) == ShownWithZone(t.instant + t.offset, ZoneShown(t.offset))

\* bindValue of a normalised value: an empty slice has no first byte, and its
\* null pointer is SQL NULL.
Bind(v) ==
  CASE v.kind = "nil" -> SqlNull
    [] v.kind = "int64" -> Integer(v.int)
    [] v.kind = "float64" -> Real(v.float)
    [] v.kind = "bool" -> Integer(IF v.bool THEN 1 ELSE 0)
    [] v.kind = "string" -> Text(CString(v.text))
    [] v.kind = "nil []byte" -> SqlNull
    [] v.kind = "[]byte" -> IF v.bytes = << >> THEN SqlNull ELSE Blob(v.bytes)
    [] v.kind = "time" -> Text(FormatTime(v))

-----------------------------------------------------------------------------
(* Columns.                                                                *)

LooksLikeTimeType(declared) == declared \in {"DATE", "DATETIME", "TIMESTAMP"}

\* Mutation: the offset in the text is not looked at.
ParseTimeLocal(text, location) ==
  IF "local" \in DOMAIN text /\ text.local \in 0..LastYear
    THEN Time(text.local - OffsetOf[location], OffsetOf[location])
    ELSE Error

\* parseSQLiteTime: the layouts with an offset, then those in the location.
ParseTime(text, location) ==
  IF "local" \in DOMAIN text /\ text.local \in 0..LastYear
    THEN LET offset == IF "zone" \in DOMAIN text THEN text.zone ELSE OffsetOf[location]
         IN  Time(text.local - offset, offset)
    ELSE Error

\* columnValue.
ColumnValue(column, declared, location) ==
  CASE column.type = "INTEGER" -> Number("int64", column.int)
    [] column.type = "FLOAT" -> Float("float64", column.float)
    [] column.type = "TEXT" ->
         LET text == CString(column.text)
             time == IF location # "none" /\ LooksLikeTimeType(declared)
                       THEN ParseTime(text, location) ELSE Error
         IN  IF time = Error THEN Str(text) ELSE time
    [] column.type = "BLOB" -> IF column.bytes = << >> THEN NilBytes ELSE Bytes(column.bytes)
    [] column.type = "NULL" -> Nil

-----------------------------------------------------------------------------
(* Registered functions.                                                   *)

\* What sqlite3_value_text, _int64, _double and _blob make of an argument.
AsText(arg) == CASE arg.type = "TEXT" -> CString(arg.text)
                 [] arg.type = "INTEGER" -> [digits |-> arg.int]
                 [] arg.type = "FLOAT" -> [decimal |-> arg.float]
                 [] arg.type = "BLOB" -> CString(Chars(arg.bytes))
                 [] arg.type = "NULL" -> Chars(<< >>)
AsInt(arg) == CASE arg.type = "INTEGER" -> arg.int
                [] arg.type = "FLOAT" -> arg.float
                [] arg.type = "TEXT" /\ "local" \in DOMAIN arg.text -> arg.text.local
                [] OTHER -> 0
AsFloat(arg) == AsInt(arg)
AsBytes(arg) ==
  CASE arg.type = "BLOB" -> arg.bytes
    [] arg.type = "TEXT" -> IF "chars" \in DOMAIN arg.text THEN arg.text.chars ELSE <<"time">>
    [] arg.type \in {"INTEGER", "FLOAT"} -> <<"digits">>
    [] arg.type = "NULL" -> << >>

\* Mutation: a negative number goes to an unsigned parameter.
DecodeUnsignedUnchecked(n, kind) == Number(kind, ToUnsigned(n, BitsOf(kind)))

DecodeUnsigned(n, kind) ==
  IF n < 0 THEN Error ELSE Number(kind, ToUnsigned(n, BitsOf(kind)))

\* buildValueDecoder, for a parameter of a kind.  reflect's Convert cuts a
\* number that a narrow integer cannot hold.
Decode(arg, kind) ==
  CASE kind = "string" -> Str(AsText(arg))
    [] kind = "[]byte" -> IF AsBytes(arg) = << >> THEN NilBytes ELSE Bytes(AsBytes(arg))
    [] kind = "bool" -> Bool(AsInt(arg) # 0)
    [] kind \in SignedKinds -> Number(kind, ToSigned(AsInt(arg), BitsOf(kind)))
    [] kind \in UnsignedKinds -> DecodeUnsigned(AsInt(arg), kind)
    [] kind \in {"float32", "float64"} -> Float(kind, AsFloat(arg))
    [] kind = "time" -> ParseTime(AsText(arg), "auto")

EncodeBasic(v) ==
  CASE v.kind = "string" -> Text(CString(v.text))
    [] v.kind = "nil []byte" -> SqlNull
    [] v.kind = "[]byte" -> IF v.bytes = << >> THEN SqlNull ELSE Blob(v.bytes)
    [] v.kind = "bool" -> Integer(IF v.bool THEN 1 ELSE 0)
    [] v.kind \in SignedKinds -> Integer(v.int)
    [] v.kind \in UnsignedKinds -> Integer(ToSigned(v.int, Width))
    [] v.kind \in {"float32", "float64"} -> Real(v.float)
    [] v.kind = "time" -> Text(FormatTime(v))
    [] OTHER -> SqlError

\* What a function returned: a value inside interfaces and pointers, from the
\* outside in, the innermost of which may be nil, and whether it returned an
\* error beside it.  A function need not return anything.
NoResult == [wrap |-> << >>, value |-> Nil, failed |-> FALSE]

\* One interface is opened, then one pointer; a nil interface cannot be.
Opened(result, wrap) ==
  IF /\ result.wrap # << >>
     /\ Head(result.wrap) = wrap
     /\ wrap = "any" => ~(result.wrap = <<"any">> /\ result.value = Nil)
    THEN [result EXCEPT !.wrap = Tail(@)] ELSE result

\* Mutation: pointers are opened before interfaces.
EncodePointerFirst(result) ==
  LET inner == Opened(Opened(result, "pointer"), "any")
  IN  CASE result.failed \/ inner.wrap # << >> -> SqlError
        [] ~result.failed /\ inner.wrap = << >> /\ inner.value = Nil -> SqlNull
        [] OTHER -> EncodeBasic(inner.value)

\* buildReturnEncoder and encodeResultValue: the error of the function first.
Encode(result) ==
  LET inner == Opened(Opened(result, "any"), "pointer")
  IN  CASE result.failed \/ inner.wrap # << >> -> SqlError
        [] ~result.failed /\ inner.wrap = << >> /\ inner.value = Nil -> SqlNull
        [] OTHER -> EncodeBasic(inner.value)
============================================================================
