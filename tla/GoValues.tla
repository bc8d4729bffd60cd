----------------------------- MODULE GoValues -----------------------------
(***************************************************************************)
(* The Go values that both drivers take, and normalizeValue, which both    *)
(* have.  Words are small: an int64 has Width bits and the narrow integers *)
(* have NarrowBits.  A string is a sequence of characters, one of which is *)
(* NUL.  A driver.Valuer that gives another one is left out.               *)
(***************************************************************************)
EXTENDS Integers, Sequences

CONSTANTS Width, NarrowBits

ASSUME WidthsAssumption ==
  /\ Width \in Nat /\ NarrowBits \in Nat
  /\ 0 < NarrowBits /\ NarrowBits < Width

\* True of all such widths; the provers know nothing of powers.
ASSUME PowersAssumption ==
  /\ \A bits \in {Width, NarrowBits} :
       2 ^ (bits - 1) \in Nat \ {0} /\ 2 ^ bits = 2 * 2 ^ (bits - 1)
  /\ 2 ^ NarrowBits <= 2 ^ (Width - 1)

Signed(bits) == -(2 ^ (bits - 1)) .. 2 ^ (bits - 1) - 1
Unsigned(bits) == 0 .. 2 ^ bits - 1
ToSigned(n, bits) == ((n + 2 ^ (bits - 1)) % 2 ^ bits) - 2 ^ (bits - 1)
ToUnsigned(n, bits) == n % 2 ^ bits

-----------------------------------------------------------------------------
(* Values and errors.                                                      *)

Number(kind, n) == [kind |-> kind, int |-> n]
Float(kind, x) == [kind |-> kind, float |-> x]
Bool(b) == [kind |-> "bool", bool |-> b]
Str(text) == [kind |-> "string", text |-> text]
Bytes(bytes) == [kind |-> "[]byte", bytes |-> bytes]
Time(instant, offset) == [kind |-> "time", instant |-> instant, offset |-> offset]
Nil == [kind |-> "nil"]
NilBytes == [kind |-> "nil []byte"]
Struct == [kind |-> "struct"]
Valuer(value) == [kind |-> "valuer", value |-> value]
Error == [kind |-> "error"]

Chars(s) == [chars |-> s]

SignedKinds == {"int", "int8", "int64"}
UnsignedKinds == {"uint", "uint8", "uint64"}
BitsOf(kind) == IF kind \in {"int8", "uint8"} THEN NarrowBits ELSE Width

\* purego passes a string as a C string, and the library looks for its end: a
\* NUL ends it.
CString(text) ==
  IF "chars" \notin DOMAIN text THEN text
  ELSE LET nuls == {i \in DOMAIN text.chars : text.chars[i] = "NUL"}
       IN  IF nuls = {} THEN text
           ELSE Chars(SubSeq(text.chars, 1, (CHOOSE i \in nuls : \A j \in nuls : i <= j) - 1))

-----------------------------------------------------------------------------
(* Arguments.                                                              *)

NormalizeBasic(v) ==
  CASE v.kind \in SignedKinds \cup {"uint8"} -> Number("int64", v.int)
    [] v.kind \in {"uint", "uint64"} ->
         IF v.int \in Signed(Width) THEN Number("int64", v.int) ELSE Error
    [] v.kind \in {"float32", "float64"} -> Float("float64", v.float)
    [] v.kind \in {"struct", "error"} -> Error
    [] OTHER -> v

\* normalizeValue: CheckNamedValue runs it on every argument.
Normalize(v) == NormalizeBasic(IF v.kind = "valuer" THEN v.value ELSE v)

-----------------------------------------------------------------------------
(* The arguments tried.                                                    *)

CharStrings == {<< >>, <<"a">>, <<"a", "NUL", "a">>}

NoValues == {Nil, NilBytes, Struct, Error}
Bools == {Bool(b) : b \in BOOLEAN}
SignedValues == UNION {{Number(k, n) : n \in Signed(BitsOf(k))} : k \in SignedKinds}
UnsignedValues == UNION {{Number(k, n) : n \in Unsigned(BitsOf(k))} : k \in UnsignedKinds}
Floats == {Float(k, x) : k \in {"float32", "float64"}, x \in {0, 1}}
Strings(texts) == {Str(t) : t \in texts}
Slices == {Bytes(s) : s \in CharStrings}

BasicValues(texts, times) ==
  NoValues \cup Bools \cup SignedValues \cup UnsignedValues \cup Floats \cup Strings(texts)
  \cup Slices \cup times

Arguments(texts, times) ==
  BasicValues(texts, times) \cup {Valuer(v) : v \in BasicValues(texts, times)}

\* The value inside a Valuer.
Plain(v) == IF v.kind = "valuer" THEN v.value ELSE v

HasNul(v) ==
  /\ v.kind = "string"
  /\ "chars" \in DOMAIN v.text
  /\ \E i \in DOMAIN v.text.chars : v.text.chars[i] = "NUL"

\* The number of a Go value that has one.
NumberOf(v) == CASE v.kind \in SignedKinds \cup UnsignedKinds -> v.int
                 [] v.kind = "bool" -> IF v.bool THEN 1 ELSE 0
============================================================================
