--------------------------- MODULE SqliteSession ---------------------------
(***************************************************************************)
(* A data source name, the connection it opens, and the values that go     *)
(* through that connection: SqliteDsn, SqliteParams and SqliteValues       *)
(* together.  A value is bound and stored; it is read back from a column,  *)
(* or handed to a registered function whose result is read.  Beside it a   *)
(* statement with several parameters is called again and again.            *)
(***************************************************************************)
EXTENDS SqliteDsn, SqliteValues, SqliteParams

VARIABLE row \* one value on its way

vars == <<dsnVars, row, statement>>

NoRow == [at |-> "nowhere"]

Init == DsnInit /\ row = NoRow /\ ParamsInit

-----------------------------------------------------------------------------
(* The values tried.                                                       *)

Texts == {Chars(s) : s \in CharStrings} \cup {Shown(n) : n \in {1, LastYear + 1}} \cup {ShownWithZone(1, 2)}
Times == {Time(t, z) : t \in -2..(LastYear + 2), z \in {0, 2, 3, -3}}
GoArguments == Arguments(Texts, Times)

Declared == {"", "DATETIME"}

ParameterKinds ==
  SignedKinds \cup UnsignedKinds \cup {"string", "[]byte", "bool", "float32", "float64", "time"}

\* What a function may return: what it was given, or another value, as it is,
\* in an interface, behind a pointer, both, or behind two pointers; a nil in
\* place of each; nothing.  With each value it may return an error.
Wraps == {<< >>, <<"any">>, <<"pointer">>, <<"any", "pointer">>, <<"pointer", "pointer">>}
ResultValues(seen) == {seen, Struct, Bytes(<< >>), Number("uint64", 2 ^ Width - 1)}
Results(seen) ==
  {[wrap |-> w, value |-> v, failed |-> f] : w \in Wraps, v \in ResultValues(seen), f \in BOOLEAN}
  \cup {[wrap |-> w, value |-> Nil, failed |-> f] : w \in Wraps \ {<< >>}, f \in BOOLEAN}
  \cup {NoResult}

-----------------------------------------------------------------------------
\* Nothing but the location of a connection matters to a value, and nothing at
\* all to its parameters: the others are not tried again (bounds).
Talking ==
  /\ pc = "ready"
  /\ cfg = [DefaultConfig EXCEPT !.location = cfg.location]
  /\ statement = NoStatement

Calling == pc = "ready" /\ cfg = DefaultConfig /\ row = NoRow

\* Exec with one argument.
Send(v, declared) ==
  /\ Talking
  /\ row.at \in {"nowhere", "read", "refused"}
  /\ row' = IF Normalize(v) = Error THEN [at |-> "refused", sent |-> v]
            ELSE [at |-> "stored", sent |-> v, declared |-> declared, stored |-> Bind(Normalize(v))]
  /\ UNCHANGED <<dsnVars, statement>>

\* Rows.Next.
Receive ==
  /\ row.at = "stored"
  /\ row' = [at |-> "read", sent |-> row.sent, declared |-> row.declared,
             got |-> ColumnValue(row.stored, row.declared, cfg.location)]
  /\ UNCHANGED <<dsnVars, statement>>

\* The value is the argument of a registered function.
Call(kind) ==
  /\ row.at = "stored"
  /\ row' = [at |-> "called", sent |-> row.sent, argument |-> row.stored, kind |-> kind,
             seen |-> Decode(row.stored, kind)]
  /\ UNCHANGED <<dsnVars, statement>>

\* The function returns, unless its argument was refused.
Return ==
  /\ row.at = "called"
  /\ row.seen # Error
  /\ \E result \in Results(row.seen) :
       row' = [at |-> "answered", result |-> result, answer |-> Encode(result)]
  /\ UNCHANGED <<dsnVars, statement>>

Next ==
  \/ DsnNext /\ UNCHANGED <<row, statement>>
  \/ Calling /\ ParamsNext /\ UNCHANGED <<dsnVars, row>>
  \/ \E v \in GoArguments, declared \in Declared : Send(v, declared)
  \/ Receive
  \/ \E kind \in ParameterKinds : Call(kind)
  \/ Return

Spec == Init /\ [][Next]_vars

-----------------------------------------------------------------------------
TypeOK ==
  /\ pc \in {"parse", "refused", "parsed", "timeout", "foreignKeys", "journalMode", "synchronous",
             "hook", "ready", "failed"}
  /\ todo \subseteq DOMAIN dsn.options
  /\ cfg.flags \subseteq {"READONLY", "READWRITE", "CREATE", "MEMORY", "URI", "FULLMUTEX"}
  /\ cfg.busyTimeout \in Signed(IntWidth)
  /\ lib.handle \in {"none", "open", "closed"}
  /\ row.at \in {"nowhere", "refused", "stored", "read", "called", "answered"}
  /\ statement.at \in {"none", "prepared", "binding", "ran", "failed"}
  /\ DOMAIN statement.bound = DOMAIN statement.params
  /\ row.at = "stored" => row.stored.type \in {"INTEGER", "FLOAT", "TEXT", "BLOB", "NULL"}

\* A time that its text tells exactly.
Tellable(t) == t.offset = ZoneShown(t.offset) /\ t.instant + t.offset \in 0..LastYear

\* A value that was stored is read back as the Go value that database/sql
\* defines for it: integers as the same int64, whatever their kind; a time as
\* the same instant, if the connection has a location and the column was
\* declared as a time; and an integer that does not fit is refused.  Not
\* claimed: a string with a NUL, which is cut there; an empty slice, which
\* becomes NULL; a time with seconds in its offset or a year of five digits; a
\* string that shows a time, which becomes one.
SqliteRoundTrip ==
  LET v == Plain(row.sent)
      timed == cfg.location # "none" /\ LooksLikeTimeType(row.declared)
  IN  /\ row.at = "refused" =>
           \/ v.kind \in {"struct", "error"}
           \/ v.kind \in {"uint", "uint64"} /\ v.int \notin Signed(Width)
      /\ row.at = "read" =>
           CASE v.kind \in SignedKinds \cup UnsignedKinds \cup {"bool"} ->
                  row.got = Number("int64", NumberOf(v))
             [] v.kind \in {"float32", "float64"} -> row.got = Float("float64", v.float)
             [] v.kind = "string" -> row.got = v \/ HasNul(v) \/ (timed /\ row.got.kind = "time")
             [] v.kind = "[]byte" -> row.got = v \/ (v.bytes = << >> /\ row.got = Nil)
             [] v.kind \in {"nil", "nil []byte"} -> row.got = Nil
             [] v.kind = "time" ->
                  IF timed THEN Tellable(v) => row.got.kind = "time" /\ row.got.instant = v.instant
                  ELSE row.got = Str(FormatTime(v))

-----------------------------------------------------------------------------
\* The zero of a Go type, which a function sees in place of NULL.
Zero(kind) ==
  CASE kind = "string" -> Str(Chars(<< >>))
    [] kind = "[]byte" -> NilBytes
    [] kind = "bool" -> Bool(FALSE)
    [] kind \in SignedKinds \cup UnsignedKinds -> Number(kind, 0)
    [] kind \in {"float32", "float64"} -> Float(kind, 0)

ShowsTime(argument) ==
  /\ argument.type = "TEXT"
  /\ "local" \in DOMAIN argument.text
  /\ argument.text.local \in 0..LastYear

\* buildValueDecoder refuses an argument only if it is negative for an unsigned
\* parameter, or no time for a time.  What it does not refuse is of the
\* parameter's kind, without which reflect's Call panics, and is the argument:
\* the same number, text, bytes or instant, and zero for NULL.  Not claimed: an
\* integer that a narrow parameter cannot hold, which is cut; which value SQLite
\* makes of an argument of another type.
ArgumentsSeen ==
  LET argument == row.argument
      seen == row.seen
      sent == Plain(row.sent)
  IN  row.at = "called" =>
        IF seen = Error
          THEN \/ row.kind \in UnsignedKinds /\ AsInt(argument) < 0
               \/ row.kind = "time" /\ ~ShowsTime(argument)
          ELSE /\ seen.kind = row.kind \/ (row.kind = "[]byte" /\ seen = NilBytes)
               /\ argument.type = "INTEGER" /\ row.kind \in SignedKinds \cup UnsignedKinds =>
                    \/ seen.int = argument.int
                    \/ row.kind = "int8" /\ argument.int \notin Signed(NarrowBits)
                    \/ row.kind = "uint8" /\ argument.int \notin Unsigned(NarrowBits)
                       /\ argument.int >= 0
               /\ argument.type = "INTEGER" /\ row.kind = "bool" => (seen.bool <=> argument.int # 0)
               /\ argument.type = "FLOAT" /\ row.kind \in {"float32", "float64"} =>
                    seen.float = argument.float
               /\ argument.type = "TEXT" /\ row.kind = "string" => seen.text = argument.text
               /\ argument.type = "BLOB" /\ row.kind = "[]byte" => seen.bytes = argument.bytes
               /\ argument.type = "NULL" => row.kind # "time" /\ seen = Zero(row.kind)
               /\ row.kind = "time" /\ sent.kind = "time" /\ Tellable(sent) =>
                    seen.instant = sent.instant

\* encodeResultValue cannot get at what is behind two pointers, and takes no
\* struct and no nil interface, such as the nil of a function that returns an
\* error and nothing else.
NoAnswer(result) ==
  \/ result.failed
  \/ result.wrap = <<"pointer", "pointer">>
  \/ result.wrap = <<"any">> /\ result.value = Nil
  \/ result.value = Struct

\* What a function returned is what the next one sees in f(g(x)), when its
\* parameter is of the kind that g returned; a nil is NULL.  SQL gets an error
\* exactly when g returned one or its result cannot be encoded.  An empty slice
\* becomes NULL, and so nil; an unsigned number that no int64 holds comes out
\* negative.  Not claimed: the rest of a string with a NUL; a time that its text
\* does not tell.
ResultsTold ==
  LET v == row.result.value
  IN  row.at = "answered" =>
        IF NoAnswer(row.result) THEN row.answer = SqlError
        ELSE CASE v \in {Nil, NilBytes, Bytes(<< >>)} -> row.answer = SqlNull
               [] v.kind \in UnsignedKinds /\ v.int \notin Signed(Width) ->
                    row.answer = Integer(v.int - 2 ^ Width)
               [] v.kind = "string" ->
                    Decode(row.answer, "string") = v \/ (HasNul(v) /\ row.answer.type = "TEXT")
               [] v.kind = "time" ->
                    /\ row.answer.type = "TEXT"
                    /\ Tellable(v) => Decode(row.answer, "time") = v
               [] OTHER -> Decode(row.answer, v.kind) = v
============================================================================
