----------------------------- MODULE SqliteDsn -----------------------------
(***************************************************************************)
(* From a data source name to a connection: parseDSN and                   *)
(* connector.Connect of sqlite3.go.                                        *)
(*                                                                         *)
(* parseDSN ranges over a Go map, so the options come in any order.  Names *)
(* and values are abstract: one member for each way the code tells them    *)
(* apart.  An option that is given twice counts with its first value, and  *)
(* only that one is here; a query that cannot be split into options is     *)
(* refused before anything else and is left out.                           *)
(*                                                                         *)
(* External: what sqlite3_open_v2 makes of a file name and flags, and      *)
(* which of the calls of Connect fail.                                     *)
(***************************************************************************)
EXTENDS Integers, FiniteSets

CONSTANTS
  MaxOptions, \* bound: options of one data source name
  IntWidth    \* bits of the C int that a busy timeout is cut to

ASSUME BoundsAssumption == MaxOptions \in Nat /\ IntWidth \in Nat \ {0}

\* True of every width; the provers know nothing of powers.
ASSUME IntPowersAssumption ==
  2 ^ (IntWidth - 1) \in Nat \ {0} /\ 2 ^ IntWidth = 2 * 2 ^ (IntWidth - 1)

VARIABLES
  dsn,  \* the argument of parseDSN, until it returns
  pc,
  todo, \* options the range statement has still to give
  kept, \* options that stay in the file name
  cfg,  \* connectionConfig
  lib   \* the handle, and what the library was told

dsnVars == <<dsn, pc, todo, kept, cfg, lib>>

-----------------------------------------------------------------------------
TimeoutKeys == {"_busy_timeout", "_timeout"}
ForeignKeys == {"_foreign_keys", "_fk"}
JournalKeys == {"_journal_mode", "_journal"}
SynchronousKeys == {"_synchronous", "_sync"}
LocationKeys == {"loc", "_loc"}

Values(key) ==
  CASE key \in TimeoutKeys -> {"zero", "short", "negative", "large", "larger", "word"}
    [] key \in ForeignKeys -> {"on", "off", "maybe"}
    [] key \in JournalKeys -> {"", "wal", "DELETE"}
    [] key \in SynchronousKeys -> {"", "off", "FULL"}
    [] key = "_txlock" -> {"immediate", "DEFERRED"}
    [] key \in LocationKeys -> {"", "auto", "zone", "nowhere"}
    [] key = "mode" -> {"ro", "RO", "rw", "rwc", "memory", "fast"}
    [] OTHER -> {"any"}

Keys == TimeoutKeys \cup ForeignKeys \cup JournalKeys \cup SynchronousKeys \cup LocationKeys
        \cup {"_txlock", "mode", "cache", "immutable", "_other"}

\* What strconv.Atoi makes of a number; "large" and "larger" do not fit in an
\* int32.
Atoi == [zero |-> 0, short |-> 2 ^ (IntWidth - 1) - 1, negative |-> -1,
         large |-> 2 ^ (IntWidth - 1), larger |-> 2 ^ IntWidth + 1]
\* Mutation: the number is taken as it is.
ToInt32Not(n) == n
ToInt32(n) == ((n + 2 ^ (IntWidth - 1)) % 2 ^ IntWidth) - 2 ^ (IntWidth - 1)

Upper(s) == CASE s = "wal" -> "WAL" [] s = "off" -> "OFF" [] OTHER -> s
Lower(s) == CASE s = "RO" -> "ro" [] s = "DEFERRED" -> "deferred" [] OTHER -> s

\* A name without its "file:", if it has one.  "encoded" is a name that a URI
\* spells in another way.
Bases == [uri : BOOLEAN, name : {"path", ":memory:", "", "encoded"}]

Options(keys) ==
  {o \in [keys -> UNION {Values(k) : k \in keys}] : \A k \in keys : o[k] \in Values(k)}
OptionSets == {keys \in SUBSET Keys : Cardinality(keys) <= MaxOptions}

NoDsn == [base |-> [uri |-> FALSE, name |-> ""], options |-> << >>]

DefaultConfig ==
  [file |-> [uri |-> FALSE, name |-> "", query |-> << >>],
   flags |-> {"READWRITE", "CREATE", "FULLMUTEX"}, busyTimeout |-> 0, foreignKeys |-> "",
   journalMode |-> "", synchronous |-> "", txLock |-> "deferred", location |-> "none"]

NoHandle == [handle |-> "none", timeout |-> 0, foreignKeys |-> "", journalMode |-> "",
             synchronous |-> "", hasty |-> {}]

DsnInit ==
  /\ \E b \in Bases, ks \in OptionSets : \E o \in Options(ks) : dsn = [base |-> b, options |-> o]
  /\ pc = "parse"
  /\ todo = DOMAIN dsn.options
  /\ kept = {}
  /\ cfg = DefaultConfig
  /\ lib = NoHandle

-----------------------------------------------------------------------------
(* parseDSN.                                                               *)

Invalid(key, value) ==
  \/ key \in TimeoutKeys /\ value = "word"
  \/ key \in ForeignKeys /\ value = "maybe"
  \/ key \in LocationKeys /\ value = "nowhere"
  \/ key = "mode" /\ value = "fast"

ModeFlags(mode) ==
  CASE mode = "ro" -> {"READONLY", "URI", "FULLMUTEX"}
    [] mode = "rw" -> {"READWRITE", "URI", "FULLMUTEX"}
    [] mode = "rwc" -> {"READWRITE", "CREATE", "URI", "FULLMUTEX"}
    [] mode = "memory" -> {"READWRITE", "CREATE", "MEMORY", "URI", "FULLMUTEX"}

\* One iteration of the range statement.
Apply(key, value) ==
  CASE key \in TimeoutKeys -> [cfg EXCEPT !.busyTimeout = ToInt32(Atoi[value])]
    [] key \in ForeignKeys -> [cfg EXCEPT !.foreignKeys = IF value = "on" THEN "ON" ELSE "OFF"]
    [] key \in JournalKeys -> [cfg EXCEPT !.journalMode = Upper(value)]
    [] key \in SynchronousKeys -> [cfg EXCEPT !.synchronous = Upper(value)]
    [] key = "_txlock" -> [cfg EXCEPT !.txLock = Lower(value)]
    [] key \in LocationKeys -> [cfg EXCEPT !.location = IF value = "" THEN "none" ELSE value]
    [] key = "mode" -> [cfg EXCEPT !.flags = ModeFlags(Lower(value))]
    [] key \in {"cache", "immutable"} -> [cfg EXCEPT !.flags = @ \cup {"URI"}]
    [] key = "_other" -> cfg

Kept(key) == key \in {"mode", "cache", "immutable", "_other"}

\* Mutation: what another spelling has set is not looked at again.
OptionFirstSpelling(key) ==
  /\ pc = "parse"
  /\ key \in todo
  /\ LET done == DOMAIN dsn.options \ todo
         set == \E keys \in {TimeoutKeys, ForeignKeys, LocationKeys} :
                  key \in keys /\ keys \cap done # {}
     IN  IF Invalid(key, dsn.options[key]) /\ ~set
           THEN pc' = "refused" /\ UNCHANGED <<todo, kept, cfg>>
           ELSE /\ cfg' = IF set THEN cfg ELSE Apply(key, dsn.options[key])
                /\ kept' = IF Kept(key) THEN kept \cup {key} ELSE kept
                /\ todo' = todo \ {key}
                /\ UNCHANGED pc
  /\ UNCHANGED <<dsn, lib>>

Option(key) ==
  /\ pc = "parse"
  /\ key \in todo
  /\ IF Invalid(key, dsn.options[key])
       THEN pc' = "refused" /\ UNCHANGED <<todo, kept, cfg>>
       ELSE /\ cfg' = Apply(key, dsn.options[key])
            /\ kept' = IF Kept(key) THEN kept \cup {key} ELSE kept
            /\ todo' = todo \ {key}
            /\ UNCHANGED pc
  /\ UNCHANGED <<dsn, lib>>

\* A name with options that stay becomes a URI.  The default ":memory:" for an
\* empty name is overwritten here.
RebuildFilename ==
  [uri |-> dsn.base.uri \/ kept # {}, name |-> dsn.base.name,
   query |-> [key \in kept |-> dsn.options[key]]]

\* Mutation: only "mode" and "cache" turn URI names on.
ParseReturnsPlain ==
  /\ pc = "parse"
  /\ todo = {}
  /\ cfg' = [cfg EXCEPT !.file = RebuildFilename]
  /\ pc' = "parsed"
  /\ UNCHANGED <<dsn, todo, kept, lib>>

ParseReturns ==
  /\ pc = "parse"
  /\ todo = {}
  /\ cfg' = [cfg EXCEPT !.file = RebuildFilename,
                        !.flags = IF RebuildFilename.uri THEN @ \cup {"URI"} ELSE @]
  /\ pc' = "parsed"
  /\ UNCHANGED <<dsn, todo, kept, lib>>

-----------------------------------------------------------------------------
(* connector.Connect.                                                      *)

\* What SQLite opens.  A name with "file:" is a URI only if the flags say so,
\* and then its escapes and its query count; the mode is compared exactly.
Opens(file, flags) ==
  LET uri == file.uri /\ "URI" \in flags
  IN  [name |-> IF uri /\ file.name = "encoded" THEN "decoded" ELSE file.name,
       literal |-> file.uri /\ ~uri,
       access |-> IF uri /\ "mode" \in DOMAIN file.query THEN file.query["mode"]
                  ELSE IF "READONLY" \in flags THEN "ro"
                  ELSE IF "CREATE" \in flags THEN "rwc" ELSE "rw"]

Takes(file, flags) == Opens(file, flags).access # "RO"

\* Mutation: the connection of a failed pragma is not closed.
FailOpen ==
  /\ pc' = "failed"
  /\ UNCHANGED lib

\* A step of Connect that fails: forceClose, which a nil handle ignores.
Fail ==
  /\ pc' = "failed"
  /\ lib' = [lib EXCEPT !.handle = IF @ = "none" THEN "none" ELSE "closed"]

\* SQLite may leave a handle although it fails.
Open ==
  /\ pc = "parsed"
  /\ \/ /\ Takes(cfg.file, cfg.flags)
        /\ lib' = [lib EXCEPT !.handle = "open"]
        /\ pc' = "timeout"
     \/ \E handle \in {"none", "closed"} :
          lib' = [lib EXCEPT !.handle = handle] /\ pc' = "failed"
  /\ dsn' = NoDsn
  /\ kept' = {}
  /\ UNCHANGED <<todo, cfg>>

SetTimeout ==
  /\ pc = "timeout"
  /\ \/ /\ lib' = [lib EXCEPT !.timeout = IF cfg.busyTimeout > 0 THEN cfg.busyTimeout ELSE @]
        /\ pc' = "foreignKeys"
     \/ cfg.busyTimeout > 0 /\ Fail
  /\ UNCHANGED <<dsn, todo, kept, cfg>>

PragmaAfter == [foreignKeys |-> "journalMode", journalMode |-> "synchronous",
                synchronous |-> "hook"]
ValueOf == [foreignKeys |-> cfg.foreignKeys, journalMode |-> cfg.journalMode,
            synchronous |-> cfg.synchronous]

\* What the library makes of a pragma that it runs: a journal mode may be
\* refused without an error.
Took(pragma) ==
  IF pragma = "journalMode" THEN {ValueOf[pragma], "refused"} ELSE {ValueOf[pragma]}

\* One statement of applyPragmas, if the option was given.
Pragma(pragma) ==
  /\ pc = pragma
  /\ IF ValueOf[pragma] = ""
       THEN pc' = PragmaAfter[pragma] /\ UNCHANGED lib
       ELSE \/ /\ \E value \in Took(pragma) :
                    lib' = [lib EXCEPT ![pragma] = value,
                              !.hasty = IF lib.timeout = 0 THEN @ \cup {pragma} ELSE @]
               /\ pc' = PragmaAfter[pragma]
            \/ Fail
  /\ UNCHANGED <<dsn, todo, kept, cfg>>

ConnectHook ==
  /\ pc = "hook"
  /\ \/ pc' = "ready" /\ UNCHANGED lib
     \/ Fail
  /\ UNCHANGED <<dsn, todo, kept, cfg>>

DsnNext ==
  \/ \E key \in Keys : Option(key)
  \/ ParseReturns
  \/ Open
  \/ SetTimeout
  \/ \E pragma \in DOMAIN PragmaAfter : Pragma(pragma)
  \/ ConnectHook

-----------------------------------------------------------------------------
\* The values that the DSN gives to one of keys.
Given(keys) == {dsn.options[k] : k \in keys \cap DOMAIN dsn.options}

Among(value, keys, unset, Meaning(_)) ==
  value \in IF Given(keys) = {} THEN {unset} ELSE {Meaning(v) : v \in Given(keys)}

\* A data source name means one configuration, in whatever order Go ranges
\* over its options; of two spellings of one option either may win.  It is
\* refused in every order or in none.  A busy timeout is the one asked for, if
\* it fits.
OneMeaning ==
  /\ pc = "parsed" =>
       /\ \A k \in DOMAIN dsn.options : ~Invalid(k, dsn.options[k])
       /\ LET Timeout(v) == Atoi[v]
              OnOff(v) == IF v = "on" THEN "ON" ELSE "OFF"
              Location(v) == IF v = "" THEN "none" ELSE v
          IN  /\ \/ Among(cfg.busyTimeout, TimeoutKeys, 0, Timeout)
                 \/ Given(TimeoutKeys) \cap {"large", "larger"} # {}
              /\ Among(cfg.foreignKeys, ForeignKeys, "", OnOff)
              /\ Among(cfg.journalMode, JournalKeys, "", Upper)
              /\ Among(cfg.synchronous, SynchronousKeys, "", Upper)
              /\ Among(cfg.location, LocationKeys, "none", Location)
              /\ Among(cfg.txLock, {"_txlock"}, "deferred", Lower)
  /\ pc = "refused" => \E k \in DOMAIN dsn.options : Invalid(k, dsn.options[k])

\* The options never change which file is opened, nor how: adding one to a
\* plain path turns the path into a URI, and SQLite must take it for one.  Not
\* claimed for a plain path with a percent sign, whose escapes then count.
FileNamed ==
  pc = "parsed" =>
    LET opened == Opens(cfg.file, cfg.flags)
        encoded == dsn.base.name = "encoded"
    IN  /\ ~opened.literal
        /\ opened.name = (IF encoded /\ dsn.base.uri THEN "decoded" ELSE dsn.base.name)
             \/ (encoded /\ kept # {})
        /\ "mode" \in DOMAIN dsn.options =>
             /\ opened.access = dsn.options["mode"]
             /\ ("READONLY" \in cfg.flags) = (Lower(opened.access) = "ro")
             /\ ("CREATE" \in cfg.flags) = (opened.access \in {"rwc", "memory"})

\* A connection that is handed out has every option of its configuration, and
\* each pragma ran under the busy timeout; one that is not is closed.  The
\* library may refuse a journal mode without an error, which nobody notices.
Configured ==
  /\ pc = "ready" =>
       /\ lib.handle = "open"
       /\ lib.foreignKeys = cfg.foreignKeys
       /\ lib.journalMode \in {cfg.journalMode, "refused"}
       /\ lib.synchronous = cfg.synchronous
       /\ cfg.busyTimeout > 0 => lib.timeout = cfg.busyTimeout /\ lib.hasty = {}
  /\ pc \in {"parse", "parsed", "refused", "failed"} => lib.handle # "open"
============================================================================
