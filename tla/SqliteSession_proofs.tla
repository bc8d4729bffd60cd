------------------------ MODULE SqliteSession_proofs ------------------------
(***************************************************************************)
(* Proofs about SqliteSession: its type invariant and its seven safety     *)
(* invariants, for any number of options, of parameters and of calls, for  *)
(* words of any width, any location and any last year.                     *)
(*                                                                         *)
(* The inductive invariant has a part for each module that SqliteSession   *)
(* puts together.  DsnInv: the configuration is that of the options given  *)
(* so far, whichever those are.  LibInv: the library was told what the     *)
(* steps behind pc tell it.  ParamsInv: the arguments before next are      *)
(* bound, and nothing else is.  RowInv: a value on its way is what the     *)
(* conversions so far make of the value that was sent.  The last part      *)
(* rests on lemmas about the conversions, one for each form of a value.    *)
(***************************************************************************)
EXTENDS SqliteSession, FiniteSetTheorems, SequenceTheorems, WellFoundedInduction, TLAPS

-----------------------------------------------------------------------------
(* Words.                                                                  *)

\* What fits in a word of half + half numbers is left as it is; what does not
\* is brought into it.
LEMMA Wraps2 ==
  ASSUME NEW half \in Nat \ {0}, NEW n \in Int
  PROVE  /\ ((n + half) % (2 * half)) - half \in (-half)..(half - 1)
         /\ n \in (-half)..(half - 1) => ((n + half) % (2 * half)) - half = n
<1>1. (n + half) % (2 * half) \in 0..(2 * half - 1)
  OBVIOUS
<1>2. ASSUME -half <= n, n < half PROVE (n + half) % (2 * half) = n + half
  BY <1>2
<1>3. n \in (-half)..(half - 1) => -half <= n /\ n < half
  OBVIOUS
<1> QED
  BY <1>1, <1>2, <1>3

LEMMA ToInt32Wraps ==
  ASSUME NEW n \in Int
  PROVE  /\ ToInt32(n) \in Signed(IntWidth)
         /\ n \in Signed(IntWidth) => ToInt32(n) = n
<1> DEFINE half == 2 ^ (IntWidth - 1)
<1>1. half \in Nat \ {0} /\ 2 ^ IntWidth = 2 * half
  BY IntPowersAssumption
<1>2. Signed(IntWidth) = (-half)..(half - 1) /\ ToInt32(n) = ((n + half) % (2 * half)) - half
  BY <1>1 DEF Signed, ToInt32
<1> HIDE DEF half
<1> QED
  BY <1>1, <1>2, Wraps2, ZenonT(60)

LEMMA TimeoutsFit ==
  /\ \A v \in Values("_timeout") \ {"word"} : Atoi[v] \in Int
  /\ \A v \in {"zero", "short", "negative"} : Atoi[v] \in Signed(IntWidth)
<1> DEFINE half == 2 ^ (IntWidth - 1)
<1>1. half \in Nat \ {0} /\ 2 ^ IntWidth = 2 * half
  BY IntPowersAssumption
<1>2. /\ Signed(IntWidth) = (-half)..(half - 1)
      /\ Atoi = [zero |-> 0, short |-> half - 1, negative |-> -1, large |-> half,
                 larger |-> 2 * half + 1]
  BY <1>1 DEF Signed, Atoi
<1> HIDE DEF half
<1>3. Values("_timeout") = {"zero", "short", "negative", "large", "larger", "word"}
  BY DEF Values, TimeoutKeys, ForeignKeys, JournalKeys, SynchronousKeys, LocationKeys
<1> QED
  BY <1>1, <1>2, <1>3

-----------------------------------------------------------------------------
(* parseDSN.                                                               *)

IsConfig(c) ==
  c = [file |-> c.file, flags |-> c.flags, busyTimeout |-> c.busyTimeout,
       foreignKeys |-> c.foreignKeys, journalMode |-> c.journalMode,
       synchronous |-> c.synchronous, txLock |-> c.txLock, location |-> c.location]

\* What an option sets, and what it leaves.
LEMMA ApplySets ==
  ASSUME IsConfig(cfg), NEW key \in Keys, NEW value
  PROVE  /\ IsConfig(Apply(key, value))
         /\ Apply(key, value).file = cfg.file
         /\ Apply(key, value).busyTimeout =
              IF key \in TimeoutKeys THEN ToInt32(Atoi[value]) ELSE cfg.busyTimeout
         /\ Apply(key, value).foreignKeys =
              IF key \in ForeignKeys THEN IF value = "on" THEN "ON" ELSE "OFF"
              ELSE cfg.foreignKeys
         /\ Apply(key, value).journalMode =
              IF key \in JournalKeys THEN Upper(value) ELSE cfg.journalMode
         /\ Apply(key, value).synchronous =
              IF key \in SynchronousKeys THEN Upper(value) ELSE cfg.synchronous
         /\ Apply(key, value).txLock =
              IF key = "_txlock" THEN Lower(value) ELSE cfg.txLock
         /\ Apply(key, value).location =
              IF key \in LocationKeys THEN IF value = "" THEN "none" ELSE value
              ELSE cfg.location
         /\ Apply(key, value).flags =
              IF key = "mode" THEN ModeFlags(Lower(value))
              ELSE IF key \in {"cache", "immutable"} THEN cfg.flags \cup {"URI"} ELSE cfg.flags
<1> USE DEF IsConfig, Keys, TimeoutKeys, ForeignKeys, JournalKeys, SynchronousKeys, LocationKeys
<1>1. CASE key \in TimeoutKeys
  <2>1. Apply(key, value) = [cfg EXCEPT !.busyTimeout = ToInt32(Atoi[value])]
    BY <1>1 DEF Apply
  <2> QED
    BY <1>1, <2>1
<1>2. CASE key \in ForeignKeys
  <2>1. Apply(key, value) =
          [cfg EXCEPT !.foreignKeys = IF value = "on" THEN "ON" ELSE "OFF"]
    BY <1>2 DEF Apply
  <2> QED
    BY <1>2, <2>1
<1>3. CASE key \in JournalKeys
  <2>1. Apply(key, value) = [cfg EXCEPT !.journalMode = Upper(value)]
    BY <1>3 DEF Apply
  <2> QED
    BY <1>3, <2>1
<1>4. CASE key \in SynchronousKeys
  <2>1. Apply(key, value) = [cfg EXCEPT !.synchronous = Upper(value)]
    BY <1>4 DEF Apply
  <2> QED
    BY <1>4, <2>1
<1>5. CASE key = "_txlock"
  <2>1. Apply(key, value) = [cfg EXCEPT !.txLock = Lower(value)]
    BY <1>5 DEF Apply
  <2> QED
    BY <1>5, <2>1
<1>6. CASE key \in LocationKeys
  <2>1. Apply(key, value) = [cfg EXCEPT !.location = IF value = "" THEN "none" ELSE value]
    BY <1>6 DEF Apply
  <2> QED
    BY <1>6, <2>1
<1>7. CASE key = "mode"
  <2>1. Apply(key, value) = [cfg EXCEPT !.flags = ModeFlags(Lower(value))]
    BY <1>7 DEF Apply
  <2> QED
    BY <1>7, <2>1
<1>8. CASE key \in {"cache", "immutable"}
  <2>1. Apply(key, value) = [cfg EXCEPT !.flags = @ \cup {"URI"}]
    BY <1>8 DEF Apply
  <2> QED
    BY <1>8, <2>1
<1>9. CASE key = "_other"
  <2>1. Apply(key, value) = cfg
    BY <1>9 DEF Apply
  <2> QED
    BY <1>9, <2>1
<1> QED
  BY <1>1, <1>2, <1>3, <1>4, <1>5, <1>6, <1>7, <1>8, <1>9

\* The options that the range statement has given.
Done == DOMAIN dsn.options \ todo

\* A field of the configuration that is unset as long as no key of group was
\* among those given, and then has the meaning of one of them.
Taken(field, group, given, unset, meaning) ==
  IF group \cap given = {} THEN field = unset ELSE \E k \in group \cap given : field = meaning[k]

LEMMA TakenStep ==
  ASSUME NEW old, NEW new, NEW group, NEW given, NEW unset, NEW meaning, NEW key,
         Taken(old, group, given, unset, meaning),
         key \in group => new = meaning[key],
         key \notin group => new = old
  PROVE  Taken(new, group, given \cup {key}, unset, meaning)
<1>1. CASE key \in group
  <2>1. key \in group \cap (given \cup {key}) /\ new = meaning[key]
    BY <1>1
  <2> QED
    BY <2>1 DEF Taken
<1>2. CASE key \notin group
  <2>1. group \cap (given \cup {key}) = group \cap given /\ new = old
    BY <1>2
  <2> QED
    BY <2>1 DEF Taken
<1> QED
  BY <1>1, <1>2

TimeoutOf == [k \in TimeoutKeys |-> ToInt32(Atoi[dsn.options[k]])]
OnOffOf == [k \in ForeignKeys |-> IF dsn.options[k] = "on" THEN "ON" ELSE "OFF"]
UpperOf(keys) == [k \in keys |-> Upper(dsn.options[k])]
LowerOf(keys) == [k \in keys |-> Lower(dsn.options[k])]
LocationOf == [k \in LocationKeys |-> IF dsn.options[k] = "" THEN "none" ELSE dsn.options[k]]

\* The argument of parseDSN, or nothing once it has returned.
DsnGiven ==
  /\ dsn = [base |-> dsn.base, options |-> dsn.options]
  /\ dsn.base \in Bases
  /\ DOMAIN dsn.options \subseteq Keys
  /\ \A k \in DOMAIN dsn.options : dsn.options[k] \in Values(k)
  /\ todo \subseteq DOMAIN dsn.options

CfgTyped ==
  /\ IsConfig(cfg)
  /\ cfg.flags \subseteq {"READONLY", "READWRITE", "CREATE", "MEMORY", "URI", "FULLMUTEX"}
  /\ cfg.busyTimeout \in Signed(IntWidth)

\* What the mode says of the flags, and what is beside it.
FlagsRead ==
  /\ cfg.flags \cup {"URI"} =
       {"URI"} \cup (IF "mode" \in Done THEN ModeFlags(Lower(dsn.options["mode"]))
                     ELSE {"READWRITE", "CREATE", "FULLMUTEX"})
  /\ Done \cap {"mode", "cache", "immutable"} # {} => "URI" \in cfg.flags

\* The configuration is that of the options given so far.
OptionsRead ==
  /\ \A k \in Done : ~Invalid(k, dsn.options[k])
  /\ kept = {k \in Done : Kept(k)}
  /\ Taken(cfg.busyTimeout, TimeoutKeys, Done, 0, TimeoutOf)
  /\ Taken(cfg.foreignKeys, ForeignKeys, Done, "", OnOffOf)
  /\ Taken(cfg.journalMode, JournalKeys, Done, "", UpperOf(JournalKeys))
  /\ Taken(cfg.synchronous, SynchronousKeys, Done, "", UpperOf(SynchronousKeys))
  /\ Taken(cfg.txLock, {"_txlock"}, Done, "deferred", LowerOf({"_txlock"}))
  /\ Taken(cfg.location, LocationKeys, Done, "none", LocationOf)
  /\ FlagsRead

ParseInv ==
  /\ pc \in {"parse", "parsed"} => OptionsRead
  /\ pc \notin {"parse", "refused"} => todo = {}
  /\ pc = "refused" => \E k \in DOMAIN dsn.options : Invalid(k, dsn.options[k])
  /\ pc = "parsed" => /\ cfg.file = RebuildFilename
                      /\ cfg.file.uri => "URI" \in cfg.flags

DsnInv ==
  /\ pc \in {"parse", "refused", "parsed", "timeout", "foreignKeys", "journalMode",
             "synchronous", "hook", "ready", "failed"}
  /\ DsnGiven /\ CfgTyped /\ ParseInv

LEMMA FlagsOfModes ==
  \A mode \in {"ro", "rw", "rwc", "memory"} :
    /\ ModeFlags(mode) \subseteq {"READONLY", "READWRITE", "CREATE", "MEMORY", "URI", "FULLMUTEX"}
    /\ "URI" \in ModeFlags(mode)
    /\ "READONLY" \in ModeFlags(mode) <=> mode = "ro"
    /\ "CREATE" \in ModeFlags(mode) <=> mode \in {"rwc", "memory"}
BY DEF ModeFlags

\* The modes that are taken.
LEMMA ModesTaken ==
  ASSUME NEW value \in Values("mode"), ~Invalid("mode", value)
  PROVE  /\ Lower(value) \in {"ro", "rw", "rwc", "memory"}
         /\ Lower(value) = value \/ (value = "RO" /\ Lower(value) = "ro")
<1>1. value \in {"ro", "RO", "rw", "rwc", "memory", "fast"}
  BY DEF Values, TimeoutKeys, ForeignKeys, JournalKeys, SynchronousKeys, LocationKeys
<1>2. value # "fast"
  BY DEF Invalid
<1>3. CASE value = "RO"
  BY <1>3 DEF Lower
<1>4. CASE value # "RO"
  <2>1. Lower(value) = value
    BY <1>1, <1>4 DEF Lower
  <2>2. value \in {"ro", "rw", "rwc", "memory"}
    BY <1>1, <1>2, <1>4
  <2> QED
    BY <2>1, <2>2
<1> QED
  BY <1>3, <1>4

\* A timeout that is taken is a number.
LEMMA TimeoutsTaken ==
  ASSUME NEW key \in TimeoutKeys, NEW value \in Values(key), ~Invalid(key, value)
  PROVE  Atoi[value] \in Int
<1>1. Values(key) = Values("_timeout")
  BY DEF Values, TimeoutKeys, ForeignKeys, JournalKeys, SynchronousKeys, LocationKeys
<1>2. value # "word"
  BY DEF Invalid
<1> QED
  BY <1>1, <1>2, TimeoutsFit

\* One turn of the loop.
LEMMA OptionReads ==
  ASSUME DsnInv, NEW key \in Keys, Option(key)
  PROVE  DsnInv'
<1> DEFINE value == dsn.options[key]
<1>1. /\ pc = "parse" /\ key \in todo /\ dsn' = dsn
      /\ key \in DOMAIN dsn.options /\ value \in Values(key)
  BY DEF Option, DsnInv, DsnGiven
<1>2. CASE Invalid(key, value)
  <2>1. pc' = "refused" /\ UNCHANGED <<dsn, todo, kept, cfg>>
    BY <1>2 DEF Option
  <2> QED
    BY <2>1, <1>1, <1>2 DEF DsnInv, DsnGiven, CfgTyped, IsConfig, ParseInv, Invalid
<1>3. CASE ~Invalid(key, value)
  <2>1. /\ pc' = pc /\ todo' = todo \ {key} /\ cfg' = Apply(key, value)
        /\ kept' = IF Kept(key) THEN kept \cup {key} ELSE kept
    BY <1>3 DEF Option
  <2>2. /\ OptionsRead /\ IsConfig(cfg) /\ cfg.busyTimeout \in Signed(IntWidth)
        /\ cfg.flags \subseteq {"READONLY", "READWRITE", "CREATE", "MEMORY", "URI", "FULLMUTEX"}
    BY <1>1 DEF DsnInv, ParseInv, CfgTyped
  <2>3. Done' = Done \cup {key}
    BY <1>1, <2>1 DEF Done, DsnInv, DsnGiven
  <2>4. DsnGiven'
    BY <1>1, <2>1 DEF DsnInv, DsnGiven
  <2> DEFINE c == Apply(key, value)
  <2>5. /\ IsConfig(c)
        /\ c.busyTimeout = IF key \in TimeoutKeys THEN ToInt32(Atoi[value]) ELSE cfg.busyTimeout
        /\ c.foreignKeys = IF key \in ForeignKeys THEN IF value = "on" THEN "ON" ELSE "OFF"
                           ELSE cfg.foreignKeys
        /\ c.journalMode = IF key \in JournalKeys THEN Upper(value) ELSE cfg.journalMode
        /\ c.synchronous = IF key \in SynchronousKeys THEN Upper(value) ELSE cfg.synchronous
        /\ c.txLock = IF key = "_txlock" THEN Lower(value) ELSE cfg.txLock
        /\ c.location = IF key \in LocationKeys THEN IF value = "" THEN "none" ELSE value
                        ELSE cfg.location
        /\ c.flags = IF key = "mode" THEN ModeFlags(Lower(value))
                     ELSE IF key \in {"cache", "immutable"} THEN cfg.flags \cup {"URI"}
                     ELSE cfg.flags
    <3> HIDE DEF value
    <3> QED
      BY <2>2, ApplySets, ZenonT(60)
  <2> HIDE DEF c
  <2>6. cfg' = c
    BY <2>1 DEF c
  <2>7. key = "mode" => /\ ModeFlags(Lower(value)) \subseteq
                             {"READONLY", "READWRITE", "CREATE", "MEMORY", "URI", "FULLMUTEX"}
                        /\ "URI" \in ModeFlags(Lower(value))
    BY <1>1, <1>3, ModesTaken, FlagsOfModes
  <2>8. CfgTyped'
    <3>1. c.busyTimeout \in Signed(IntWidth)
      <4>1. CASE key \in TimeoutKeys
        <5>1. Atoi[value] \in Int
          BY <1>1, <1>3, <4>1, TimeoutsTaken
        <5>2. ToInt32(Atoi[value]) \in Signed(IntWidth)
          BY <5>1, ToInt32Wraps
        <5> QED
          BY <5>2, <4>1, <2>5
      <4> QED
        BY <4>1, <2>2, <2>5
    <3>2. c.flags \subseteq {"READONLY", "READWRITE", "CREATE", "MEMORY", "URI", "FULLMUTEX"}
      BY <2>2, <2>5, <2>7
    <3> QED
      BY <2>5, <2>6, <3>1, <3>2 DEF CfgTyped, IsConfig
  <2>9. FlagsRead'
    <3>1. FlagsRead
      BY <2>2 DEF OptionsRead
    <3>2. CASE key = "mode"
      BY <3>2, <2>3, <2>5, <2>6, <2>7, <1>1 DEF FlagsRead
    <3>3. CASE key \in {"cache", "immutable"}
      BY <3>1, <3>3, <2>3, <2>5, <2>6, <1>1 DEF FlagsRead
    <3>4. CASE key \notin {"mode", "cache", "immutable"}
      <4>1. /\ c.flags = cfg.flags
            /\ "mode" \in Done' <=> "mode" \in Done
            /\ Done' \cap {"mode", "cache", "immutable"} = Done \cap {"mode", "cache", "immutable"}
        BY <3>4, <2>3, <2>5
      <4> QED
        BY <3>1, <4>1, <2>6, <1>1 DEF FlagsRead
    <3> QED
      BY <3>2, <3>3, <3>4
  <2>10. UNCHANGED <<TimeoutOf, OnOffOf, UpperOf(JournalKeys), UpperOf(SynchronousKeys),
                     LowerOf({"_txlock"}), LocationOf>>
    BY <1>1 DEF TimeoutOf, OnOffOf, UpperOf, LowerOf, LocationOf
  <2>11. Taken(c.busyTimeout, TimeoutKeys, Done \cup {key}, 0, TimeoutOf)
    BY <2>2, <2>5, TakenStep DEF OptionsRead, TimeoutOf
  <2>12. Taken(c.foreignKeys, ForeignKeys, Done \cup {key}, "", OnOffOf)
    BY <2>2, <2>5, TakenStep DEF OptionsRead, OnOffOf
  <2>13. Taken(c.journalMode, JournalKeys, Done \cup {key}, "", UpperOf(JournalKeys))
    BY <2>2, <2>5, TakenStep DEF OptionsRead, UpperOf
  <2>14. Taken(c.synchronous, SynchronousKeys, Done \cup {key}, "", UpperOf(SynchronousKeys))
    BY <2>2, <2>5, TakenStep DEF OptionsRead, UpperOf
  <2>15. Taken(c.txLock, {"_txlock"}, Done \cup {key}, "deferred", LowerOf({"_txlock"}))
    BY <2>2, <2>5, TakenStep DEF OptionsRead, LowerOf
  <2>16. Taken(c.location, LocationKeys, Done \cup {key}, "none", LocationOf)
    BY <2>2, <2>5, TakenStep DEF OptionsRead, LocationOf
  <2>17. kept' = {k \in Done \cup {key} : Kept(k)}
    BY <2>1, <2>2 DEF OptionsRead
  <2>18. \A k \in Done \cup {key} : ~Invalid(k, dsn.options[k])
    BY <1>3, <2>2 DEF OptionsRead
  <2>19. OptionsRead'
    BY <1>1, <2>3, <2>6, <2>9, <2>10, <2>11, <2>12, <2>13, <2>14, <2>15, <2>16, <2>17, <2>18
    DEF OptionsRead, Invalid, Kept, Taken
  <2> QED
    BY <1>1, <2>1, <2>4, <2>8, <2>19 DEF DsnInv, ParseInv
<1> QED
  BY <1>2, <1>3

\* The rest of parseDSN: a name that became a URI is opened as one.
LEMMA ParseReturnsReads ==
  ASSUME DsnInv, ParseReturns
  PROVE  DsnInv'
<1> DEFINE flags == IF RebuildFilename.uri THEN cfg.flags \cup {"URI"} ELSE cfg.flags
<1>1. /\ pc = "parse" /\ pc' = "parsed" /\ todo = {}
      /\ UNCHANGED <<dsn, todo, kept>>
      /\ cfg' = [cfg EXCEPT !.file = RebuildFilename, !.flags = flags]
  BY DEF ParseReturns
<1>2. OptionsRead /\ IsConfig(cfg) /\ DsnGiven /\ CfgTyped
  BY <1>1 DEF DsnInv, ParseInv, CfgTyped
<1>3. /\ IsConfig(cfg)' /\ cfg'.file = RebuildFilename /\ cfg'.flags = flags
      /\ cfg'.busyTimeout = cfg.busyTimeout /\ cfg'.foreignKeys = cfg.foreignKeys
      /\ cfg'.journalMode = cfg.journalMode /\ cfg'.synchronous = cfg.synchronous
      /\ cfg'.txLock = cfg.txLock /\ cfg'.location = cfg.location
  <2> DEFINE file == RebuildFilename
             fs == flags
  <2>1. cfg' = [cfg EXCEPT !.file = file, !.flags = fs]
    BY <1>1
  <2> HIDE DEF file, fs, flags
  <2>2. cfg' = [file |-> file, flags |-> fs, busyTimeout |-> cfg.busyTimeout,
                foreignKeys |-> cfg.foreignKeys, journalMode |-> cfg.journalMode,
                synchronous |-> cfg.synchronous, txLock |-> cfg.txLock,
                location |-> cfg.location]
    BY <2>1, <1>2 DEF IsConfig
  <2>3. IsConfig(cfg)'
    BY <2>2 DEF IsConfig
  <2> QED
    BY <2>2, <2>3 DEF file, fs
<1>4. /\ flags \subseteq {"READONLY", "READWRITE", "CREATE", "MEMORY", "URI", "FULLMUTEX"}
      /\ cfg.flags \subseteq flags /\ flags \cup {"URI"} = cfg.flags \cup {"URI"}
      /\ RebuildFilename.uri => "URI" \in flags
  BY <1>2 DEF CfgTyped
<1> HIDE DEF flags
<1>5. DsnGiven' /\ Done' = Done /\ RebuildFilename' = RebuildFilename
  BY <1>1, <1>2 DEF DsnGiven, Done, RebuildFilename
<1>6. CfgTyped'
  BY <1>2, <1>3, <1>4 DEF CfgTyped
<1>7. FlagsRead'
  BY <1>1, <1>2, <1>3, <1>4, <1>5 DEF OptionsRead, FlagsRead
<1>8. UNCHANGED <<TimeoutOf, OnOffOf, UpperOf(JournalKeys), UpperOf(SynchronousKeys),
                  LowerOf({"_txlock"}), LocationOf>>
  BY <1>1 DEF TimeoutOf, OnOffOf, UpperOf, LowerOf, LocationOf
<1>9. OptionsRead'
  BY <1>1, <1>2, <1>3, <1>5, <1>7, <1>8, ZenonT(60) DEF OptionsRead, Invalid, Kept, Taken
<1>10. cfg'.file = RebuildFilename' /\ (cfg'.file.uri => "URI" \in cfg'.flags)
  BY <1>3, <1>4, <1>5
<1> QED
  BY <1>1, <1>5, <1>6, <1>9, <1>10 DEF DsnInv, ParseInv

\* Connect reads the configuration and does not change it.
LEMMA ConnectReads ==
  ASSUME DsnInv,
         \/ Open \/ SetTimeout \/ ConnectHook
         \/ \E pragma \in DOMAIN PragmaAfter : Pragma(pragma)
  PROVE  DsnInv'
<1>1. /\ pc \notin {"parse", "refused"} /\ cfg' = cfg /\ todo' = todo
      /\ pc' \in {"timeout", "foreignKeys", "journalMode", "synchronous", "hook", "ready", "failed"}
  <2>1. CASE Open
    BY <2>1 DEF Open
  <2>2. CASE SetTimeout
    BY <2>2 DEF SetTimeout, Fail
  <2>3. CASE ConnectHook
    BY <2>3 DEF ConnectHook, Fail
  <2>4. ASSUME NEW pragma \in DOMAIN PragmaAfter, Pragma(pragma)
        PROVE  /\ pc \notin {"parse", "refused"} /\ cfg' = cfg /\ todo' = todo
               /\ pc' \in {"foreignKeys", "journalMode", "synchronous", "hook", "failed"}
    <3>1. pragma \in {"foreignKeys", "journalMode", "synchronous"}
      BY DEF PragmaAfter
    <3>2. PragmaAfter[pragma] \in {"journalMode", "synchronous", "hook"}
      BY <3>1 DEF PragmaAfter
    <3>3. /\ pc = pragma /\ cfg' = cfg /\ todo' = todo
          /\ pc' = PragmaAfter[pragma] \/ pc' = "failed"
      BY <2>4 DEF Pragma, Fail
    <3> QED
      BY <3>1, <3>2, <3>3
  <2> QED
    BY <2>1, <2>2, <2>3, <2>4
<1>2. todo = {} /\ DsnGiven /\ CfgTyped
  BY <1>1 DEF DsnInv, ParseInv
<1>3. dsn' = dsn \/ dsn' = NoDsn
  BY DEF Open, SetTimeout, ConnectHook, Pragma
<1>4. DsnGiven'
  <2>1. CASE dsn' = dsn
    BY <1>1, <1>2, <2>1 DEF DsnGiven
  <2>2. CASE dsn' = NoDsn
    <3>1. /\ dsn' = [base |-> [uri |-> FALSE, name |-> ""], options |-> << >>]
          /\ todo' = {}
      BY <1>1, <1>2, <2>2 DEF NoDsn
    <3>2. dsn'.base = [uri |-> FALSE, name |-> ""] /\ dsn'.options = << >>
      BY <3>1
    <3>3. DOMAIN << >> = {}
      OBVIOUS
    <3>4. dsn'.base \in Bases
      <4>1. [uri |-> FALSE, name |-> ""] \in Bases
        BY DEF Bases
      <4> QED
        BY <3>2, <4>1
    <3> QED
      BY <3>1, <3>2, <3>3, <3>4 DEF DsnGiven
  <2> QED
    BY <1>3, <2>1, <2>2
<1>5. CfgTyped'
  BY <1>1, <1>2 DEF CfgTyped, IsConfig
<1> QED
  BY <1>1, <1>2, <1>4, <1>5 DEF DsnInv, ParseInv

LEMMA DsnStays ==
  ASSUME DsnInv, UNCHANGED dsnVars
  PROVE  DsnInv'
<1>1. UNCHANGED <<dsn, pc, todo, kept, cfg>>
  BY DEF dsnVars
<1> QED
  BY <1>1, ZenonT(60) DEF DsnInv, DsnGiven, CfgTyped, IsConfig, ParseInv, OptionsRead, FlagsRead,
     Done, TimeoutOf, OnOffOf, UpperOf, LowerOf, LocationOf, RebuildFilename, Invalid, Kept, Taken

LEMMA DsnStarts == DsnInit => DsnInv
<1> SUFFICES ASSUME DsnInit PROVE DsnInv
  OBVIOUS
<1>1. PICK b \in Bases, ks \in OptionSets : \E o \in Options(ks) :
        dsn = [base |-> b, options |-> o]
  BY DEF DsnInit
<1>2. PICK o \in Options(ks) : dsn = [base |-> b, options |-> o]
  BY <1>1
<1>3. ks \subseteq Keys
  BY DEF OptionSets
<1>4. dsn.base = b /\ dsn.options = o /\ DOMAIN o = ks /\ \A k \in ks : o[k] \in Values(k)
  BY <1>2 DEF Options
<1>5. /\ pc = "parse" /\ todo = DOMAIN dsn.options /\ kept = {} /\ cfg = DefaultConfig
  BY DEF DsnInit
<1>6. DsnGiven
  BY <1>2, <1>3, <1>4, <1>5 DEF DsnGiven
<1>7. Done = {}
  BY <1>5 DEF Done
<1>8. CfgTyped
  <2>1. 0 \in Signed(IntWidth)
    BY TimeoutsFit DEF Atoi
  <2> QED
    BY <2>1, <1>5 DEF CfgTyped, IsConfig, DefaultConfig
<1>9. OptionsRead
  BY <1>5, <1>7 DEF OptionsRead, FlagsRead, Taken, DefaultConfig
<1> QED
  BY <1>5, <1>6, <1>8, <1>9 DEF DsnInv, ParseInv

LEMMA DsnStep ==
  ASSUME DsnInv, DsnNext \/ UNCHANGED dsnVars
  PROVE  DsnInv'
BY OptionReads, ParseReturnsReads, ConnectReads, DsnStays DEF DsnNext

\* What an option was given is a value of its group.
LEMMA GivenOf ==
  ASSUME NEW keys
  PROVE  /\ keys \cap DOMAIN dsn.options = {} => Given(keys) = {}
         /\ keys \cap DOMAIN dsn.options # {} => Given(keys) # {}
         /\ \A k \in keys \cap DOMAIN dsn.options : dsn.options[k] \in Given(keys)
BY DEF Given

LEMMA DsnMeansOne == DsnInv => OneMeaning
<1> SUFFICES ASSUME DsnInv PROVE OneMeaning
  OBVIOUS
<1>1. pc = "refused" => \E k \in DOMAIN dsn.options : Invalid(k, dsn.options[k])
  BY DEF DsnInv, ParseInv
<1>2. ASSUME pc = "parsed"
      PROVE  /\ \A k \in DOMAIN dsn.options : ~Invalid(k, dsn.options[k])
             /\ LET Timeout(v) == Atoi[v]
                    OnOff(v) == IF v = "on" THEN "ON" ELSE "OFF"
                    Location(v) == IF v = "" THEN "none" ELSE v
                IN  /\ \/ Among(cfg.busyTimeout, TimeoutKeys, 0, Timeout)
                       \/ Given(TimeoutKeys) \cap {"large", "larger"} # {}
                    /\ Among(cfg.foreignKeys, ForeignKeys, "", OnOff)
                    /\ Among(cfg.journalMode, JournalKeys, "", Upper)
                    /\ Among(cfg.synchronous, SynchronousKeys, "", Upper)
                    /\ Among(cfg.location, LocationKeys, "none", Location)
                    /\ Among(cfg.txLock, {"_txlock"}, "deferred", Lower)
  <2>1. OptionsRead /\ todo = {} /\ DsnGiven
    BY <1>2 DEF DsnInv, ParseInv
  <2>2. Done = DOMAIN dsn.options
    BY <2>1 DEF Done
  <2>3. \A k \in DOMAIN dsn.options : ~Invalid(k, dsn.options[k])
    BY <2>1, <2>2 DEF OptionsRead
  <2> DEFINE Timeout(v) == Atoi[v]
             OnOff(v) == IF v = "on" THEN "ON" ELSE "OFF"
             Location(v) == IF v = "" THEN "none" ELSE v
  <2>4. Among(cfg.foreignKeys, ForeignKeys, "", OnOff)
    <3>1. CASE ForeignKeys \cap DOMAIN dsn.options = {}
      BY <3>1, <2>1, <2>2, GivenOf DEF OptionsRead, Taken, Among
    <3>2. CASE ForeignKeys \cap DOMAIN dsn.options # {}
      <4>1. PICK k \in ForeignKeys \cap DOMAIN dsn.options :
              cfg.foreignKeys = IF dsn.options[k] = "on" THEN "ON" ELSE "OFF"
        BY <3>2, <2>1, <2>2 DEF OptionsRead, Taken, OnOffOf
      <4> QED
        BY <4>1, GivenOf DEF Among
    <3> QED
      BY <3>1, <3>2
  <2>5. Among(cfg.journalMode, JournalKeys, "", Upper)
    BY <2>1, <2>2, GivenOf, ZenonT(60) DEF OptionsRead, Taken, UpperOf, Among
  <2>6. Among(cfg.synchronous, SynchronousKeys, "", Upper)
    BY <2>1, <2>2, GivenOf, ZenonT(60) DEF OptionsRead, Taken, UpperOf, Among
  <2>7. Among(cfg.location, LocationKeys, "none", Location)
    BY <2>1, <2>2, GivenOf, ZenonT(60) DEF OptionsRead, Taken, LocationOf, Among
  <2>8. Among(cfg.txLock, {"_txlock"}, "deferred", Lower)
    BY <2>1, <2>2, GivenOf, ZenonT(60) DEF OptionsRead, Taken, LowerOf, Among
  <2>9. \/ Among(cfg.busyTimeout, TimeoutKeys, 0, Timeout)
        \/ Given(TimeoutKeys) \cap {"large", "larger"} # {}
    <3>1. CASE TimeoutKeys \cap DOMAIN dsn.options = {}
      BY <3>1, <2>1, <2>2, GivenOf DEF OptionsRead, Taken, Among
    <3>2. CASE TimeoutKeys \cap DOMAIN dsn.options # {}
      <4>1. PICK k \in TimeoutKeys \cap DOMAIN dsn.options :
              cfg.busyTimeout = ToInt32(Atoi[dsn.options[k]])
        BY <3>2, <2>1, <2>2 DEF OptionsRead, Taken, TimeoutOf
      <4>2. dsn.options[k] \in Values(k) \ {"word"}
        BY <2>1, <2>3 DEF DsnGiven, Invalid
      <4>3. Values(k) = {"zero", "short", "negative", "large", "larger", "word"}
        BY DEF Values, TimeoutKeys, ForeignKeys, JournalKeys, SynchronousKeys, LocationKeys
      <4>4. dsn.options[k] \in Given(TimeoutKeys) /\ Given(TimeoutKeys) # {}
        BY GivenOf
      <4>5. CASE dsn.options[k] \in {"large", "larger"}
        BY <4>4, <4>5
      <4>6. CASE dsn.options[k] \in {"zero", "short", "negative"}
        <5>1. Atoi[dsn.options[k]] \in Signed(IntWidth)
          BY <4>6, TimeoutsFit
        <5>2. Atoi[dsn.options[k]] \in Int
          BY <4>2, <4>6, TimeoutsTaken, <2>3
        <5>3. cfg.busyTimeout = Atoi[dsn.options[k]]
          BY <4>1, <5>1, <5>2, ToInt32Wraps
        <5> QED
          BY <5>3, <4>4 DEF Among
      <4> QED
        BY <4>2, <4>3, <4>5, <4>6
    <3> QED
      BY <3>1, <3>2
  <2> QED
    BY <2>3, <2>4, <2>5, <2>6, <2>7, <2>8, <2>9
<1> QED
  BY <1>1, <1>2 DEF OneMeaning

LEMMA DsnNamesFile == DsnInv => FileNamed
<1> SUFFICES ASSUME DsnInv, pc = "parsed"
             PROVE  FileNamed
  BY DEF FileNamed
<1>1. /\ OptionsRead /\ FlagsRead /\ todo = {} /\ DsnGiven
      /\ cfg.file = RebuildFilename
      /\ cfg.file.uri => "URI" \in cfg.flags
  BY DEF DsnInv, ParseInv, OptionsRead
<1>2. Done = DOMAIN dsn.options
  BY <1>1 DEF Done
<1> DEFINE opened == Opens(cfg.file, cfg.flags)
           mode == dsn.options["mode"]
<1>3. /\ cfg.file.uri = (dsn.base.uri \/ kept # {})
      /\ cfg.file.name = dsn.base.name
      /\ cfg.file.query = [key \in kept |-> dsn.options[key]]
  BY <1>1 DEF RebuildFilename
<1>4. /\ opened.literal = (cfg.file.uri /\ ~(cfg.file.uri /\ "URI" \in cfg.flags))
      /\ opened.name = IF cfg.file.uri /\ "URI" \in cfg.flags /\ cfg.file.name = "encoded"
                         THEN "decoded" ELSE cfg.file.name
      /\ cfg.file.uri /\ "URI" \in cfg.flags /\ "mode" \in DOMAIN cfg.file.query
           => opened.access = cfg.file.query["mode"]
  BY DEF Opens
<1>5. ~opened.literal
  BY <1>1, <1>4
<1>6. opened.name = (IF dsn.base.name = "encoded" /\ dsn.base.uri
                       THEN "decoded" ELSE dsn.base.name)
        \/ (dsn.base.name = "encoded" /\ kept # {})
  BY <1>1, <1>3, <1>4
<1>7. ASSUME "mode" \in DOMAIN dsn.options
      PROVE  /\ opened.access = mode
             /\ ("READONLY" \in cfg.flags) = (Lower(opened.access) = "ro")
             /\ ("CREATE" \in cfg.flags) = (opened.access \in {"rwc", "memory"})
  <2>1. mode \in Values("mode") /\ ~Invalid("mode", mode)
    BY <1>1, <1>2, <1>7 DEF DsnGiven, OptionsRead
  <2>2. "mode" \in kept
    BY <1>1, <1>2, <1>7 DEF OptionsRead, Kept
  <2>3. opened.access = mode
    BY <2>2, <1>1, <1>3, <1>4
  <2>4. /\ Lower(mode) \in {"ro", "rw", "rwc", "memory"}
        /\ Lower(mode) = mode \/ (mode = "RO" /\ Lower(mode) = "ro")
    BY <2>1, ModesTaken
  <2>5. cfg.flags \cup {"URI"} = {"URI"} \cup ModeFlags(Lower(mode))
    BY <1>1, <1>2, <1>7 DEF FlagsRead
  <2>6. /\ "READONLY" \in cfg.flags <=> Lower(mode) = "ro"
        /\ "CREATE" \in cfg.flags <=> Lower(mode) \in {"rwc", "memory"}
    BY <2>4, <2>5, FlagsOfModes
  <2>7. Lower(mode) \in {"rwc", "memory"} <=> mode \in {"rwc", "memory"}
    BY <2>4
  <2> HIDE DEF opened, mode
  <2>8. ("READONLY" \in cfg.flags) = (Lower(opened.access) = "ro")
    BY <2>3, <2>6
  <2>9. ("CREATE" \in cfg.flags) = (opened.access \in {"rwc", "memory"})
    BY <2>3, <2>6, <2>7
  <2> QED
    BY <2>3, <2>8, <2>9
<1> QED
  BY <1>5, <1>6, <1>7 DEF FileNamed

-----------------------------------------------------------------------------
(* connector.Connect.                                                      *)

IsLib(l) ==
  l = [handle |-> l.handle, timeout |-> l.timeout, foreignKeys |-> l.foreignKeys,
       journalMode |-> l.journalMode, synchronous |-> l.synchronous, hasty |-> l.hasty]

\* The handle is open from sqlite3_open_v2 on.  An option of the configuration
\* is unset in the library before its turn and as given after it.
LibInv ==
  /\ IsLib(lib) /\ lib.handle \in {"none", "open", "closed"}
  /\ pc \in {"parse", "refused", "parsed"} => lib = NoHandle
  /\ pc = "failed" => lib.handle # "open"
  /\ pc \in {"timeout", "foreignKeys", "journalMode", "synchronous", "hook", "ready"} =>
       lib.handle = "open"
  /\ pc = "timeout" => lib.hasty = {}
  /\ pc \in {"foreignKeys", "journalMode", "synchronous", "hook", "ready"} =>
       (cfg.busyTimeout > 0 => lib.timeout = cfg.busyTimeout /\ lib.hasty = {})
  /\ pc \in {"timeout", "foreignKeys"} => lib.foreignKeys = ""
  /\ pc \in {"timeout", "foreignKeys", "journalMode"} => lib.journalMode = ""
  /\ pc \in {"timeout", "foreignKeys", "journalMode", "synchronous"} => lib.synchronous = ""
  /\ pc \in {"journalMode", "synchronous", "hook", "ready"} =>
       lib.foreignKeys = cfg.foreignKeys
  /\ pc \in {"synchronous", "hook", "ready"} => lib.journalMode \in {cfg.journalMode, "refused"}
  /\ pc \in {"hook", "ready"} => lib.synchronous = cfg.synchronous

LEMMA ParseTouchesNoHandle ==
  ASSUME LibInv, pc = "parse", pc' \in {"parse", "refused", "parsed"}, lib' = lib
  PROVE  LibInv'
BY DEF LibInv, IsLib

LEMMA OpenKeepsLib ==
  ASSUME LibInv, Open
  PROVE  LibInv'
<1>1. pc = "parsed" /\ lib = NoHandle /\ cfg' = cfg
  BY DEF Open, LibInv
<1>2. CASE lib' = [lib EXCEPT !.handle = "open"] /\ pc' = "timeout"
  <2>1. lib' = [handle |-> "open", timeout |-> 0, foreignKeys |-> "", journalMode |-> "",
                synchronous |-> "", hasty |-> {}]
    BY <1>1, <1>2 DEF NoHandle
  <2>2. /\ IsLib(lib)' /\ lib'.handle = "open" /\ lib'.foreignKeys = ""
        /\ lib'.journalMode = "" /\ lib'.synchronous = "" /\ lib'.hasty = {}
    BY <2>1 DEF IsLib
  <2> QED
    BY <1>2, <2>2 DEF LibInv
<1>3. ASSUME NEW handle \in {"none", "closed"},
             lib' = [lib EXCEPT !.handle = handle], pc' = "failed"
      PROVE  LibInv'
  <2>1. lib' = [handle |-> handle, timeout |-> 0, foreignKeys |-> "", journalMode |-> "",
                synchronous |-> "", hasty |-> {}]
    BY <1>1, <1>3 DEF NoHandle
  <2> QED
    BY <1>3, <2>1 DEF LibInv, IsLib
<1> QED
  BY <1>2, <1>3 DEF Open

\* A failed step closes the handle.
LEMMA FailCloses ==
  ASSUME LibInv, Fail
  PROVE  LibInv'
<1> DEFINE handle == IF lib.handle = "none" THEN "none" ELSE "closed"
<1>1. pc' = "failed" /\ lib' = [lib EXCEPT !.handle = handle]
  BY DEF Fail
<1>2. handle \in {"none", "closed"}
  OBVIOUS
<1> HIDE DEF handle
<1>3. lib' = [handle |-> handle, timeout |-> lib.timeout, foreignKeys |-> lib.foreignKeys,
              journalMode |-> lib.journalMode, synchronous |-> lib.synchronous,
              hasty |-> lib.hasty]
  BY <1>1 DEF LibInv, IsLib
<1> QED
  BY <1>1, <1>2, <1>3 DEF LibInv, IsLib

LEMMA SetTimeoutKeepsLib ==
  ASSUME LibInv, SetTimeout
  PROVE  LibInv'
<1>1. pc = "timeout" /\ cfg' = cfg
  BY DEF SetTimeout
<1>2. CASE Fail
  BY <1>2, FailCloses
<1>3. CASE /\ lib' = [lib EXCEPT !.timeout = IF cfg.busyTimeout > 0 THEN cfg.busyTimeout ELSE @]
           /\ pc' = "foreignKeys"
  <2> DEFINE timeout == IF cfg.busyTimeout > 0 THEN cfg.busyTimeout ELSE lib.timeout
  <2>1. lib' = [lib EXCEPT !.timeout = timeout]
    BY <1>3
  <2>2. cfg.busyTimeout > 0 => timeout = cfg.busyTimeout
    OBVIOUS
  <2> HIDE DEF timeout
  <2>3. lib' = [handle |-> lib.handle, timeout |-> timeout, foreignKeys |-> lib.foreignKeys,
                journalMode |-> lib.journalMode, synchronous |-> lib.synchronous,
                hasty |-> lib.hasty]
    BY <2>1 DEF LibInv, IsLib
  <2> QED
    BY <1>1, <1>3, <2>2, <2>3 DEF LibInv, IsLib
<1> QED
  BY <1>2, <1>3 DEF SetTimeout

\* One pragma: it fails, or its option is as configured and the others are left.
LEMMA PragmaSets ==
  ASSUME LibInv, NEW pragma \in DOMAIN PragmaAfter, Pragma(pragma), ~Fail
  PROVE  /\ pc = pragma /\ pc' = PragmaAfter[pragma] /\ cfg' = cfg
         /\ \/ ValueOf[pragma] = "" /\ lib' = lib
            \/ \E value \in Took(pragma) : \E hasty :
                 /\ lib' = [lib EXCEPT ![pragma] = value, !.hasty = hasty]
                 /\ lib.timeout # 0 => hasty = lib.hasty
<1>1. /\ pc = pragma /\ cfg' = cfg
      /\ IF ValueOf[pragma] = ""
           THEN pc' = PragmaAfter[pragma] /\ UNCHANGED lib
           ELSE /\ \E value \in Took(pragma) :
                     lib' = [lib EXCEPT ![pragma] = value,
                               !.hasty = IF lib.timeout = 0 THEN @ \cup {pragma} ELSE @]
                /\ pc' = PragmaAfter[pragma]
  BY DEF Pragma
<1>2. CASE ValueOf[pragma] = ""
  BY <1>1, <1>2
<1>3. CASE ValueOf[pragma] # ""
  <2> DEFINE hasty == IF lib.timeout = 0 THEN lib.hasty \cup {pragma} ELSE lib.hasty
  <2>1. PICK value \in Took(pragma) : lib' = [lib EXCEPT ![pragma] = value, !.hasty = hasty]
    <3>1. pragma # "hasty"
      BY DEF PragmaAfter
    <3> QED
      BY <1>1, <1>3, <3>1
  <2>2. lib.timeout # 0 => hasty = lib.hasty
    OBVIOUS
  <2> HIDE DEF hasty
  <2> QED
    BY <1>1, <2>1, <2>2
<1> QED
  BY <1>2, <1>3

LEMMA PragmaKeepsLib ==
  ASSUME LibInv, CfgTyped, NEW pragma \in DOMAIN PragmaAfter, Pragma(pragma)
  PROVE  LibInv'
<1>1. CASE Fail
  BY <1>1, FailCloses
<1>2. CASE ~Fail
  <2>1. /\ pc = pragma /\ pc' = PragmaAfter[pragma] /\ cfg' = cfg
        /\ \/ ValueOf[pragma] = "" /\ lib' = lib
           \/ \E value \in Took(pragma) : \E hasty :
                /\ lib' = [lib EXCEPT ![pragma] = value, !.hasty = hasty]
                /\ lib.timeout # 0 => hasty = lib.hasty
    BY <1>2, PragmaSets
  <2>2. pragma \in {"foreignKeys", "journalMode", "synchronous"}
    BY DEF PragmaAfter
  <2>3. IsLib(lib) /\ lib.handle = "open"
    BY <2>1, <2>2 DEF LibInv
  <2>4. CASE ValueOf[pragma] = "" /\ lib' = lib
    <3>1. CASE pragma = "foreignKeys"
      BY <3>1, <2>1, <2>3, <2>4 DEF LibInv, PragmaAfter, ValueOf, IsLib
    <3>2. CASE pragma = "journalMode"
      BY <3>2, <2>1, <2>3, <2>4 DEF LibInv, PragmaAfter, ValueOf, IsLib
    <3>3. CASE pragma = "synchronous"
      BY <3>3, <2>1, <2>3, <2>4 DEF LibInv, PragmaAfter, ValueOf, IsLib
    <3> QED
      BY <2>2, <3>1, <3>2, <3>3
  <2>5. ASSUME NEW value \in Took(pragma), NEW hasty,
               lib' = [lib EXCEPT ![pragma] = value, !.hasty = hasty],
               lib.timeout # 0 => hasty = lib.hasty
        PROVE  LibInv'
    <3>1. cfg.busyTimeout > 0 => lib.timeout = cfg.busyTimeout /\ hasty = {}
      <4>1. cfg.busyTimeout > 0 => lib.timeout = cfg.busyTimeout /\ lib.hasty = {}
        BY <2>1, <2>2 DEF LibInv
      <4>2. cfg.busyTimeout > 0 => cfg.busyTimeout # 0
        OBVIOUS
      <4> QED
        BY <4>1, <4>2, <2>5
    <3>2. CASE pragma = "foreignKeys"
      <4>1. value = cfg.foreignKeys
        BY <3>2 DEF Took, ValueOf
      <4>2. lib' = [handle |-> "open", timeout |-> lib.timeout, foreignKeys |-> value,
                    journalMode |-> lib.journalMode, synchronous |-> lib.synchronous,
                    hasty |-> hasty]
        BY <2>3, <2>5, <3>2 DEF IsLib
      <4>3. pc = "foreignKeys" /\ pc' = "journalMode"
        BY <2>1, <3>2 DEF PragmaAfter
      <4> QED
        BY <2>1, <3>1, <4>1, <4>2, <4>3 DEF LibInv, IsLib
    <3>3. CASE pragma = "journalMode"
      <4>1. value \in {cfg.journalMode, "refused"}
        BY <3>3 DEF Took, ValueOf
      <4>2. lib' = [handle |-> "open", timeout |-> lib.timeout, foreignKeys |-> lib.foreignKeys,
                    journalMode |-> value, synchronous |-> lib.synchronous, hasty |-> hasty]
        BY <2>3, <2>5, <3>3 DEF IsLib
      <4>3. pc = "journalMode" /\ pc' = "synchronous"
        BY <2>1, <3>3 DEF PragmaAfter
      <4> QED
        BY <2>1, <3>1, <4>1, <4>2, <4>3 DEF LibInv, IsLib
    <3>4. CASE pragma = "synchronous"
      <4>1. value = cfg.synchronous
        BY <3>4 DEF Took, ValueOf
      <4>2. lib' = [handle |-> "open", timeout |-> lib.timeout, foreignKeys |-> lib.foreignKeys,
                    journalMode |-> lib.journalMode, synchronous |-> value, hasty |-> hasty]
        BY <2>3, <2>5, <3>4 DEF IsLib
      <4>3. pc = "synchronous" /\ pc' = "hook"
        BY <2>1, <3>4 DEF PragmaAfter
      <4> QED
        BY <2>1, <3>1, <4>1, <4>2, <4>3 DEF LibInv, IsLib
    <3> QED
      BY <2>2, <3>2, <3>3, <3>4
  <2> QED
    BY <2>1, <2>4, <2>5
<1> QED
  BY <1>1, <1>2

LEMMA HookKeepsLib ==
  ASSUME LibInv, ConnectHook
  PROVE  LibInv'
<1>1. CASE Fail
  BY <1>1, FailCloses
<1>2. CASE pc' = "ready" /\ lib' = lib
  <2>1. pc = "hook" /\ cfg' = cfg
    BY DEF ConnectHook
  <2> QED
    BY <1>2, <2>1 DEF LibInv, IsLib
<1> QED
  BY <1>1, <1>2 DEF ConnectHook

LEMMA LibStep ==
  ASSUME LibInv, CfgTyped, DsnNext \/ UNCHANGED dsnVars
  PROVE  LibInv'
<1>1. ASSUME NEW key \in Keys, Option(key) PROVE LibInv'
  <2>1. pc = "parse" /\ pc' \in {"parse", "refused"} /\ lib' = lib
    BY <1>1 DEF Option
  <2> QED
    BY <2>1, ParseTouchesNoHandle
<1>2. CASE ParseReturns
  <2>1. pc = "parse" /\ pc' = "parsed" /\ lib' = lib
    BY <1>2 DEF ParseReturns
  <2> QED
    BY <2>1, ParseTouchesNoHandle
<1>3. CASE UNCHANGED dsnVars
  <2>1. UNCHANGED <<pc, cfg, lib>>
    BY <1>3 DEF dsnVars
  <2> QED
    BY <2>1 DEF LibInv, IsLib
<1> QED
  BY <1>1, <1>2, <1>3, OpenKeepsLib, SetTimeoutKeepsLib, PragmaKeepsLib, HookKeepsLib DEF DsnNext

LEMMA LibStarts == DsnInit => LibInv
<1> SUFFICES ASSUME DsnInit PROVE LibInv
  OBVIOUS
<1>1. pc = "parse" /\ lib = NoHandle
  BY DEF DsnInit
<1>2. IsLib(lib) /\ lib.handle = "none"
  BY <1>1 DEF IsLib, NoHandle
<1> QED
  BY <1>1, <1>2 DEF LibInv

LEMMA LibConfigured == LibInv => Configured
<1> SUFFICES ASSUME LibInv PROVE Configured
  OBVIOUS
<1>1. NoHandle.handle = "none"
  BY DEF NoHandle
<1>2. pc \in {"parse", "parsed", "refused", "failed"} => lib.handle # "open"
  BY <1>1 DEF LibInv
<1> QED
  BY <1>2 DEF LibInv, Configured

-----------------------------------------------------------------------------
(* bindNamedValues.                                                        *)

\* A set of naturals has a least member.
LEMMA MinIsMin ==
  ASSUME NEW T \in SUBSET Nat, T # {}
  PROVE  Min(T) \in T
<1> DEFINE R == {ss \in Nat \X Nat : ss[1] < ss[2]}
<1>1. IsWellFoundedOn(R, Nat)
  BY NatLessThanWellFounded DEF OpToRel
<1> HIDE DEF R
<1>2. PICK m \in T : \A n \in T : ~ (<<n, m>> \in R)
  BY <1>1, WFMin
<1>3. ASSUME NEW n \in T PROVE m <= n
  <2>1. m \in Nat /\ n \in Nat
    OBVIOUS
  <2>2. n < m => <<n, m>> \in R
    BY <2>1 DEF R
  <2>3. ~(n < m)
    BY <2>2, <1>2
  <2> QED
    BY <2>1, <2>3
<1>4. \E x \in T : \A y \in T : x <= y
  BY <1>3
<1> QED
  BY <1>4 DEF Min

\* What is found has the name that was looked for.
LEMMA IndexHasTheName ==
  ASSUME NEW params, NEW prefix, NEW name, DOMAIN params \subseteq Nat \ {0},
         BindParameterIndex(params, prefix, name) # 0
  PROVE  /\ BindParameterIndex(params, prefix, name) \in DOMAIN params
         /\ params[BindParameterIndex(params, prefix, name)].name = name
<1> DEFINE at == {i \in DOMAIN params : params[i] = [prefix |-> prefix, name |-> name]}
<1>1. at # {} /\ BindParameterIndex(params, prefix, name) = Min(at)
  BY DEF BindParameterIndex
<1>2. Min(at) \in at
  BY <1>1, MinIsMin
<1> QED
  BY <1>1, <1>2

\* An argument without a name goes to its place, another to a parameter of its
\* name.
LEMMA ResolvedIndexIsAddressed ==
  ASSUME NEW params, NEW name, NEW ordinal, DOMAIN params \subseteq Nat \ {0},
         ResolveIndex(params, name, ordinal) \in DOMAIN params
  PROVE  IF name = "" THEN ResolveIndex(params, name, ordinal) = ordinal
         ELSE params[ResolveIndex(params, name, ordinal)].name = name
<1> DEFINE found == {p \in DOMAIN TriedPrefixes : BindParameterIndex(params, TriedPrefixes[p], name) # 0}
<1>1. CASE name = ""
  BY <1>1 DEF ResolveIndex
<1>2. CASE name # ""
  <2>1. ResolveIndex(params, name, ordinal) =
          IF found = {} THEN 0 ELSE BindParameterIndex(params, TriedPrefixes[Min(found)], name)
    BY <1>2 DEF ResolveIndex
  <2>2. found # {}
    BY <2>1
  <2>3. found \subseteq Nat
    BY DEF TriedPrefixes
  <2>4. Min(found) \in found
    BY <2>2, <2>3, MinIsMin
  <2>5. BindParameterIndex(params, TriedPrefixes[Min(found)], name) # 0
    BY <2>4
  <2> DEFINE prefix == TriedPrefixes[Min(found)]
  <2>6. ResolveIndex(params, name, ordinal) = BindParameterIndex(params, prefix, name)
    BY <2>1, <2>2
  <2> HIDE DEF found, prefix
  <2>7. params[BindParameterIndex(params, prefix, name)].name = name
    BY <2>5, IndexHasTheName DEF prefix
  <2> QED
    BY <1>2, <2>6, <2>7
<1> QED
  BY <1>1, <1>2

LEMMA BoundedSeqIsSeq ==
  ASSUME NEW S, NEW n \in Nat, NEW s \in BoundedSeq(S, n)
  PROVE  s \in Seq(S)
<1>1. PICK m \in 0..n : s \in [1..m -> S]
  BY DEF BoundedSeq, SeqOf
<1>2. m \in Nat
  OBVIOUS
<1> QED
  BY <1>1, <1>2

IsStatement(s) ==
  s = [at |-> s.at, params |-> s.params, direct |-> s.direct, calls |-> s.calls,
       args |-> s.args, next |-> s.next, bound |-> s.bound]

StatementTyped ==
  /\ IsStatement(statement)
  /\ statement.at \in {"none", "prepared", "binding", "ran", "failed"}
  /\ statement.params \in Seq(Parameters) /\ statement.args \in Seq(Names \cup {""})
  /\ statement.direct \in BOOLEAN /\ statement.calls \in Nat
  /\ statement.next \in 1..(Len(statement.args) + 1)
  /\ DOMAIN statement.bound = DOMAIN statement.params

\* The arguments before next are bound, each where it asks to be, unless a
\* later one took its place; nothing else is.
BoundSoFar ==
  /\ \A i \in DOMAIN statement.params :
       statement.bound[i] # Unset =>
         /\ statement.bound[i].call = statement.calls
         /\ statement.bound[i].argument \in 1..(statement.next - 1)
         /\ Addresses(statement.bound[i].argument, i)
  /\ \A k \in 1..(statement.next - 1) :
       \E i \in DOMAIN statement.params :
         Addresses(k, i) /\ statement.bound[i] # Unset /\ statement.bound[i].argument >= k

ParamsInv ==
  /\ StatementTyped
  /\ BoundSoFar
  /\ statement.at = "ran" => statement.next = Len(statement.args) + 1
  /\ statement.at \in {"binding", "ran", "failed"} /\ ~statement.direct =>
       Len(statement.args) = Len(statement.params)

LEMMA PrepareBinds ==
  ASSUME ParamsInv, NEW params \in ParameterLists, NEW direct \in BOOLEAN,
         PrepareStatement(params, direct)
  PROVE  ParamsInv'
<1> DEFINE bound == [i \in DOMAIN params |-> Unset]
<1>1. statement' = [at |-> "prepared", params |-> params, direct |-> direct, calls |-> 0,
                    args |-> << >>, next |-> 1, bound |-> bound]
  BY DEF PrepareStatement, NoStatement
<1>2. params \in Seq(Parameters)
  BY BoundedSeqIsSeq, CallBoundsAssumption DEF ParameterLists
<1>3. DOMAIN bound = DOMAIN params /\ \A i \in DOMAIN params : bound[i] = Unset
  OBVIOUS
<1> HIDE DEF bound
<1>4. StatementTyped'
  BY <1>1, <1>2, <1>3 DEF StatementTyped, IsStatement
<1>5. BoundSoFar'
  BY <1>1, <1>3 DEF BoundSoFar
<1> QED
  BY <1>1, <1>4, <1>5 DEF ParamsInv

LEMMA BeginUnbinds ==
  ASSUME ParamsInv, NEW args \in ArgumentLists, BeginBinding(args)
  PROVE  ParamsInv'
<1> DEFINE params == statement.params
           bound == [i \in DOMAIN params |-> Unset]
<1>1. /\ StatementTyped /\ IsStatement(statement)
      /\ ~statement.direct => Len(args) = Len(params)
  BY DEF BeginBinding, Callable, ParamsInv, StatementTyped
<1>2. statement' = [at |-> "binding", params |-> params, direct |-> statement.direct,
                    calls |-> statement.calls + 1, args |-> args, next |-> 1, bound |-> bound]
  BY <1>1 DEF BeginBinding, IsStatement
<1>3. args \in Seq(Names \cup {""})
  BY BoundedSeqIsSeq, CallBoundsAssumption DEF ArgumentLists
<1>4. DOMAIN bound = DOMAIN params /\ \A i \in DOMAIN params : bound[i] = Unset
  OBVIOUS
<1> HIDE DEF bound
<1>5. StatementTyped'
  <2>1. /\ statement'.at = "binding" /\ statement'.params = params /\ statement'.args = args
        /\ statement'.direct = statement.direct /\ statement'.calls = statement.calls + 1
        /\ statement'.next = 1 /\ statement'.bound = bound /\ IsStatement(statement)'
    BY <1>2 DEF IsStatement
  <2>2. Len(args) \in Nat /\ 1 \in 1..(Len(args) + 1)
    <3>1. Len(args) \in Nat
      BY <1>3, LenProperties
    <3> QED
      BY <3>1
  <2>3. DOMAIN statement'.bound = DOMAIN statement'.params
    BY <1>4, <2>1
  <2>4. /\ params \in Seq(Parameters) /\ statement.direct \in BOOLEAN
        /\ statement.calls + 1 \in Nat
    <3>1. params \in Seq(Parameters) /\ statement.direct \in BOOLEAN /\ statement.calls \in Nat
      BY <1>1, Zenon DEF StatementTyped
    <3>2. statement.calls + 1 \in Nat
      BY <3>1
    <3> QED
      BY <3>1, <3>2
  <2> HIDE DEF params
  <2>5. /\ statement'.at \in {"none", "prepared", "binding", "ran", "failed"}
        /\ statement'.params \in Seq(Parameters) /\ statement'.args \in Seq(Names \cup {""})
        /\ statement'.direct \in BOOLEAN /\ statement'.calls \in Nat
        /\ statement'.next \in 1..(Len(statement'.args) + 1)
    <3>1. statement'.next \in 1..(Len(statement'.args) + 1)
      BY <2>1, <2>2
    <3>2. statement'.params \in Seq(Parameters) /\ statement'.direct \in BOOLEAN
      BY <2>1, <2>4
    <3> QED
      BY <1>3, <2>1, <2>4, <3>1, <3>2
  <2> QED
    BY <2>1, <2>3, <2>5 DEF StatementTyped
<1>6. BoundSoFar'
  BY <1>2, <1>4 DEF BoundSoFar
<1> QED
  BY <1>1, <1>2, <1>5, <1>6 DEF ParamsInv

\* A step that changes nothing but where the call is.
LEMMA AtMoves ==
  ASSUME ParamsInv, NEW at \in {"binding", "ran", "failed"},
         statement' = [statement EXCEPT !.at = at],
         statement.at = "binding",
         at = "ran" => statement.next = Len(statement.args) + 1
  PROVE  ParamsInv'
<1>1. StatementTyped /\ IsStatement(statement)
  BY DEF ParamsInv, StatementTyped
<1>2. statement' = [at |-> at, params |-> statement.params, direct |-> statement.direct,
                    calls |-> statement.calls, args |-> statement.args,
                    next |-> statement.next, bound |-> statement.bound]
  BY <1>1 DEF IsStatement
<1>3. /\ statement'.at = at /\ statement'.params = statement.params
      /\ statement'.direct = statement.direct /\ statement'.calls = statement.calls
      /\ statement'.args = statement.args /\ statement'.next = statement.next
      /\ statement'.bound = statement.bound /\ IsStatement(statement)'
  BY <1>2 DEF IsStatement
<1>4. StatementTyped'
  BY <1>1, <1>3, Zenon DEF StatementTyped
<1>5. BoundSoFar'
  <2>1. BoundSoFar
    BY DEF ParamsInv
  <2>2. \A k, i : Addresses(k, i)' <=> Addresses(k, i)
    BY <1>3, Zenon DEF Addresses
  <2> QED
    BY <2>1, <2>2, <1>3 DEF BoundSoFar
<1> QED
  BY <1>3, <1>4, <1>5 DEF ParamsInv

LEMMA NextPlace ==
  ASSUME NEW n \in Nat, NEW k \in 1..(n + 1)
  PROVE  /\ k \in Nat /\ k >= 1
         /\ k <= n => k + 1 \in 1..(n + 1)
         /\ k > n => k = n + 1
OBVIOUS

LEMMA StepBoundKeeps ==
  ASSUME ParamsInv, StepBound
  PROVE  ParamsInv'
<1>1. /\ statement.at = "binding" /\ statement.next > Len(statement.args)
      /\ statement' = [statement EXCEPT !.at = "ran"]
  BY DEF StepBound
<1>2. statement.args \in Seq(Names \cup {""}) /\ statement.next \in 1..(Len(statement.args) + 1)
  BY DEF ParamsInv, StatementTyped
<1>3. Len(statement.args) \in Nat
  BY <1>2, LenProperties
<1>4. statement.next = Len(statement.args) + 1
  <2>1. statement.next \in 1..(Len(statement.args) + 1) /\ statement.next > Len(statement.args)
    BY <1>1, <1>2, Zenon
  <2> QED
    BY <1>3, <2>1, NextPlace
<1> QED
  BY <1>1, <1>4, AtMoves

LEMMA BindBinds ==
  ASSUME ParamsInv, BindArgument
  PROVE  ParamsInv'
<1> DEFINE params == statement.params
           args == statement.args
           k == statement.next
           index == ResolveIndex(params, args[k], k)
           entry == [call |-> statement.calls, argument |-> k]
           bound == [statement.bound EXCEPT ![index] = entry]
<1>1. /\ statement.at = "binding" /\ k <= Len(args)
      /\ \/ statement' = [statement EXCEPT !.at = "failed"]
         \/ /\ index \in DOMAIN params
            /\ statement' = [statement EXCEPT
                 !.bound[index] = [call |-> statement.calls, argument |-> k], !.next = k + 1]
  BY DEF BindArgument
<1>2. CASE statement' = [statement EXCEPT !.at = "failed"]
  BY <1>1, <1>2, AtMoves
<1>3. CASE /\ index \in DOMAIN params
           /\ statement' = [statement EXCEPT
                !.bound[index] = [call |-> statement.calls, argument |-> k], !.next = k + 1]
  <2>1. StatementTyped /\ BoundSoFar /\ IsStatement(statement)
    BY DEF ParamsInv, StatementTyped
  <2>2. /\ params \in Seq(Parameters) /\ args \in Seq(Names \cup {""})
        /\ k \in 1..(Len(args) + 1) /\ DOMAIN statement.bound = DOMAIN params
    BY <2>1, Zenon DEF StatementTyped
  <2>3. Len(args) \in Nat /\ DOMAIN params \subseteq Nat \ {0}
    <3>1. Len(args) \in Nat /\ Len(params) \in Nat /\ DOMAIN params = 1..Len(params)
      BY <2>2, LenProperties
    <3> QED
      BY <3>1
  <2>4. k \in Nat /\ k >= 1 /\ k + 1 \in 1..(Len(args) + 1)
    <3>1. k \in 1..(Len(args) + 1) /\ Len(args) \in Nat /\ k <= Len(args)
      BY <2>2, <2>3, <1>1, Zenon
    <3> HIDE DEF k, args
    <3> QED
      BY <3>1, NextPlace
  <2>5. Addresses(k, index)
    <3>1. IF args[k] = "" THEN index = k ELSE params[index].name = args[k]
      <4> DEFINE name == args[k]
      <4>1. index = ResolveIndex(params, name, k) /\ index \in DOMAIN params
        BY <1>3
      <4> HIDE DEF name, index, params, k
      <4>2. IF name = "" THEN index = k ELSE params[index].name = name
        BY <2>3, <4>1, ResolvedIndexIsAddressed
      <4> QED
        BY <4>2 DEF name
    <3> HIDE DEF index
    <3> QED
      BY <3>1 DEF Addresses
  <2>6. /\ statement'.at = "binding" /\ statement'.params = params
        /\ statement'.direct = statement.direct /\ statement'.calls = statement.calls
        /\ statement'.args = args /\ statement'.next = k + 1
        /\ statement'.bound = bound /\ IsStatement(statement)'
    <3>1. statement' = [at |-> "binding", params |-> params, direct |-> statement.direct,
                        calls |-> statement.calls, args |-> args, next |-> k + 1,
                        bound |-> bound]
      <4> HIDE DEF index
      <4> QED
        BY <1>1, <1>3, <2>1 DEF IsStatement
    <3> HIDE DEF bound, index
    <3> QED
      BY <3>1 DEF IsStatement
  <2>7. /\ DOMAIN bound = DOMAIN params /\ bound[index] = entry
        /\ \A i \in DOMAIN params : i # index => bound[i] = statement.bound[i]
    <3> HIDE DEF index
    <3> QED
      BY <1>3, <2>2
  <2>8. /\ entry.call = statement.calls /\ entry.argument = k /\ entry # Unset
    BY <2>4 DEF Unset
  <2> HIDE DEF bound, index, entry
  <2>9. StatementTyped'
    <3>1. /\ statement'.direct \in BOOLEAN /\ statement'.calls \in Nat
      BY <2>1, <2>6, Zenon DEF StatementTyped
    <3>2. /\ statement'.params \in Seq(Parameters) /\ statement'.args \in Seq(Names \cup {""})
          /\ statement'.next \in 1..(Len(statement'.args) + 1)
          /\ DOMAIN statement'.bound = DOMAIN statement'.params
      BY <2>2, <2>4, <2>6, <2>7
    <3>3. statement'.at \in {"none", "prepared", "binding", "ran", "failed"}
      BY <2>6
    <3> QED
      BY <2>6, <3>1, <3>2, <3>3, Zenon DEF StatementTyped
  <2>10. \A j, i : Addresses(j, i)' <=> Addresses(j, i)
    BY <2>6, Zenon DEF Addresses
  <2>11. ASSUME NEW i \in DOMAIN params, bound[i] # Unset
         PROVE  /\ bound[i].call = statement.calls
                /\ bound[i].argument \in 1..k
                /\ Addresses(bound[i].argument, i)
    <3>1. CASE i = index
      BY <3>1, <2>4, <2>5, <2>7, <2>8
    <3>2. CASE i # index
      <4>1. /\ statement.bound[i].call = statement.calls
            /\ statement.bound[i].argument \in 1..(k - 1)
            /\ Addresses(statement.bound[i].argument, i)
        BY <3>2, <2>1, <2>7, <2>11 DEF BoundSoFar
      <4> QED
        BY <4>1, <3>2, <2>4, <2>7
    <3> QED
      BY <3>1, <3>2
  <2>12. ASSUME NEW j \in 1..k
         PROVE  \E i \in DOMAIN params :
                  Addresses(j, i) /\ bound[i] # Unset /\ bound[i].argument >= j
    <3>1. CASE j = k
      BY <3>1, <1>3, <2>4, <2>5, <2>7, <2>8
    <3>2. CASE j # k
      <4>1. j \in 1..(k - 1) /\ k >= j
        BY <3>2, <2>4
      <4>2. PICK i \in DOMAIN params : /\ Addresses(j, i) /\ statement.bound[i] # Unset
                                       /\ statement.bound[i].argument >= j
        BY <4>1, <2>1 DEF BoundSoFar
      <4>3. CASE i = index
        BY <4>1, <4>2, <4>3, <2>7, <2>8
      <4>4. CASE i # index
        BY <4>2, <4>4, <2>7
      <4> QED
        BY <4>3, <4>4
    <3> QED
      BY <3>1, <3>2
  <2>13. BoundSoFar'
    <3>1. (k + 1) - 1 = k
      BY <2>4
    <3> QED
      BY <2>6, <2>10, <2>11, <2>12, <3>1 DEF BoundSoFar
  <2> QED
    BY <2>6, <2>9, <2>13, <1>1 DEF ParamsInv
<1> QED
  BY <1>1, <1>2, <1>3, Zenon

LEMMA ParamsStarts == ParamsInit => ParamsInv
<1> SUFFICES ASSUME ParamsInit PROVE ParamsInv
  OBVIOUS
<1>1. statement = [at |-> "none", params |-> << >>, direct |-> FALSE, calls |-> 0,
                   args |-> << >>, next |-> 1, bound |-> << >>]
  BY DEF ParamsInit, NoStatement
<1>2. << >> \in Seq(Parameters) /\ << >> \in Seq(Names \cup {""}) /\ Len(<< >>) = 0
  BY EmptySeq
<1>3. DOMAIN << >> = {}
  OBVIOUS
<1>4. StatementTyped
  <2>1. /\ statement.at = "none" /\ statement.params = << >> /\ statement.args = << >>
        /\ statement.direct = FALSE /\ statement.calls = 0 /\ statement.next = 1
        /\ statement.bound = << >> /\ IsStatement(statement)
    BY <1>1 DEF IsStatement
  <2>2. statement.params \in Seq(Parameters) /\ statement.args \in Seq(Names \cup {""})
    BY <2>1, <1>2, Zenon
  <2>3. /\ statement.at \in {"none", "prepared", "binding", "ran", "failed"}
        /\ statement.direct \in BOOLEAN /\ statement.calls \in Nat
        /\ statement.next \in 1..(Len(statement.args) + 1)
        /\ DOMAIN statement.bound = DOMAIN statement.params
    <3>1. Len(statement.args) = 0 /\ DOMAIN statement.bound = DOMAIN statement.params
      BY <2>1, <1>2, Zenon
    <3>2. 1 \in 1..(0 + 1) /\ 0 \in Nat
      OBVIOUS
    <3>3. statement.next \in 1..(Len(statement.args) + 1) /\ statement.calls \in Nat
      BY <2>1, <3>1, <3>2, Zenon
    <3>4. /\ statement.at \in {"none", "prepared", "binding", "ran", "failed"}
          /\ statement.direct \in BOOLEAN
      BY <2>1
    <3> QED
      BY <3>1, <3>3, <3>4
  <2> QED
    BY <2>1, <2>2, <2>3, Zenon DEF StatementTyped
<1>5. BoundSoFar
  BY <1>1, <1>3 DEF BoundSoFar
<1> QED
  BY <1>1, <1>4, <1>5 DEF ParamsInv

LEMMA ParamsStep ==
  ASSUME ParamsInv, ParamsNext \/ UNCHANGED statement
  PROVE  ParamsInv'
<1>1. CASE UNCHANGED statement
  BY <1>1 DEF ParamsInv, StatementTyped, IsStatement, BoundSoFar, Addresses
<1> QED
  BY <1>1, PrepareBinds, BeginUnbinds, BindBinds, StepBoundKeeps DEF ParamsNext

NamesOfTheirOwn ==
  \A k, l \in DOMAIN statement.args :
    statement.args[k] # "" /\ (k # l => statement.args[k] # statement.args[l])

\* As many arguments as parameters, each of which asks for one of its own, ask
\* for every parameter: a function that is one-to-one between sets of one size
\* is onto.
LEMMA DistinctNamesFillAll ==
  ASSUME ParamsInv, statement.at = "ran", ~statement.direct, NamesOfTheirOwn
  PROVE  \A i \in DOMAIN statement.params : statement.bound[i] # Unset
<1> DEFINE n == Len(statement.params)
<1>0. statement.params \in Seq(Parameters) /\ statement.args \in Seq(Names \cup {""})
  BY Zenon DEF ParamsInv, StatementTyped
<1>1. BoundSoFar /\ statement.next = Len(statement.args) + 1 /\ Len(statement.args) = n
  BY DEF ParamsInv
<1>2. n \in Nat /\ DOMAIN statement.params = 1..n /\ DOMAIN statement.args = 1..n
  BY <1>0, <1>1, LenProperties
<1>3. \A k \in 1..n : \E i \in 1..n :
        statement.args[k] = statement.params[i].name /\ statement.bound[i] # Unset
  <2>1. TAKE k \in 1..n
  <2>2. k \in 1..(statement.next - 1)
    <3>1. n \in Nat /\ statement.next = n + 1
      BY <1>1, <1>2
    <3> HIDE DEF n
    <3> QED
      BY <3>1
  <2>3. PICK i \in DOMAIN statement.params : Addresses(k, i) /\ statement.bound[i] # Unset
    BY <1>1, <2>2 DEF BoundSoFar
  <2>4. statement.args[k] # ""
    BY <1>2 DEF NamesOfTheirOwn
  <2> QED
    BY <1>2, <2>3, <2>4 DEF Addresses
<1> DEFINE f == [k \in 1..n |-> CHOOSE i \in 1..n :
                   statement.args[k] = statement.params[i].name /\ statement.bound[i] # Unset]
<1>4. ASSUME NEW k \in 1..n
      PROVE  /\ f[k] \in 1..n /\ statement.args[k] = statement.params[f[k]].name
             /\ statement.bound[f[k]] # Unset
  BY <1>3
<1>5. f \in [1..n -> 1..n]
  BY <1>4
<1> HIDE DEF f, n
<1>6. f \in Injection(1..n, 1..n)
  <2>1. ASSUME NEW k \in 1..n, NEW l \in 1..n, f[k] = f[l]
        PROVE  k = l
    <3>1. statement.args[k] = statement.args[l]
      BY <1>4, <2>1
    <3>2. k \in DOMAIN statement.args /\ l \in DOMAIN statement.args
      BY <1>2
    <3> QED
      BY <3>1, <3>2 DEF NamesOfTheirOwn
  <2> QED
    BY <1>5, <2>1 DEF Injection, IsInjective
<1>7. IsFiniteSet(1..n)
  <2>1. 1 \in Int /\ n \in Int
    BY <1>2
  <2> QED
    BY <2>1, FS_Interval
<1>8. f \in Surjection(1..n, 1..n)
  BY <1>6, <1>7, FS_Injection
<1>9. \A i \in 1..n : \E k \in 1..n : f[k] = i
  BY <1>8 DEF Surjection
<1>10. ASSUME NEW i \in 1..n PROVE statement.bound[i] # Unset
  <2>1. PICK k \in 1..n : f[k] = i
    BY <1>9
  <2> QED
    BY <2>1, <1>4
<1> QED
  BY <1>2, <1>10

LEMMA ParamsAreTrue == ParamsInv => ParametersTrue
<1> SUFFICES ASSUME ParamsInv, statement.at = "ran"
             PROVE  NothingLeftOver /\ NothingDropped /\ NothingMissing
  BY DEF ParametersTrue
<1> DEFINE params == statement.params
           args == statement.args
<1>0. params \in Seq(Parameters) /\ args \in Seq(Names \cup {""})
  BY Zenon DEF ParamsInv, StatementTyped
<1>1. /\ BoundSoFar /\ statement.next = Len(args) + 1
      /\ ~statement.direct => Len(args) = Len(params)
  BY DEF ParamsInv
<1>2. Len(args) \in Nat /\ DOMAIN args = 1..Len(args) /\ DOMAIN params = 1..Len(params)
  BY <1>0, LenProperties
<1>3. statement.next - 1 = Len(args)
  BY <1>1, <1>2
<1>4. NothingLeftOver
  BY <1>1, Zenon DEF BoundSoFar, NothingLeftOver
<1>5. NothingDropped
  BY <1>1, <1>2, <1>3 DEF BoundSoFar, NothingDropped
<1>6. ASSUME ~statement.direct, \A k \in DOMAIN args : args[k] = ""
      PROVE  \A i \in DOMAIN params : statement.bound[i] # Unset
  <2>1. TAKE i \in DOMAIN params
  <2>2. i \in DOMAIN args
    BY <1>1, <1>2, <1>6
  <2>3. PICK j \in DOMAIN params : Addresses(i, j) /\ statement.bound[j] # Unset
    BY <1>5, <2>2 DEF NothingDropped
  <2> QED
    BY <1>6, <2>2, <2>3 DEF Addresses
<1>7. NothingMissing
  BY <1>6, DistinctNamesFillAll, Zenon DEF NothingMissing, NamesOfTheirOwn
<1> QED
  BY <1>4, <1>5, <1>7

-----------------------------------------------------------------------------
(* Values.                                                                 *)

\* The widths without their powers.
LEMMA WordsFit ==
  /\ \A n \in Signed(Width) : n \in Int /\ ToSigned(n, Width) = n
  /\ \A n \in Signed(NarrowBits) : n \in Signed(Width) /\ ToSigned(n, NarrowBits) = n
  /\ \A n \in Unsigned(NarrowBits) : n \in Signed(Width) /\ ToUnsigned(n, NarrowBits) = n
  /\ \A n \in Signed(Width) : n >= 0 => ToUnsigned(n, Width) = n
  /\ \A k \in {Width, NarrowBits} : 0 \in Signed(k) /\ 0 \in Unsigned(k)
  /\ 1 \in Signed(Width)
<1> DEFINE half == 2 ^ (Width - 1)
           narrow == 2 ^ (NarrowBits - 1)
<1>1. /\ half \in Nat \ {0} /\ 2 ^ Width = 2 * half
      /\ narrow \in Nat \ {0} /\ 2 ^ NarrowBits = 2 * narrow /\ 2 * narrow <= half
  BY PowersAssumption
<1>2. /\ Signed(Width) = (-half)..(half - 1) /\ Signed(NarrowBits) = (-narrow)..(narrow - 1)
      /\ Unsigned(NarrowBits) = 0..(2 * narrow - 1) /\ Unsigned(Width) = 0..(2 * half - 1)
      /\ \A n : ToSigned(n, Width) = ((n + half) % (2 * half)) - half
      /\ \A n : ToSigned(n, NarrowBits) = ((n + narrow) % (2 * narrow)) - narrow
      /\ \A n : ToUnsigned(n, Width) = n % (2 * half)
      /\ \A n : ToUnsigned(n, NarrowBits) = n % (2 * narrow)
  BY <1>1 DEF Signed, Unsigned, ToSigned, ToUnsigned
<1> HIDE DEF half, narrow
<1>3. ASSUME NEW n \in Signed(Width) PROVE n \in Int /\ ToSigned(n, Width) = n
  <2>1. n \in Int /\ n \in (-half)..(half - 1)
    BY <1>1, <1>2
  <2>2. ((n + half) % (2 * half)) - half = n
    BY <1>1, <2>1, Wraps2
  <2> QED
    BY <1>2, <2>1, <2>2, Zenon
<1>4. ASSUME NEW n \in Signed(NarrowBits)
      PROVE  n \in Signed(Width) /\ ToSigned(n, NarrowBits) = n
  <2>1. n \in Int /\ n \in (-half)..(half - 1) /\ n \in (-narrow)..(narrow - 1)
    BY <1>1, <1>2
  <2>2. ((n + narrow) % (2 * narrow)) - narrow = n
    BY <1>1, <2>1, Wraps2
  <2> QED
    BY <1>2, <2>1, <2>2, Zenon
<1>5. ASSUME NEW n \in Unsigned(NarrowBits)
      PROVE  n \in Signed(Width) /\ ToUnsigned(n, NarrowBits) = n
  <2>1. n \in (-half)..(half - 1) /\ n % (2 * narrow) = n
    BY <1>1, <1>2
  <2> QED
    BY <1>2, <2>1
<1>6. ASSUME NEW n \in Signed(Width), n >= 0 PROVE ToUnsigned(n, Width) = n
  <2>1. n % (2 * half) = n
    BY <1>1, <1>2, <1>6
  <2> QED
    BY <1>2, <2>1
<1>7. /\ \A k \in {Width, NarrowBits} : 0 \in Signed(k) /\ 0 \in Unsigned(k)
      /\ 1 \in Signed(Width)
  BY <1>1, <1>2
<1> QED
  BY <1>3, <1>4, <1>5, <1>6, <1>7

\* A number is cut to fit; an unsigned one that is too large as a signed one
\* comes out less by the size of the word.
LEMMA WordsAreCut ==
  /\ \A k \in {Width, NarrowBits} : \A n \in Int :
       ToSigned(n, k) \in Signed(k) /\ ToUnsigned(n, k) \in Unsigned(k)
  /\ \A k \in {Width, NarrowBits} : \A n \in Signed(k) : n \in Int /\ ToSigned(n, k) = n
  /\ \A k \in {Width, NarrowBits} : \A n \in Unsigned(k) :
       n \in Int /\ n >= 0 /\ ToUnsigned(n, k) = n
  /\ \A n \in Unsigned(Width) \ Signed(Width) : ToSigned(n, Width) = n - 2 ^ Width
  /\ 2 ^ Width - 1 \in Unsigned(Width)
<1>1. ASSUME NEW k \in {Width, NarrowBits}, NEW n \in Int
      PROVE  /\ ToSigned(n, k) \in Signed(k) /\ ToUnsigned(n, k) \in Unsigned(k)
             /\ n \in Signed(k) => ToSigned(n, k) = n
             /\ n \in Unsigned(k) => n >= 0 /\ ToUnsigned(n, k) = n
  <2> DEFINE half == 2 ^ (k - 1)
  <2>1. half \in Nat \ {0} /\ 2 ^ k = 2 * half
    BY PowersAssumption
  <2>2. /\ Signed(k) = (-half)..(half - 1) /\ Unsigned(k) = 0..(2 * half - 1)
        /\ ToSigned(n, k) = ((n + half) % (2 * half)) - half /\ ToUnsigned(n, k) = n % (2 * half)
    BY <2>1 DEF Signed, Unsigned, ToSigned, ToUnsigned
  <2> HIDE DEF half
  <2>3. /\ ((n + half) % (2 * half)) - half \in (-half)..(half - 1)
        /\ n \in (-half)..(half - 1) => ((n + half) % (2 * half)) - half = n
    BY <2>1, Wraps2
  <2>4. n % (2 * half) \in 0..(2 * half - 1)
    BY <2>1
  <2>5. n \in 0..(2 * half - 1) => n >= 0 /\ n % (2 * half) = n
    BY <2>1
  <2> QED
    BY <2>2, <2>3, <2>4, <2>5, Zenon
<1>2. ASSUME NEW k \in {Width, NarrowBits}, NEW n, n \in Signed(k) \/ n \in Unsigned(k)
      PROVE  n \in Int
  <2>1. 2 ^ (k - 1) \in Int /\ 2 ^ k \in Int
    BY PowersAssumption
  <2> QED
    BY <1>2, <2>1 DEF Signed, Unsigned
<1>3. /\ \A n \in Unsigned(Width) \ Signed(Width) : ToSigned(n, Width) = n - 2 ^ Width
      /\ 2 ^ Width - 1 \in Unsigned(Width)
  <2> DEFINE half == 2 ^ (Width - 1)
  <2>1. half \in Nat \ {0} /\ 2 ^ Width = 2 * half
    BY PowersAssumption
  <2>2. /\ Signed(Width) = (-half)..(half - 1) /\ Unsigned(Width) = 0..(2 * half - 1)
        /\ \A n : ToSigned(n, Width) = ((n + half) % (2 * half)) - half
    BY <2>1 DEF Signed, Unsigned, ToSigned
  <2> HIDE DEF half
  <2>3. ASSUME NEW n \in Int, half <= n, n < 2 * half
        PROVE  ((n + half) % (2 * half)) - half = n - 2 * half
    <3>1. (n + half) % (2 * half) = (n - half) % (2 * half)
      <4>1. n + half = (n - half) + 1 * (2 * half)
        BY <2>1
      <4> QED
        BY <2>1, <2>3, <4>1
    <3>2. (n - half) % (2 * half) = n - half
      BY <2>1, <2>3
    <3> QED
      BY <2>1, <3>1, <3>2
  <2>4. ASSUME NEW n \in Unsigned(Width) \ Signed(Width) PROVE ToSigned(n, Width) = n - 2 ^ Width
    <3>1. n \in Int /\ half <= n /\ n < 2 * half
      BY <2>1, <2>2
    <3>2. ((n + half) % (2 * half)) - half = n - 2 * half
      BY <2>3, <3>1
    <3> QED
      BY <2>1, <2>2, <3>2, Zenon
  <2>5. 2 ^ Width - 1 \in Unsigned(Width)
    BY <2>1, <2>2
  <2> QED
    BY <2>4, <2>5
<1> QED
  BY <1>1, <1>2, <1>3

\* A C string has no NUL left, and one without is left as it is.
LEMMA CStringKeeps ==
  ASSUME NEW text, ~HasNul(Str(text))
  PROVE  CString(text) = text
<1>1. "chars" \in DOMAIN text => {i \in DOMAIN text.chars : text.chars[i] = "NUL"} = {}
  BY DEF HasNul, Str
<1> QED
  BY <1>1 DEF CString

LEMMA CStringEnds ==
  ASSUME NEW text \in Texts
  PROVE  CString(CString(text)) = CString(text)
<1>1. CASE text \notin {Chars(s) : s \in CharStrings}
  <2>1. \E n, m : text = Shown(n) \/ text = ShownWithZone(n, m)
    BY <1>1 DEF Texts
  <2>2. "chars" \notin DOMAIN text
    BY <2>1 DEF Shown, ShownWithZone
  <2> QED
    BY <2>2 DEF CString
<1>2. ASSUME NEW s \in CharStrings, text = Chars(s)
      PROVE  CString(CString(text)) = CString(text)
  <2>1. DOMAIN text = {"chars"} /\ text.chars = s
    BY <1>2 DEF Chars
  <2>2. CASE s = << >> \/ s = <<"a">>
    <3>1. \A i \in DOMAIN s : s[i] # "NUL"
      BY <2>2
    <3>2. ~HasNul(Str(text))
      BY <2>1, <3>1 DEF HasNul, Str
    <3> QED
      BY <3>2, CStringKeeps
  <2>3. CASE s = <<"a", "NUL", "a">>
    <3> DEFINE nuls == {i \in DOMAIN s : s[i] = "NUL"}
    <3>1. nuls = {2}
      BY <2>3
    <3>2. (CHOOSE i \in nuls : \A j \in nuls : i <= j) = 2
      BY <3>1
    <3>3. CString(text) = Chars(SubSeq(s, 1, 2 - 1))
      BY <2>1, <3>1, <3>2 DEF CString
    <3> DEFINE head == SubSeq(s, 1, 2 - 1)
    <3>4. DOMAIN head = {1} /\ head[1] = "a"
      <4>1. s \in Seq({"a", "NUL"}) /\ Len(s) = 3 /\ s[1] = "a"
        BY <2>3
      <4>2. head = [i \in 1..1 |-> s[i]]
        BY <4>1
      <4> QED
        BY <4>1, <4>2
    <3> HIDE DEF head
    <3>5. CString(text) = Chars(head)
      BY <3>3 DEF head
    <3>6. ~HasNul(Str(Chars(head)))
      BY <3>4 DEF HasNul, Str, Chars
    <3> QED
      BY <3>5, <3>6, CStringKeeps
  <2> QED
    BY <2>2, <2>3 DEF CharStrings
<1> QED
  BY <1>1, <1>2

\* The values without a Valuer around them, by the way they are stored.
IsSignedValue(v) == \E k \in SignedKinds : \E n \in Signed(BitsOf(k)) : v = Number(k, n)
IsUnsignedValue(v) == \E k \in UnsignedKinds : \E n \in Unsigned(BitsOf(k)) : v = Number(k, n)
IsFloatValue(v) == \E k \in {"float32", "float64"}, x \in {0, 1} : v = Float(k, x)
IsTimeValue(v) == \E t \in Int, z \in Int : v = Time(t, z)

HasForm(v) ==
  \/ v \in {Nil, NilBytes, Struct, Error}
  \/ \E b \in BOOLEAN : v = Bool(b)
  \/ IsSignedValue(v) \/ IsUnsignedValue(v) \/ IsFloatValue(v)
  \/ \E text \in Texts : v = Str(text)
  \/ \E s \in CharStrings : v = Bytes(s)
  \/ IsTimeValue(v)

LEMMA FormsOfValues ==
  ASSUME NEW v \in BasicValues(Texts, Times)
  PROVE  HasForm(v)
<1>1. v \in NoValues \/ v \in Bools => HasForm(v)
  BY DEF HasForm, NoValues, Bools
<1>2. v \in SignedValues => HasForm(v)
  BY DEF HasForm, IsSignedValue, SignedValues
<1>3. v \in UnsignedValues => HasForm(v)
  BY DEF HasForm, IsUnsignedValue, UnsignedValues
<1>4. v \in Floats => HasForm(v)
  BY DEF HasForm, IsFloatValue, Floats
<1>5. v \in Strings(Texts) => HasForm(v)
  BY DEF HasForm, Strings
<1>6. v \in Slices => HasForm(v)
  BY DEF HasForm, Slices
<1>7. ASSUME v \in Times PROVE HasForm(v)
  <2>1. \E t \in -2..(LastYear + 2), z \in {0, 2, 3, -3} : v = Time(t, z)
    BY <1>7 DEF Times
  <2>2. \A t \in -2..(LastYear + 2) : t \in Int
    OBVIOUS
  <2>3. \A z \in {0, 2, 3, -3} : z \in Int
    OBVIOUS
  <2> QED
    BY <2>1, <2>2, <2>3 DEF IsTimeValue, HasForm
<1> QED
  BY <1>1, <1>2, <1>3, <1>4, <1>5, <1>6, <1>7 DEF BasicValues

\* A Valuer is opened once.
LEMMA PlainIsBasic ==
  ASSUME NEW v \in GoArguments
  PROVE  /\ Plain(v) \in BasicValues(Texts, Times)
         /\ Normalize(v) = NormalizeBasic(Plain(v))
<1>1. CASE v \in BasicValues(Texts, Times)
  <2>1. v.kind # "valuer"
    <3>1. IsSignedValue(v) \/ IsUnsignedValue(v) \/ IsFloatValue(v) \/ IsTimeValue(v)
            => v.kind # "valuer"
      BY DEF IsSignedValue, IsUnsignedValue, IsFloatValue, IsTimeValue, Number, Float, Time,
         SignedKinds, UnsignedKinds
    <3>2. /\ Nil.kind # "valuer" /\ NilBytes.kind # "valuer" /\ Struct.kind # "valuer"
          /\ Error.kind # "valuer"
      BY DEF Nil, NilBytes, Struct, Error
    <3>3. \A b, text, s : Bool(b).kind # "valuer" /\ Str(text).kind # "valuer"
                            /\ Bytes(s).kind # "valuer"
      BY DEF Bool, Str, Bytes
    <3> QED
      BY <1>1, <3>1, <3>2, <3>3, FormsOfValues DEF HasForm
  <2> QED
    BY <1>1, <2>1 DEF Plain, Normalize
<1>2. ASSUME NEW w \in BasicValues(Texts, Times), v = Valuer(w)
      PROVE  Plain(v) = w /\ Normalize(v) = NormalizeBasic(w)
  BY <1>2 DEF Plain, Normalize, Valuer
<1> QED
  BY <1>1, <1>2 DEF GoArguments, Arguments

\* The branches of bindValue.
LEMMA BindByKind ==
  ASSUME NEW v
  PROVE  /\ v.kind \in {"nil", "nil []byte"} => Bind(v) = SqlNull
         /\ v.kind = "int64" => Bind(v) = Integer(v.int)
         /\ v.kind = "float64" => Bind(v) = Real(v.float)
         /\ v.kind = "bool" => Bind(v) = Integer(IF v.bool THEN 1 ELSE 0)
         /\ v.kind = "string" => Bind(v) = Text(CString(v.text))
         /\ v.kind = "[]byte" => Bind(v) = IF v.bytes = << >> THEN SqlNull ELSE Blob(v.bytes)
         /\ v.kind = "time" => Bind(v) = Text(FormatTime(v))
<1>1. v.kind = "nil" => Bind(v) = SqlNull
  BY DEF Bind
<1>2. v.kind = "nil []byte" => Bind(v) = SqlNull
  BY DEF Bind
<1>3. v.kind = "int64" => Bind(v) = Integer(v.int)
  BY DEF Bind
<1>4. v.kind = "float64" => Bind(v) = Real(v.float)
  BY DEF Bind
<1>5. v.kind = "bool" => Bind(v) = Integer(IF v.bool THEN 1 ELSE 0)
  BY DEF Bind
<1>6. v.kind = "string" => Bind(v) = Text(CString(v.text))
  BY DEF Bind
<1>7. v.kind = "[]byte" => Bind(v) = IF v.bytes = << >> THEN SqlNull ELSE Blob(v.bytes)
  BY DEF Bind
<1>8. v.kind = "time" => Bind(v) = Text(FormatTime(v))
  BY DEF Bind
<1> QED
  BY <1>1, <1>2, <1>3, <1>4, <1>5, <1>6, <1>7, <1>8

\* How each value is stored.
Stored(v) == Bind(NormalizeBasic(v))

LEMMA IntegersStored ==
  ASSUME NEW v, IsSignedValue(v) \/ IsUnsignedValue(v), NormalizeBasic(v) # Error
  PROVE  /\ v.kind \in SignedKinds \cup UnsignedKinds /\ v.int \in Signed(Width)
         /\ Stored(v) = Integer(v.int)
<1> USE DEF SignedKinds, UnsignedKinds, Number
<1>1. /\ v.kind \in SignedKinds \cup UnsignedKinds
      /\ v.kind \in {"int8"} => v.int \in Signed(NarrowBits)
      /\ v.kind \in {"int", "int64"} => v.int \in Signed(Width)
      /\ v.kind = "uint8" => v.int \in Unsigned(NarrowBits)
  BY DEF IsSignedValue, IsUnsignedValue, BitsOf
<1>2. CASE v.kind \in {"int", "int8", "int64", "uint8"}
  <2>1. NormalizeBasic(v) = [kind |-> "int64", int |-> v.int]
    BY <1>2 DEF NormalizeBasic
  <2>2. Stored(v) = Integer(v.int)
    BY <2>1 DEF Stored, Bind
  <2> QED
    BY <1>1, <1>2, <2>2, WordsFit
<1>3. CASE v.kind \in {"uint", "uint64"}
  <2>1. NormalizeBasic(v) = IF v.int \in Signed(Width) THEN [kind |-> "int64", int |-> v.int]
                            ELSE Error
    BY <1>3 DEF NormalizeBasic
  <2>2. v.int \in Signed(Width) /\ NormalizeBasic(v) = [kind |-> "int64", int |-> v.int]
    BY <2>1
  <2>3. Stored(v) = Integer(v.int)
    BY <2>2 DEF Stored, Bind
  <2> QED
    BY <1>1, <2>2, <2>3
<1> QED
  BY <1>1, <1>2, <1>3

LEMMA OthersStored ==
  /\ NormalizeBasic(Struct) = Error /\ NormalizeBasic(Error) = Error
  /\ Stored(Nil) = SqlNull /\ Stored(NilBytes) = SqlNull
  /\ \A b \in BOOLEAN : Stored(Bool(b)) = Integer(IF b THEN 1 ELSE 0)
  /\ \A x : \A k \in {"float32", "float64"} : Stored(Float(k, x)) = Real(x)
  /\ \A text : Stored(Str(text)) = Text(CString(text))
  /\ \A s : Stored(Bytes(s)) = IF s = << >> THEN SqlNull ELSE Blob(s)
  /\ \A t, z : Stored(Time(t, z)) = Text(FormatTime(Time(t, z)))
<1> USE DEF SignedKinds, UnsignedKinds
<1>1. NormalizeBasic(Struct) = Error /\ NormalizeBasic(Error) = Error
  BY DEF NormalizeBasic, Struct, Error
<1>2. Stored(Nil) = SqlNull /\ Stored(NilBytes) = SqlNull
  <2>1. NormalizeBasic(Nil) = Nil /\ NormalizeBasic(NilBytes) = NilBytes
    BY DEF NormalizeBasic, Nil, NilBytes
  <2>2. Nil.kind = "nil" /\ NilBytes.kind = "nil []byte"
    BY DEF Nil, NilBytes
  <2>3. Bind(Nil) = SqlNull /\ Bind(NilBytes) = SqlNull
    BY <2>2, BindByKind
  <2> QED
    BY <2>1, <2>3 DEF Stored
<1>3. ASSUME NEW b \in BOOLEAN PROVE Stored(Bool(b)) = Integer(IF b THEN 1 ELSE 0)
  <2>1. NormalizeBasic(Bool(b)) = Bool(b)
    BY DEF NormalizeBasic, Bool
  <2>2. Bool(b).kind = "bool" /\ Bool(b).bool = b
    BY DEF Bool
  <2>3. Bind(Bool(b)) = Integer(IF b THEN 1 ELSE 0)
    BY <2>2, BindByKind
  <2> QED
    BY <2>1, <2>3 DEF Stored
<1>4. ASSUME NEW x, NEW k \in {"float32", "float64"} PROVE Stored(Float(k, x)) = Real(x)
  <2>1. NormalizeBasic(Float(k, x)) = Float("float64", x)
    BY DEF NormalizeBasic, Float
  <2>2. Float("float64", x).kind = "float64" /\ Float("float64", x).float = x
    BY DEF Float
  <2>3. Bind(Float("float64", x)) = Real(x)
    BY <2>2, BindByKind
  <2> QED
    BY <2>1, <2>3 DEF Stored
<1>5. ASSUME NEW text PROVE Stored(Str(text)) = Text(CString(text))
  <2>1. NormalizeBasic(Str(text)) = Str(text)
    BY DEF NormalizeBasic, Str
  <2>2. Str(text).kind = "string" /\ Str(text).text = text
    BY DEF Str
  <2>3. Bind(Str(text)) = Text(CString(text))
    BY <2>2, BindByKind
  <2> QED
    BY <2>1, <2>3 DEF Stored
<1>6. ASSUME NEW s PROVE Stored(Bytes(s)) = IF s = << >> THEN SqlNull ELSE Blob(s)
  <2>1. NormalizeBasic(Bytes(s)) = Bytes(s)
    BY DEF NormalizeBasic, Bytes
  <2>2. Bytes(s).kind = "[]byte" /\ Bytes(s).bytes = s
    BY DEF Bytes
  <2>3. Bind(Bytes(s)) = IF s = << >> THEN SqlNull ELSE Blob(s)
    BY <2>2, BindByKind
  <2> QED
    BY <2>1, <2>3 DEF Stored
<1>7. ASSUME NEW t, NEW z PROVE Stored(Time(t, z)) = Text(FormatTime(Time(t, z)))
  <2>1. NormalizeBasic(Time(t, z)) = Time(t, z)
    BY DEF NormalizeBasic, Time
  <2>2. Time(t, z).kind = "time"
    BY DEF Time
  <2>3. Bind(Time(t, z)) = Text(FormatTime(Time(t, z)))
    BY <2>2, BindByKind
  <2> QED
    BY <2>1, <2>3 DEF Stored
<1> QED
  BY <1>1, <1>2, <1>3, <1>4, <1>5, <1>6, <1>7

\* What a column of each type is read as.
LEMMA ColumnByType ==
  ASSUME NEW declared, NEW location
  PROVE  /\ \A n : ColumnValue(Integer(n), declared, location) = Number("int64", n)
         /\ \A x : ColumnValue(Real(x), declared, location) = Float("float64", x)
         /\ \A s : ColumnValue(Blob(s), declared, location) =
                    IF s = << >> THEN NilBytes ELSE Bytes(s)
         /\ ColumnValue(SqlNull, declared, location) = Nil
<1>1. ASSUME NEW n PROVE ColumnValue(Integer(n), declared, location) = Number("int64", n)
  <2>1. Integer(n).type = "INTEGER" /\ Integer(n).int = n
    BY DEF Integer
  <2> DEFINE column == Integer(n)
  <2> HIDE DEF column
  <2>2. column.type = "INTEGER" => ColumnValue(column, declared, location) = Number("int64", column.int)
    BY DEF ColumnValue
  <2> QED
    BY <2>1, <2>2 DEF column
<1>2. ASSUME NEW x PROVE ColumnValue(Real(x), declared, location) = Float("float64", x)
  <2>1. Real(x).type = "FLOAT" /\ Real(x).float = x
    BY DEF Real
  <2> DEFINE column == Real(x)
  <2> HIDE DEF column
  <2>2. column.type = "FLOAT" => ColumnValue(column, declared, location) = Float("float64", column.float)
    BY DEF ColumnValue
  <2> QED
    BY <2>1, <2>2 DEF column
<1>3. ASSUME NEW s
      PROVE  ColumnValue(Blob(s), declared, location) = IF s = << >> THEN NilBytes ELSE Bytes(s)
  <2>1. Blob(s).type = "BLOB" /\ Blob(s).bytes = s
    BY DEF Blob
  <2> DEFINE column == Blob(s)
  <2> HIDE DEF column
  <2>2. column.type = "BLOB" => ColumnValue(column, declared, location) =
                                  IF column.bytes = << >> THEN NilBytes ELSE Bytes(column.bytes)
    BY DEF ColumnValue
  <2> QED
    BY <2>1, <2>2 DEF column
<1>4. ColumnValue(SqlNull, declared, location) = Nil
  <2>1. SqlNull.type = "NULL"
    BY DEF SqlNull
  <2> QED
    BY <2>1 DEF ColumnValue
<1> QED
  BY <1>1, <1>2, <1>3, <1>4

\* A text is read as it is, unless it is read as a time.
LEMMA TextColumn ==
  ASSUME NEW text, NEW declared, NEW location
  PROVE  LET got == ColumnValue(Text(text), declared, location)
             timed == location # "none" /\ LooksLikeTimeType(declared)
             time == ParseTime(CString(text), location)
         IN  /\ ~timed => got = Str(CString(text))
             /\ timed => got = IF time = Error THEN Str(CString(text)) ELSE time
             /\ time # Error => time.kind = "time"
<1> DEFINE column == Text(text)
<1>1. column.type = "TEXT" /\ column.text = text
  BY DEF Text
<1> HIDE DEF column
<1>2. column.type = "TEXT" =>
        ColumnValue(column, declared, location) =
          LET string == CString(column.text)
              time == IF location # "none" /\ LooksLikeTimeType(declared)
                        THEN ParseTime(string, location) ELSE Error
          IN  IF time = Error THEN Str(string) ELSE time
  BY DEF ColumnValue
<1>3. ASSUME NEW string, ParseTime(string, location) # Error
      PROVE  ParseTime(string, location).kind = "time"
  BY <1>3 DEF ParseTime, Time
<1> QED
  BY <1>1, <1>2, <1>3 DEF column

\* A time that its text tells exactly comes out of its text.
LEMMA TellableTimesParse ==
  ASSUME NEW t \in Int, NEW z \in Int, NEW location
  PROVE  /\ CString(FormatTime(Time(t, z))) = FormatTime(Time(t, z))
         /\ Tellable(Time(t, z)) =>
              ParseTime(FormatTime(Time(t, z)), location) = Time(t, z)
         /\ Time(t, z) # Error
<1> DEFINE text == FormatTime(Time(t, z))
<1>1. Time(t, z).instant = t /\ Time(t, z).offset = z /\ Time(t, z) # Error
  BY DEF Time, Error
<1>2. text = [local |-> t + z, zone |-> ZoneShown(z)]
  BY <1>1 DEF FormatTime, ShownWithZone
<1>3. DOMAIN text = {"local", "zone"} /\ text.local = t + z /\ text.zone = ZoneShown(z)
  <2> DEFINE zone == ZoneShown(z)
             local == t + z
  <2>1. text = [local |-> local, zone |-> zone]
    BY <1>2
  <2> HIDE DEF zone, local, text
  <2>2. DOMAIN text = {"local", "zone"} /\ text.local = local /\ text.zone = zone
    BY <2>1
  <2> QED
    BY <2>2 DEF zone, local
<1> HIDE DEF text
<1>4. CString(text) = text
  BY <1>3 DEF CString
<1>5. ASSUME Tellable(Time(t, z)) PROVE ParseTime(text, location) = Time(t, z)
  <2>1. ZoneShown(z) = z /\ t + z \in 0..LastYear
    BY <1>1, <1>5 DEF Tellable
  <2>2. (t + z) - z = t
    OBVIOUS
  <2>3. ParseTime(text, location) = Time((t + z) - z, z)
    BY <1>3, <2>1 DEF ParseTime
  <2> QED
    BY <2>2, <2>3
<1> QED
  BY <1>1, <1>4, <1>5 DEF text

AllKinds ==
  SignedKinds \cup UnsignedKinds
  \cup {"bool", "float32", "float64", "string", "[]byte", "nil", "nil []byte", "time"}

\* What SqliteRoundTrip says of a value and what was read of it, one kind at a
\* time.
ReadBack(v, got, timed) ==
  /\ v.kind \in AllKinds
  /\ v.kind \in SignedKinds \cup UnsignedKinds => got = Number("int64", v.int)
  /\ v.kind = "bool" => got = Number("int64", IF v.bool THEN 1 ELSE 0)
  /\ v.kind \in {"float32", "float64"} => got = Float("float64", v.float)
  /\ v.kind = "string" => got = v \/ HasNul(v) \/ (timed /\ got.kind = "time")
  /\ v.kind = "[]byte" => got = v \/ (v.bytes = << >> /\ got = Nil)
  /\ v.kind \in {"nil", "nil []byte"} => got = Nil
  /\ v.kind = "time" =>
       IF timed THEN Tellable(v) => got.kind = "time" /\ got.instant = v.instant
       ELSE got = Str(FormatTime(v))

LEMMA ValuesReadBack ==
  ASSUME NEW v, HasForm(v), NormalizeBasic(v) # Error, NEW declared, NEW location
  PROVE  ReadBack(v, ColumnValue(Stored(v), declared, location),
                  location # "none" /\ LooksLikeTimeType(declared))
<1> DEFINE got == ColumnValue(Stored(v), declared, location)
           timed == location # "none" /\ LooksLikeTimeType(declared)
<1> SUFFICES ReadBack(v, got, timed)
  OBVIOUS
<1>1. CASE IsSignedValue(v) \/ IsUnsignedValue(v)
  <2>1. v.kind \in SignedKinds \cup UnsignedKinds /\ Stored(v) = Integer(v.int)
    BY <1>1, IntegersStored
  <2>2. got = Number("int64", v.int)
    BY <2>1, ColumnByType
  <2> HIDE DEF got, timed
  <2> QED
    BY <2>1, <2>2 DEF ReadBack, AllKinds, SignedKinds, UnsignedKinds
<1>2. ASSUME NEW b \in BOOLEAN, v = Bool(b) PROVE ReadBack(v, got, timed)
  <2>1. v.kind = "bool" /\ v.bool = b
    BY <1>2 DEF Bool
  <2>2. Stored(v) = Integer(IF b THEN 1 ELSE 0)
    BY <1>2, OthersStored
  <2>3. got = Number("int64", IF v.bool THEN 1 ELSE 0)
    BY <2>1, <2>2, ColumnByType, ZenonT(60)
  <2> HIDE DEF got, timed
  <2> QED
    BY <2>1, <2>3 DEF ReadBack, AllKinds, SignedKinds, UnsignedKinds
<1>3. CASE IsFloatValue(v)
  <2>1. PICK k \in {"float32", "float64"}, x \in {0, 1} : v = Float(k, x)
    BY <1>3 DEF IsFloatValue
  <2>2. v.kind = k /\ v.float = x
    BY <2>1 DEF Float
  <2>3. Stored(v) = Real(x)
    BY <2>1, OthersStored
  <2>4. got = Float("float64", v.float)
    <3>1. ColumnValue(Real(x), declared, location) = Float("float64", x)
      BY ColumnByType
    <3> QED
      BY <2>2, <2>3, <3>1
  <2> HIDE DEF got, timed
  <2> QED
    BY <2>2, <2>4 DEF ReadBack, AllKinds, SignedKinds, UnsignedKinds
<1>4. ASSUME NEW text \in Texts, v = Str(text) PROVE ReadBack(v, got, timed)
  <2>1. v.kind = "string" /\ v.text = text
    BY <1>4 DEF Str
  <2>2. Stored(v) = Text(CString(text))
    BY <1>4, OthersStored
  <2>3. CString(CString(text)) = CString(text)
    BY CStringEnds
  <2>4. ~HasNul(v) => Str(CString(text)) = v
    BY <1>4, CStringKeeps
  <2> DEFINE string == CString(text)
             time == ParseTime(CString(string), location)
  <2>5. /\ ~timed => got = Str(CString(string))
        /\ timed => got = IF time = Error THEN Str(CString(string)) ELSE time
        /\ time # Error => time.kind = "time"
    <3>1. got = ColumnValue(Text(string), declared, location)
      BY <2>2
    <3> HIDE DEF string
    <3> QED
      BY <3>1, TextColumn
  <2> HIDE DEF got, timed, time, string
  <2>6. got = v \/ HasNul(v) \/ (timed /\ got.kind = "time")
    BY <2>3, <2>4, <2>5 DEF string
  <2> QED
    BY <2>1, <2>6 DEF ReadBack, AllKinds, SignedKinds, UnsignedKinds
<1>5. ASSUME NEW s \in CharStrings, v = Bytes(s) PROVE ReadBack(v, got, timed)
  <2>1. v.kind = "[]byte" /\ v.bytes = s
    BY <1>5 DEF Bytes
  <2>2. Stored(v) = IF s = << >> THEN SqlNull ELSE Blob(s)
    BY <1>5, OthersStored
  <2>3. got = v \/ (v.bytes = << >> /\ got = Nil)
    BY <1>5, <2>1, <2>2, ColumnByType, ZenonT(60)
  <2> HIDE DEF got, timed
  <2> QED
    BY <2>1, <2>3 DEF ReadBack, AllKinds, SignedKinds, UnsignedKinds
<1>6. CASE v \in {Nil, NilBytes, Struct, Error}
  <2>1. v = Nil \/ v = NilBytes
    BY <1>6, OthersStored
  <2>2. v.kind \in {"nil", "nil []byte"}
    <3>1. Nil.kind = "nil" /\ NilBytes.kind = "nil []byte"
      BY DEF Nil, NilBytes
    <3> QED
      BY <2>1, <3>1
  <2>3. got = Nil
    BY <2>1, OthersStored, ColumnByType
  <2> HIDE DEF got, timed
  <2> QED
    BY <2>2, <2>3 DEF ReadBack, AllKinds, SignedKinds, UnsignedKinds
<1>7. CASE IsTimeValue(v)
  <2>1. PICK t \in Int, z \in Int : v = Time(t, z)
    BY <1>7 DEF IsTimeValue
  <2>2. v.kind = "time"
    BY <2>1 DEF Time
  <2> DEFINE text == FormatTime(v)
             time == ParseTime(CString(text), location)
  <2>3. /\ Stored(v) = Text(text) /\ CString(text) = text /\ v # Error
        /\ Tellable(v) => ParseTime(text, location) = v
    BY <2>1, OthersStored, TellableTimesParse
  <2>4. /\ ~timed => got = Str(CString(text))
        /\ timed => got = IF time = Error THEN Str(CString(text)) ELSE time
    <3>1. got = ColumnValue(Text(text), declared, location)
      BY <2>3
    <3> HIDE DEF text
    <3> QED
      BY <3>1, TextColumn
  <2> HIDE DEF got, timed, text
  <2>5. IF timed THEN Tellable(v) => got.kind = "time" /\ got.instant = v.instant
        ELSE got = Str(text)
    BY <2>2, <2>3, <2>4
  <2> QED
    BY <2>2, <2>5 DEF ReadBack, AllKinds, SignedKinds, UnsignedKinds, text
<1> QED
  BY <1>1, <1>2, <1>3, <1>4, <1>5, <1>6, <1>7 DEF HasForm

\* What is refused before it is sent.
LEMMA ValuesRefused ==
  ASSUME NEW v, NormalizeBasic(v) = Error
  PROVE  \/ v.kind \in {"struct", "error"}
         \/ v.kind \in {"uint", "uint64"} /\ v.int \notin Signed(Width)
<1> SUFFICES ASSUME v.kind \notin {"struct", "error"}
             PROVE  v.kind \in {"uint", "uint64"} /\ v.int \notin Signed(Width)
  OBVIOUS
<1>1. Error.kind = "error"
  BY DEF Error
<1>2. CASE v.kind \in SignedKinds \cup {"uint8"}
  <2>1. NormalizeBasic(v) = Number("int64", v.int)
    BY <1>2 DEF NormalizeBasic, SignedKinds
  <2>2. Number("int64", v.int).kind = "int64"
    BY DEF Number
  <2> QED
    BY <1>1, <2>1, <2>2
<1>3. CASE v.kind \in {"uint", "uint64"}
  <2>1. NormalizeBasic(v) = IF v.int \in Signed(Width) THEN Number("int64", v.int) ELSE Error
    BY <1>3 DEF NormalizeBasic, SignedKinds
  <2>2. Number("int64", v.int).kind = "int64"
    BY DEF Number
  <2> QED
    BY <1>1, <1>3, <2>1, <2>2
<1>4. CASE v.kind \in {"float32", "float64"}
  <2>1. NormalizeBasic(v) = Float("float64", v.float)
    BY <1>4 DEF NormalizeBasic, SignedKinds
  <2>2. Float("float64", v.float).kind = "float64"
    BY DEF Float
  <2> QED
    BY <1>1, <2>1, <2>2
<1>5. CASE v.kind \notin SignedKinds \cup {"uint8", "uint", "uint64", "float32", "float64"}
  <2>1. NormalizeBasic(v) = v
    BY <1>5 DEF NormalizeBasic
  <2> QED
    BY <1>1, <2>1
<1> QED
  BY <1>2, <1>3, <1>4, <1>5

\* What a text shows of a time are numbers.
IsText(text) ==
  /\ "local" \in DOMAIN text => text.local \in Int
  /\ "zone" \in DOMAIN text => text.zone \in Int

LEMMA TextsAreTexts ==
  /\ \A text \in Texts : IsText(CString(text))
  /\ \A t \in Int, z \in Int : IsText(FormatTime(Time(t, z)))
<1>1. ASSUME NEW c PROVE IsText(Chars(c)) /\ IsText(CString(Chars(c)))
  <2>1. \A x : IsText(Chars(x))
    BY DEF IsText, Chars
  <2>2. CString(Chars(c)) = Chars(c) \/ \E x : CString(Chars(c)) = Chars(x)
    BY DEF CString
  <2> QED
    BY <2>1, <2>2
<1>2. ASSUME NEW n \in Int PROVE IsText(CString(Shown(n)))
  <2>1. CString(Shown(n)) = Shown(n)
    BY DEF CString, Shown
  <2> QED
    BY <2>1 DEF IsText, Shown
<1>3. ASSUME NEW n \in Int, NEW m \in Int
      PROVE  IsText(ShownWithZone(n, m)) /\ CString(ShownWithZone(n, m)) = ShownWithZone(n, m)
  BY DEF CString, ShownWithZone, IsText
<1>4. LastYear + 1 \in Int
  BY LastYearAssumption
<1>5. \A text \in Texts : IsText(CString(text))
  BY <1>1, <1>2, <1>3, <1>4 DEF Texts
<1>6. ASSUME NEW t \in Int, NEW z \in Int PROVE IsText(FormatTime(Time(t, z)))
  <2>1. ZoneShown(z) \in Int
    BY DEF ZoneShown
  <2>2. FormatTime(Time(t, z)) = ShownWithZone(t + z, ZoneShown(z))
    BY DEF FormatTime, Time
  <2> QED
    BY <1>3, <2>1, <2>2
<1> QED
  BY <1>5, <1>6

\* What can be in a column, and so in an argument.
IsColumn(column) ==
  /\ column.type \in {"INTEGER", "FLOAT", "TEXT", "BLOB", "NULL"}
  /\ column.type = "INTEGER" => column.int \in Signed(Width)
  /\ column.type = "FLOAT" => column.float \in {0, 1}
  /\ column.type = "TEXT" => CString(column.text) = column.text /\ IsText(column.text)
  /\ column.type = "BLOB" => column.bytes # << >>

LEMMA ValuesMakeColumns ==
  ASSUME NEW v, HasForm(v), NormalizeBasic(v) # Error
  PROVE  IsColumn(Stored(v))
<1> DEFINE column == Stored(v)
<1>1. ASSUME NEW n \in Signed(Width), column = Integer(n) PROVE IsColumn(column)
  <2>1. column.type = "INTEGER" /\ column.int = n
    BY <1>1 DEF Integer
  <2> HIDE DEF column
  <2> QED
    BY <2>1 DEF IsColumn
<1>2. ASSUME NEW x \in {0, 1}, column = Real(x) PROVE IsColumn(column)
  <2>1. column.type = "FLOAT" /\ column.float = x
    BY <1>2 DEF Real
  <2> HIDE DEF column
  <2> QED
    BY <2>1 DEF IsColumn
<1>3. ASSUME NEW text, column = Text(text), CString(text) = text, IsText(text)
      PROVE  IsColumn(column)
  <2>1. column.type = "TEXT" /\ column.text = text
    BY <1>3 DEF Text
  <2> HIDE DEF column
  <2> QED
    BY <1>3, <2>1 DEF IsColumn
<1>4. ASSUME NEW s, column = Blob(s), s # << >> PROVE IsColumn(column)
  <2>1. column.type = "BLOB" /\ column.bytes = s
    BY <1>4 DEF Blob
  <2> HIDE DEF column
  <2> QED
    BY <1>4, <2>1 DEF IsColumn
<1>5. ASSUME column = SqlNull PROVE IsColumn(column)
  <2>1. column.type = "NULL"
    BY <1>5 DEF SqlNull
  <2> HIDE DEF column
  <2> QED
    BY <2>1 DEF IsColumn
<1>6. CASE IsSignedValue(v) \/ IsUnsignedValue(v)
  BY <1>1, <1>6, IntegersStored
<1>7. ASSUME NEW b \in BOOLEAN, v = Bool(b) PROVE IsColumn(column)
  <2>1. (IF b THEN 1 ELSE 0) \in Signed(Width)
    BY WordsFit
  <2>2. column = Integer(IF b THEN 1 ELSE 0)
    BY <1>7, OthersStored
  <2> QED
    BY <1>1, <2>1, <2>2
<1>8. CASE IsFloatValue(v)
  BY <1>2, <1>8, OthersStored DEF IsFloatValue
<1>9. ASSUME NEW text \in Texts, v = Str(text) PROVE IsColumn(column)
  <2>1. /\ column = Text(CString(text)) /\ CString(CString(text)) = CString(text)
        /\ IsText(CString(text))
    BY <1>9, OthersStored, CStringEnds, TextsAreTexts
  <2> QED
    BY <1>3, <2>1
<1>10. ASSUME NEW s \in CharStrings, v = Bytes(s) PROVE IsColumn(column)
  <2>1. column = IF s = << >> THEN SqlNull ELSE Blob(s)
    BY <1>10, OthersStored
  <2> QED
    BY <1>4, <1>5, <2>1
<1>11. CASE v \in {Nil, NilBytes, Struct, Error}
  <2>1. column = SqlNull
    BY <1>11, OthersStored
  <2> QED
    BY <1>5, <2>1
<1>12. CASE IsTimeValue(v)
  <2>1. PICK t \in Int, z \in Int : v = Time(t, z)
    BY <1>12 DEF IsTimeValue
  <2>2. /\ column = Text(FormatTime(v)) /\ CString(FormatTime(v)) = FormatTime(v)
        /\ IsText(FormatTime(v))
    BY <2>1, OthersStored, TellableTimesParse, TextsAreTexts
  <2> QED
    BY <1>3, <2>2
<1> QED
  BY <1>6, <1>7, <1>8, <1>9, <1>10, <1>11, <1>12 DEF HasForm

\* A function with a parameter for integers sees the integer, if its kind can
\* hold it.
LEMMA IntegersSeen ==
  ASSUME NEW argument, IsColumn(argument), argument.type = "INTEGER",
         NEW kind \in SignedKinds \cup UnsignedKinds, Decode(argument, kind) # Error
  PROVE  LET seen == Decode(argument, kind)
         IN  \/ seen.int = argument.int
             \/ kind = "int8" /\ argument.int \notin Signed(NarrowBits)
             \/ kind = "uint8" /\ argument.int \notin Unsigned(NarrowBits) /\ argument.int >= 0
<1>1. AsInt(argument) = argument.int /\ argument.int \in Signed(Width) /\ argument.int \in Int
  BY WordsFit DEF AsInt, IsColumn
<1>2. CASE kind \in SignedKinds
  <2>1. Decode(argument, kind) = Number(kind, ToSigned(argument.int, BitsOf(kind)))
    BY <1>1, <1>2 DEF Decode, SignedKinds, UnsignedKinds
  <2>2. Decode(argument, kind).int = ToSigned(argument.int, BitsOf(kind))
    BY <2>1 DEF Number
  <2>3. kind # "int8" => BitsOf(kind) = Width
    BY <1>2 DEF BitsOf, SignedKinds
  <2>4. kind = "int8" => BitsOf(kind) = NarrowBits
    BY DEF BitsOf
  <2>5. CASE kind # "int8"
    BY <1>1, <2>2, <2>3, <2>5, WordsFit
  <2>6. CASE kind = "int8"
    BY <2>2, <2>4, <2>6, WordsFit
  <2> QED
    BY <2>5, <2>6
<1>3. CASE kind \in UnsignedKinds
  <2>1. Decode(argument, kind) = DecodeUnsigned(argument.int, kind)
    BY <1>1, <1>3 DEF Decode, SignedKinds, UnsignedKinds
  <2>2. /\ ~(argument.int < 0)
        /\ Decode(argument, kind) = Number(kind, ToUnsigned(argument.int, BitsOf(kind)))
    BY <2>1 DEF DecodeUnsigned
  <2>3. Decode(argument, kind).int = ToUnsigned(argument.int, BitsOf(kind)) /\ argument.int >= 0
    BY <1>1, <2>2 DEF Number
  <2>4. kind # "uint8" => BitsOf(kind) = Width
    BY <1>3 DEF BitsOf, UnsignedKinds
  <2>5. kind = "uint8" => BitsOf(kind) = NarrowBits
    BY DEF BitsOf
  <2>6. CASE kind # "uint8"
    BY <1>1, <2>3, <2>4, <2>6, WordsFit
  <2>7. CASE kind = "uint8"
    BY <2>3, <2>5, <2>7, WordsFit
  <2> QED
    BY <2>6, <2>7
<1> QED
  BY <1>2, <1>3

\* The branches of buildValueDecoder.
LEMMA DecodeByKind ==
  ASSUME NEW argument, NEW kind
  PROVE  /\ kind \in SignedKinds =>
              Decode(argument, kind) = Number(kind, ToSigned(AsInt(argument), BitsOf(kind)))
         /\ kind \in UnsignedKinds =>
              Decode(argument, kind) = DecodeUnsigned(AsInt(argument), kind)
         /\ kind = "bool" => Decode(argument, kind) = Bool(AsInt(argument) # 0)
         /\ kind \in {"float32", "float64"} => Decode(argument, kind) = Float(kind, AsInt(argument))
         /\ kind = "string" => Decode(argument, kind) = Str(AsText(argument))
         /\ kind = "[]byte" =>
              Decode(argument, kind) =
                IF AsBytes(argument) = << >> THEN NilBytes ELSE Bytes(AsBytes(argument))
         /\ kind = "time" => Decode(argument, kind) = ParseTime(AsText(argument), "auto")
<1> USE DEF SignedKinds, UnsignedKinds
<1>1. kind \in SignedKinds =>
        Decode(argument, kind) = Number(kind, ToSigned(AsInt(argument), BitsOf(kind)))
  BY DEF Decode
<1>2. kind \in UnsignedKinds => Decode(argument, kind) = DecodeUnsigned(AsInt(argument), kind)
  BY DEF Decode
<1>3. kind = "bool" => Decode(argument, kind) = Bool(AsInt(argument) # 0)
  BY DEF Decode
<1>4. kind \in {"float32", "float64"} =>
        Decode(argument, kind) = Float(kind, AsInt(argument))
  BY DEF Decode, AsFloat
<1>5. kind = "string" => Decode(argument, kind) = Str(AsText(argument))
  BY DEF Decode
<1>6. kind = "[]byte" =>
        Decode(argument, kind) =
          IF AsBytes(argument) = << >> THEN NilBytes ELSE Bytes(AsBytes(argument))
  BY DEF Decode
<1>7. kind = "time" => Decode(argument, kind) = ParseTime(AsText(argument), "auto")
  BY DEF Decode
<1> QED
  BY <1>1, <1>2, <1>3, <1>4, <1>5, <1>6, <1>7

\* What SQLite makes of an argument of each type.
LEMMA ArgumentsRead ==
  ASSUME NEW argument, IsColumn(argument)
  PROVE  /\ AsInt(argument) \in Int
         /\ argument.type \in {"INTEGER"} => AsInt(argument) = argument.int
         /\ argument.type = "FLOAT" => AsInt(argument) = argument.float
         /\ argument.type = "TEXT" => AsText(argument) = argument.text
         /\ argument.type = "BLOB" => AsBytes(argument) = argument.bytes /\ argument.bytes # << >>
         /\ argument.type = "NULL" => /\ AsInt(argument) = 0 /\ AsText(argument) = Chars(<< >>)
                                      /\ AsBytes(argument) = << >>
         /\ "zone" \in DOMAIN AsText(argument) => AsText(argument).zone \in Int
<1>1. CASE argument.type = "INTEGER"
  <2>1. AsInt(argument) = argument.int /\ argument.int \in Int
    BY <1>1, WordsFit DEF AsInt, IsColumn
  <2>2. AsText(argument) = [digits |-> argument.int]
    BY <1>1 DEF AsText
  <2> QED
    BY <1>1, <2>1, <2>2
<1>2. CASE argument.type = "FLOAT"
  <2>1. AsInt(argument) = argument.float /\ argument.float \in Int
    BY <1>2 DEF AsInt, IsColumn
  <2>2. AsText(argument) = [decimal |-> argument.float]
    BY <1>2 DEF AsText
  <2> QED
    BY <1>2, <2>1, <2>2
<1>3. CASE argument.type = "TEXT"
  <2>1. AsInt(argument) = IF "local" \in DOMAIN argument.text THEN argument.text.local ELSE 0
    BY <1>3 DEF AsInt
  <2>2. AsText(argument) = argument.text /\ IsText(argument.text)
    BY <1>3 DEF AsText, IsColumn
  <2> QED
    BY <1>3, <2>1, <2>2 DEF IsText
<1>4. CASE argument.type = "BLOB"
  <2>1. AsInt(argument) = 0
    BY <1>4 DEF AsInt
  <2>2. AsBytes(argument) = argument.bytes /\ argument.bytes # << >>
    BY <1>4 DEF AsBytes, IsColumn
  <2>3. AsText(argument) = CString(Chars(argument.bytes))
    BY <1>4 DEF AsText
  <2>4. \A c : "zone" \notin DOMAIN CString(Chars(c))
    BY DEF CString, Chars
  <2> QED
    BY <1>4, <2>1, <2>2, <2>3, <2>4
<1>5. CASE argument.type = "NULL"
  <2>1. AsInt(argument) = 0
    BY <1>5 DEF AsInt
  <2>2. AsText(argument) = Chars(<< >>) /\ AsBytes(argument) = << >>
    BY <1>5 DEF AsText, AsBytes
  <2>3. "zone" \notin DOMAIN Chars(<< >>)
    BY DEF Chars
  <2> QED
    BY <1>5, <2>1, <2>2, <2>3
<1> QED
  BY <1>1, <1>2, <1>3, <1>4, <1>5 DEF IsColumn

\* What a function can see or answer.
HasResultForm(v) ==
  \/ v \in {Nil, NilBytes, Struct}
  \/ \E b \in BOOLEAN : v = Bool(b)
  \/ IsSignedValue(v) \/ IsUnsignedValue(v)
  \/ \E kind \in {"float32", "float64"} : \E x : v = Float(kind, x)
  \/ \E text : v = Str(text)
  \/ \E s : v = Bytes(s)
  \/ IsTimeValue(v)

\* A time comes out of a text exactly if the text shows one.
LEMMA ParsedTimes ==
  ASSUME NEW text, "zone" \in DOMAIN text => text.zone \in Int
  PROVE  LET time == ParseTime(text, "auto")
         IN  /\ time = Error => ~("local" \in DOMAIN text /\ text.local \in 0..LastYear)
             /\ time # Error => IsTimeValue(time) /\ "local" \in DOMAIN text
<1> DEFINE offset == IF "zone" \in DOMAIN text THEN text.zone ELSE OffsetOf["auto"]
<1>1. ParseTime(text, "auto") =
        IF "local" \in DOMAIN text /\ text.local \in 0..LastYear
          THEN Time(text.local - offset, offset) ELSE Error
  BY DEF ParseTime
<1>2. offset \in Int
  BY OffsetsAssumption
<1>3. \A t, z : Time(t, z) # Error
  BY DEF Time, Error
<1>4. text.local \in 0..LastYear => text.local - offset \in Int
  BY <1>2
<1> HIDE DEF offset
<1> QED
  BY <1>1, <1>2, <1>3, <1>4 DEF IsTimeValue

\* What ArgumentsSeen says of an argument that is not refused, but for times.
Sees(argument, kind, seen) ==
  /\ seen # Error
  /\ HasResultForm(seen)
  /\ seen.kind = kind \/ (kind = "[]byte" /\ seen = NilBytes)
  /\ argument.type = "INTEGER" /\ kind \in SignedKinds \cup UnsignedKinds =>
       \/ seen.int = argument.int
       \/ kind = "int8" /\ argument.int \notin Signed(NarrowBits)
       \/ kind = "uint8" /\ argument.int \notin Unsigned(NarrowBits) /\ argument.int >= 0
  /\ argument.type = "INTEGER" /\ kind = "bool" => (seen.bool <=> argument.int # 0)
  /\ argument.type = "FLOAT" /\ kind \in {"float32", "float64"} => seen.float = argument.float
  /\ argument.type = "TEXT" /\ kind = "string" => seen.text = argument.text
  /\ argument.type = "BLOB" /\ kind = "[]byte" => seen.bytes = argument.bytes
  /\ argument.type = "NULL" => kind # "time" /\ seen = Zero(kind)

LEMMA NumbersSeen ==
  ASSUME NEW argument, IsColumn(argument), NEW kind \in SignedKinds \cup UnsignedKinds
  PROVE  LET seen == Decode(argument, kind)
         IN  /\ seen = Error => kind \in UnsignedKinds /\ AsInt(argument) < 0
             /\ seen # Error => Sees(argument, kind, seen)
<1> DEFINE seen == Decode(argument, kind)
           n == AsInt(argument)
           bits == BitsOf(kind)
<1>1. /\ n \in Int
      /\ argument.type = "NULL" => n = 0
      /\ bits \in {Width, NarrowBits}
      /\ kind \notin {"bool", "float32", "float64", "string", "[]byte", "time"}
  BY ArgumentsRead DEF BitsOf, SignedKinds, UnsignedKinds
<1>2. Zero(kind) = Number(kind, 0)
  BY DEF Zero, SignedKinds, UnsignedKinds
<1>3. \A m : Number(kind, m) # Error /\ Number(kind, m).kind = kind
  BY DEF Number, Error
<1>4. CASE kind \in SignedKinds
  <2>1. seen = Number(kind, ToSigned(n, bits))
    BY <1>4, DecodeByKind
  <2>2. ToSigned(n, bits) \in Signed(bits) /\ (n = 0 => ToSigned(n, bits) = 0)
    BY <1>1, WordsAreCut, WordsFit
  <2>3. IsSignedValue(seen)
    BY <1>4, <2>1, <2>2 DEF IsSignedValue
  <2>4. seen # Error /\ seen.kind = kind /\ (argument.type = "NULL" => seen = Zero(kind))
    BY <1>1, <1>2, <1>3, <2>1, <2>2
  <2> HIDE DEF n, bits
  <2> QED
    BY <1>1, <2>3, <2>4, IntegersSeen DEF Sees, HasResultForm
<1>5. CASE kind \in UnsignedKinds
  <2>1. seen = IF n < 0 THEN Error ELSE Number(kind, ToUnsigned(n, bits))
    BY <1>5, DecodeByKind DEF DecodeUnsigned
  <2>2. ToUnsigned(n, bits) \in Unsigned(bits) /\ (n = 0 => ToUnsigned(n, bits) = 0)
    BY <1>1, WordsAreCut, WordsFit
  <2>3. seen = Error => n < 0
    BY <1>3, <2>1
  <2>4. seen # Error => IsUnsignedValue(seen)
    BY <1>5, <2>1, <2>2 DEF IsUnsignedValue
  <2>5. seen # Error => seen.kind = kind /\ (argument.type = "NULL" => seen = Zero(kind))
    BY <1>1, <1>2, <1>3, <2>1, <2>2
  <2> HIDE DEF n, bits
  <2>6. seen # Error => Sees(argument, kind, seen)
    BY <1>1, <2>4, <2>5, IntegersSeen DEF Sees, HasResultForm
  <2> QED
    BY <1>5, <2>3, <2>6 DEF n
<1> QED
  BY <1>4, <1>5

LEMMA OthersSeen ==
  ASSUME NEW argument, IsColumn(argument),
         NEW kind \in {"bool", "float32", "float64", "string", "[]byte"}
  PROVE  Sees(argument, kind, Decode(argument, kind))
<1> DEFINE seen == Decode(argument, kind)
<1>1. kind \notin SignedKinds \cup UnsignedKinds
  BY DEF SignedKinds, UnsignedKinds
<1>2. CASE kind = "bool"
  <2>1. seen = Bool(AsInt(argument) # 0) /\ Zero(kind) = Bool(FALSE)
    BY <1>2, DecodeByKind DEF Zero, SignedKinds, UnsignedKinds
  <2>2. \A b \in BOOLEAN : Bool(b) # Error /\ Bool(b).kind = "bool" /\ Bool(b).bool = b
    BY DEF Bool, Error
  <2>3. PICK b \in BOOLEAN : b = (AsInt(argument) # 0)
    OBVIOUS
  <2>4. seen = Bool(b)
    BY <2>1, <2>3
  <2>5. argument.type = "INTEGER" => (b <=> argument.int # 0)
    BY <2>3, ArgumentsRead
  <2>6. argument.type = "NULL" => b = FALSE
    BY <2>3, ArgumentsRead
  <2> HIDE DEF seen
  <2>7. /\ seen # Error /\ seen.kind = kind /\ HasResultForm(seen)
        /\ argument.type = "INTEGER" => (seen.bool <=> argument.int # 0)
        /\ argument.type = "NULL" => seen = Zero(kind)
    BY <1>2, <2>1, <2>2, <2>4, <2>5, <2>6 DEF HasResultForm
  <2> QED
    BY <1>1, <1>2, <2>7 DEF Sees, seen
<1>3. CASE kind \in {"float32", "float64"}
  <2>1. seen = Float(kind, AsInt(argument)) /\ Zero(kind) = Float(kind, 0)
    BY <1>3, DecodeByKind DEF Zero, SignedKinds, UnsignedKinds
  <2>2. \A x : Float(kind, x) # Error /\ Float(kind, x).kind = kind /\ Float(kind, x).float = x
    BY DEF Float, Error
  <2>3. /\ seen # Error /\ seen.kind = kind /\ HasResultForm(seen)
        /\ argument.type = "FLOAT" => seen.float = argument.float
        /\ argument.type = "NULL" => seen = Zero(kind)
    BY <1>3, <2>1, <2>2, ArgumentsRead DEF HasResultForm
  <2> HIDE DEF seen
  <2> QED
    BY <1>1, <1>3, <2>3 DEF Sees, seen
<1>4. CASE kind = "string"
  <2>1. seen = Str(AsText(argument)) /\ Zero(kind) = Str(Chars(<< >>))
    BY <1>4, DecodeByKind DEF Zero, SignedKinds, UnsignedKinds
  <2>2. \A x : Str(x) # Error /\ Str(x).kind = "string" /\ Str(x).text = x
    BY DEF Str, Error
  <2>3. /\ seen # Error /\ seen.kind = kind /\ HasResultForm(seen)
        /\ argument.type = "TEXT" => seen.text = argument.text
        /\ argument.type = "NULL" => seen = Zero(kind)
    BY <1>4, <2>1, <2>2, ArgumentsRead DEF HasResultForm
  <2> HIDE DEF seen
  <2> QED
    BY <1>1, <1>4, <2>3 DEF Sees, seen
<1>5. CASE kind = "[]byte"
  <2>1. /\ seen = IF AsBytes(argument) = << >> THEN NilBytes ELSE Bytes(AsBytes(argument))
        /\ Zero(kind) = NilBytes
    BY <1>5, DecodeByKind DEF Zero, SignedKinds, UnsignedKinds
  <2>2. /\ NilBytes # Error
        /\ \A x : Bytes(x) # Error /\ Bytes(x).kind = "[]byte" /\ Bytes(x).bytes = x
    BY DEF Bytes, NilBytes, Error
  <2>3. /\ seen # Error /\ (seen.kind = kind \/ seen = NilBytes) /\ HasResultForm(seen)
        /\ argument.type = "BLOB" => seen.bytes = argument.bytes
        /\ argument.type = "NULL" => seen = Zero(kind)
    BY <1>5, <2>1, <2>2, ArgumentsRead DEF HasResultForm
  <2> HIDE DEF seen
  <2> QED
    BY <1>1, <1>5, <2>3 DEF Sees, seen
<1> QED
  BY <1>2, <1>3, <1>4, <1>5

LEMMA TimesSeen ==
  ASSUME NEW argument, IsColumn(argument)
  PROVE  LET seen == Decode(argument, "time")
         IN  /\ seen = Error => ~ShowsTime(argument)
             /\ seen # Error => Sees(argument, "time", seen)
             /\ argument.type = "TEXT" => seen = ParseTime(argument.text, "auto")
<1> DEFINE seen == Decode(argument, "time")
           text == AsText(argument)
<1>1. seen = ParseTime(text, "auto")
  BY DecodeByKind
<1>2. /\ argument.type = "TEXT" => text = argument.text
      /\ argument.type = "NULL" => text = Chars(<< >>)
      /\ "zone" \in DOMAIN text => text.zone \in Int
  BY ArgumentsRead
<1> HIDE DEF text
<1>3. /\ seen = Error => ~("local" \in DOMAIN text /\ text.local \in 0..LastYear)
      /\ seen # Error => IsTimeValue(seen) /\ "local" \in DOMAIN text
  BY <1>1, <1>2, ParsedTimes
<1>4. "local" \notin DOMAIN Chars(<< >>)
  BY DEF Chars
<1>5. seen = Error => ~ShowsTime(argument)
  BY <1>2, <1>3 DEF ShowsTime
<1>6. \A t, z : Time(t, z).kind = "time"
  BY DEF Time
<1> HIDE DEF seen
<1>7. "time" \notin SignedKinds \cup UnsignedKinds
  BY DEF SignedKinds, UnsignedKinds
<1>8. ASSUME seen # Error PROVE Sees(argument, "time", seen)
  <2>1. IsTimeValue(seen) /\ seen.kind = "time" /\ argument.type # "NULL"
    BY <1>2, <1>3, <1>4, <1>6, <1>8 DEF IsTimeValue
  <2> QED
    BY <1>7, <1>8, <2>1 DEF Sees, HasResultForm
<1> QED
  BY <1>1, <1>2, <1>5, <1>8 DEF seen

\* What a function sees has a form of its own, unless it is not called.
LEMMA SeenHaveForm ==
  ASSUME NEW argument, IsColumn(argument), NEW kind \in ParameterKinds,
         Decode(argument, kind) # Error
  PROVE  Sees(argument, kind, Decode(argument, kind))
BY NumbersSeen, OthersSeen, TimesSeen DEF ParameterKinds

IsResult(r) ==
  /\ r.wrap \in Wraps
  /\ r = [wrap |-> r.wrap, value |-> r.value, failed |-> r.failed]
  /\ r.failed \in BOOLEAN
  /\ HasResultForm(r.value)

\* What opening a result leaves around its value.
LEMMA OpenedWraps ==
  ASSUME NEW r, IsResult(r)
  PROVE  LET inner == Opened(Opened(r, "any"), "pointer")
         IN  /\ inner.value = r.value /\ (inner.failed <=> r.failed)
             /\ inner.wrap = << >> <=> ~( \/ r.wrap = <<"pointer", "pointer">>
                                          \/ r.wrap = <<"any">> /\ r.value = Nil )
<1> DEFINE v == r.value
           f == r.failed
           With(w) == [wrap |-> w, value |-> v, failed |-> f]
<1>1. \A w : With(w).wrap = w /\ With(w).value = v /\ With(w).failed = f
  OBVIOUS
<1>2. \A w, wrap :
        Opened(With(w), wrap) =
          IF /\ w # << >>
             /\ Head(w) = wrap
             /\ wrap = "any" => ~(w = <<"any">> /\ v = Nil)
            THEN With(Tail(w)) ELSE With(w)
  <2>1. \A w, t : [With(w) EXCEPT !.wrap = t] = With(t)
    OBVIOUS
  <2> HIDE DEF With, v, f
  <2> QED
    BY <1>1, <2>1 DEF Opened
<1>3. r = With(r.wrap) /\ r.wrap \in Wraps
  BY DEF IsResult
<1> HIDE DEF With, v, f
<1>4. /\ Head(<<"any">>) = "any" /\ Tail(<<"any">>) = << >>
      /\ Head(<<"pointer">>) = "pointer" /\ Tail(<<"pointer">>) = << >>
      /\ Head(<<"any", "pointer">>) = "any" /\ Tail(<<"any", "pointer">>) = <<"pointer">>
      /\ Head(<<"pointer", "pointer">>) = "pointer"
      /\ Tail(<<"pointer", "pointer">>) = <<"pointer">>
      /\ <<"any">> # << >> /\ <<"pointer">> # << >> /\ <<"any", "pointer">> # << >>
      /\ <<"pointer", "pointer">> # << >> /\ <<"any">> # <<"any", "pointer">>
      /\ <<"any">> # <<"pointer", "pointer">> /\ <<"any", "pointer">> # <<"pointer", "pointer">>
      /\ <<"pointer">> # <<"pointer", "pointer">> /\ <<"any">> # <<"pointer">>
  OBVIOUS
<1> DEFINE Inner(w) == Opened(Opened(With(w), "any"), "pointer")
<1>5. /\ Inner(<< >>) = With(<< >>)
      /\ Inner(<<"any">>) = IF v = Nil THEN With(<<"any">>) ELSE With(<< >>)
      /\ Inner(<<"pointer">>) = With(<< >>)
      /\ Inner(<<"any", "pointer">>) = With(<< >>)
      /\ Inner(<<"pointer", "pointer">>) = With(<<"pointer">>)
  <2>1. Inner(<< >>) = With(<< >>)
    BY <1>2
  <2>2. Inner(<<"any">>) = IF v = Nil THEN With(<<"any">>) ELSE With(<< >>)
    <3>1. CASE v = Nil
      <4>1. Opened(With(<<"any">>), "any") = With(<<"any">>)
        BY <1>2, <3>1
      <4>2. Opened(With(<<"any">>), "pointer") = With(<<"any">>)
        BY <1>2, <1>4
      <4> QED
        BY <3>1, <4>1, <4>2
    <3>2. CASE v # Nil
      <4>1. Opened(With(<<"any">>), "any") = With(<< >>)
        BY <1>2, <1>4, <3>2
      <4>2. Opened(With(<< >>), "pointer") = With(<< >>)
        BY <1>2
      <4> QED
        BY <3>2, <4>1, <4>2
    <3> QED
      BY <3>1, <3>2
  <2>3. Inner(<<"pointer">>) = With(<< >>)
    <3>1. Opened(With(<<"pointer">>), "any") = With(<<"pointer">>)
      BY <1>2, <1>4
    <3>2. Opened(With(<<"pointer">>), "pointer") = With(<< >>)
      BY <1>2, <1>4
    <3> QED
      BY <3>1, <3>2
  <2>4. Inner(<<"any", "pointer">>) = With(<< >>)
    <3>1. Opened(With(<<"any", "pointer">>), "any") = With(<<"pointer">>)
      BY <1>2, <1>4
    <3>2. Opened(With(<<"pointer">>), "pointer") = With(<< >>)
      BY <1>2, <1>4
    <3> QED
      BY <3>1, <3>2
  <2>5. Inner(<<"pointer", "pointer">>) = With(<<"pointer">>)
    <3>1. Opened(With(<<"pointer", "pointer">>), "any") = With(<<"pointer", "pointer">>)
      BY <1>2, <1>4
    <3>2. Opened(With(<<"pointer", "pointer">>), "pointer") = With(<<"pointer">>)
      BY <1>2, <1>4
    <3> QED
      BY <3>1, <3>2
  <2> QED
    BY <2>1, <2>2, <2>3, <2>4, <2>5
<1> HIDE DEF Inner
<1>6. /\ Inner(r.wrap).value = v /\ Inner(r.wrap).failed = f
      /\ Inner(r.wrap).wrap = << >> <=> ~( \/ r.wrap = <<"pointer", "pointer">>
                                           \/ r.wrap = <<"any">> /\ v = Nil )
  <2>1. CASE r.wrap = << >>
    BY <1>1, <1>4, <1>5, <2>1
  <2>2. CASE r.wrap = <<"any">>
    BY <1>1, <1>4, <1>5, <2>2
  <2>3. CASE r.wrap = <<"pointer">>
    BY <1>1, <1>4, <1>5, <2>3
  <2>4. CASE r.wrap = <<"any", "pointer">>
    BY <1>1, <1>4, <1>5, <2>4
  <2>5. CASE r.wrap = <<"pointer", "pointer">>
    BY <1>1, <1>4, <1>5, <2>5
  <2> QED
    BY <1>3, <2>1, <2>2, <2>3, <2>4, <2>5 DEF Wraps
<1> QED
  BY <1>3, <1>6 DEF Inner, v, f

\* The branches of encodeResultValue.
LEMMA EncodeByKind ==
  ASSUME NEW v
  PROVE  /\ v.kind = "string" => EncodeBasic(v) = Text(CString(v.text))
         /\ v.kind = "nil []byte" => EncodeBasic(v) = SqlNull
         /\ v.kind = "[]byte" => EncodeBasic(v) = IF v.bytes = << >> THEN SqlNull ELSE Blob(v.bytes)
         /\ v.kind = "bool" => EncodeBasic(v) = Integer(IF v.bool THEN 1 ELSE 0)
         /\ v.kind \in SignedKinds => EncodeBasic(v) = Integer(v.int)
         /\ v.kind \in UnsignedKinds => EncodeBasic(v) = Integer(ToSigned(v.int, Width))
         /\ v.kind \in {"float32", "float64"} => EncodeBasic(v) = Real(v.float)
         /\ v.kind = "time" => EncodeBasic(v) = Text(FormatTime(v))
         /\ v.kind = "struct" => EncodeBasic(v) = SqlError
<1> USE DEF SignedKinds, UnsignedKinds
<1>1. v.kind = "string" => EncodeBasic(v) = Text(CString(v.text))
  BY DEF EncodeBasic
<1>2. v.kind = "nil []byte" => EncodeBasic(v) = SqlNull
  BY DEF EncodeBasic
<1>3. v.kind = "[]byte" => EncodeBasic(v) = IF v.bytes = << >> THEN SqlNull ELSE Blob(v.bytes)
  BY DEF EncodeBasic
<1>4. v.kind = "bool" => EncodeBasic(v) = Integer(IF v.bool THEN 1 ELSE 0)
  BY DEF EncodeBasic
<1>5. v.kind \in SignedKinds => EncodeBasic(v) = Integer(v.int)
  BY DEF EncodeBasic
<1>6. v.kind \in UnsignedKinds => EncodeBasic(v) = Integer(ToSigned(v.int, Width))
  BY DEF EncodeBasic
<1>7. v.kind \in {"float32", "float64"} => EncodeBasic(v) = Real(v.float)
  BY DEF EncodeBasic
<1>8. v.kind = "time" => EncodeBasic(v) = Text(FormatTime(v))
  BY DEF EncodeBasic
<1>9. v.kind = "struct" => EncodeBasic(v) = SqlError
  BY DEF EncodeBasic
<1> QED
  BY <1>1, <1>2, <1>3, <1>4, <1>5, <1>6, <1>7, <1>8, <1>9

\* A result is an error exactly if it cannot be got at, NULL for a nil, or what
\* is inside.
LEMMA EncodeAnswers ==
  ASSUME NEW r, IsResult(r)
  PROVE  /\ NoAnswer(r) => Encode(r) = SqlError
         /\ ~NoAnswer(r) /\ r.value = Nil => Encode(r) = SqlNull
         /\ ~NoAnswer(r) /\ r.value # Nil => Encode(r) = EncodeBasic(r.value)
<1> DEFINE inner == Opened(Opened(r, "any"), "pointer")
           closed == inner.wrap # << >>
           v == r.value
<1>1. /\ inner.value = v
      /\ closed <=> r.wrap = <<"pointer", "pointer">> \/ (r.wrap = <<"any">> /\ v = Nil)
  BY OpenedWraps
<1>2. Encode(r) = CASE r.failed \/ closed -> SqlError
                    [] ~r.failed /\ ~closed /\ inner.value = Nil -> SqlNull
                    [] OTHER -> EncodeBasic(inner.value)
  BY DEF Encode
<1>3. NoAnswer(r) <=> r.failed \/ closed \/ v = Struct
  BY <1>1 DEF NoAnswer
<1>4. EncodeBasic(Struct) = SqlError /\ Struct # Nil
  BY EncodeByKind DEF Struct, Nil
<1>5. r.failed \in BOOLEAN /\ closed \in BOOLEAN
  BY DEF IsResult
<1> HIDE DEF inner, closed, v
<1>6. r.failed \/ closed => Encode(r) = SqlError
  BY <1>2, <1>5
<1>7. ~r.failed /\ ~closed =>
        Encode(r) = IF v = Nil THEN SqlNull ELSE EncodeBasic(v)
  BY <1>1, <1>2, <1>5
<1> QED
  BY <1>3, <1>4, <1>6, <1>7, Zenon DEF v

\* What ResultsTold says of a value and its answer, when there is one.
Told(v, answer) ==
  CASE v \in {Nil, NilBytes, Bytes(<< >>)} -> answer = SqlNull
    [] v.kind \in UnsignedKinds /\ v.int \notin Signed(Width) -> answer = Integer(v.int - 2 ^ Width)
    [] v.kind = "string" -> Decode(answer, "string") = v \/ (HasNul(v) /\ answer.type = "TEXT")
    [] v.kind = "time" -> /\ answer.type = "TEXT"
                          /\ Tellable(v) => Decode(answer, "time") = v
    [] OTHER -> Decode(answer, v.kind) = v

\* The kinds of the values that are NULL.
LEMMA NullKinds ==
  ASSUME NEW v, v.kind \notin {"nil", "nil []byte", "[]byte"}
  PROVE  v \notin {Nil, NilBytes, Bytes(<< >>)}
<1>1. /\ Nil.kind = "nil" /\ NilBytes.kind = "nil []byte"
      /\ \A s : Bytes(s).kind = "[]byte"
  BY DEF Nil, NilBytes, Bytes
<1>2. Bytes(<< >>).kind = "[]byte"
  BY <1>1
<1> QED
  BY <1>1, <1>2

\* A function that takes what another one answered sees what that one
\* answered: numbers first.
LEMMA NumbersTold ==
  ASSUME NEW v, IsSignedValue(v) \/ IsUnsignedValue(v)
  PROVE  Told(v, EncodeBasic(v))
<1>1. PICK kind, n :
        /\ kind \in SignedKinds \cup UnsignedKinds
        /\ v = Number(kind, n)
        /\ \/ kind \in SignedKinds /\ n \in Signed(BitsOf(kind))
           \/ kind \in UnsignedKinds /\ n \in Unsigned(BitsOf(kind))
  BY DEF IsSignedValue, IsUnsignedValue
<1>2. v.kind = kind /\ v.int = n
  BY <1>1 DEF Number
<1>3. /\ kind \notin {"string", "time", "nil", "nil []byte", "[]byte"}
      /\ kind \in SignedKinds => kind \notin UnsignedKinds
      /\ BitsOf(kind) \in {Width, NarrowBits}
      /\ BitsOf(kind) # Width => BitsOf(kind) = NarrowBits
  BY <1>1 DEF SignedKinds, UnsignedKinds, BitsOf
<1>4. v \notin {Nil, NilBytes, Bytes(<< >>)}
  BY <1>2, <1>3, NullKinds
<1>5. \A m : Integer(m).type = "INTEGER" /\ Integer(m).int = m
  BY DEF Integer
<1>6. \A m : AsInt(Integer(m)) = m
  BY <1>5 DEF AsInt
<1>7. CASE kind \in SignedKinds
  <2>1. EncodeBasic(v) = Integer(n)
    BY <1>2, <1>7, EncodeByKind
  <2>2. Decode(Integer(n), kind) = Number(kind, ToSigned(n, BitsOf(kind)))
    BY <1>6, <1>7, DecodeByKind
  <2>3. ToSigned(n, BitsOf(kind)) = n
    BY <1>1, <1>3, <1>7, WordsAreCut
  <2>4. Decode(EncodeBasic(v), v.kind) = v
    BY <1>1, <1>2, <2>1, <2>2, <2>3
  <2> QED
    BY <1>2, <1>3, <1>4, <1>7, <2>4 DEF Told
<1>8. CASE kind \in UnsignedKinds
  <2>1. EncodeBasic(v) = Integer(ToSigned(n, Width))
    BY <1>2, <1>8, EncodeByKind
  <2>2. n \in Unsigned(BitsOf(kind))
    BY <1>1, <1>3, <1>8
  <2>3. CASE n \notin Signed(Width)
    <3>1. BitsOf(kind) = Width
      BY <1>3, <2>2, <2>3, WordsFit
    <3>2. EncodeBasic(v) = Integer(n - 2 ^ Width)
      BY <2>1, <2>2, <2>3, <3>1, WordsAreCut
    <3> QED
      BY <1>2, <1>3, <1>4, <1>8, <2>3, <3>2 DEF Told
  <2>4. CASE n \in Signed(Width)
    <3>1. EncodeBasic(v) = Integer(n)
      BY <2>1, <2>4, WordsFit
    <3>2. n \in Int /\ n >= 0 /\ ToUnsigned(n, BitsOf(kind)) = n
      BY <1>3, <2>2, WordsAreCut
    <3>3. Decode(Integer(n), kind) = DecodeUnsigned(n, kind)
      BY <1>6, <1>8, DecodeByKind
    <3>4. DecodeUnsigned(n, kind) = Number(kind, n)
      BY <3>2 DEF DecodeUnsigned
    <3>5. Decode(EncodeBasic(v), v.kind) = v
      BY <1>1, <1>2, <3>1, <3>3, <3>4
    <3> QED
      BY <1>2, <1>3, <1>4, <1>8, <2>4, <3>5 DEF Told
  <2> QED
    BY <2>3, <2>4
<1> QED
  BY <1>1, <1>7, <1>8

LEMMA OthersTold ==
  ASSUME NEW v, HasResultForm(v), v \notin {Nil, Struct}
  PROVE  Told(v, EncodeBasic(v))
<1> DEFINE answer == EncodeBasic(v)
<1>1. {"bool", "float32", "float64", "string", "[]byte", "nil []byte", "time"}
        \cap UnsignedKinds = {}
  BY DEF UnsignedKinds
<1>2. ASSUME NEW b \in BOOLEAN, v = Bool(b) PROVE Told(v, answer)
  <2>1. v.kind = "bool" /\ v.bool = b
    BY <1>2 DEF Bool
  <2>2. answer = Integer(IF b THEN 1 ELSE 0)
    BY <2>1, EncodeByKind
  <2>3. AsInt(answer) = IF b THEN 1 ELSE 0
    BY <2>2 DEF AsInt, Integer
  <2> HIDE DEF answer
  <2>4. Decode(answer, "bool") = Bool(AsInt(answer) # 0)
    BY DecodeByKind
  <2>5. (AsInt(answer) # 0) = b
    BY <2>3
  <2>6. Decode(answer, v.kind) = v
    BY <1>2, <2>1, <2>4, <2>5, Zenon
  <2> QED
    BY <1>1, <2>1, <2>6, NullKinds DEF Told
<1>3. ASSUME NEW k \in {"float32", "float64"}, NEW x, v = Float(k, x) PROVE Told(v, answer)
  <2>1. v.kind = k /\ v.float = x
    BY <1>3 DEF Float
  <2>2. answer = Real(x)
    BY <2>1, EncodeByKind
  <2>3. AsInt(answer) = x
    BY <2>2 DEF AsInt, Real
  <2> HIDE DEF answer
  <2>4. Decode(answer, v.kind) = v
    BY <1>3, <2>1, <2>3, DecodeByKind
  <2> QED
    BY <1>1, <2>1, <2>4, NullKinds DEF Told
<1>4. ASSUME NEW text, v = Str(text) PROVE Told(v, answer)
  <2>1. v.kind = "string" /\ v.text = text
    BY <1>4 DEF Str
  <2>2. answer = Text(CString(text))
    BY <2>1, EncodeByKind
  <2>3. answer.type = "TEXT" /\ answer.text = CString(text)
    BY <2>2 DEF Text
  <2> HIDE DEF answer
  <2>4. ~HasNul(v) => Decode(answer, "string") = v
    <3>1. Decode(answer, "string") = Str(CString(CString(text)))
      BY <2>3, DecodeByKind DEF AsText
    <3>2. ~HasNul(v) => CString(text) = text
      BY <1>4, CStringKeeps
    <3> QED
      BY <1>4, <3>1, <3>2
  <2> QED
    BY <1>1, <2>1, <2>3, <2>4, NullKinds DEF Told
<1>5. ASSUME NEW s, v = Bytes(s) PROVE Told(v, answer)
  <2>1. v.kind = "[]byte" /\ v.bytes = s
    BY <1>5 DEF Bytes
  <2>2. answer = IF s = << >> THEN SqlNull ELSE Blob(s)
    BY <2>1, EncodeByKind
  <2>3. CASE s = << >>
    <3> HIDE DEF answer
    <3>1. Told(v, answer) <=> answer = SqlNull
      BY <1>1, <1>5, <2>1, <2>3 DEF Told
    <3> QED
      BY <2>2, <2>3, <3>1
  <2>4. CASE s # << >>
    <3>1. answer.type = "BLOB" /\ answer.bytes = s
      BY <2>2, <2>4 DEF Blob
    <3> HIDE DEF answer
    <3>2. AsBytes(answer) = s
      BY <3>1 DEF AsBytes
    <3>3. Decode(answer, v.kind) = v
      BY <1>5, <2>1, <2>4, <3>2, DecodeByKind
    <3>4. v \notin {Nil, NilBytes, Bytes(<< >>)}
      <4>1. /\ Nil.kind = "nil" /\ NilBytes.kind = "nil []byte"
            /\ \A x : Bytes(x).bytes = x
        BY DEF Nil, NilBytes, Bytes
      <4>2. Bytes(<< >>).bytes = << >>
        BY <4>1
      <4> QED
        BY <2>1, <2>4, <4>1, <4>2
    <3> QED
      BY <1>1, <2>1, <3>3, <3>4 DEF Told
  <2> QED
    BY <2>3, <2>4
<1>6. CASE v = NilBytes
  <2>1. v.kind = "nil []byte"
    BY <1>6 DEF NilBytes
  <2>2. answer = SqlNull
    BY <2>1, EncodeByKind
  <2> HIDE DEF answer
  <2>3. Told(v, answer) <=> answer = SqlNull
    BY <1>1, <1>6, <2>1 DEF Told
  <2> QED
    BY <2>2, <2>3 DEF answer
<1>7. CASE IsTimeValue(v)
  <2>1. PICK t \in Int, z \in Int : v = Time(t, z)
    BY <1>7 DEF IsTimeValue
  <2>2. v.kind = "time"
    BY <2>1 DEF Time
  <2>3. answer = Text(FormatTime(v))
    BY <2>2, EncodeByKind
  <2>4. answer.type = "TEXT" /\ answer.text = FormatTime(v)
    BY <2>3 DEF Text
  <2> HIDE DEF answer
  <2>5. /\ CString(FormatTime(v)) = FormatTime(v)
        /\ Tellable(v) => ParseTime(FormatTime(v), "auto") = v
    BY <2>1, TellableTimesParse
  <2>6. Decode(answer, "time") = ParseTime(CString(FormatTime(v)), "auto")
    BY <2>4, DecodeByKind DEF AsText
  <2>7. v \notin {Nil, NilBytes, Bytes(<< >>)}
    BY <2>2, NullKinds
  <2>8. Told(v, answer) <=> /\ answer.type = "TEXT"
                            /\ Tellable(v) => Decode(answer, "time") = v
    BY <1>1, <2>2, <2>7 DEF Told
  <2> QED
    BY <2>4, <2>5, <2>6, <2>8 DEF answer
<1>8. CASE IsSignedValue(v) \/ IsUnsignedValue(v)
  BY <1>8, NumbersTold
<1> QED
  BY <1>2, <1>3, <1>4, <1>5, <1>6, <1>7, <1>8 DEF HasResultForm

-----------------------------------------------------------------------------
(* A value on its way.                                                     *)

\* The value that was sent is in the column, and each later stage is what the
\* code makes of it; the configuration is settled while a value is under way.
RowInv ==
  /\ row.at \in {"nowhere", "refused", "stored", "read", "called", "answered"}
  /\ row.at # "nowhere" => pc = "ready"
  /\ row.at \in {"refused", "stored", "read", "called"} => row.sent \in GoArguments
  /\ row.at = "refused" => NormalizeBasic(Plain(row.sent)) = Error
  /\ row.at \in {"stored", "read", "called"} => NormalizeBasic(Plain(row.sent)) # Error
  /\ row.at = "stored" => row.stored = Stored(Plain(row.sent))
  /\ row.at = "read" =>
       row.got = ColumnValue(Stored(Plain(row.sent)), row.declared, cfg.location)
  /\ row.at = "called" => /\ row.argument = Stored(Plain(row.sent))
                          /\ row.kind \in ParameterKinds
                          /\ row.seen = Decode(row.argument, row.kind)
  /\ row.at = "answered" => IsResult(row.result) /\ row.answer = Encode(row.result)

LEMMA RowStarts == row = NoRow => RowInv
<1>1. NoRow.at = "nowhere"
  BY DEF NoRow
<1> QED
  BY <1>1 DEF RowInv

LEMMA SendKeepsRow ==
  ASSUME NEW v \in GoArguments, NEW declared \in Declared, Send(v, declared)
  PROVE  RowInv'
<1>1. /\ pc' = pc /\ pc = "ready" /\ cfg' = cfg
      /\ row' = IF Normalize(v) = Error THEN [at |-> "refused", sent |-> v]
                ELSE [at |-> "stored", sent |-> v, declared |-> declared,
                      stored |-> Bind(Normalize(v))]
  BY DEF Send, Talking, dsnVars
<1>2. Normalize(v) = NormalizeBasic(Plain(v))
  BY PlainIsBasic
<1>3. CASE Normalize(v) = Error
  <2>1. row'.at = "refused" /\ row'.sent = v
    BY <1>1, <1>3
  <2> QED
    BY <1>1, <1>2, <1>3, <2>1 DEF RowInv
<1>4. CASE Normalize(v) # Error
  <2> DEFINE stored == Bind(Normalize(v))
  <2>1. row' = [at |-> "stored", sent |-> v, declared |-> declared, stored |-> stored]
    BY <1>1, <1>4
  <2>2. stored = Stored(Plain(v))
    BY <1>2 DEF Stored
  <2> HIDE DEF stored
  <2>3. row'.at = "stored" /\ row'.sent = v /\ row'.stored = stored
    BY <2>1
  <2> QED
    BY <1>1, <1>2, <1>4, <2>2, <2>3 DEF RowInv
<1> QED
  BY <1>3, <1>4

LEMMA ReceiveKeepsRow ==
  ASSUME RowInv, Receive
  PROVE  RowInv'
<1> DEFINE got == ColumnValue(row.stored, row.declared, cfg.location)
<1>1. /\ row.at = "stored" /\ pc' = pc /\ cfg' = cfg
      /\ row' = [at |-> "read", sent |-> row.sent, declared |-> row.declared, got |-> got]
  BY DEF Receive, dsnVars
<1>2. /\ pc = "ready" /\ row.sent \in GoArguments /\ NormalizeBasic(Plain(row.sent)) # Error
      /\ row.stored = Stored(Plain(row.sent))
  BY <1>1 DEF RowInv
<1> HIDE DEF got
<1>3. row'.at = "read" /\ row'.sent = row.sent /\ row'.declared = row.declared /\ row'.got = got
  BY <1>1
<1>4. row'.got = ColumnValue(Stored(Plain(row'.sent)), row'.declared, cfg'.location)
  BY <1>1, <1>2, <1>3 DEF got
<1> QED
  BY <1>1, <1>2, <1>3, <1>4 DEF RowInv

LEMMA CallKeepsRow ==
  ASSUME RowInv, NEW kind \in ParameterKinds, Call(kind)
  PROVE  RowInv'
<1> DEFINE seen == Decode(row.stored, kind)
<1>1. /\ row.at = "stored" /\ pc' = pc
      /\ row' = [at |-> "called", sent |-> row.sent, argument |-> row.stored, kind |-> kind,
                 seen |-> seen]
  BY DEF Call, dsnVars
<1>2. /\ pc = "ready" /\ row.sent \in GoArguments /\ NormalizeBasic(Plain(row.sent)) # Error
      /\ row.stored = Stored(Plain(row.sent))
  BY <1>1 DEF RowInv
<1> HIDE DEF seen
<1>3. /\ row'.at = "called" /\ row'.sent = row.sent /\ row'.argument = row.stored
      /\ row'.kind = kind /\ row'.seen = seen
  BY <1>1
<1>4. row'.seen = Decode(row'.argument, row'.kind)
  BY <1>3 DEF seen
<1> QED
  BY <1>1, <1>2, <1>3, <1>4 DEF RowInv

\* The argument of a function is what a column can hold.
LEMMA ArgumentsAreColumns ==
  ASSUME RowInv, row.at = "called"
  PROVE  /\ HasForm(Plain(row.sent)) /\ NormalizeBasic(Plain(row.sent)) # Error
         /\ IsColumn(row.argument)
<1>1. /\ row.sent \in GoArguments /\ NormalizeBasic(Plain(row.sent)) # Error
      /\ row.argument = Stored(Plain(row.sent))
  BY DEF RowInv
<1>2. HasForm(Plain(row.sent))
  BY <1>1, PlainIsBasic, FormsOfValues
<1> QED
  BY <1>1, <1>2, ValuesMakeColumns

LEMMA ReturnKeepsRow ==
  ASSUME RowInv, Return
  PROVE  RowInv'
<1>1. row.at = "called" /\ pc' = pc
  BY DEF Return, dsnVars
<1>2. PICK result \in Results(row.seen) :
        row' = [at |-> "answered", result |-> result, answer |-> Encode(result)]
  BY DEF Return
<1>3. IsResult(result)
  <2>1. HasResultForm(row.seen)
    <3>1. /\ row.argument = Stored(Plain(row.sent)) /\ row.kind \in ParameterKinds
          /\ row.seen = Decode(row.argument, row.kind) /\ IsColumn(row.argument)
      BY <1>1, ArgumentsAreColumns DEF RowInv
    <3>2. row.seen # Error
      BY DEF Return
    <3> QED
      BY <3>1, <3>2, SeenHaveForm DEF Sees
  <2>2. \A v \in ResultValues(row.seen) \cup {Nil} : HasResultForm(v)
    <3>1. IsUnsignedValue(Number("uint64", 2 ^ Width - 1))
      BY WordsAreCut DEF IsUnsignedValue, UnsignedKinds, BitsOf
    <3> QED
      BY <2>1, <3>1 DEF ResultValues, HasResultForm
  <2>3. \E w \in Wraps, v \in ResultValues(row.seen) \cup {Nil}, f \in BOOLEAN :
          result = [wrap |-> w, value |-> v, failed |-> f]
    <3>1. \/ \E w \in Wraps, v \in ResultValues(row.seen), f \in BOOLEAN :
                result = [wrap |-> w, value |-> v, failed |-> f]
          \/ \E w \in Wraps \ {<< >>}, f \in BOOLEAN :
                result = [wrap |-> w, value |-> Nil, failed |-> f]
          \/ result = NoResult
      BY <1>2 DEF Results
    <3>2. << >> \in Wraps /\ FALSE \in BOOLEAN
      BY DEF Wraps
    <3> HIDE DEF Wraps
    <3>3. CASE result = NoResult
      BY <3>2, <3>3, Zenon DEF NoResult
    <3> QED
      BY <3>1, <3>3, Zenon
  <2> QED
    BY <2>2, <2>3 DEF IsResult
<1>4. row'.at = "answered" /\ row'.result = result /\ row'.answer = Encode(result)
  BY <1>2
<1>5. pc = "ready"
  BY <1>1 DEF RowInv
<1> QED
  BY <1>1, <1>3, <1>4, <1>5 DEF RowInv

\* No value is under way while a connection is being opened.
LEMMA DsnStepsKeepRow ==
  ASSUME RowInv, DsnNext, row' = row
  PROVE  RowInv'
<1>1. pc # "ready"
  BY DEF DsnNext, Option, ParseReturns, Open, SetTimeout, Pragma, PragmaAfter, ConnectHook
<1>2. row.at = "nowhere"
  BY <1>1 DEF RowInv
<1> QED
  BY <1>2 DEF RowInv

-----------------------------------------------------------------------------
(* The inductive invariant.                                                *)

Inv == DsnInv /\ LibInv /\ ParamsInv /\ RowInv

LEMMA InvInit == Init => Inv
BY DsnStarts, LibStarts, ParamsStarts, RowStarts DEF Init, Inv

LEMMA InvStep == Inv /\ [Next]_vars => Inv'
<1> SUFFICES ASSUME Inv, [Next]_vars PROVE Inv'
  OBVIOUS
<1>1. DsnInv /\ LibInv /\ ParamsInv /\ RowInv /\ CfgTyped
  BY DEF Inv, DsnInv
<1>2. CASE DsnNext /\ UNCHANGED <<row, statement>>
  BY <1>1, <1>2, DsnStep, LibStep, ParamsStep, DsnStepsKeepRow DEF Inv
<1>3. ASSUME UNCHANGED dsnVars PROVE DsnInv' /\ LibInv' /\ pc' = pc /\ cfg' = cfg
  BY <1>1, <1>3, DsnStays, LibStep DEF dsnVars
<1>4. CASE Calling /\ ParamsNext /\ UNCHANGED <<dsnVars, row>>
  <2>1. row' = row /\ UNCHANGED dsnVars
    BY <1>4
  <2>2. RowInv'
    BY <1>1, <1>3, <2>1 DEF RowInv
  <2> QED
    BY <1>1, <1>3, <1>4, <2>1, <2>2, ParamsStep DEF Inv
<1>5. ASSUME UNCHANGED <<dsnVars, statement>>, RowInv' PROVE Inv'
  BY <1>1, <1>3, <1>5, ParamsStep DEF Inv
<1>6. ASSUME NEW v \in GoArguments, NEW declared \in Declared, Send(v, declared) PROVE Inv'
  BY <1>5, <1>6, SendKeepsRow DEF Send
<1>7. CASE Receive
  BY <1>1, <1>5, <1>7, ReceiveKeepsRow DEF Receive
<1>8. ASSUME NEW kind \in ParameterKinds, Call(kind) PROVE Inv'
  BY <1>1, <1>5, <1>8, CallKeepsRow DEF Call
<1>9. CASE Return
  BY <1>1, <1>5, <1>9, ReturnKeepsRow DEF Return
<1>10. CASE UNCHANGED vars
  <2>1. row' = row /\ UNCHANGED <<dsnVars, statement>>
    BY <1>10 DEF vars
  <2>2. RowInv'
    BY <1>1, <1>3, <2>1 DEF RowInv
  <2> QED
    BY <1>5, <2>1, <2>2
<1> QED
  BY <1>2, <1>4, <1>6, <1>7, <1>8, <1>9, <1>10 DEF Next

\* The invariant holds in every reachable state.
THEOREM Invariance == Spec => []Inv
<1> QED
  BY InvInit, InvStep, PTL DEF Spec

-----------------------------------------------------------------------------
(* What follows from it.                                                   *)

LEMMA TypesAreKept == Inv => TypeOK
<1> SUFFICES ASSUME Inv PROVE TypeOK
  OBVIOUS
<1>1. /\ pc \in {"parse", "refused", "parsed", "timeout", "foreignKeys", "journalMode",
                  "synchronous", "hook", "ready", "failed"}
      /\ todo \subseteq DOMAIN dsn.options
      /\ cfg.flags \subseteq {"READONLY", "READWRITE", "CREATE", "MEMORY", "URI", "FULLMUTEX"}
      /\ cfg.busyTimeout \in Signed(IntWidth)
  BY DEF Inv, DsnInv, DsnGiven, CfgTyped
<1>2. lib.handle \in {"none", "open", "closed"}
  BY DEF Inv, LibInv
<1>3. /\ statement.at \in {"none", "prepared", "binding", "ran", "failed"}
      /\ DOMAIN statement.bound = DOMAIN statement.params
  BY DEF Inv, ParamsInv, StatementTyped
<1>4. row.at \in {"nowhere", "refused", "stored", "read", "called", "answered"}
  BY DEF Inv, RowInv
<1>5. row.at = "stored" => row.stored.type \in {"INTEGER", "FLOAT", "TEXT", "BLOB", "NULL"}
  <2> SUFFICES ASSUME row.at = "stored"
               PROVE  row.stored.type \in {"INTEGER", "FLOAT", "TEXT", "BLOB", "NULL"}
    OBVIOUS
  <2> DEFINE v == Plain(row.sent)
  <2>1. /\ row.sent \in GoArguments /\ NormalizeBasic(v) # Error /\ row.stored = Stored(v)
    BY DEF Inv, RowInv
  <2>2. HasForm(v)
    BY <2>1, PlainIsBasic, FormsOfValues
  <2> HIDE DEF v
  <2>3. IsColumn(Stored(v))
    BY <2>1, <2>2, ValuesMakeColumns
  <2> QED
    BY <2>1, <2>3 DEF IsColumn
<1> QED
  BY <1>1, <1>2, <1>3, <1>4, <1>5 DEF TypeOK

LEMMA ValuesRoundTrip == Inv => SqliteRoundTrip
<1> SUFFICES ASSUME Inv PROVE SqliteRoundTrip
  OBVIOUS
<1> DEFINE v == Plain(row.sent)
           timed == cfg.location # "none" /\ LooksLikeTimeType(row.declared)
<1>1. RowInv
  BY DEF Inv
<1>2. ASSUME row.at = "refused"
      PROVE  \/ v.kind \in {"struct", "error"}
             \/ v.kind \in {"uint", "uint64"} /\ v.int \notin Signed(Width)
  <2>1. NormalizeBasic(v) = Error
    BY <1>1, <1>2 DEF RowInv
  <2> HIDE DEF v
  <2> QED
    BY <2>1, ValuesRefused
<1>3. ASSUME row.at = "read" PROVE ReadBack(v, row.got, timed)
  <2>1. /\ row.sent \in GoArguments /\ NormalizeBasic(v) # Error
        /\ row.got = ColumnValue(Stored(v), row.declared, cfg.location)
    BY <1>1, <1>3 DEF RowInv
  <2>2. HasForm(v)
    BY <2>1, PlainIsBasic, FormsOfValues
  <2> HIDE DEF v
  <2> QED
    BY <2>1, <2>2, ValuesReadBack
<1> HIDE DEF v, timed
<1>4. ASSUME row.at = "read"
      PROVE  CASE v.kind \in SignedKinds \cup UnsignedKinds \cup {"bool"} ->
                    row.got = Number("int64", NumberOf(v))
               [] v.kind \in {"float32", "float64"} -> row.got = Float("float64", v.float)
               [] v.kind = "string" ->
                    row.got = v \/ HasNul(v) \/ (timed /\ row.got.kind = "time")
               [] v.kind = "[]byte" -> row.got = v \/ (v.bytes = << >> /\ row.got = Nil)
               [] v.kind \in {"nil", "nil []byte"} -> row.got = Nil
               [] v.kind = "time" ->
                    IF timed
                      THEN Tellable(v) => row.got.kind = "time" /\ row.got.instant = v.instant
                      ELSE row.got = Str(FormatTime(v))
  <2>1. v.kind \in SignedKinds \cup UnsignedKinds => NumberOf(v) = v.int
    BY DEF NumberOf, SignedKinds, UnsignedKinds
  <2>2. v.kind = "bool" => NumberOf(v) = IF v.bool THEN 1 ELSE 0
    BY DEF NumberOf, SignedKinds, UnsignedKinds
  <2> QED
    BY <1>3, <1>4, <2>1, <2>2 DEF ReadBack, AllKinds, SignedKinds, UnsignedKinds
<1> QED
  BY <1>2, <1>4 DEF SqliteRoundTrip, v, timed

LEMMA ArgumentsAreTheirs == Inv => ArgumentsSeen
<1> SUFFICES ASSUME Inv, row.at = "called" PROVE ArgumentsSeen
  BY DEF ArgumentsSeen
<1> DEFINE sent == Plain(row.sent)
           argument == row.argument
           kind == row.kind
           seen == row.seen
<1>1. /\ HasForm(sent) /\ NormalizeBasic(sent) # Error /\ IsColumn(argument)
      /\ kind \in ParameterKinds /\ seen = Decode(argument, kind) /\ argument = Stored(sent)
  BY ArgumentsAreColumns DEF Inv, RowInv
<1> HIDE DEF sent, argument, kind, seen
<1>2. ASSUME seen = Error
      PROVE  \/ kind \in UnsignedKinds /\ AsInt(argument) < 0
             \/ kind = "time" /\ ~ShowsTime(argument)
  <2>1. CASE kind \in SignedKinds \cup UnsignedKinds
    BY <1>1, <1>2, <2>1, NumbersSeen
  <2>2. CASE kind \in {"bool", "float32", "float64", "string", "[]byte"}
    <3>1. Sees(argument, kind, seen)
      BY <1>1, <2>2, OthersSeen
    <3> QED
      BY <1>2, <3>1 DEF Sees
  <2>3. CASE kind = "time"
    BY <1>1, <1>2, <2>3, TimesSeen
  <2> QED
    BY <1>1, <2>1, <2>2, <2>3 DEF ParameterKinds
<1>3. seen # Error => Sees(argument, kind, seen)
  BY <1>1, SeenHaveForm
<1>4. ASSUME kind = "time", sent.kind = "time", Tellable(sent)
      PROVE  seen.instant = sent.instant
  <2>1. IsTimeValue(sent)
    <3>1. IsSignedValue(sent) \/ IsUnsignedValue(sent) \/ IsFloatValue(sent)
            => sent.kind # "time"
      BY DEF IsSignedValue, IsUnsignedValue, IsFloatValue, Number, Float,
         SignedKinds, UnsignedKinds
    <3>2. /\ Nil.kind # "time" /\ NilBytes.kind # "time" /\ Struct.kind # "time"
          /\ Error.kind # "time"
      BY DEF Nil, NilBytes, Struct, Error
    <3>3. \A b, text, s : Bool(b).kind # "time" /\ Str(text).kind # "time"
                            /\ Bytes(s).kind # "time"
      BY DEF Bool, Str, Bytes
    <3> QED
      BY <1>1, <1>4, <3>1, <3>2, <3>3 DEF HasForm
  <2>2. PICK t \in Int, z \in Int : sent = Time(t, z)
    BY <2>1 DEF IsTimeValue
  <2>3. argument = Text(FormatTime(sent)) /\ ParseTime(FormatTime(sent), "auto") = sent
    BY <1>1, <1>4, <2>2, OthersStored, TellableTimesParse
  <2>4. argument.type = "TEXT" /\ argument.text = FormatTime(sent)
    BY <2>3 DEF Text
  <2>5. seen = sent
    BY <1>1, <1>4, <2>3, <2>4, TimesSeen
  <2> QED
    BY <2>5
<1> QED
  BY <1>2, <1>3, <1>4 DEF ArgumentsSeen, Sees, sent, argument, kind, seen

LEMMA ResultsAreTheirs == Inv => ResultsTold
<1> SUFFICES ASSUME Inv, row.at = "answered" PROVE ResultsTold
  BY DEF ResultsTold
<1> DEFINE result == row.result
           v == result.value
           answer == row.answer
<1>1. IsResult(result) /\ answer = Encode(result)
  BY DEF Inv, RowInv
<1>2. HasResultForm(v)
  BY <1>1 DEF IsResult
<1>3. v = Struct => NoAnswer(result)
  BY DEF NoAnswer
<1> HIDE DEF v, answer, result
<1>4. NoAnswer(result) => answer = SqlError
  BY <1>1, EncodeAnswers
<1>5. ~NoAnswer(result) => Told(v, answer)
  <2>1. CASE v = Nil
    <3>1. v.kind = "nil" /\ "nil" \notin UnsignedKinds
      BY <2>1 DEF Nil, UnsignedKinds
    <3>2. ~NoAnswer(result) => answer = SqlNull
      BY <1>1, <2>1, EncodeAnswers DEF v
    <3> QED
      BY <2>1, <3>1, <3>2 DEF Told
  <2>2. CASE v # Nil
    <3>1. ~NoAnswer(result) => answer = EncodeBasic(v)
      BY <1>1, <2>2, EncodeAnswers DEF v
    <3> QED
      BY <1>2, <1>3, <2>2, <3>1, OthersTold
  <2> QED
    BY <2>1, <2>2
<1> QED
  BY <1>4, <1>5 DEF ResultsTold, Told, v, answer, result

\* Every variable has its type, and what is in a column has a type of SQLite's.
THEOREM TypeCorrect == Spec => []TypeOK
<1> QED
  BY Invariance, TypesAreKept, PTL

\* parseDSN: a data source name means one configuration in whatever order its
\* options come, for any number of options; with every error in the options it
\* is refused, and without one it is not.
THEOREM OneConfiguration == Spec => []OneMeaning
<1>1. Inv => OneMeaning
  BY DsnMeansOne DEF Inv
<1> QED
  BY Invariance, <1>1, PTL

\* rebuildFilename and Connect: the options change neither the file that is
\* opened nor its mode, and what became a URI is opened as one.
THEOREM TheFileIsOpened == Spec => []FileNamed
<1>1. Inv => FileNamed
  BY DsnNamesFile DEF Inv
<1> QED
  BY Invariance, <1>1, PTL

\* connector.Connect: whichever of its calls fail, a connection that is handed
\* out has every option, and one that is not is closed.
THEOREM ConnectionsAreConfigured == Spec => []Configured
<1>1. Inv => Configured
  BY LibConfigured DEF Inv
<1> QED
  BY Invariance, <1>1, PTL

\* bindNamedValues: a statement runs with the arguments of its own call, each
\* at a parameter it asks for, for any number of parameters and of calls.
THEOREM ParametersAreTrue == Spec => []ParametersTrue
<1>1. Inv => ParametersTrue
  BY ParamsAreTrue DEF Inv
<1> QED
  BY Invariance, <1>1, PTL

\* bindValue and columnValue: what is stored is read back as the value that
\* database/sql defines for it, for words of any width.
THEOREM ValuesComeBack == Spec => []SqliteRoundTrip
<1> QED
  BY Invariance, ValuesRoundTrip, PTL

\* buildValueDecoder: a registered function sees its argument, as a value of its
\* parameter's kind, or is not called, for words of any width.
THEOREM ArgumentsAreSeen == Spec => []ArgumentsSeen
<1> QED
  BY Invariance, ArgumentsAreTheirs, PTL

\* buildReturnEncoder and encodeResultValue: the next function sees what a
\* function returned, and SQL gets an error exactly when it returned one or what
\* it returned cannot be encoded.
THEOREM ResultsAreTold == Spec => []ResultsTold
<1> QED
  BY Invariance, ResultsAreTheirs, PTL
=============================================================================
