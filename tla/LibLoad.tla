------------------------------ MODULE LibLoad ------------------------------
(***************************************************************************)
(* Loading a shared library once per process.                              *)
(*                                                                         *)
(* sqlite3sys.Load and duckdbsys.Load are the same program: a sync.Once    *)
(* whose body looks for the library along the candidate list of package    *)
(* libload, takes the first one that dlopen accepts, and then resolves     *)
(* every symbol in turn with Dlsym, storing it in a package variable.      *)
(* Load answers with the package variable loadErr.  Goroutines call Load   *)
(* concurrently (every Connect does); one of them runs the body while the  *)
(* others wait in Once.Do.                                                 *)
(*                                                                         *)
(* A path is a record: the directory (SystemDir for a bare file name) and  *)
(* a version, 0 for "lib<name>.so" (or ".dylib") and 1, 2, ... for the     *)
(* names ".so.<v>" in their lexical order, 1 being ".so.0".                *)
(***************************************************************************)
EXTENDS Naturals, Sequences, FiniteSets, SequencesExt

CONSTANTS
  Callers,      \* goroutines that call Load
  SymbolOrder,  \* the symbols in the order register_functions resolves them
  LibDir,       \* the directory PUREGO_GEN_TEST_LIB<NAME>_LIB_DIR may name
  SystemDir,    \* the loader's own search path: a candidate without directory
  MaxVersion,   \* bound on the versioned names a directory holds
  Environments, \* the file systems and environment variables to consider
  Null          \* no path, no error, not called

ASSUME CallersAssumption == Callers # {} /\ Null \notin Callers
ASSUME MaxVersionAssumption == MaxVersion \in Nat \ {0}

Symbols == {SymbolOrder[i] : i \in DOMAIN SymbolOrder}

\* The names of the symbols are none of the words that "open" and "nil" stand
\* for in loadErr and answer.
ASSUME SymbolsAssumption == /\ SymbolOrder \in Seq(STRING) /\ Len(SymbolOrder) > 0
                            /\ Symbols \cap {"open", "nil"} = {}

\* Whether the file is there, whether dlopen accepts it, and its symbols.
FileKind == [there : BOOLEAN, loads : BOOLEAN, exports : SUBSET Symbols]
Path == [dir : {LibDir, SystemDir}, version : 0..MaxVersion]

ASSUME DirsAssumption == LibDir # SystemDir
ASSUME NullAssumption == Null \notin Path \cup Symbols \cup {"open", "nil"}

\* The path override or Null, whether the variable names LibDir, whether
\* runtime.GOOS is "darwin", and what the file system holds at each path.
Environment == [extraPath : Path \cup {Null}, scanDir : BOOLEAN,
                darwin : BOOLEAN, file : [Path -> FileKind]]
ASSUME EnvironmentsAssumption == Environments \subseteq Environment

VARIABLES
  env,        \* the environment, read once by the body
  once,       \* sync.Once: "new", "running", "done"
  candidates, \* what Open has still to try
  errs,       \* Open's list of the candidates that failed
  handle,     \* the dlopen handle, named by its path
  bound,      \* bound[s]: the library the function variable of s calls, or Null
  loadErr,    \* Null, "open" or the symbol that is missing
  pc,         \* pc[g]: where goroutine g is in Load
  answer      \* answer[g]: what Load returned to g

library == <<candidates, errs, handle, bound>>
vars == <<env, once, library, loadErr, pc, answer>>

-----------------------------------------------------------------------------
(* Package libload: the candidate list.                                    *)

Loadable(p) == env.file[p].there /\ env.file[p].loads

\* External: sort.Strings, of names that are all different.
Ascending(S) ==
  CHOOSE s \in [1..Cardinality(S) -> S] : \A i, j \in DOMAIN s : i < j => s[i] < s[j]

Versions(d) == {v \in 1..MaxVersion : env.file[[dir |-> d, version |-> v]].there}

\* Mutation: the matches in descending order.
GlobMatchesDescending(d) ==
  [i \in 1..Cardinality(Versions(d)) |->
     [dir |-> d, version |-> SetToSortSeq(Versions(d), >)[i]]]

\* filepath.Glob of "lib<name>.so.*" in a directory, sorted.
GlobMatches(d) ==
  [i \in 1..Cardinality(Versions(d)) |-> [dir |-> d, version |-> Ascending(Versions(d))[i]]]

\* Mutation: versions numbered one too high.
DirCandidatesShifted(d) ==
  <<[dir |-> d, version |-> 0]>>
  \o [i \in DOMAIN GlobMatches(d) |-> [GlobMatches(d)[i] EXCEPT !.version = @ + 1]]

DirCandidates(d) ==
  IF env.darwin
    THEN <<[dir |-> d, version |-> 0]>>
    ELSE <<[dir |-> d, version |-> 0]>> \o GlobMatches(d)

Dedupe(values) ==
  FoldLeft(LAMBDA out, v : IF v \in ToSet(out) THEN out ELSE Append(out, v),
           <<>>, values)

\* The stem's own names, left to the dynamic loader's search.
SystemCandidates ==
  IF env.darwin
    THEN <<[dir |-> SystemDir, version |-> 0]>>
    ELSE <<[dir |-> SystemDir, version |-> 0], [dir |-> SystemDir, version |-> 1]>>

Candidates ==
  Dedupe((IF env.extraPath = Null THEN <<>> ELSE <<env.extraPath>>)
         \o (IF env.scanDir THEN DirCandidates(LibDir) ELSE <<>>)
         \o SystemCandidates)

-----------------------------------------------------------------------------
Init ==
  /\ env \in Environments
  /\ once = "new"
  /\ candidates = <<>>
  /\ errs = <<>>
  /\ handle = Null
  /\ bound = [s \in Symbols |-> Null]
  /\ loadErr = Null
  /\ pc = [g \in Callers |-> "idle"]
  /\ answer = [g \in Callers |-> Null]

Goto(g, label) == pc' = [pc EXCEPT ![g] = label]

\* A goroutine calls Load and reaches loadOnce.Do.
Call(g) ==
  /\ pc[g] = "idle"
  /\ Goto(g, "once")
  /\ UNCHANGED <<env, once, library, loadErr, answer>>

\* Once.Do lets one caller run the body.
OnceEnter(g) ==
  /\ pc[g] = "once"
  /\ once = "new"
  /\ once' = "running"
  /\ Goto(g, "openLibrary")
  /\ UNCHANGED <<env, library, loadErr, answer>>

\* Mutation: a flag instead of sync.Once, which nobody waits for.
OnceSkipNoWait(g) ==
  /\ pc[g] = "once"
  /\ once # "new"
  /\ Goto(g, "return")
  /\ UNCHANGED <<env, once, library, loadErr, answer>>

\* Once.Do returns to the others when the body has ended, whatever its result.
OnceSkip(g) ==
  /\ pc[g] = "once"
  /\ once = "done"
  /\ Goto(g, "return")
  /\ UNCHANGED <<env, once, library, loadErr, answer>>

OpenLibrary(g) ==
  /\ pc[g] = "openLibrary"
  /\ candidates' = Candidates
  /\ Goto(g, "open")
  /\ UNCHANGED <<env, once, errs, handle, bound, loadErr, answer>>

\* Open: dlopen of the next candidate succeeds.
DlopenOk(g) ==
  /\ pc[g] = "open"
  /\ candidates # <<>>
  /\ Loadable(Head(candidates))
  /\ handle' = Head(candidates)
  /\ candidates' = Tail(candidates)
  /\ Goto(g, "register")
  /\ UNCHANGED <<env, once, errs, bound, loadErr, answer>>

\* Open: dlopen of the next candidate fails and its error is kept.
DlopenFails(g) ==
  /\ pc[g] = "open"
  /\ candidates # <<>>
  /\ ~Loadable(Head(candidates))
  /\ errs' = Append(errs, Head(candidates))
  /\ candidates' = Tail(candidates)
  /\ UNCHANGED <<env, once, handle, bound, loadErr, pc, answer>>

\* Mutation: the body leaves on an error without releasing the waiters.
EndOnceStuck(g, err) ==
  /\ loadErr' = err
  /\ once' = IF err = Null THEN "done" ELSE once
  /\ Goto(g, "return")

\* The body of Once.Do ends with an error or with Null.
EndOnce(g, err) ==
  /\ loadErr' = err
  /\ once' = "done"
  /\ Goto(g, "return")

\* Open: no candidate is left; the body stores the error and returns.
OpenFails(g) ==
  /\ pc[g] = "open"
  /\ candidates = <<>>
  /\ EndOnce(g, "open")
  /\ UNCHANGED <<env, library, answer>>

Unbound == {i \in DOMAIN SymbolOrder : bound[SymbolOrder[i]] = Null}

\* register_functions: Dlsym of the next symbol succeeds and RegisterFunc
\* stores it.
RegisterSymbol(g) ==
  /\ pc[g] = "register"
  /\ \E i \in Unbound :
       /\ \A j \in Unbound : i <= j
       /\ SymbolOrder[i] \in env.file[handle].exports
       /\ bound' = [bound EXCEPT ![SymbolOrder[i]] = handle]
  /\ UNCHANGED <<env, once, candidates, errs, handle, loadErr, pc, answer>>

\* register_functions: the next symbol is missing; the ones before it stay
\* bound, and the handle stays open.
RegisterFails(g) ==
  /\ pc[g] = "register"
  /\ \E i \in Unbound :
       /\ \A j \in Unbound : i <= j
       /\ SymbolOrder[i] \notin env.file[handle].exports
       /\ EndOnce(g, SymbolOrder[i])
  /\ UNCHANGED <<env, library, answer>>

\* register_functions returns nil.
RegisterEnds(g) ==
  /\ pc[g] = "register"
  /\ Unbound = {}
  /\ EndOnce(g, Null)
  /\ UNCHANGED <<env, library, answer>>

\* return loadErr
Return(g) ==
  /\ pc[g] = "return"
  /\ answer' = [answer EXCEPT ![g] = IF loadErr = Null THEN "nil" ELSE loadErr]
  /\ Goto(g, "returned")
  /\ UNCHANGED <<env, once, library, loadErr>>

Step(g) ==
  \/ OnceEnter(g) \/ OnceSkip(g)
  \/ OpenLibrary(g) \/ DlopenOk(g) \/ DlopenFails(g) \/ OpenFails(g)
  \/ RegisterSymbol(g) \/ RegisterFails(g) \/ RegisterEnds(g)
  \/ Return(g)

Next == \E g \in Callers : Call(g) \/ Step(g)

\* The Go scheduler runs every goroutine that is able to run; whether a
\* goroutine ever calls Load is its own affair.
Fairness == \A g \in Callers : WF_vars(Step(g))

Spec == Init /\ [][Next]_vars /\ Fairness

-----------------------------------------------------------------------------
TypeOK ==
  /\ env \in Environments
  /\ once \in {"new", "running", "done"}
  /\ candidates \in Seq(Path)
  /\ errs \in Seq(Path)
  /\ handle \in Path \cup {Null}
  /\ bound \in [Symbols -> Path \cup {Null}]
  /\ loadErr \in Symbols \cup {Null, "open"}
  /\ pc \in [Callers -> {"idle", "once", "openLibrary", "open", "register",
                         "return", "returned"}]
  /\ answer \in [Callers -> Symbols \cup {Null, "open", "nil"}]

\* A caller to whom Load returned nil may call any wrapper: every function
\* variable is bound, and all of them to one and the same library.  Load
\* returns a package variable that is nil until the body ends, so this rests
\* on the waiting in Once.Do and on loadErr being written before it ends.
NilMeansBound ==
  \A g \in Callers :
    answer[g] = "nil" => \E p \in Path : \A s \in Symbols : bound[s] = p

\* "Load resolves ... once per process" (load.go): every caller is told the
\* same, the one that ran the body and the ones that waited or came later.
SameAnswer ==
  \A g, h \in Callers :
    pc[g] = "returned" /\ pc[h] = "returned" => answer[g] = answer[h]

\* Where a path stands in the order the environment and libload promise: the
\* override first, then the named directory with the bare name before the
\* versioned ones, then the loader's own search.
Rank(p) ==
  IF p = env.extraPath THEN 0
  ELSE IF p.dir = LibDir THEN 1 + p.version
  ELSE 2 + MaxVersion + p.version

Reachable(p) ==
  \/ p = env.extraPath
  \/ p.dir = LibDir /\ env.scanDir /\ (env.darwin => p.version = 0)
  \/ p.dir = SystemDir /\ p.version <= (IF env.darwin THEN 0 ELSE 1)

\* The library that gets loaded is the loadable one of the lowest rank; when
\* Open fails there was none.
FirstLoadableWins ==
  /\ handle # Null =>
       \A p \in Path : Reachable(p) /\ Loadable(p) => Rank(handle) <= Rank(p)
  /\ loadErr = "open" => \A p \in Path : Reachable(p) => ~Loadable(p)

\* Every call of Load returns.
EveryLoadReturns ==
  \A g \in Callers : pc[g] = "once" ~> pc[g] = "returned"

=============================================================================
