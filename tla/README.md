# TLA+ models of purego-gen

purego-gen generates Go bindings for C libraries that are loaded at run time,
without cgo. The repository also holds two `database/sql` drivers built on
generated bindings, for SQLite and DuckDB. These modules model the parts of the
repository that keep state and the algorithms whose results the rest relies on.
TLC checks each model on small instances, and TLAPS proves what matters most
for every instance.

## Inventory

### Go run time

| Part | State | Operations | What is hard | What makes it correct |
|---|---|---|---|---|
| Library loader: `libload/libload.go`, `sqlite3sys/load.go`, `duckdbsys/load.go` | the Once, `loadErr`, the bound symbols | `Load`, `Open`, `Candidates`, the registration of symbols | callers that arrive during a load; candidates that exist and cannot be opened or lack a symbol | nil means that every symbol is bound to one library; everybody is told the same; the first loadable candidate wins |
| SQLite connection: `sqlite3/sqlite3.go` | `db`, `closed`; statements and Rows with `closed` and `ephemeral`; one goroutine for each running step | Connect, Prepare, Exec, Query, Next, Close | contexts cancelled at any moment, watchers that outlive their call, closing in any order, errors left in a statement | statements finalized once, idle statements reset, the handle released, the caller's own interrupt reported as the context's error, no goroutine left behind |
| SQLite registries: the same file | `nextID`, `scalars`, `collations` under `registryMu` | RegisterFunc, RegisterCollation, callbacks and destructors | goroutines register while statements run; failure; replacement | a callback finds its entry; the Go maps hold what the library holds; registration is atomic to users |
| SQLite transactions: the same file | none in Go: the library's transaction | BeginTx, Commit, Rollback, ResetSession | a failed COMMIT, an interrupt that rolls back, the pool | a pooled connection has no open transaction |
| SQLite DSN: the same file | the connection's config | parseDSN, Connect, applyPragmas | iteration over a map with alias keys, int32, paths that become URIs, each step failing | one DSN, one configuration; the file that was named; a connection has its options or is closed |
| SQLite parameters: the same file | the bindings of a statement | bindNamedValues, resolveIndex | calls that fail half way, names with several prefixes | each parameter has its argument of the call |
| SQLite values: the same file | none | CheckNamedValue, bindValue, columnValue, the arguments and results of registered functions | kinds and widths of numbers, empty and nil slices, NULs, offsets of times | what is stored is read back, or is refused |
| DuckDB connection: `duckdb/duckdb.go` | as for SQLite, and the result and the current chunk of Rows | as for SQLite, and execDirect | as for SQLite; rows across chunks | results and chunks destroyed once, rows in order, no goroutine left behind |
| DuckDB values: the same file, `duckdbsys/load.go` | none | bindValue, readValue, hugeintToString, readDecimalValue | the place of a row in a vector, times before 1970, numbers wider than 64 bits | what is stored is read back; each row of each type is read from its own place |
| Wrappers and generated bindings: `sqlite3sys`, `duckdbsys` | function pointers | one per C function | memory that the collector moves or frees during a call; memory that the library lends, gives or takes over | nothing is leaked, freed twice or used when it is gone |

### Generator

The Python generator (`src/purego_gen`) and its second implementation in Zig
(`src/purego_gen_zig`) are batch programs: libclang's declarations go through
filters, type mapping and naming into a template. They have no concurrency.
What can go wrong is in their algorithms:

| Part | Algorithm | What makes it correct |
|---|---|---|
| `macro_constants.py`, `macro_eval.zig` | evaluation of integer macros: a syntax tree in Python, an operator-precedence stack machine in Zig | the value is the one C computes |
| `identifier_utils.py`, `renderer.py` | unique names per category, derived names, rejection of collisions | no two declarations of the generated file share a name |
| `clang_type_mapping.py`, `abi_layout.py` | padding fields, validation of offsets, sizes and alignments | Go lays a struct out as C does |
| `declaration_filters.py`, `typedef_lookups.py`, `render_context.py` | which declarations are emitted and what types are spelled with | every type that is referred to is declared |
| `helper_rendering.py`, `render_context.py` | discovery of callback, buffer and string parameters, overrides and their precedence | one parameter has one type, and helpers agree with it |
| `gotmpl.zig` | a subset of Go's text/template | parses and evaluates as the template means |
| configuration, command line, libclang front end, golden cases, scripts | schema, input and output | not modelled |

`PROJECT.json` lists every component with its status, and every hazard with its
line and the properties that cover it.

### How the parts interact

`Connect` of each driver calls `Load`, which runs once for the process. A
connection is used by one goroutine at a time, which `database/sql` guarantees;
its statements and Rows call the C library through the bound symbols. While a
statement runs, one more goroutine waits for the context and calls the
library's interrupt function on the same handle. SQLite calls back into Go for
registered functions, through the registry of the connection. The generated
bindings are what the generator writes; nothing else joins the two halves.

## Modules

| Module | Models | Abstract specification |
|---|---|---|
| `LibLoad` | `Load` with its Once, `Open`, `Candidates`, the registration | - |
| `SqliteConn` | one SQLite connection with its watchers | - |
| `SqliteRegistry` | registered functions and collations | `FunctionTable` |
| `SqliteTx` | transactions of several users of one pool of SQLite connections | - |
| `DuckdbConn` | one DuckDB connection with its watchers | - |
| `ForeignApi` | every wrapper: the memory it passes and the memory it is given | - |
| `ForeignCalls` | calls of those wrappers beside Go's collector and the libraries | - |
| `SqliteDsn` | from a data source name to a connection | - |
| `GoValues` | Go values and `normalizeValue`, which both drivers have | - |
| `SqliteValues` | values on their way to SQLite, from it, and through functions | - |
| `SqliteParams` | the parameters of a statement that is called several times | - |
| `SqliteSession` | `SqliteDsn`, `SqliteParams` and `SqliteValues` together, on a connection that a DSN configured | - |
| `DuckdbValues` | values on their way to DuckDB, and vectors read row by row | - |
| `MC...` | instances for TLC | - |
| `..._proofs` | what is proved of `SqliteConn`, `DuckdbConn`, `SqliteRegistry`, `SqliteTx`, `LibLoad`, `ForeignCalls`, `SqliteSession` and `DuckdbValues` | - |

An action is a part of a Go function that nothing can interleave with: it ends
where the function calls into a library that takes time, waits for a mutex, or
starts a goroutine. A definition named `Mutation: ...` is a variant of the one
below it with a plausible bug. The specification does not use it; putting it in
the place of the original must violate a property, which shows that the
property can fail.

### LibLoad

`proc` is where each caller of `Load` is; `once` is sync.Once; `loadErr`,
`bound` and the library handles are the package's variables. The file system is
a constant of a behaviour: which files exist in the configured directory and in
the system's places, which of them can be opened, and which symbols they
export. Paths are records, since only their order and identity matter;
`GlobMatches` has the order that `filepath.Glob` gives (`Ascending`), and
`Dedupe` is the function of that name.

### SqliteConn

`db`, `closed`, `stmt` and `rows` are the Go fields; `watcher` holds the
goroutines of `interruptWatcher` with their `cancelState`; `call` is the driver
call in progress and how far it is. External: `handle` (none, open, a zombie
that `sqlite3_close_v2` keeps, freed), `cstmt` (what each `sqlite3_stmt` is
doing) and `flag`, the handle's interrupt flag, which a step clears when it
starts while no other statement is active. `ret.own` records that the call was
interrupted by its own watcher.

A call arms the watcher (`Arm`), enters the step (`StepBegin`), gets a result
from the library (`StepRow`, `StepDone`, `StepError`, `StepInterrupted`) and
tells the watcher to end (`Stop`). A watcher chooses between the two channels
(`WatcherFires`, `WatcherStops`) and calls the interrupt (`WatcherInterrupts`)
at any moment, also after its call has returned, since `stop()` does not wait.

### SqliteRegistry and FunctionTable

Goroutines draw an id, add an entry, create the function in the library, and
undo the entry when that fails. The library's mutex lets one goroutine inside at
a time; the destructor of a replaced function runs inside the call that
replaces it. `FunctionTable` says what users see: registering a name either
makes all later calls run the new function or changes nothing, and a call runs
the function that is registered.

### SqliteTx

`BeginTx`, `Commit` and `Rollback` of the driver are one statement each, and
`ResetSession` only looks at `closed`, so the Go side has no state but the
`_txlock` of the DSN (`txLock`). What is modelled is what they lead to: `user`
is what each user of the `sql.DB` is doing, `pool` is where each connection is,
`tx`, `pending`, `lock` and `durable` are the library's transaction, its writes,
the lock on the file and the content of the file. `promised` and `undone`
remember what `Commit` and `Rollback` answered.

External, from how the driver uses them: `database/sql` rolls back when the
context of a transaction ends and takes a connection back after `Commit` and
`Rollback` whatever they return; the library has a rollback journal, its locks
let one writer be beside readers and no reader beside a commit, and an
interrupted write takes its transaction with it. An interrupt of an earlier call
that comes late and hits `COMMIT` is part of `SqliteConn`, not of this module.

### DuckdbConn

The variables are those of `SqliteConn`, with `results` (live `duckdb_result`
objects of Rows), `direct` (that of an execution without Rows) and `chunks`
(live data chunks of each result). An execution fills in a result whatever its
state. `position` is a history variable: the chunk and the row that the last
`Next` read.

### ForeignApi and ForeignCalls

`ForeignApi` is a catalogue. A row names wrappers that treat memory alike and
says what they hand to C (`args`), whose the memory is that C answers with
(`gives`) and what the wrapper makes of it (`reads`). Every wrapper that passes
or returns memory is named. `gives` is the contract of the library and external;
`args` and `reads` are the code. The helpers of `sqlite3sys/load.go`,
`duckdbsys/load.go` and of the generated bindings are the values they take:
`cStringPtr`, `copyBytes`, `ownedString`, `gostring`, and the address of the
first byte of a slice.

`ForeignCalls` runs every kind of row. `call` is what each goroutine is doing:
its arguments are made, it is inside the library, the library has returned, the
result is read, memory is freed. Beside it `Collect` takes Go memory that
nothing refers to (`LastUse` says until when the wrapper does), `MoveStack`
moves a stack on which an address was taken, and `TakeBack` reuses memory that
the library lent. `block` is C memory with who has to free it, and `got` is what
the goroutine keeps of its last call. `Deserialize` hands over memory it
allocated itself (`BeginDeserialize`); `Serialize` is two rows, because one flag
turns its memory from owned to borrowed.

The code does not guard two cases, which the properties therefore exempt by
name: a slice that its owner drops while the library reads it (the wrapper
passes a number and has no `KeepAlive`), and an out variable on a stack that
moves between the conversion and the call (`GetConfigFlag`, `OpenExt`).

### SqliteDsn, SqliteParams, GoValues, SqliteValues and SqliteSession

In `SqliteDsn`, `dsn` is the argument, `todo` the options that the range
statement over the map has still to give, in any order; `cfg` is
`connectionConfig`, and `lib` what the library was told. `Option` is one
iteration, `ParseReturns` the rest of `parseDSN`, and `Open`, `SetTimeout`,
`Pragma` and `ConnectHook` are the steps of `Connect`, each of which may fail.
Names and values of options are one member for each way the code tells them
apart. `Opens` is what SQLite makes of a name and flags: the file name
`encoded` has an escape such as `%20`, which is part of a plain name and is
decoded in a URI.

In `SqliteParams`, `statement` is a statement with its parameters, the arguments
of the call in progress and, for each parameter, which argument of which call it
was given (`bound`). `BeginBinding` resets and clears, `BindArgument` is one
turn of the loop of `bindNamedValues` and may fail, `StepBound` steps.
`TriedPrefixes` are the spellings a named argument is looked up under. DuckDB's
`bindNamedValues` has the same loop, and one prefix.

`GoValues` and `SqliteValues` are functions on values. A value is a record with
its kind; an int64 has `Width` bits, and the narrow integers `NarrowBits`.
`SqliteSession` sends a value through them (`row`): `Send` normalises and binds
it, `Receive` reads the column, `Call` hands it to a registered function and
`Return` encodes what the function answers: a value of the kind it was given or
of another one, as it is, in an interface, behind a pointer, behind both, a nil
in each of those places, an error, or nothing.

Two properties speak of functions. `ArgumentsSeen`: which arguments are refused,
and that any other is seen as a value of the parameter's kind that is the
argument. `ResultsTold`: in `f(g(x))`, f sees what g returned if its parameter is
of the kind of that value, and SQL gets an error exactly when g returned one or
its result cannot be encoded. Both name their exceptions: integers that a narrow
parameter cannot hold are cut, an empty slice comes back as nil, an unsigned
result above the largest int64 comes out negative, a string ends at its NUL, and
a text does not tell every time.

### DuckdbValues

`cell` is one value on its way: stored by an `Exec` (`Send`), or one of two rows
of a vector of any type (`Produce`), then read by `Rows.Next` (`Read`). A vector
is memory: `At` is what lies at an offset, `SizeOf` what DuckDB says a row takes
(external) and `Stride` what the driver multiplies with. Times count
nanoseconds, of which few make a microsecond; `TimeBound` says how far from 1970
the times lie that are sent. `Quot` and `Rem` are Go's `/` and
`%`, which round towards zero. DATE, TIME and TIME_TZ are read through functions
of DuckDB and `time.Date`; the calendar is not modelled.

## Runs

| Run | Question | Bounds |
|---|---|---|
| `libload` | Does every caller of Load get the same answer, and a usable library when it is nil? | two callers, two symbols, two versions of a library file, both operating systems |
| `sqlite_conn` | Do all orders of calls, errors, interrupts and closes keep statements, handle, errors and goroutines accounted for? | two statements, two Rows, two watchers, one context that can be cancelled and Background |
| `sqlite_conn_live` | Does an interrupt that arrives while the statement runs end the call? | one statement, one Rows, two watchers |
| `sqlite_conn_lost` | Does a cancelled call always return? It does not (finding). | as above |
| `sqlite_registry` | Do Go maps, library and users agree on what is registered? | two goroutines, two names, two functions, three ids |
| `sqlite_tx` | Do Commit and Rollback answer the truth, and does a transaction hold its own writes only? | two users, two connections, four writes, each `_txlock` |
| `sqlite_tx_idle` | Is a connection in the pool in no transaction? One can be (finding). | as above |
| `foreign_calls` | Is memory that crosses the border alive while it is used, and freed once by whoever has to? | two goroutines, two blocks of C memory, every kind of wrapper |
| `sqlite_session` | Does a DSN mean one configuration and one file; is a connection configured or closed; do arguments reach their parameters; do values survive SQLite and functions? | two options in a DSN, two parameters, two calls of a statement, ints of three bits, narrow ones of two |
| `duckdb_values` | Do values survive DuckDB; is every row read from its place, as the announced type? | vectors of two rows, words of four bits, seconds of eight nanoseconds, times up to 20 nanoseconds before and after 1970 |
| `duckdb_hugeint` | Is the text of a HUGEINT its value? It is not (finding). | as above |
| `duckdb_conn` | Are results, chunks, statements and goroutines accounted for, and do rows come in order? | two statements, two Rows, two watchers, results of up to two chunks of up to two rows |

Why the bounds are enough. Two statements and two Rows give every pair of
objects that can disturb each other: a prepared and an ephemeral statement, Rows
open while another statement runs, a slot used again after its object was
closed. Two watchers are the one of the call and a late one of an earlier call;
a third would be a second late one, which does what the first does. Two chunks
are one boundary, and two rows tell the first row of a chunk from the last. Two
goroutines and three ids let a registration be replaced, fail and be replaced
again while a call is in progress. Two users and two connections are a reader in
the way of a commit and a user that takes over what another left; four writes
are two for each. Two goroutines and two blocks let memory be freed by one while
the other is given it again. A pair of options holds every conflict between two
spellings, and between an option that stays in the name and one that does not;
three options give no other result (1.2 million states), nor do three
parameters. Small words have the
same edges as large ones: the least and the largest number, the first that a
narrower kind cannot hold, the first that only an unsigned one can. Two rows
tell a wrong stride from a right one, and a vector of one row has the first row
only.

Values are tried only on a connection whose options are the default ones and a
location, since no other option touches a value, and parameters on a connection
with the default options; `Talking` and `Calling` state these bounds.

`CHECK_DEADLOCK FALSE` is used in runs that really stop: in `libload` when
every caller has returned, in `sqlite_registry` when the connection is closed
and no id is left, in `sqlite_session` when a DSN or a value was refused or
Connect failed, in `duckdb_values` and `duckdb_hugeint` when the value was read.

### Fairness

`LibLoad` assumes weak fairness of each caller that is inside `Load`: a
goroutine that can run does, and `dlopen` returns. Nothing forces a new call.
The liveness specification of `SqliteConn` assumes weak fairness of a watcher
that has chosen its context (it runs on, and `sqlite3_interrupt` returns), of
the call outside the library's step, and of a step whose handle has been
interrupted (SQLite polls the flag). It assumes nothing of a step that was not
interrupted: a statement may run for ever, which is what cancellation is for.

### Findings

`sqlite_conn_lost`: `interruptWatcher` starts its goroutine before the caller
enters `sqlite3_step`, and calls `sqlite3_interrupt` once. If the context is
cancelled in between, the flag is set while no statement is active, and the
step clears it as it starts. The statement then runs to its end although its
context is done. `TestDriverContextCancellationInterruptsLongQuery` expects a
cancelled context to interrupt a long query. DuckDB's driver has the same
window.

`sqlite_tx_idle`: `SQLiteTx.Commit` returns the error of `COMMIT` and does no
more. When another connection reads, `COMMIT` fails with `SQLITE_BUSY` and
SQLite keeps the transaction open, but `database/sql` takes the connection back
as idle and `ResetSession` lets it out again. `BeginTx` then fails on that
connection, and a statement without a transaction joins the one that was left,
to be lost when the pool closes the connection. `sqlite_tx` shows how far this
goes: the writes that were left are never committed by another `sql.Tx`, because
SQLite refuses a second `BEGIN`, and no answer of `Commit` or `Rollback` is
false.

`duckdb_hugeint`: `hugeintToString` writes the upper and the lower half of a
HUGEINT, or of its negated value, as decimal numbers one after the other, the
lower one with 20 digits, so that the upper half counts 10^20.
`duckdbsys/generated.go` says of the type that "Its value is upper * 2^64 +
lower", which is another number as soon as the value needs more than 64 bits and
a sign: 2^64 is read as 100000000000000000000. The trace of the run shows this
with halves of four bits, of two digits each: upper -8 and lower 1 are -127, the
negated halves are 7 and 15, and the text is -715. Where a negative number has a
lower half of 0 the code writes 19 zeros. The least HUGEINT is left out of the
property: its upper half has no negative, and its text has two minus signs
(`malformed` in `HugeintToString`). `RowsReadTrue` of `duckdb_values` shows that the text is
right for every number of 64 bits and a sign.

While modelling, these behaviours came up that no text of the repository rules
out; the models have them and the properties name them as exempt. Every DECIMAL
is read as "0", since `readDecimalValue` switches on the type of the column,
which is DECIMAL, and not on the type it is stored in. A TIME_TZ is read as a
TIME, whose number it is not. A UBIGINT above the largest int64, and an unsigned
result of a registered function, come out negative. A busy timeout that does not
fit in 32 bits wraps. An empty slice becomes NULL in SQLite and stays one in
DuckDB. A string with a NUL is cut there. SQLite may refuse a journal mode
without an error. A call whose arguments have names in part may leave a parameter
NULL: `(x, sql.Named("a", y))` binds both to `:a` of `:a, ?`.

## Proofs

Every safety invariant that a passing run checks, the action property
`RowsInOrder` and the refinement `ImplementsFunctionTable` are theorems: they
hold for every value of the constants that satisfies the named assumptions, and
the run shows them on one instance. TLC found out first that a part of an
inductive invariant holds, by checking it on the instance of the module's run.

The assumptions say that the objects which stand for nothing (`Null`, `None`,
`Background`) are none of the objects there are, that bounds are natural
numbers, that the offset of a location is a number, and what the code itself promises,
such as a symbol table that is not empty. Two of them are arithmetic: `PowersAssumption` of `GoValues` and
`IntPowersAssumption` of `SqliteDsn` say that a power of two is twice the one
before it and that a smaller power is smaller. They are true of every width; the
provers know nothing of `^`, and TLC evaluates both.

### SqliteConn_proofs and DuckdbConn_proofs

For any sets of statements, Rows, goroutines and contexts: `TypeOK`,
`NoOrphanWatcher`, `OwnInterruptIsCtxErr`, `StatementsAccounted`,
`HandleReleased` and `IdleStatementsReset` of `SqliteConn`.

None of these is inductive. The inductive invariant is the conjunction of

- `TypeInv`: the type invariant and `Owners`: the call in progress has a
  statement, a context and, in `Next`, Rows that exist;
- `RunsOpen`: a step in the library runs an open statement;
- `NextOwnsRows`: the Rows of a `Next` in progress stay open, and their
  statement is the one that runs;
- `HandleFollows`: the C handle is as `closed` and the live statements say;
- `WatcherHonest`: a watcher that interrupts has said so in `interrupted` and its
  context is cancelled; the call's watcher has the call's context, and a call is
  `own` only when that watcher delivered its interrupt;
- `StatesOwned`: only the call that stepped a statement sees it ended or failed,
  and only open Rows or that call keep a statement active;
- `Accounted`: each `sqlite3_stmt` has one Go object that will finalize it.

Each part is preserved by each action, one step per action. `StatesOwned` is
what carries `IdleStatementsReset`: an error can only be left in a statement by a
call that ends by resetting it, and so no later `sqlite3_reset` answers with it.

`DuckdbConn` goes the same way: `TypeOK`, `NoOrphanWatcher`, `ResultsAccounted`,
`ChunksAccounted` and `RowsInOrder`, also for results of any number of chunks of
any size. `TypeInv` adds `CallNames`, that the call in progress names objects
that exist, and `RowsFollow`, that only open Rows have a chunk, and that its row
and its size are those of `position`. It is what makes the action property
follow: the row that `Next` reads is the one after `position`. `ResultsInv` adds
`EphemeralOwned`, that a statement made for one call belongs to that call or to
its Rows, because only then does closing the Rows account for both.

### SqliteRegistry_proofs

For any goroutines, names, functions and number of ids: `TypeOK`,
`IdsDistinct`, `CallbackFindsEntry`, `RegistryMatchesLibrary`, and that the
registries implement `FunctionTable`.

`RegistryMatchesLibrary` speaks of the moments when nobody registers. To be kept
it needs `EntriesOwned`, which says at every step who answers for an entry of
the Go maps: the library's table has its id, or the registration that drew the
id is between adding the entry and creating the function, or the registration
that replaced the function still owes the destructor. `NamedHaveEntries` is the
other direction, `IdsDrawn` and `DrawnOnce` keep two goroutines from answering
for one id, `NamedIfOk` and `VictimsGone` say what the library did inside the
call that is in progress.

The refinement mapping is in `SqliteRegistry`: the function of a name is what the
Go map has under the id that the library has under that name. Each action is
shown to be a step of `FunctionTable` or a stutter; that a callback runs the
function that is registered is the case that needs the invariant.

### SqliteTx_proofs

For any users, connections and number of writes, and any `_txlock`: `TypeOK`,
`AnswersHonest` and `TxHoldsItsWrites`. A failed `COMMIT` leaves a transaction
open on an idle connection (the finding of `sqlite_tx_idle`), with writes that
nobody answers for. So the invariant says where every write is (`Books`): not
tried yet, or in one connection's open transaction, or in the file, and no two
of these; and `ConnsTaken`, that a connection has one user.

### LibLoad_proofs

For any callers, symbols, directory contents and number of versions: `TypeOK`,
`NilMeansBound`, `SameAnswer` and `FirstLoadableWins`. The last one rests on
`CandidatesInRank`: for every file system, the candidate list holds every file
that is promised and can be loaded, in the order of the ranks. It needs facts
about sequences of any length: `Dedupe` keeps the first occurrence of everything
and its order, sorted versions ascend. They are proved by induction, stated as
the least-number principle for sets of naturals, so that no theorem with an
operator parameter is needed.

The inductive invariant then follows the Once: one goroutine is in its body
(`OneBody`); `BodyState` says at which of its program points a library is open,
and that the candidates not tried yet are in order and hold every file that can
be loaded (`Searching`); `Bindings` that every bound variable is bound to the library
that was opened, and `Answers` that who returned read `loadErr` after the body
ended.

### ForeignCalls_proofs

For any goroutines and blocks of C memory, and for every row of `ForeignApi`:
`TypeOK`, which includes that nothing is freed that is not owned, `NothingLeaks`,
`ResultsLast` and `LibraryUsesLiveMemory`. `WrappersAgree` goes through the whole
catalogue: each row reads the kind of result the library gives, frees exactly
what it owns, and passes known kinds of arguments. `MemoryInv` says that the row
of each call in progress agrees, and what its memory is at each stage of the
call (`MemoryOf`); the rest of the proof looks at no row by name. A wrapper
that breaks the agreement breaks the proof of `WrappersAgree`.

### SqliteSession_proofs

For any number of options, parameters and calls, integers of any width, any
location and last year: `TypeOK`, `OneMeaning`, `FileNamed`, `Configured`,
`ParametersTrue`, `SqliteRoundTrip`, `ArgumentsSeen` and `ResultsTold`. The
invariant has a part for each module that is put together.

- `DsnInv`: the configuration is that of the options given so far, whichever
  those are. The order in which the range statement visits a map is thereby out
  of the picture, and `OneMeaning` follows when nothing is left to give.
- `LibInv`: at each step of `Connect`, the library was told what the steps
  before it tell, and nothing else.
- `ParamsInv`: the arguments before `next` are bound to their parameters, and
  no other parameter has a value of this call. That no parameter is left over
  when the numbers agree is the pigeonhole principle.
- `RowInv`: a value on its way is what the conversions so far make of the value
  that was sent, and what a function returned has one of the forms that a
  parameter or a result can have. The three properties of values then speak of
  compositions of functions, with one lemma for each form a value can have
  (`ValuesReadBack`, `SeenHaveForm`, `OthersTold`). What fits in a word is left
  as it is by wrapping, and what does not is less by the size of the word
  (`Wraps2`, `WordsAreCut`).

### DuckdbValues_proofs

For words of any width, units of any size and times at any distance from 1970:
`DuckdbRoundTrip`, `RowsReadTrue` and `ScanTypeTrue`. `CellInv` says that what
is stored in the cell is a vector that gives back what was sent, and that what
was read is what `readValue` makes of one of its rows. The work is in the
arithmetic and in the switch statements. `UnitsDivide` and the lemmas around it
show that microseconds, their whole seconds and the correction of a negative
remainder give an instant back to the microsecond, also before 1970. Then there
is a lemma for each switch statement, which says of each branch what it answers.

### Only model-checked

- Liveness: `EveryLoadReturns` and `DeliveredInterruptReturns` need fairness and
  ENABLED, which the provers do not handle.
- The findings are behaviours that TLC exhibits.
- What the model fixes is fixed in the theorems too: the texts, zones and
  declared types that are tried, the members that stand for the spellings of an
  option, and two rows in a vector.

## Plan

The Go run time is modelled and its safety is proved. What is left is the
generator, whose algorithms are pure functions of a header file:

1. `MacroEval`: the stack machine of `macro_eval.zig` and the tree evaluator of
   `macro_constants.py` against C's arithmetic on small words.
2. `Names`: identifiers, derived names and the renderer's check.
3. `RecordLayout`: padding and validation against the layout rules of C and Go.
4. `TypeRefs` and `CallbackParams`: references, filters, overrides.
5. `GoTmpl`, if what it does can be told from what the tests already show.

## Not modelled

The generator, in Python and in Zig: it has no state that outlives a run and no
concurrency, and is next in the plan. What a C library does with a handle that
was freed. The affinity of SQLite columns, the layouts of times one by one, the
calendar. The limit on callbacks that purego sets. The text of errors; input and
output of the generator; test harnesses and build files. `PROJECT.json` gives
the reason for each component.
