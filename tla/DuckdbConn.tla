---------------------------- MODULE DuckdbConn ----------------------------
(***************************************************************************)
(* One connection of the DuckDB driver (duckdb/duckdb.go): prepared        *)
(* statements, results and the chunks they are read in, and the goroutine  *)
(* that interruptWatcher starts around duckdb_execute_prepared and         *)
(* duckdb_query.  As in SqliteConn there is one call in progress at most,  *)
(* and watchers of earlier calls run beside it.                            *)
(*                                                                         *)
(* What differs from SQLite: a query runs to its end before Next is first  *)
(* called, so only execution is interrupted; every result, of a failed     *)
(* execution too, must be destroyed; rows are read from chunks; and the    *)
(* error is the context's whenever the context is done by then.            *)
(*                                                                         *)
(* External, modelled from how the driver uses it: a query forgets an      *)
(* older interrupt when it starts and notices a newer one while it runs; a *)
(* result hands out its chunks in order and then a null or empty chunk.    *)
(***************************************************************************)
EXTENDS Naturals, Sequences, FiniteSets

CONSTANTS
  Stmts,      \* statement objects alive at once
  Rows,       \* Rows objects alive at once
  Watchers,   \* watcher goroutines alive at once
  Ctxs,       \* contexts that can be cancelled
  Background, \* context.Background(), which cannot
  MaxSize,    \* rows in a chunk
  MaxChunks,  \* chunks in a result, the last of which may be empty
  Null

ASSUME BackgroundAssumption == Background \notin Ctxs
ASSUME NullAssumption == Null \notin Stmts \cup Rows \cup Watchers \cup Ctxs
ASSUME SizeAssumption == MaxSize \in Nat \ {0} /\ MaxChunks \in Nat

Ctx == Ctxs \cup {Background}

VARIABLES
  conn,      \* c.conn: "nil" (zero) or "set"
  closed,    \* c.closed
  stmt,      \* DuckDBStmt objects
  rows,      \* DuckDBRows objects with their chunk state
  watcher,   \* goroutines of interruptWatcher with their cancelState
  cancelled, \* the contexts whose Done channel is closed
  call,      \* the driver call in progress
  ret,       \* how the last call ended
  handles,   \* external: the duckdb_database and the duckdb_connection
  prepared,  \* external: the duckdb_prepared_statement objects
  results,   \* external: the Rows whose duckdb_result object exists
  direct,    \* external: the duckdb_result of an execution without Rows
  chunks,    \* external: how many data chunks of a result exist
  flag,      \* external: the client context's interrupted
  position   \* history: the last row read from the Rows and its chunk's size

connection == <<conn, closed, handles>>
reading == <<rows, chunks, position>>
vars == <<connection, stmt, reading, watcher, cancelled, call, ret, prepared, results, direct, flag>>

-----------------------------------------------------------------------------
RowsObject == [obj : {"none", "open", "closed"}, stmt : Stmts \cup {Null},
               chunk : BOOLEAN, chunkSize : 0 .. MaxSize, chunkRow : 0 .. MaxSize]
WatcherState == [pc : {"select", "interrupt", "delivered", "ended"},
                 ctx : Ctxs \cup {Null}, done : BOOLEAN]
Call == [op : {"none", "direct", "exec", "query"},
         pc : {"unconnected", "idle", "arm", "execute", "run", "stop"},
         stmt : Stmts \cup {Null}, rows : Rows \cup {Null}, ctx : Ctx \cup {Null},
         watcher : Watchers \cup {Null}, state : {"none", "success", "interrupt", "error"}]
Outcome == {"none", "ok", "row", "eof", "ctxErr", "interrupt", "error", "badConn", "connectErr"}
Position == [chunk : 0 .. MaxChunks, size : 0 .. MaxSize, row : 0 .. MaxSize]

Idle == [op |-> "none", pc |-> "idle", stmt |-> Null, rows |-> Null, ctx |-> Null,
         watcher |-> Null, state |-> "none"]
Ended == [pc |-> "ended", ctx |-> Null, done |-> TRUE]
NoRows == [obj |-> "none", stmt |-> Null, chunk |-> FALSE, chunkSize |-> 0, chunkRow |-> 0]
BeforeFirst == [chunk |-> 0, size |-> 0, row |-> 0]

Init ==
  /\ conn = "nil"
  /\ closed = FALSE
  /\ stmt = [s \in Stmts |-> [obj |-> "none", ephemeral |-> FALSE]]
  /\ rows = [r \in Rows |-> NoRows]
  /\ watcher = [w \in Watchers |-> Ended]
  /\ cancelled = {}
  /\ call = [Idle EXCEPT !.pc = "unconnected"]
  /\ ret = "none"
  /\ handles = [db |-> "none", conn |-> "none"]
  /\ prepared = {}
  /\ results = {}
  /\ direct = FALSE
  /\ chunks = [r \in Rows |-> 0]
  /\ flag = FALSE
  /\ position = [r \in Rows |-> BeforeFirst]

-----------------------------------------------------------------------------
(* Helpers.                                                                *)

Usable == ~closed /\ conn = "set"

Return(out) == call' = Idle /\ ret' = out

OpenRowsOf(s) == {r \in Rows : rows[r].obj = "open" /\ rows[r].stmt = s}
FreeStmts == {s \in Stmts : stmt[s].obj # "open" /\ OpenRowsOf(s) = {}}
FreeRows == {r \in Rows : rows[r].obj # "open"}
FreeWatchers == {w \in Watchers : watcher[w].pc \in {"delivered", "ended"}}

PrepareOutcomes(c) ==
  IF ~Usable THEN {"badConn"} ELSE IF c \in cancelled THEN {"ctxErr"} ELSE {"ok", "error"}

\* A failed duckdb_prepare leaves an object that PrepareContext destroys.
NewStmt(s, ephemeral) ==
  /\ stmt' = [stmt EXCEPT ![s] = [obj |-> "open", ephemeral |-> ephemeral]]
  /\ prepared' = prepared \cup {s}

\* DuckDBStmt.Close on an open statement.
CloseStmt(s) ==
  /\ stmt' = [stmt EXCEPT ![s].obj = "closed"]
  /\ prepared' = prepared \ {s}

Begin(op, s, r, c) ==
  /\ call' = [Idle EXCEPT !.op = op, !.pc = "arm", !.stmt = s, !.rows = r, !.ctx = c]
  /\ ret' = "none"

-----------------------------------------------------------------------------
(* connector.Connect and DuckDBConn.Close.                                 *)

Connect ==
  /\ call.pc = "unconnected"
  /\ conn' = "set"
  /\ handles' = [db |-> "open", conn |-> "open"]
  /\ Return("ok")
  /\ UNCHANGED <<closed, stmt, reading, watcher, cancelled, prepared, results, direct, flag>>

\* duckdb_open fails, or duckdb_connect does and the database is closed.
ConnectFails ==
  /\ call.pc = "unconnected"
  /\ \E db \in {"none", "closed"} : handles' = [db |-> db, conn |-> "none"]
  /\ ret' = "connectErr"
  /\ UNCHANGED <<conn, closed, stmt, reading, watcher, cancelled, call, prepared, results, direct,
                 flag>>

\* duckdb_disconnect, then duckdb_close; the first time only.
ConnClose ==
  /\ call.pc = "idle"
  /\ ~closed
  /\ closed' = TRUE
  /\ conn' = "nil"
  /\ handles' = [db |-> "closed", conn |-> "closed"]
  /\ Return("ok")
  /\ UNCHANGED <<stmt, reading, watcher, cancelled, prepared, results, direct, flag>>

-----------------------------------------------------------------------------
(* Calls up to the execution of their statement.                           *)

Prepare(c) ==
  /\ call.pc = "idle"
  /\ \E out \in PrepareOutcomes(c) :
       /\ Return(out)
       /\ IF out = "ok" THEN \E s \in FreeStmts : NewStmt(s, FALSE) ELSE UNCHANGED <<stmt, prepared>>
  /\ UNCHANGED <<connection, reading, watcher, cancelled, results, direct, flag>>

\* bindNamedValues checks the connection and may fail itself.
BindFails == Return(IF Usable THEN "error" ELSE "badConn")

\* execTransient (ExecContext with arguments, BeginTx, Ping) and
\* DuckDBConn.QueryContext: an ephemeral statement, closed again when a
\* binding fails.
Ephemeral(c) ==
  /\ call.pc = "idle"
  /\ \E out \in PrepareOutcomes(c) :
       \/ /\ out = "ok"
          /\ \E s \in FreeStmts :
               /\ NewStmt(s, TRUE)
               /\ Begin("exec", s, Null, c) \/ \E r \in FreeRows : Begin("query", s, r, c)
       \/ /\ IF out = "ok" THEN BindFails ELSE Return(out)
          /\ UNCHANGED <<stmt, prepared>>
  /\ UNCHANGED <<connection, reading, watcher, cancelled, results, direct, flag>>

\* execDirect (ExecContext without arguments, Commit, Rollback): neither
\* checkUsable nor ctx.Err before it.
ExecDirect(c) ==
  /\ call.pc = "idle"
  /\ Begin("direct", Null, Null, c)
  /\ UNCHANGED <<connection, stmt, reading, watcher, cancelled, prepared, results, direct, flag>>

\* Exec or Query of a prepared statement: bind, then execBound or queryBound.
StmtRun(s, c) ==
  /\ call.pc = "idle"
  /\ stmt[s].obj = "open" /\ ~stmt[s].ephemeral
  /\ \/ BindFails
     \/ Usable /\ Begin("exec", s, Null, c)
     \/ Usable /\ \E r \in FreeRows : Begin("query", s, r, c)
  /\ UNCHANGED <<connection, stmt, reading, watcher, cancelled, prepared, results, direct, flag>>

StmtClose(s) ==
  /\ call.pc = "idle"
  /\ stmt[s].obj = "open" /\ ~stmt[s].ephemeral
  /\ CloseStmt(s)
  /\ Return("ok")
  /\ UNCHANGED <<connection, reading, watcher, cancelled, results, direct, flag>>

-----------------------------------------------------------------------------
(* Execution: execBound, queryBound and execDirect.                        *)

\* Mutation: a goroutine for a context without a Done channel, too.
ArmAlways ==
  /\ call.pc = "arm"
  /\ \E w \in FreeWatchers :
       /\ call' = [call EXCEPT !.pc = "execute", !.watcher = w]
       /\ watcher' = [watcher EXCEPT ![w] = [pc |-> "select", ctx |-> call.ctx, done |-> FALSE]]
  /\ UNCHANGED <<connection, stmt, reading, cancelled, ret, prepared, results, direct, flag>>

Arm ==
  /\ call.pc = "arm"
  /\ IF call.ctx = Background \/ conn = "nil"
       THEN call' = [call EXCEPT !.pc = "execute"] /\ UNCHANGED watcher
       ELSE \E w \in FreeWatchers :
              /\ call' = [call EXCEPT !.pc = "execute", !.watcher = w]
              /\ watcher' = [watcher EXCEPT ![w] = [pc |-> "select", ctx |-> call.ctx,
                                                    done |-> FALSE]]
  /\ UNCHANGED <<connection, stmt, reading, cancelled, ret, prepared, results, direct, flag>>

Execute ==
  /\ call.pc = "execute"
  /\ conn = "set"
  /\ call' = [call EXCEPT !.pc = "run"]
  /\ flag' = FALSE
  /\ UNCHANGED <<connection, stmt, reading, watcher, cancelled, ret, prepared, results, direct>>

\* The library returns and has filled in a result, whatever the state.
Fills(state) ==
  /\ call' = [call EXCEPT !.pc = "stop", !.state = state]
  /\ IF call.op = "query"
       THEN results' = results \cup {call.rows} /\ UNCHANGED direct
       ELSE direct' = TRUE /\ UNCHANGED results
  /\ UNCHANGED <<connection, stmt, reading, watcher, cancelled, ret, prepared, flag>>

\* duckdb_query of the zero connection that Close left.
ExecuteNull == call.pc = "execute" /\ conn = "nil" /\ Fills("error")
Succeeds == call.pc = "run" /\ Fills("success")
Fails == call.pc = "run" /\ Fills("error")
Interrupted == call.pc = "run" /\ flag /\ Fills("interrupt")

\* Mutation: stop() is skipped on the way to an error.
StopUnlessError(w) ==
  watcher' = IF w = Null \/ call.state # "success" THEN watcher
             ELSE [watcher EXCEPT ![w].done = TRUE]

StopWatcher(w) == watcher' = IF w = Null THEN watcher ELSE [watcher EXCEPT ![w].done = TRUE]

CloseEphemeral(s) ==
  IF s # Null /\ stmt[s].ephemeral THEN CloseStmt(s) ELSE UNCHANGED <<stmt, prepared>>

\* Mutation: the result of a failed query is left to nobody.
DestroyResultsOfExec ==
  /\ direct' = FALSE
  /\ UNCHANGED results

\* DestroyResult of the call's result.
DestroyResult ==
  /\ direct' = FALSE
  /\ results' = results \ {call.rows}

\* stop(), and then what the state says.
Finish ==
  /\ call.pc = "stop"
  /\ StopWatcher(call.watcher)
  /\ IF call.op = "query" /\ call.state = "success"
       THEN /\ rows' = [rows EXCEPT ![call.rows] = [NoRows EXCEPT !.obj = "open", !.stmt = call.stmt]]
            /\ Return("ok")
            /\ UNCHANGED <<stmt, prepared, results, direct>>
       ELSE /\ DestroyResult
            /\ CloseEphemeral(call.stmt)
            /\ Return(IF call.state = "success" THEN "ok"
                      ELSE IF call.ctx \in cancelled THEN "ctxErr" ELSE call.state)
            /\ UNCHANGED rows
  /\ UNCHANGED <<connection, chunks, position, cancelled, flag>>

-----------------------------------------------------------------------------
(* DuckDBRows.                                                             *)

HasRow(r) == rows[r].chunk /\ rows[r].chunkRow < rows[r].chunkSize

\* A chunk of the given size from duckdb_fetch_chunk, of which the row-th row
\* is the first to be read.
ReadNewChunk(r, size, row) ==
  /\ rows' = [rows EXCEPT ![r].chunk = TRUE, ![r].chunkSize = size, ![r].chunkRow = row]
  /\ chunks' = [chunks EXCEPT ![r] = @ - (IF rows[r].chunk THEN 1 ELSE 0) + 1]
  /\ position' = [position EXCEPT ![r] = [chunk |-> @.chunk + 1, size |-> size, row |-> row]]
  /\ Return("row")

\* Next while the chunk has a row left.
NextRow(r) ==
  /\ call.pc = "idle"
  /\ rows[r].obj = "open" /\ HasRow(r)
  /\ rows' = [rows EXCEPT ![r].chunkRow = @ + 1]
  /\ position' = [position EXCEPT ![r].row = rows[r].chunkRow + 1]
  /\ Return("row")
  /\ UNCHANGED <<connection, stmt, chunks, watcher, cancelled, prepared, results, direct, flag>>

\* Mutation: chunkRow keeps its value when a chunk is fetched.
NextChunkKeepsRow(r) ==
  /\ call.pc = "idle"
  /\ rows[r].obj = "open" /\ ~HasRow(r)
  /\ position[r].chunk < MaxChunks
  /\ \E size \in rows[r].chunkRow + 1 .. MaxSize : ReadNewChunk(r, size, rows[r].chunkRow + 1)
  /\ UNCHANGED <<connection, stmt, watcher, cancelled, prepared, results, direct, flag>>

\* Next at the end of a chunk: it goes, the next one comes and gives its row.
NextChunk(r) ==
  /\ call.pc = "idle"
  /\ rows[r].obj = "open" /\ ~HasRow(r)
  /\ position[r].chunk < MaxChunks
  /\ \E size \in 1 .. MaxSize : ReadNewChunk(r, size, 1)
  /\ UNCHANGED <<connection, stmt, watcher, cancelled, prepared, results, direct, flag>>

\* Mutation: Close leaves the chunk to the result.
CloseRowsKeepsChunk(r) ==
  /\ rows' = [rows EXCEPT ![r] = [NoRows EXCEPT !.obj = "closed"]]
  /\ position' = [position EXCEPT ![r] = BeforeFirst]
  /\ results' = results \ {r}
  /\ UNCHANGED chunks
  /\ CloseEphemeral(rows[r].stmt)

\* DuckDBRows.Close, the first time: chunk, result, ephemeral statement.  The
\* other fields of closed Rows are read by nothing and are cleared here.
CloseRows(r) ==
  /\ rows' = [rows EXCEPT ![r] = [NoRows EXCEPT !.obj = "closed"]]
  /\ position' = [position EXCEPT ![r] = BeforeFirst]
  /\ chunks' = [chunks EXCEPT ![r] = @ - (IF rows[r].chunk THEN 1 ELSE 0)]
  /\ results' = results \ {r}
  /\ CloseEphemeral(rows[r].stmt)

\* No chunk, an empty one, which is destroyed at once, or a fetch that failed,
\* which Next cannot tell from the end: Close and io.EOF.
NextEnds(r) ==
  /\ call.pc = "idle"
  /\ rows[r].obj = "open" /\ ~HasRow(r)
  /\ CloseRows(r)
  /\ Return("eof")
  /\ UNCHANGED <<connection, watcher, cancelled, direct, flag>>

RowsClose(r) ==
  /\ call.pc = "idle"
  /\ rows[r].obj = "open"
  /\ CloseRows(r)
  /\ Return("ok")
  /\ UNCHANGED <<connection, watcher, cancelled, direct, flag>>

-----------------------------------------------------------------------------
(* The environment and the watcher goroutines.                             *)

Cancel(c) ==
  /\ c \notin cancelled
  /\ cancelled' = cancelled \cup {c}
  /\ UNCHANGED <<connection, stmt, reading, watcher, call, ret, prepared, results, direct, flag>>

WatcherFires(w) ==
  /\ watcher[w].pc = "select"
  /\ watcher[w].ctx \in cancelled
  /\ watcher' = [watcher EXCEPT ![w].pc = "interrupt"]
  /\ UNCHANGED <<connection, stmt, reading, cancelled, call, ret, prepared, results, direct, flag>>

\* duckdb_interrupt on the connection the goroutine captured; what it does to
\* one that was disconnected meanwhile is left out.
WatcherInterrupts(w) ==
  /\ watcher[w].pc = "interrupt"
  /\ watcher' = [watcher EXCEPT ![w].pc = "delivered"]
  /\ flag' = (flag \/ handles.conn = "open")
  /\ UNCHANGED <<connection, stmt, reading, cancelled, call, ret, prepared, results, direct>>

WatcherStops(w) ==
  /\ watcher[w].pc = "select"
  /\ watcher[w].done
  /\ watcher' = [watcher EXCEPT ![w].pc = "ended"]
  /\ UNCHANGED <<connection, stmt, reading, cancelled, call, ret, prepared, results, direct, flag>>

Next ==
  \/ Connect \/ ConnectFails \/ ConnClose
  \/ \E c \in Ctx : Prepare(c) \/ Ephemeral(c) \/ ExecDirect(c)
  \/ \E s \in Stmts : StmtClose(s) \/ \E c \in Ctx : StmtRun(s, c)
  \/ Arm \/ Execute \/ ExecuteNull \/ Succeeds \/ Fails \/ Interrupted \/ Finish
  \/ \E r \in Rows : NextRow(r) \/ NextChunk(r) \/ NextEnds(r) \/ RowsClose(r)
  \/ \E c \in Ctxs : Cancel(c)
  \/ \E w \in Watchers : WatcherFires(w) \/ WatcherInterrupts(w) \/ WatcherStops(w)

Spec == Init /\ [][Next]_vars

-----------------------------------------------------------------------------
TypeOK ==
  /\ conn \in {"nil", "set"}
  /\ closed \in BOOLEAN
  /\ stmt \in [Stmts -> [obj : {"none", "open", "closed"}, ephemeral : BOOLEAN]]
  /\ rows \in [Rows -> RowsObject]
  /\ watcher \in [Watchers -> WatcherState]
  /\ cancelled \subseteq Ctxs
  /\ call \in Call
  /\ ret \in Outcome
  /\ handles \in [db : {"none", "open", "closed"}, conn : {"none", "open", "closed"}]
  /\ prepared \subseteq Stmts
  /\ results \subseteq Rows
  /\ direct \in BOOLEAN
  /\ chunks \in [Rows -> Nat]
  /\ flag \in BOOLEAN
  /\ position \in [Rows -> Position]

\* Every result is destroyed once: a live one belongs to open Rows or to the
\* call that has just executed.  A prepared statement lives as long as its Go
\* object, an ephemeral one no longer than its call or its Rows.
ResultsAccounted ==
  /\ \A r \in Rows : r \in results <=> rows[r].obj = "open" \/ (call.pc = "stop" /\ call.rows = r)
  /\ direct => call.pc = "stop" /\ call.rows = Null
  /\ prepared = {s \in Stmts : stmt[s].obj = "open"}
  /\ \A s \in prepared : stmt[s].ephemeral => call.stmt = s \/ OpenRowsOf(s) # {}

\* Rows hold one data chunk at most and give it back before their result goes:
\* a row is never read from a chunk that is no longer there.
ChunksAccounted ==
  \A r \in Rows :
    /\ chunks[r] = IF rows[r].chunk THEN 1 ELSE 0
    /\ rows[r].chunk => rows[r].obj = "open" /\ r \in results

\* Rows give back a chunk only when its last row was returned, and a row that
\* Next returns is the one after the row it returned before: none is skipped or
\* repeated where a chunk ends.
RowsInOrder ==
  [][\A r \in Rows :
       \/ position'[r] = position[r]
       \/ position'[r] = [position[r] EXCEPT !.row = @ + 1]
       \/ /\ position'[r].chunk = position[r].chunk + 1
          /\ position'[r].row = 1
          /\ position[r].row = position[r].size
       \/ /\ rows'[r].obj = "closed"
          /\ ret' = "eof" => position[r].row = position[r].size]_vars

\* No return path of execBound, queryBound or execDirect leaves a goroutine
\* that nobody told to end.
NoOrphanWatcher ==
  \A w \in Watchers :
    watcher[w].pc = "select" /\ ~watcher[w].done =>
      call.watcher = w /\ call.pc \in {"execute", "run", "stop"}
=============================================================================
