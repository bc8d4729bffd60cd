---------------------------- MODULE SqliteConn ----------------------------
(***************************************************************************)
(* One connection of the SQLite driver (sqlite3/sqlite3.go): the Go        *)
(* objects SQLiteConn, SQLiteStmt and SQLiteRows, the C objects they own,  *)
(* and the goroutine that interruptWatcher starts around sqlite3_step.     *)
(*                                                                         *)
(* database/sql calls a connection from one goroutine at a time, so there  *)
(* is one call in progress at most ("call").  What runs beside it are the  *)
(* watchers: stop() tells a watcher to end but does not wait for it, so    *)
(* watchers of earlier calls may still be about to call sqlite3_interrupt. *)
(* Contexts are cancelled by anybody at any moment.                        *)
(*                                                                         *)
(* External, modelled from how the driver uses it: sqlite3_step (clears    *)
(* the interrupt flag when it starts a statement while none is active, and *)
(* notices the flag while it runs), sqlite3_reset (answers with the error  *)
(* of the failed step before it), sqlite3_finalize, sqlite3_close_v2 (a    *)
(* handle with statements left becomes a zombie, freed with the last one). *)
(***************************************************************************)
EXTENDS Naturals, FiniteSets

CONSTANTS
  Stmts,      \* statement objects alive at once
  Rows,       \* Rows objects alive at once
  Watchers,   \* watcher goroutines alive at once
  Ctxs,       \* contexts that can be cancelled
  Background, \* context.Background(), which cannot
  Null

ASSUME BackgroundAssumption == Background \notin Ctxs
ASSUME NullAssumption == Null \notin Stmts \cup Rows \cup Watchers \cup Ctxs

Ctx == Ctxs \cup {Background}

VARIABLES
  db,        \* c.db: "nil" or "set"
  closed,    \* c.closed
  stmt,      \* SQLiteStmt objects; s.stmt is nil exactly when closed
  rows,      \* SQLiteRows objects
  watcher,   \* goroutines of interruptWatcher with their cancelState
  cancelled, \* the contexts whose Done channel is closed
  call,      \* the driver call in progress
  ret,       \* how the last call ended
  handle,    \* external: the sqlite3 object
  cstmt,     \* external: the sqlite3_stmt objects
  flag       \* external: u1.isInterrupted

conn == <<db, closed>>
external == <<handle, cstmt, flag>>
vars == <<conn, stmt, rows, watcher, cancelled, call, ret, external>>

-----------------------------------------------------------------------------
StmtObject == [obj : {"none", "open", "closed"}, ephemeral : BOOLEAN]
RowsObject == [obj : {"none", "open", "closed"}, stmt : Stmts \cup {Null},
               ctx : Ctx \cup {Null}]
WatcherState == [pc : {"select", "interrupt", "delivered", "ended"},
                 ctx : Ctxs \cup {Null}, done : BOOLEAN, interrupted : BOOLEAN]
Result == {"none", "row", "done", "interrupt", "error"}
Call == [op : {"none", "exec", "stmtExec", "next"},
         pc : {"unconnected", "idle", "arm", "step", "run", "stop"},
         stmt : Stmts \cup {Null}, rows : Rows \cup {Null},
         ctx : Ctx \cup {Null}, watcher : Watchers \cup {Null},
         result : Result, own : BOOLEAN]
Outcome == {"none", "ok", "row", "eof", "ctxErr", "interrupt", "error",
            "badConn", "staleError", "connectErr"}

Idle == [op |-> "none", pc |-> "idle", stmt |-> Null, rows |-> Null,
         ctx |-> Null, watcher |-> Null, result |-> "none", own |-> FALSE]
Ended == [pc |-> "ended", ctx |-> Null, done |-> TRUE, interrupted |-> FALSE]

Init ==
  /\ db = "nil"
  /\ closed = FALSE
  /\ stmt = [s \in Stmts |-> [obj |-> "none", ephemeral |-> FALSE]]
  /\ rows = [r \in Rows |-> [obj |-> "none", stmt |-> Null, ctx |-> Null]]
  /\ watcher = [w \in Watchers |-> Ended]
  /\ cancelled = {}
  /\ call = [Idle EXCEPT !.pc = "unconnected"]
  /\ ret = [out |-> "none", own |-> FALSE]
  /\ handle = "none"
  /\ cstmt = [s \in Stmts |-> "none"]
  /\ flag = FALSE

-----------------------------------------------------------------------------
(* The C library.                                                          *)

Live(c) == {s \in Stmts : c[s] # "none"}
Active == {s \in Stmts : cstmt[s] = "active"}

\* sqlite3_prepare_v2 and the start of a statement forget an interrupt that
\* arrived while nothing was running.
FlagAtStart == flag /\ Active # {}

\* sqlite3_finalize of s; a zombie handle goes with its last statement.
Finalize(s) ==
  /\ cstmt' = [cstmt EXCEPT ![s] = "none"]
  /\ handle' = IF handle = "zombie" /\ Live(cstmt') = {} THEN "freed" ELSE handle

\* sqlite3_reset: back to the start; it reports the failure of the last step.
Reset(s) == cstmt' = [cstmt EXCEPT ![s] = "ready"]

-----------------------------------------------------------------------------
(* Helpers of the driver.                                                  *)

Usable == ~closed /\ db = "set"

Return(out) ==
  /\ call' = Idle
  /\ ret' = [out |-> out, own |-> FALSE]

OpenRowsOf(s) == {r \in Rows : rows[r].obj = "open" /\ rows[r].stmt = s}

\* Slots for new objects: never used, or closed and out of everybody's reach.
FreeStmts == {s \in Stmts : stmt[s].obj # "open" /\ OpenRowsOf(s) = {}}
FreeRows == {r \in Rows : rows[r].obj # "open"}
FreeWatchers == {w \in Watchers : watcher[w].pc \in {"delivered", "ended"}}

\* PrepareContext: checkUsable, ctx.Err, then sqlite3_prepare_v2.
PrepareOutcomes(c) ==
  IF ~Usable THEN {"badConn"}
  ELSE IF c \in cancelled THEN {"ctxErr"}
  ELSE IF FlagAtStart THEN {"interrupt"}
  ELSE {"ok", "error"}

FlagAfterPrepare(c) == IF Usable /\ c \notin cancelled THEN FlagAtStart ELSE flag

NewStmt(s, ephemeral) ==
  /\ stmt' = [stmt EXCEPT ![s] = [obj |-> "open", ephemeral |-> ephemeral]]
  /\ cstmt' = [cstmt EXCEPT ![s] = "ready"]

NewRows(r, s, c) ==
  rows' = [rows EXCEPT ![r] = [obj |-> "open", stmt |-> s, ctx |-> c]]

\* Mutation: Close returns early, like Exec, when the connection is closed.
CloseStmtIfUsable(s) ==
  /\ stmt' = [stmt EXCEPT ![s].obj = "closed"]
  /\ IF Usable THEN Finalize(s) ELSE UNCHANGED <<cstmt, handle>>

\* SQLiteStmt.Close on an open statement.
CloseStmt(s) ==
  /\ stmt' = [stmt EXCEPT ![s].obj = "closed"]
  /\ Finalize(s)

\* Mutation: the statement is reset only after it has run to its end.
ResetForReuseAfterDone(s) ==
  /\ IF stmt[s].obj = "open" /\ cstmt[s] = "done" THEN Reset(s) ELSE UNCHANGED cstmt
  /\ UNCHANGED <<stmt, handle>>

\* resetForReuse: nothing to do on a closed statement.
ResetForReuse(s) ==
  /\ IF stmt[s].obj = "open" THEN Reset(s) ELSE UNCHANGED cstmt
  /\ UNCHANGED <<stmt, handle>>

\* SQLiteRows.Close, the first time.
CloseRows(r) ==
  LET s == rows[r].stmt
  IN  /\ rows' = [rows EXCEPT ![r].obj = "closed"]
      /\ IF stmt[s].ephemeral THEN CloseStmt(s) ELSE ResetForReuse(s)

Start(op, s, r, c) ==
  /\ call' = [Idle EXCEPT !.op = op, !.pc = "arm", !.stmt = s, !.rows = r, !.ctx = c]
  /\ UNCHANGED ret

-----------------------------------------------------------------------------
(* connector.Connect.                                                      *)

\* The library opens the handle; the pragmas of the DSN, run through
\* execTransient with nothing beside them, and the ConnectHook succeed.
Connect ==
  /\ call.pc = "unconnected"
  /\ db' = "set"
  /\ closed' = FALSE
  /\ handle' = "open"
  /\ flag' = FALSE
  /\ Return("ok")
  /\ UNCHANGED <<stmt, rows, watcher, cancelled, cstmt>>

\* sqlite3_open_v2 fails without a handle, and forceClose has nothing to do.
\* Or it fails with one, or a later step of Connect does, and forceClose
\* closes it.  The caller gets no connection and may try again.
ConnectFails ==
  /\ call.pc = "unconnected"
  /\ \/ handle' = "none" /\ closed' = FALSE
     \/ handle' = "freed" /\ closed' = TRUE
  /\ db' = "nil"
  /\ ret' = [out |-> "connectErr", own |-> FALSE]
  /\ UNCHANGED <<stmt, rows, watcher, cancelled, call, cstmt, flag>>

-----------------------------------------------------------------------------
(* Calls that prepare, bind and return without running the statement.      *)

\* PrepareContext.
Prepare(c) ==
  /\ call.pc = "idle"
  /\ \E out \in PrepareOutcomes(c) :
       /\ Return(out)
       /\ IF out = "ok"
            THEN \E s \in FreeStmts : NewStmt(s, FALSE)
            ELSE UNCHANGED <<stmt, cstmt>>
  /\ flag' = FlagAfterPrepare(c)
  /\ UNCHANGED <<conn, rows, watcher, cancelled, handle>>

\* execTransient (ExecContext, BeginTx, Commit, Rollback, Ping): an ephemeral
\* statement; a failing bind finalizes it again before returning.
ExecTransient(c) ==
  /\ call.pc = "idle"
  /\ \E out \in PrepareOutcomes(c) :
       \/ /\ out = "ok"
          /\ \E s \in FreeStmts : NewStmt(s, TRUE) /\ Start("exec", s, Null, c)
       \/ /\ Return(IF out = "ok" THEN "error" ELSE out)
          /\ UNCHANGED <<stmt, cstmt>>
  /\ flag' = FlagAfterPrepare(c)
  /\ UNCHANGED <<conn, rows, watcher, cancelled, handle>>

\* Mutation: a failing bind returns without closing the statement.
QueryContextLeak(c) ==
  /\ call.pc = "idle"
  /\ \E out \in PrepareOutcomes(c) :
       \/ /\ out = "ok"
          /\ Return("error")
          /\ \E s \in FreeStmts : NewStmt(s, TRUE)
          /\ UNCHANGED rows
       \/ /\ Return(IF out = "ok" THEN "error" ELSE out)
          /\ UNCHANGED <<stmt, cstmt, rows>>
  /\ flag' = FlagAfterPrepare(c)
  /\ UNCHANGED <<conn, watcher, cancelled, handle>>

\* SQLiteConn.QueryContext: the Rows own the ephemeral statement.
QueryContext(c) ==
  /\ call.pc = "idle"
  /\ \E out \in PrepareOutcomes(c) :
       \/ /\ out = "ok"
          /\ Return("ok")
          /\ \E s \in FreeStmts, r \in FreeRows : NewStmt(s, TRUE) /\ NewRows(r, s, c)
       \/ /\ Return(IF out = "ok" THEN "error" ELSE out)
          /\ UNCHANGED <<stmt, cstmt, rows>>
  /\ flag' = FlagAfterPrepare(c)
  /\ UNCHANGED <<conn, watcher, cancelled, handle>>

Prepared(s) == stmt[s].obj = "open" /\ ~stmt[s].ephemeral

\* bindNamedValues refuses: the connection is closed (the statement is left
\* alone), sqlite3_reset reports an old failure, or a value does not bind.
BindFails(s) ==
  /\ call.pc = "idle"
  /\ Prepared(s)
  /\ IF ~Usable
       THEN Return("badConn") /\ UNCHANGED cstmt
       ELSE Return(IF cstmt[s] = "failed" THEN "staleError" ELSE "error") /\ Reset(s)
  /\ UNCHANGED <<conn, stmt, rows, watcher, cancelled, handle, flag>>

\* bindNamedValues succeeds.
Bind(s) ==
  /\ call.pc = "idle"
  /\ Prepared(s)
  /\ Usable
  /\ cstmt[s] # "failed"
  /\ Reset(s)

\* SQLiteStmt.ExecContext up to execBound.
StmtExec(s, c) ==
  /\ Bind(s)
  /\ Start("stmtExec", s, Null, c)
  /\ UNCHANGED <<conn, stmt, rows, watcher, cancelled, handle, flag>>

\* SQLiteStmt.QueryContext: nothing keeps a second Rows of the statement out.
StmtQuery(s, c) ==
  /\ Bind(s)
  /\ Return("ok")
  /\ \E r \in FreeRows : NewRows(r, s, c)
  /\ UNCHANGED <<conn, stmt, watcher, cancelled, handle, flag>>

\* SQLiteRows.Next on Rows that are not closed.
RowsNext(r) ==
  /\ call.pc = "idle"
  /\ rows[r].obj = "open"
  /\ Start("next", rows[r].stmt, r, rows[r].ctx)
  /\ UNCHANGED <<conn, stmt, rows, watcher, cancelled, external>>

RowsClose(r) ==
  /\ call.pc = "idle"
  /\ rows[r].obj = "open"
  /\ CloseRows(r)
  /\ Return("ok")
  /\ UNCHANGED <<conn, watcher, cancelled, flag>>

StmtClose(s) ==
  /\ call.pc = "idle"
  /\ Prepared(s)
  /\ CloseStmt(s)
  /\ Return("ok")
  /\ UNCHANGED <<conn, rows, watcher, cancelled, flag>>

\* SQLiteConn.Close, the first time.
ConnClose ==
  /\ call.pc = "idle"
  /\ ~closed
  /\ closed' = TRUE
  /\ db' = "nil"
  /\ handle' = IF Live(cstmt) = {} THEN "freed" ELSE "zombie"
  /\ Return("ok")
  /\ UNCHANGED <<stmt, rows, watcher, cancelled, cstmt, flag>>

-----------------------------------------------------------------------------
(* Running a statement: Rows.Next and execBound.                           *)

\* Mutation: the goroutine is started without looking at ctx.Done().
ArmAlways ==
  /\ call.pc = "arm"
  /\ \E w \in FreeWatchers :
       /\ call' = [call EXCEPT !.pc = "step", !.watcher = w]
       /\ watcher' = [watcher EXCEPT ![w] = [pc |-> "select", ctx |-> call.ctx,
                                             done |-> FALSE, interrupted |-> FALSE]]
  /\ UNCHANGED <<conn, stmt, rows, cancelled, ret, external>>

\* interruptWatcher: no goroutine for a context that cannot be cancelled or a
\* connection without handle.
Arm ==
  /\ call.pc = "arm"
  /\ IF call.ctx = Background \/ db = "nil"
       THEN /\ call' = [call EXCEPT !.pc = "step"]
            /\ UNCHANGED watcher
       ELSE \E w \in FreeWatchers :
              /\ call' = [call EXCEPT !.pc = "step", !.watcher = w]
              /\ watcher' = [watcher EXCEPT ![w] = [pc |-> "select", ctx |-> call.ctx,
                                                    done |-> FALSE, interrupted |-> FALSE]]
  /\ UNCHANGED <<conn, stmt, rows, cancelled, ret, external>>

\* sqlite3_step begins: a statement that is not active starts over.
StepBegin ==
  /\ call.pc = "step"
  /\ stmt[call.stmt].obj = "open"
  /\ call' = [call EXCEPT !.pc = "run"]
  /\ IF cstmt[call.stmt] = "active"
       THEN UNCHANGED <<cstmt, flag>>
       ELSE /\ cstmt' = [cstmt EXCEPT ![call.stmt] = "active"]
            /\ flag' = FlagAtStart
  /\ UNCHANGED <<conn, stmt, rows, watcher, cancelled, ret, handle>>

\* sqlite3_step of the NULL pointer a closed statement left: SQLITE_MISUSE.
StepNull ==
  /\ call.pc = "step"
  /\ stmt[call.stmt].obj # "open"
  /\ call' = [call EXCEPT !.pc = "stop", !.result = "error"]
  /\ UNCHANGED <<conn, stmt, rows, watcher, cancelled, ret, external>>

\* Whether the call's own watcher has delivered its interrupt.
OwnDelivered == call.watcher # Null /\ watcher[call.watcher].pc = "delivered"

StepReturns(result, state) ==
  /\ call.pc = "run"
  /\ call' = [call EXCEPT !.pc = "stop", !.result = result,
                          !.own = result = "interrupt" /\ OwnDelivered]
  /\ cstmt' = [cstmt EXCEPT ![call.stmt] = state]
  /\ UNCHANGED <<conn, stmt, rows, watcher, cancelled, ret, handle, flag>>

\* SQLITE_ROW; execBound steps on at once, under the same watcher.
StepRow == call.op = "next" /\ StepReturns("row", "active")
StepDone == StepReturns("done", "done")
StepError == StepReturns("error", "failed")
StepInterrupted == flag /\ StepReturns("interrupt", "failed")

\* Mutation: the return path of an error forgets to stop the watcher.
StopWatcherUnlessError(w) ==
  watcher' = IF w = Null \/ call.result = "error" THEN watcher
             ELSE [watcher EXCEPT ![w].done = TRUE]

\* cancel.stop() tells the goroutine to end, if there is one.
StopWatcher(w) ==
  watcher' = IF w = Null THEN watcher ELSE [watcher EXCEPT ![w].done = TRUE]

\* What Next and execBound make of the result and of stop()'s answer.
OutcomeOf(result, interrupted) ==
  CASE result = "row" -> "row"
    [] result = "done" -> IF call.op = "next" THEN "eof" ELSE "ok"
    [] result = "interrupt" /\ interrupted /\ call.ctx \in cancelled -> "ctxErr"
    [] result = "interrupt" /\ ~(interrupted /\ call.ctx \in cancelled) -> "interrupt"
    [] OTHER -> "error"

Stop ==
  /\ call.pc = "stop"
  /\ LET w == call.watcher
         interrupted == w # Null /\ watcher[w].interrupted
     IN  /\ StopWatcher(w)
         /\ ret' = [out |-> OutcomeOf(call.result, interrupted), own |-> call.own]
  /\ call' = Idle
  /\ CASE call.op = "exec" -> CloseStmt(call.stmt) /\ UNCHANGED rows
       [] call.op = "stmtExec" -> ResetForReuse(call.stmt) /\ UNCHANGED rows
       [] call.op = "next" /\ call.result = "row" -> UNCHANGED <<stmt, cstmt, handle, rows>>
       [] call.op = "next" /\ call.result # "row" -> CloseRows(call.rows)
  /\ UNCHANGED <<conn, cancelled, flag>>

-----------------------------------------------------------------------------
(* The environment and the watcher goroutines.                             *)

Cancel(c) ==
  /\ c \notin cancelled
  /\ cancelled' = cancelled \cup {c}
  /\ UNCHANGED <<conn, stmt, rows, watcher, call, ret, external>>

\* Mutation: interrupted is not stored before the interrupt.
WatcherFiresUnmarked(w) ==
  /\ watcher[w].pc = "select"
  /\ watcher[w].ctx \in cancelled
  /\ watcher' = [watcher EXCEPT ![w].pc = "interrupt"]
  /\ UNCHANGED <<conn, stmt, rows, cancelled, call, ret, external>>

\* <-ctx.Done() is chosen, and interrupted.Store(true).
WatcherFires(w) ==
  /\ watcher[w].pc = "select"
  /\ watcher[w].ctx \in cancelled
  /\ watcher' = [watcher EXCEPT ![w].pc = "interrupt", ![w].interrupted = TRUE]
  /\ UNCHANGED <<conn, stmt, rows, cancelled, call, ret, external>>

\* Mutation: the goroutine only marks the call and never interrupts.
WatcherInterruptsNot(w) ==
  /\ watcher[w].pc = "interrupt"
  /\ watcher' = [watcher EXCEPT ![w].pc = "delivered"]
  /\ UNCHANGED <<conn, stmt, rows, cancelled, call, ret, external>>

\* sqlite3_interrupt on the handle the goroutine captured.  If the call is
\* over the handle may be gone; what that access does is left out here.
WatcherInterrupts(w) ==
  /\ watcher[w].pc = "interrupt"
  /\ watcher' = [watcher EXCEPT ![w].pc = "delivered"]
  /\ flag' = (flag \/ handle # "freed")
  /\ UNCHANGED <<conn, stmt, rows, cancelled, call, ret, handle, cstmt>>

\* <-state.done is chosen; when both channels are ready either may be.
WatcherStops(w) ==
  /\ watcher[w].pc = "select"
  /\ watcher[w].done
  /\ watcher' = [watcher EXCEPT ![w].pc = "ended"]
  /\ UNCHANGED <<conn, stmt, rows, cancelled, call, ret, external>>

Watch(w) == WatcherFires(w) \/ WatcherInterrupts(w) \/ WatcherStops(w)

Driver == Arm \/ StepBegin \/ StepNull \/ Stop

Next ==
  \/ Connect \/ ConnectFails
  \/ \E c \in Ctx : Prepare(c) \/ ExecTransient(c) \/ QueryContext(c)
  \/ \E s \in Stmts : BindFails(s) \/ StmtClose(s)
  \/ \E s \in Stmts, c \in Ctx : StmtExec(s, c) \/ StmtQuery(s, c)
  \/ \E r \in Rows : RowsNext(r) \/ RowsClose(r)
  \/ ConnClose
  \/ Driver
  \/ StepRow \/ StepDone \/ StepError \/ StepInterrupted
  \/ \E c \in Ctxs : Cancel(c)
  \/ \E w \in Watchers : Watch(w)

\* Goroutines run, and a running statement notices the flag.  A statement
\* need not end by itself: that is what cancellation is for.
Fairness ==
  /\ WF_vars(Driver)
  /\ WF_vars(StepInterrupted)
  /\ \A w \in Watchers : WF_vars(Watch(w))

Spec == Init /\ [][Next]_vars /\ Fairness

-----------------------------------------------------------------------------
TypeOK ==
  /\ db \in {"nil", "set"}
  /\ closed \in BOOLEAN
  /\ stmt \in [Stmts -> StmtObject]
  /\ rows \in [Rows -> RowsObject]
  /\ watcher \in [Watchers -> WatcherState]
  /\ cancelled \subseteq Ctxs
  /\ call \in Call
  /\ ret \in [out : Outcome, own : BOOLEAN]
  /\ handle \in {"none", "open", "zombie", "freed"}
  /\ cstmt \in [Stmts -> {"none", "ready", "active", "done", "failed"}]
  /\ flag \in BOOLEAN

\* Every sqlite3_stmt is owned: it exists exactly while its Go object is open,
\* and an ephemeral one only while the call or the Rows that will finalize it
\* are still there.  No path through a failing prepare, bind or step, through
\* EOF or an early Rows.Close leaks or double-finalizes a statement.
StatementsAccounted ==
  \A s \in Stmts :
    /\ cstmt[s] # "none" <=> stmt[s].obj = "open"
    /\ stmt[s].obj = "open" /\ stmt[s].ephemeral =>
         (call.op = "exec" /\ call.stmt = s) \/ OpenRowsOf(s) # {}

\* Between calls a statement is at its start unless Rows are open on it: no
\* read transaction stays open behind a finished call, and a later Exec of the
\* same prepared statement starts afresh, after errors and interrupts too.  Nor
\* does sqlite3_reset in bindNamedValues answer with the error that an earlier
\* execution left, which bindNamedValues would take for its own.
IdleStatementsReset ==
  call.pc = "idle" =>
    \A s \in Stmts :
      \/ cstmt[s] \in {"none", "ready"}
      \/ (cstmt[s] = "active" /\ OpenRowsOf(s) # {})

\* A call that its own context's watcher interrupted answers with the
\* context's error, never with a bare SQLITE_INTERRUPT: interrupted.Store
\* comes before sqlite3_interrupt and stop() reads it after the step.
OwnInterruptIsCtxErr == ret.own => ret.out = "ctxErr"

\* Closing the connection and everything opened on it, in whatever order,
\* frees the handle: sqlite3_close_v2 runs once and no zombie is left over.
\* A Connect that fails leaves no handle open either.
HandleReleased ==
  /\ closed /\ (\A s \in Stmts : stmt[s].obj # "open") => handle = "freed"
  /\ call.pc = "unconnected" => handle \in {"none", "freed"}

\* A watcher that nobody told to end belongs to the call in progress; no
\* return path of Next or execBound leaves a goroutine waiting on a context
\* that may never be cancelled.
NoOrphanWatcher ==
  \A w \in Watchers :
    watcher[w].pc = "select" /\ ~watcher[w].done =>
      call.watcher = w /\ call.pc \in {"step", "run", "stop"}

\* Once a watcher has chosen cancellation while sqlite3_step is running for
\* its call, the step returns, however long the statement is.
DeliveredInterruptReturns ==
  \A w \in Watchers :
    (call.pc = "run" /\ call.watcher = w /\ watcher[w].pc = "interrupt")
      ~> call.pc # "run"

\* TestDriverContextCancellationInterruptsLongQuery: a statement whose context
\* is cancelled stops, however long it would run, given that its call started
\* a watcher.
CancelledCallReturns ==
  (call.pc = "run" /\ call.watcher # Null /\ call.ctx \in cancelled)
    ~> call.pc # "run"

=============================================================================
