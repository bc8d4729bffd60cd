------------------------- MODULE SqliteConn_proofs -------------------------
(***************************************************************************)
(* Proofs about one SQLite connection, for any number of statements, Rows, *)
(* watchers and contexts.                                                  *)
(***************************************************************************)
EXTENDS SqliteConn, TLAPS

CState == {"none", "ready", "active", "done", "failed"}

\* The parts of an action that a call which only prepares leaves behind.
LEMMA ReturnType ==
  ASSUME NEW out \in Outcome, Return(out)
  PROVE  call' \in Call /\ ret' \in [out : Outcome, own : BOOLEAN]
BY DEF Return, Idle, Call, Result

LEMMA StartType ==
  ASSUME NEW op \in {"exec", "stmtExec", "next"}, NEW s \in Stmts,
         NEW r \in Rows \cup {Null}, NEW c \in Ctx,
         ret \in [out : Outcome, own : BOOLEAN], Start(op, s, r, c)
  PROVE  call' \in Call /\ ret' \in [out : Outcome, own : BOOLEAN]
BY DEF Start, Idle, Call, Result

LEMMA PrepareOutcomesType ==
  ASSUME NEW c \in Ctx, NEW out \in PrepareOutcomes(c)
  PROVE  out \in Outcome
BY DEF PrepareOutcomes, Outcome

LEMMA NewStmtType ==
  ASSUME TypeOK, NEW s \in Stmts, NEW ephemeral \in BOOLEAN, NewStmt(s, ephemeral)
  PROVE  stmt' \in [Stmts -> StmtObject] /\ cstmt' \in [Stmts -> CState]
BY DEF TypeOK, NewStmt, StmtObject, CState

LEMMA NewRowsType ==
  ASSUME TypeOK, NEW r \in Rows, NEW s \in Stmts, NEW c \in Ctx, NewRows(r, s, c)
  PROVE  rows' \in [Rows -> RowsObject]
BY DEF TypeOK, NewRows, RowsObject

LEMMA FlagAfterPrepareType ==
  ASSUME TypeOK, NEW c \in Ctx
  PROVE  FlagAfterPrepare(c) \in BOOLEAN
BY DEF TypeOK, FlagAfterPrepare, FlagAtStart

LEMMA CloseStmtType ==
  ASSUME TypeOK, NEW s \in Stmts, CloseStmt(s)
  PROVE  /\ stmt' \in [Stmts -> StmtObject]
         /\ cstmt' \in [Stmts -> CState]
         /\ handle' \in {"none", "open", "zombie", "freed"}
BY DEF TypeOK, CloseStmt, Finalize, StmtObject, CState

LEMMA ResetForReuseType ==
  ASSUME TypeOK, NEW s \in Stmts, ResetForReuse(s)
  PROVE  /\ stmt' \in [Stmts -> StmtObject]
         /\ cstmt' \in [Stmts -> CState]
         /\ handle' \in {"none", "open", "zombie", "freed"}
BY DEF TypeOK, ResetForReuse, Reset, CState

\* Rows that are open name a statement, and a call in progress names what it
\* works on.  Closing Rows and stepping need it to stay within the types.
Owners ==
  /\ \A r \in Rows : rows[r].obj # "none" => rows[r].stmt \in Stmts /\ rows[r].ctx \in Ctx
  /\ call.pc \in {"unconnected", "idle"} <=> call.op = "none"
  /\ call.op # "none" => call.stmt \in Stmts /\ call.ctx \in Ctx
  /\ call.op = "next" => call.rows \in Rows /\ rows[call.rows].obj # "none"

TypeInv == TypeOK /\ Owners

LEMMA CloseRowsType ==
  ASSUME TypeInv, NEW r \in Rows, rows[r].obj # "none", CloseRows(r)
  PROVE  /\ rows' \in [Rows -> RowsObject]
         /\ stmt' \in [Stmts -> StmtObject]
         /\ cstmt' \in [Stmts -> CState]
         /\ handle' \in {"none", "open", "zombie", "freed"}
         /\ \A q \in Rows : rows'[q].obj # "none" =>
              rows'[q].stmt \in Stmts /\ rows'[q].ctx \in Ctx
<1> DEFINE s == rows[r].stmt
<1>1. s \in Stmts
  BY DEF TypeInv, Owners
<1>2. rows' = [rows EXCEPT ![r].obj = "closed"]
  BY DEF CloseRows
<1>3. rows' \in [Rows -> RowsObject]
  BY <1>2 DEF TypeInv, TypeOK, RowsObject
<1>4. \A q \in Rows : rows'[q].obj # "none" => rows'[q].stmt \in Stmts /\ rows'[q].ctx \in Ctx
  BY <1>2 DEF TypeInv, TypeOK, Owners, RowsObject
<1>5. CloseStmt(s) \/ ResetForReuse(s)
  BY DEF CloseRows
<1>6. CASE CloseStmt(s)
  BY <1>1, <1>3, <1>4, <1>6, CloseStmtType DEF TypeInv
<1>7. CASE ResetForReuse(s)
  BY <1>1, <1>3, <1>4, <1>7, ResetForReuseType DEF TypeInv
<1> QED BY <1>5, <1>6, <1>7

\* Every variable keeps to its set, and calls and open Rows name real objects.
THEOREM TypeCorrect == Spec => []TypeInv
<1>1. Init => TypeInv
  <2> SUFFICES ASSUME Init PROVE TypeInv
    OBVIOUS
  <2>1. stmt \in [Stmts -> StmtObject] /\ rows \in [Rows -> RowsObject]
    BY DEF Init, StmtObject, RowsObject
  <2>2. watcher \in [Watchers -> WatcherState]
    BY DEF Init, WatcherState, Ended
  <2>3. call \in Call /\ call.pc = "unconnected" /\ call.op = "none"
    BY DEF Init, Call, Idle, Result
  <2>4. ret \in [out : Outcome, own : BOOLEAN]
    BY DEF Init, Outcome
  <2>5. cstmt \in [Stmts -> CState] /\ flag \in BOOLEAN /\ closed \in BOOLEAN
    BY DEF Init, CState
  <2> QED BY <2>1, <2>2, <2>3, <2>4, <2>5 DEF Init, TypeInv, TypeOK, Owners, CState
<1>2. TypeInv /\ [Next]_vars => TypeInv'
  <2> SUFFICES ASSUME TypeInv, [Next]_vars PROVE TypeInv'
    OBVIOUS
  <2> USE DEF TypeInv, TypeOK, Owners, conn, external, CState
  <2>1. CASE Connect
    BY <2>1 DEF Connect, Return, Idle, Call, Result, Outcome
  <2>2. CASE ConnectFails
    BY <2>2 DEF ConnectFails, Outcome
  <2>3. ASSUME NEW c \in Ctx, Prepare(c) PROVE TypeInv'
    <3>1. PICK out \in PrepareOutcomes(c) :
            /\ Return(out)
            /\ IF out = "ok" THEN \E s \in FreeStmts : NewStmt(s, FALSE)
                             ELSE UNCHANGED <<stmt, cstmt>>
      BY <2>3 DEF Prepare
    <3>2. stmt' \in [Stmts -> StmtObject] /\ cstmt' \in [Stmts -> CState]
      BY <3>1, NewStmtType DEF FreeStmts
    <3>3. flag' \in BOOLEAN
      BY <2>3, FlagAfterPrepareType DEF Prepare
    <3>4. call' = Idle
      BY <3>1 DEF Return
    <3>5. call' \in Call /\ ret' \in [out : Outcome, own : BOOLEAN]
      BY <3>1, ReturnType, PrepareOutcomesType
    <3> QED BY <2>3, <3>2, <3>3, <3>4, <3>5 DEF Prepare, Idle
  <2>4. ASSUME NEW c \in Ctx, ExecTransient(c) PROVE TypeInv'
    <3>1. PICK out \in PrepareOutcomes(c) :
            \/ \E s \in FreeStmts : NewStmt(s, TRUE) /\ Start("exec", s, Null, c)
            \/ /\ Return(IF out = "ok" THEN "error" ELSE out)
               /\ UNCHANGED <<stmt, cstmt>>
      BY <2>4 DEF ExecTransient
    <3>2. flag' \in BOOLEAN
      BY <2>4, FlagAfterPrepareType DEF ExecTransient
    <3>3. CASE \E s \in FreeStmts : NewStmt(s, TRUE) /\ Start("exec", s, Null, c)
      <4>1. PICK s \in Stmts : NewStmt(s, TRUE) /\ Start("exec", s, Null, c)
        BY <3>3 DEF FreeStmts
      <4>2. stmt' \in [Stmts -> StmtObject] /\ cstmt' \in [Stmts -> CState]
        BY <4>1, NewStmtType
      <4>3. call' \in Call /\ ret' \in [out : Outcome, own : BOOLEAN]
        BY <4>1, StartType
      <4> QED BY <2>4, <3>2, <4>1, <4>2, <4>3 DEF ExecTransient, Start, Idle
    <3>4. CASE Return(IF out = "ok" THEN "error" ELSE out) /\ UNCHANGED <<stmt, cstmt>>
      <4>1. call' \in Call /\ ret' \in [out : Outcome, own : BOOLEAN]
        BY <3>4, ReturnType, PrepareOutcomesType DEF Outcome
      <4> QED BY <2>4, <3>2, <3>4, <4>1 DEF ExecTransient, Return, Idle
    <3> QED BY <3>1, <3>3, <3>4
  <2>5. ASSUME NEW c \in Ctx, QueryContext(c) PROVE TypeInv'
    <3>1. PICK out \in PrepareOutcomes(c) :
            \/ /\ Return("ok")
               /\ \E s \in FreeStmts, r \in FreeRows : NewStmt(s, TRUE) /\ NewRows(r, s, c)
            \/ /\ Return(IF out = "ok" THEN "error" ELSE out)
               /\ UNCHANGED <<stmt, cstmt, rows>>
      BY <2>5 DEF QueryContext
    <3>2. flag' \in BOOLEAN
      BY <2>5, FlagAfterPrepareType DEF QueryContext
    <3>3. call' \in Call /\ ret' \in [out : Outcome, own : BOOLEAN] /\ call' = Idle
      BY <3>1, ReturnType, PrepareOutcomesType DEF Outcome, Return
    <3>4. CASE \E s \in FreeStmts, r \in FreeRows : NewStmt(s, TRUE) /\ NewRows(r, s, c)
      <4>1. PICK s \in Stmts, r \in Rows : NewStmt(s, TRUE) /\ NewRows(r, s, c)
        BY <3>4 DEF FreeStmts, FreeRows
      <4>2. stmt' \in [Stmts -> StmtObject] /\ cstmt' \in [Stmts -> CState]
        BY <4>1, NewStmtType
      <4>3. rows' \in [Rows -> RowsObject]
        BY <4>1, NewRowsType
      <4>4. \A q \in Rows : rows'[q].obj # "none" => rows'[q].stmt \in Stmts /\ rows'[q].ctx \in Ctx
        BY <4>1 DEF NewRows
      <4> QED BY <2>5, <3>2, <3>3, <4>2, <4>3, <4>4 DEF QueryContext, Idle
    <3>5. CASE UNCHANGED <<stmt, cstmt, rows>>
      BY <2>5, <3>2, <3>3, <3>5 DEF QueryContext, Idle
    <3> QED BY <3>1, <3>4, <3>5
  <2>6. ASSUME NEW s \in Stmts, BindFails(s) PROVE TypeInv'
    BY <2>6, ReturnType DEF BindFails, Reset, Return, Outcome, Idle
  <2>7. ASSUME NEW s \in Stmts, NEW c \in Ctx, StmtExec(s, c) PROVE TypeInv'
    BY <2>7, StartType DEF StmtExec, Bind, Reset, Start, Idle
  <2>8. ASSUME NEW s \in Stmts, NEW c \in Ctx, StmtQuery(s, c) PROVE TypeInv'
    <3>1. PICK r \in Rows : NewRows(r, s, c)
      BY <2>8 DEF StmtQuery, FreeRows
    <3>2. rows' \in [Rows -> RowsObject]
      BY <3>1, NewRowsType
    <3>3. \A q \in Rows : rows'[q].obj # "none" => rows'[q].stmt \in Stmts /\ rows'[q].ctx \in Ctx
      BY <3>1 DEF NewRows
    <3>4. call' \in Call /\ ret' \in [out : Outcome, own : BOOLEAN]
      BY <2>8, ReturnType DEF StmtQuery, Outcome
    <3> QED BY <2>8, <3>2, <3>3, <3>4 DEF StmtQuery, Bind, Reset, Return, Idle
  <2>9. ASSUME NEW r \in Rows, RowsNext(r) PROVE TypeInv'
    BY <2>9, StartType, ZenonT(60) DEF RowsNext, Start, Idle
  <2>10. ASSUME NEW r \in Rows, RowsClose(r) PROVE TypeInv'
    BY <2>10, CloseRowsType, ReturnType DEF RowsClose, Return, Idle, Outcome
  <2>11. ASSUME NEW s \in Stmts, StmtClose(s) PROVE TypeInv'
    BY <2>11, CloseStmtType, ReturnType DEF StmtClose, Return, Idle, Outcome
  <2>12. CASE ConnClose
    BY <2>12, ReturnType DEF ConnClose, Return, Idle, Outcome
  <2>13. CASE Arm
    <3>1. CASE call' = [call EXCEPT !.pc = "step"] /\ UNCHANGED watcher
      BY <2>13, <3>1, ZenonT(60) DEF Arm, Call
    <3>2. CASE ~(call.ctx = Background \/ db = "nil")
      <4>1. PICK w \in Watchers :
              /\ call' = [call EXCEPT !.pc = "step", !.watcher = w]
              /\ watcher' = [watcher EXCEPT ![w] = [pc |-> "select", ctx |-> call.ctx,
                                                    done |-> FALSE, interrupted |-> FALSE]]
        BY <2>13, <3>2 DEF Arm, FreeWatchers
      <4>2. call.ctx \in Ctxs
        BY <2>13, <3>2 DEF Arm, Ctx
      <4>3. watcher' \in [Watchers -> WatcherState]
        BY <4>1, <4>2 DEF WatcherState
      <4> QED BY <2>13, <4>1, <4>3, ZenonT(60) DEF Arm, Call
    <3> QED BY <2>13, <3>1, <3>2 DEF Arm
  <2>14. CASE StepBegin
    BY <2>14, ZenonT(60) DEF StepBegin, FlagAtStart, Call
  <2>15. CASE StepNull
    BY <2>15, ZenonT(60) DEF StepNull, Call, Result
  <2>16. ASSUME NEW result \in Result, NEW state \in CState, StepReturns(result, state)
         PROVE TypeInv'
    <3> DEFINE own == result = "interrupt" /\ OwnDelivered
    <3>1. own \in BOOLEAN
      OBVIOUS
    <3>2. call' = [call EXCEPT !.pc = "stop", !.result = result, !.own = own]
      BY <2>16 DEF StepReturns
    <3> HIDE DEF own
    <3>3. call' \in Call
      BY <3>1, <3>2 DEF Call
    <3>4. cstmt' \in [Stmts -> CState]
      BY <2>16 DEF StepReturns
    <3>5. call.op # "none" /\ call'.op = call.op /\ call'.pc = "stop"
          /\ call'.stmt = call.stmt /\ call'.ctx = call.ctx /\ call'.rows = call.rows
      BY <2>16, <3>2 DEF StepReturns, Call
    <3> QED BY <2>16, <3>3, <3>4, <3>5 DEF StepReturns
  <2>17. CASE Stop
    <3>1. watcher' \in [Watchers -> WatcherState]
      BY <2>17, ZenonT(60) DEF Stop, StopWatcher, WatcherState
    <3>2. call' \in Call /\ call' = Idle
      BY <2>17 DEF Stop, Call, Idle, Result
    <3>3. ret' \in [out : Outcome, own : BOOLEAN]
      BY <2>17 DEF Stop, OutcomeOf, Outcome, Call
    <3>4. call.op \in {"exec", "stmtExec", "next"}
      BY <2>17 DEF Stop, Call
    <3>5. /\ stmt' \in [Stmts -> StmtObject]
          /\ cstmt' \in [Stmts -> CState]
          /\ handle' \in {"none", "open", "zombie", "freed"}
          /\ rows' \in [Rows -> RowsObject]
          /\ \A q \in Rows : rows'[q].obj # "none" => rows'[q].stmt \in Stmts /\ rows'[q].ctx \in Ctx
      <4>1. CASE call.op = "exec"
        BY <2>17, <4>1, CloseStmtType DEF Stop
      <4>2. CASE call.op = "stmtExec"
        BY <2>17, <4>2, ResetForReuseType DEF Stop
      <4>3. CASE call.op = "next" /\ call.result = "row"
        BY <2>17, <4>3 DEF Stop
      <4>4. CASE call.op = "next" /\ call.result # "row"
        <5>1. CloseRows(call.rows)
          BY <2>17, <4>4 DEF Stop
        <5>2. rows[call.rows].obj # "none"
          BY <4>4
        <5> QED BY <4>4, <5>1, <5>2, CloseRowsType
      <4> QED BY <3>4, <4>1, <4>2, <4>3, <4>4
    <3> QED BY <2>17, <3>1, <3>2, <3>3, <3>5 DEF Stop, Idle
  <2>18. ASSUME NEW c \in Ctxs, Cancel(c) PROVE TypeInv'
    BY <2>18 DEF Cancel
  <2>19. ASSUME NEW w \in Watchers, Watch(w) PROVE TypeInv'
    <3>1. CASE WatcherFires(w)
      BY <3>1, ZenonT(60) DEF WatcherFires, WatcherState
    <3>2. CASE WatcherInterrupts(w)
      <4>1. flag' \in BOOLEAN
        BY <3>2 DEF WatcherInterrupts
      <4> QED BY <3>2, <4>1 DEF WatcherInterrupts, WatcherState
    <3>3. CASE WatcherStops(w)
      BY <3>3 DEF WatcherStops, WatcherState
    <3> QED BY <2>19, <3>1, <3>2, <3>3 DEF Watch
  <2>20. CASE UNCHANGED vars
    BY <2>20 DEF vars
  <2> QED
    BY <2>1, <2>2, <2>3, <2>4, <2>5, <2>6, <2>7, <2>8, <2>9, <2>10, <2>11, <2>12, <2>13, <2>14,
       <2>15, <2>16, <2>17, <2>18, <2>19, <2>20
    DEF Next, Driver, StepRow, StepDone, StepError, StepInterrupted, Result
<1>3. QED BY <1>1, <1>2, PTL DEF Spec

\* TypeOK, as the runs check it: no call writes a value of the wrong shape into
\* an object of the driver, whatever the order of calls and interrupts.
THEOREM TypeSafe == Spec => []TypeOK
<1>1. TypeInv => TypeOK
  BY DEF TypeInv
<1> QED BY <1>1, TypeCorrect, PTL

-----------------------------------------------------------------------------
(* The inductive invariant of the safety theorem.                          *)

\* sqlite3_step runs on a statement that nobody has finalized.
RunsOpen == call.pc = "run" => stmt[call.stmt].obj = "open"

\* The Rows of Next stay open until the call ends, and keep their statement.
NextOwnsRows ==
  call.op = "next" => rows[call.rows].obj = "open" /\ rows[call.rows].stmt = call.stmt

\* The handle follows the connection; a zombie waits for a statement.
HandleFollows ==
  /\ call.pc = "unconnected" => handle \in {"none", "freed"}
  /\ closed => handle \in {"zombie", "freed"}
  /\ handle = "zombie" => Live(cstmt) # {}

\* A watcher interrupts for a cancelled context only, its call's own.
WatcherHonest ==
  /\ \A w \in Watchers : watcher[w].pc \in {"interrupt", "delivered"} =>
       watcher[w].interrupted /\ watcher[w].ctx \in cancelled
  /\ call.watcher # Null => watcher[call.watcher].ctx = call.ctx
  /\ call.pc = "arm" => call.watcher = Null
  /\ call.own => call.pc = "stop" /\ call.result = "interrupt" /\ OwnDelivered

\* Only the call that stepped a statement sees it ended, and only open Rows or
\* that call keep one active.
Executing(s) == call.op \in {"exec", "stmtExec"} /\ call.stmt = s

StatesOwned ==
  /\ \A s \in Stmts :
       /\ cstmt[s] \in {"done", "failed"} => call.pc = "stop" /\ call.stmt = s
       /\ cstmt[s] = "active" => OpenRowsOf(s) # {} \/ Executing(s)
  /\ call.pc = "stop" /\ call.result = "row" =>
       call.op = "next" /\ cstmt[call.stmt] \notin {"done", "failed"}

-----------------------------------------------------------------------------
(* Watchers.                                                               *)

\* What the steps of a running call leave of it: the same work, a later pc.
SameWork == /\ call'.op = call.op
            /\ call'.stmt = call.stmt
            /\ call'.rows = call.rows
            /\ call'.ctx = call.ctx

LEMMA StepReturnsCall ==
  ASSUME TypeInv, NEW result \in Result, NEW state \in CState, StepReturns(result, state)
  PROVE  /\ SameWork
         /\ call.pc = "run" /\ call'.pc = "stop"
         /\ call'.watcher = call.watcher
         /\ call'.result = result
         /\ call'.own = (result = "interrupt" /\ OwnDelivered)
<1> DEFINE own == result = "interrupt" /\ OwnDelivered
<1>1. call' = [call EXCEPT !.pc = "stop", !.result = result, !.own = own]
  BY DEF StepReturns
<1>2. call.pc = "run"
  BY DEF StepReturns
<1> HIDE DEF own
<1>3. /\ SameWork /\ call'.pc = "stop" /\ call'.watcher = call.watcher
      /\ call'.result = result /\ call'.own = own
  BY <1>1 DEF SameWork, TypeInv, TypeOK, Call
<1> QED BY <1>2, <1>3 DEF own

LEMMA StepBeginCall ==
  ASSUME TypeInv, StepBegin
  PROVE  /\ SameWork
         /\ call.pc = "step" /\ call'.pc = "run"
         /\ call'.watcher = call.watcher
         /\ call'.result = call.result
         /\ call'.own = call.own
BY DEF StepBegin, SameWork, TypeInv, TypeOK, Call

LEMMA StepNullCall ==
  ASSUME TypeInv, StepNull
  PROVE  /\ SameWork
         /\ call.pc = "step" /\ call'.pc = "stop"
         /\ call'.watcher = call.watcher
         /\ call'.result = "error"
         /\ call'.own = call.own
BY DEF StepNull, SameWork, TypeInv, TypeOK, Call

\* interruptWatcher: without a goroutine, or with a fresh one.
LEMMA ArmCall ==
  ASSUME TypeInv, Arm
  PROVE  /\ SameWork
         /\ call.pc = "arm" /\ call'.pc = "step"
         /\ call'.result = call.result
         /\ call'.own = call.own
         /\ \/ call'.watcher = call.watcher /\ UNCHANGED watcher
            \/ \E w \in FreeWatchers :
                 /\ call'.watcher = w
                 /\ watcher' = [watcher EXCEPT ![w] = [pc |-> "select", ctx |-> call.ctx,
                                                       done |-> FALSE, interrupted |-> FALSE]]
<1>1. CASE call' = [call EXCEPT !.pc = "step"] /\ UNCHANGED watcher
  BY <1>1 DEF Arm, SameWork, TypeInv, TypeOK, Call
<1>2. ASSUME NEW w \in FreeWatchers,
             call' = [call EXCEPT !.pc = "step", !.watcher = w],
             watcher' = [watcher EXCEPT ![w] = [pc |-> "select", ctx |-> call.ctx,
                                                done |-> FALSE, interrupted |-> FALSE]]
      PROVE  /\ SameWork
             /\ call.pc = "arm" /\ call'.pc = "step"
             /\ call'.result = call.result
             /\ call'.own = call.own
             /\ call'.watcher = w
  BY <1>2 DEF Arm, SameWork, TypeInv, TypeOK, Call
<1> QED BY <1>1, <1>2 DEF Arm

\* A step is the start, or all, of a call of database/sql; a step of the call
\* in progress; or a step beside it.
NewCall ==
  /\ call.pc \in {"unconnected", "idle"}
  /\ UNCHANGED <<watcher, cancelled>>
  /\ \/ call' = Idle
     \/ call' = call
     \/ /\ call'.pc = "arm" /\ call'.watcher = Null
        /\ call'.result = "none" /\ call'.own = FALSE
  /\ ret' = ret \/ ret'.own = FALSE

LEMMA ReturnCall ==
  ASSUME NEW out, Return(out)
  PROVE  call' = Idle /\ call'.pc = "idle" /\ ret'.own = FALSE
BY DEF Return, Idle

LEMMA StartCall ==
  ASSUME NEW op, NEW s, NEW r, NEW c, Start(op, s, r, c)
  PROVE  /\ call'.pc = "arm" /\ call'.watcher = Null
         /\ call'.result = "none" /\ call'.own = FALSE
         /\ call'.op = op /\ call'.stmt = s /\ call'.rows = r /\ call'.ctx = c
         /\ ret' = ret
BY DEF Start, Idle

LEMMA StepKinds ==
  ASSUME [Next]_vars
  PROVE  \/ NewCall
         \/ Arm
         \/ StepBegin
         \/ StepNull
         \/ \E result \in Result, state \in CState : StepReturns(result, state)
         \/ Stop
         \/ \E c \in Ctxs : Cancel(c)
         \/ \E w \in Watchers : Watch(w)
         \/ UNCHANGED vars
<1> USE DEF NewCall
<1>1. CASE Connect
  BY <1>1, ReturnCall DEF Connect
<1>10. CASE ConnectFails
  BY <1>10 DEF ConnectFails
<1>2. ASSUME NEW c \in Ctx, Prepare(c) \/ ExecTransient(c) \/ QueryContext(c) PROVE NewCall
  <2>1. CASE Prepare(c)
    BY <2>1, ReturnCall DEF Prepare
  <2>2. CASE ExecTransient(c)
    BY <2>2, ReturnCall, StartCall DEF ExecTransient
  <2>3. CASE QueryContext(c)
    BY <2>3, ReturnCall DEF QueryContext
  <2> QED BY <1>2, <2>1, <2>2, <2>3
<1>3. ASSUME NEW s \in Stmts, BindFails(s) \/ StmtClose(s) PROVE NewCall
  BY <1>3, ReturnCall DEF BindFails, StmtClose
<1>4. ASSUME NEW s \in Stmts, NEW c \in Ctx, StmtExec(s, c) \/ StmtQuery(s, c) PROVE NewCall
  BY <1>4, ReturnCall, StartCall DEF StmtExec, StmtQuery, Bind
<1>5. ASSUME NEW r \in Rows, RowsNext(r) \/ RowsClose(r) PROVE NewCall
  BY <1>5, ReturnCall, StartCall DEF RowsNext, RowsClose
<1>6. ConnClose => NewCall
  BY ReturnCall DEF ConnClose
<1>7. StepRow \/ StepDone \/ StepError \/ StepInterrupted =>
        \E result \in Result, state \in CState : StepReturns(result, state)
  BY DEF StepRow, StepDone, StepError, StepInterrupted, Result, CState
<1> QED BY <1>1, <1>10, <1>2, <1>3, <1>4, <1>5, <1>6, <1>7 DEF Next, Driver

\* stop() tells the call's goroutine to end and changes nothing else.
LEMMA StopWatcherEffect ==
  ASSUME TypeInv, StopWatcher(call.watcher), NEW w \in Watchers
  PROVE  /\ watcher'[w].pc = watcher[w].pc
         /\ watcher'[w].ctx = watcher[w].ctx
         /\ watcher'[w].interrupted = watcher[w].interrupted
         /\ watcher'[w].done = watcher[w].done \/ watcher'[w].done = TRUE
         /\ w = call.watcher => watcher'[w].done = TRUE
<1>1. w # Null
  BY NullAssumption
<1>2. CASE call.watcher = Null
  BY <1>1, <1>2 DEF StopWatcher
<1>3. CASE call.watcher # Null
  <2>1. watcher' = [watcher EXCEPT ![call.watcher].done = TRUE]
    BY <1>3 DEF StopWatcher
  <2>2. CASE w = call.watcher
    BY <2>1, <2>2, ZenonT(60) DEF TypeInv, TypeOK, WatcherState
  <2>3. CASE w # call.watcher
    BY <2>1, <2>3 DEF TypeInv, TypeOK
  <2> QED BY <2>2, <2>3
<1> QED BY <1>2, <1>3

LEMMA NoOrphanStep ==
  ASSUME TypeInv, NoOrphanWatcher, [Next]_vars
  PROVE  NoOrphanWatcher'
<1> USE DEF NoOrphanWatcher
<1>1. CASE NewCall
  BY <1>1 DEF NewCall
<1>2. CASE Arm
  BY <1>2, ArmCall DEF FreeWatchers, TypeInv, TypeOK
<1>3. CASE StepBegin
  BY <1>3, StepBeginCall DEF StepBegin
<1>4. CASE StepNull
  BY <1>4, StepNullCall DEF StepNull
<1>5. CASE \E result \in Result, state \in CState : StepReturns(result, state)
  BY <1>5, StepReturnsCall DEF StepReturns
<1>6. CASE Stop
  BY <1>6, StopWatcherEffect DEF Stop
<1>7. CASE \E c \in Ctxs : Cancel(c)
  BY <1>7 DEF Cancel
<1>8. ASSUME NEW w \in Watchers, Watch(w) PROVE NoOrphanWatcher'
  BY <1>8 DEF Watch, WatcherFires, WatcherInterrupts, WatcherStops, TypeInv, TypeOK, WatcherState
<1>9. CASE UNCHANGED vars
  BY <1>9 DEF vars
<1> QED BY <1>1, <1>2, <1>3, <1>4, <1>5, <1>6, <1>7, <1>8, <1>9, StepKinds

\* NoOrphanWatcher, however many calls follow one another: no return path of
\* Next or execBound leaves a goroutine behind that nobody told to end.
THEOREM NoWatcherLeaks == Spec => []NoOrphanWatcher
<1>1. Init => NoOrphanWatcher
  BY DEF Init, NoOrphanWatcher, Ended
<1>2. TypeInv /\ NoOrphanWatcher /\ [Next]_vars => NoOrphanWatcher'
  BY NoOrphanStep
<1> QED BY <1>1, <1>2, TypeCorrect, PTL DEF Spec

-----------------------------------------------------------------------------
(* Interrupts.                                                             *)

LEMMA WatcherHonestStep ==
  ASSUME TypeInv, WatcherHonest, [Next]_vars
  PROVE  WatcherHonest'
<1> USE DEF WatcherHonest, OwnDelivered
<1>1. CASE NewCall
  BY <1>1 DEF NewCall, Idle
<1>2. CASE Arm
  <2>1. call.watcher = Null /\ ~call.own /\ call'.own = call.own /\ cancelled' = cancelled
    BY <1>2, ArmCall DEF Arm
  <2>2. CASE call'.watcher = call.watcher /\ UNCHANGED watcher
    BY <2>1, <2>2
  <2>3. ASSUME NEW w \in Watchers, call'.watcher = w,
               watcher' = [watcher EXCEPT ![w] = [pc |-> "select", ctx |-> call.ctx,
                                                  done |-> FALSE, interrupted |-> FALSE]]
        PROVE WatcherHonest'
    BY <1>2, <2>1, <2>3, ArmCall DEF SameWork, TypeInv, TypeOK
  <2> QED BY <1>2, <2>2, <2>3, ArmCall DEF FreeWatchers
<1>3. CASE StepBegin
  BY <1>3, StepBeginCall DEF StepBegin, SameWork
<1>4. CASE StepNull
  BY <1>4, StepNullCall DEF StepNull, SameWork
<1>5. CASE \E result \in Result, state \in CState : StepReturns(result, state)
  BY <1>5, StepReturnsCall, ZenonT(60) DEF StepReturns, SameWork
<1>6. CASE Stop
  BY <1>6, StopWatcherEffect DEF Stop, Idle
<1>7. CASE \E c \in Ctxs : Cancel(c)
  BY <1>7 DEF Cancel
<1>8. ASSUME NEW w \in Watchers, Watch(w) PROVE WatcherHonest'
  <2>1. CASE WatcherFires(w)
    BY <1>8, <2>1 DEF WatcherFires, TypeInv, TypeOK, WatcherState, Call
  <2>2. CASE WatcherInterrupts(w)
    BY <1>8, <2>2 DEF WatcherInterrupts, TypeInv, TypeOK, WatcherState, Call
  <2>3. CASE WatcherStops(w)
    BY <1>8, <2>3 DEF WatcherStops, TypeInv, TypeOK, WatcherState, Call
  <2> QED BY <1>8, <2>1, <2>2, <2>3 DEF Watch
<1>9. CASE UNCHANGED vars
  BY <1>9 DEF vars
<1> QED BY <1>1, <1>2, <1>3, <1>4, <1>5, <1>6, <1>7, <1>8, <1>9, StepKinds

LEMMA OwnInterruptStep ==
  ASSUME TypeInv, WatcherHonest, OwnInterruptIsCtxErr, [Next]_vars
  PROVE  OwnInterruptIsCtxErr'
<1> USE DEF OwnInterruptIsCtxErr
<1>1. CASE NewCall
  BY <1>1 DEF NewCall
<1>2. CASE Arm \/ StepBegin \/ StepNull
  BY <1>2 DEF Arm, StepBegin, StepNull
<1>3. CASE \E result \in Result, state \in CState : StepReturns(result, state)
  BY <1>3 DEF StepReturns
<1>4. CASE Stop
  <2> DEFINE interrupted == call.watcher # Null /\ watcher[call.watcher].interrupted
  <2>1. ret' = [out |-> OutcomeOf(call.result, interrupted), own |-> call.own]
    BY <1>4 DEF Stop
  <2> SUFFICES ASSUME call.own PROVE OutcomeOf(call.result, interrupted) = "ctxErr"
    BY <2>1
  <2>2. call.result = "interrupt" /\ call.watcher \in Watchers /\ watcher[call.watcher].pc = "delivered"
    BY DEF WatcherHonest, OwnDelivered, TypeInv, TypeOK, Call
  <2>3. interrupted /\ call.ctx \in cancelled
    BY <2>2 DEF WatcherHonest, OwnDelivered
  <2> HIDE DEF interrupted
  <2> QED BY <2>2, <2>3 DEF OutcomeOf
<1>5. CASE \E c \in Ctxs : Cancel(c)
  BY <1>5 DEF Cancel
<1>6. CASE \E w \in Watchers : Watch(w)
  BY <1>6 DEF Watch, WatcherFires, WatcherInterrupts, WatcherStops
<1>7. CASE UNCHANGED vars
  BY <1>7 DEF vars
<1> QED BY <1>1, <1>2, <1>3, <1>4, <1>5, <1>6, <1>7, StepKinds

\* OwnInterruptIsCtxErr, for any number of watchers left over from earlier calls:
\* the watcher that interrupted the call's statement carries the call's context,
\* and it marked itself before it interrupted.
THEOREM OwnInterruptReported == Spec => []OwnInterruptIsCtxErr
<1>1. Init => WatcherHonest /\ OwnInterruptIsCtxErr
  BY DEF Init, WatcherHonest, OwnInterruptIsCtxErr, OwnDelivered, Ended, Idle
<1>2. TypeInv /\ WatcherHonest /\ [Next]_vars => WatcherHonest'
  BY WatcherHonestStep
<1>3. TypeInv /\ WatcherHonest /\ OwnInterruptIsCtxErr /\ [Next]_vars => OwnInterruptIsCtxErr'
  BY OwnInterruptStep
<1> QED BY <1>1, <1>2, <1>3, TypeCorrect, PTL DEF Spec

-----------------------------------------------------------------------------
(* Statements and the handle.                                              *)

Accounted == StatementsAccounted /\ RunsOpen

\* What closing and reopening does to one statement.
LEMMA NewStmtEffect ==
  ASSUME TypeInv, Accounted, NEW s \in FreeStmts, NEW ephemeral \in BOOLEAN, NewStmt(s, ephemeral)
  PROVE  /\ stmt'[s].obj = "open" /\ stmt'[s].ephemeral = ephemeral /\ cstmt'[s] = "ready"
         /\ \A q \in Stmts : q # s => stmt'[q] = stmt[q] /\ cstmt'[q] = cstmt[q]
         /\ stmt[s].obj # "open" /\ OpenRowsOf(s) = {} /\ s \in Stmts
BY DEF NewStmt, FreeStmts, TypeInv, TypeOK

LEMMA CloseStmtEffect ==
  ASSUME TypeInv, NEW s \in Stmts, CloseStmt(s)
  PROVE  /\ stmt'[s].obj = "closed" /\ cstmt'[s] = "none"
         /\ \A q \in Stmts : q # s => stmt'[q] = stmt[q] /\ cstmt'[q] = cstmt[q]
         /\ handle' = IF handle = "zombie" /\ Live(cstmt') = {} THEN "freed" ELSE handle
BY DEF CloseStmt, Finalize, TypeInv, TypeOK, StmtObject

LEMMA ResetForReuseEffect ==
  ASSUME TypeInv, NEW s \in Stmts, ResetForReuse(s)
  PROVE  /\ UNCHANGED <<stmt, handle>>
         /\ stmt[s].obj = "open" => cstmt'[s] = "ready"
         /\ stmt[s].obj # "open" => cstmt'[s] = cstmt[s]
         /\ \A q \in Stmts : q # s => cstmt'[q] = cstmt[q]
BY DEF ResetForReuse, Reset, TypeInv, TypeOK

LEMMA NewRowsEffect ==
  ASSUME TypeInv, NEW r \in FreeRows, NEW s, NEW c, NewRows(r, s, c)
  PROVE  /\ \A q \in Stmts : q # s => OpenRowsOf(q)' = OpenRowsOf(q)
         /\ OpenRowsOf(s)' # {}
<1>1. r \in Rows /\ rows[r].obj # "open" /\ rows'[r].obj = "open" /\ rows'[r].stmt = s
      /\ \A q \in Rows : q # r => rows'[q] = rows[q]
  BY DEF NewRows, FreeRows, TypeInv, TypeOK
<1> QED BY <1>1 DEF OpenRowsOf

\* Closing Rows takes them from their own statement only, and an ephemeral one
\* goes with them.
LEMMA CloseRowsEffect ==
  ASSUME TypeInv, NEW r \in Rows, rows[r].obj = "open", CloseRows(r)
  PROVE  /\ rows[r].stmt \in Stmts
         /\ \A q \in Stmts : q # rows[r].stmt => OpenRowsOf(q)' = OpenRowsOf(q)
         /\ \/ stmt[rows[r].stmt].ephemeral /\ CloseStmt(rows[r].stmt)
            \/ ~stmt[rows[r].stmt].ephemeral /\ ResetForReuse(rows[r].stmt)
<1>1. rows[r].stmt \in Stmts
  BY DEF TypeInv, Owners
<1>2. /\ rows'[r].stmt = rows[r].stmt
      /\ \A q \in Rows : q # r => rows'[q] = rows[q]
  BY DEF CloseRows, TypeInv, TypeOK, RowsObject
<1>3. \A q \in Stmts : q # rows[r].stmt => OpenRowsOf(q)' = OpenRowsOf(q)
  BY <1>2 DEF OpenRowsOf
<1> QED BY <1>1, <1>3 DEF CloseRows

\* The same statements, each with its Rows or its call, after a statement was
\* closed together with the owner that went.
LEMMA AccountedAfterClose ==
  ASSUME TypeInv, Accounted, NEW s \in Stmts, CloseStmt(s), call' = Idle,
         \A q \in Stmts : q # s => OpenRowsOf(q)' = OpenRowsOf(q),
         call.op = "exec" => call.stmt = s
  PROVE  Accounted'
BY CloseStmtEffect DEF Accounted, StatementsAccounted, RunsOpen, Idle

LEMMA AccountedAfterReset ==
  ASSUME TypeInv, Accounted, NEW s \in Stmts, ResetForReuse(s), call' = Idle,
         \A q \in Stmts : q # s => OpenRowsOf(q)' = OpenRowsOf(q),
         OpenRowsOf(s)' = OpenRowsOf(s) \/ ~stmt[s].ephemeral,
         call.op # "exec"
  PROVE  Accounted'
BY ResetForReuseEffect DEF Accounted, StatementsAccounted, RunsOpen, Idle

LEMMA AccountedAfterNew ==
  ASSUME TypeInv, Accounted, NEW s \in FreeStmts, NEW ephemeral \in BOOLEAN,
         NewStmt(s, ephemeral), call.op = "none", call'.pc # "run",
         \A q \in Stmts : q # s => OpenRowsOf(q)' = OpenRowsOf(q),
         ephemeral => (call'.op = "exec" /\ call'.stmt = s) \/ OpenRowsOf(s)' # {}
  PROVE  Accounted'
<1>1. /\ stmt'[s].obj = "open" /\ stmt'[s].ephemeral = ephemeral /\ cstmt'[s] = "ready"
      /\ \A q \in Stmts : q # s => stmt'[q] = stmt[q] /\ cstmt'[q] = cstmt[q]
  BY NewStmtEffect
<1> QED BY <1>1 DEF Accounted, StatementsAccounted, RunsOpen

\* A statement that is there stays there, with its owner.
LEMMA AccountedAfterRun ==
  ASSUME TypeInv, Accounted, UNCHANGED <<stmt, rows>>,
         \A q \in Stmts : cstmt'[q] = "none" <=> cstmt[q] = "none",
         call.op = "exec" => call'.op = "exec" /\ call'.stmt = call.stmt,
         call'.pc = "run" => stmt[call'.stmt].obj = "open"
  PROVE  Accounted'
BY DEF Accounted, StatementsAccounted, RunsOpen, OpenRowsOf

LEMMA AccountedStep ==
  ASSUME TypeInv, NextOwnsRows, Accounted, [Next]_vars
  PROVE  Accounted'
<1> USE DEF Accounted, StatementsAccounted, RunsOpen
<1>1. CASE Connect \/ ConnectFails \/ ConnClose
  BY <1>1 DEF Connect, ConnectFails, ConnClose, Return, Idle, OpenRowsOf, TypeInv, Owners
<1>2. ASSUME NEW c \in Ctx, Prepare(c) PROVE Accounted'
  <2>1. call.op = "none" /\ call' = Idle /\ UNCHANGED rows
    BY <1>2 DEF Prepare, Return, TypeInv, Owners
  <2>2. CASE UNCHANGED <<stmt, cstmt>>
    BY <2>1, <2>2 DEF Idle, OpenRowsOf
  <2>3. ASSUME NEW s \in FreeStmts, NewStmt(s, FALSE) PROVE Accounted'
    BY <2>1, <2>3, AccountedAfterNew DEF Idle, OpenRowsOf
  <2> QED BY <1>2, <2>2, <2>3 DEF Prepare
<1>3. ASSUME NEW c \in Ctx, ExecTransient(c) PROVE Accounted'
  <2>1. call.op = "none" /\ UNCHANGED rows
    BY <1>3 DEF ExecTransient, TypeInv, Owners
  <2>2. CASE call' = Idle /\ UNCHANGED <<stmt, cstmt>>
    BY <2>1, <2>2 DEF Idle, OpenRowsOf
  <2>3. ASSUME NEW s \in FreeStmts, NewStmt(s, TRUE), Start("exec", s, Null, c) PROVE Accounted'
    <3>1. call'.op = "exec" /\ call'.stmt = s /\ call'.pc = "arm"
      BY <2>3, StartCall
    <3> QED BY <2>1, <2>3, <3>1, AccountedAfterNew DEF OpenRowsOf
  <2> QED BY <1>3, <2>2, <2>3, ReturnCall DEF ExecTransient
<1>4. ASSUME NEW c \in Ctx, QueryContext(c) PROVE Accounted'
  <2>1. call.op = "none" /\ call' = Idle
    BY <1>4, ReturnCall DEF QueryContext, TypeInv, Owners
  <2>2. CASE UNCHANGED <<stmt, cstmt, rows>>
    BY <2>1, <2>2 DEF Idle, OpenRowsOf
  <2>3. ASSUME NEW s \in FreeStmts, NEW r \in FreeRows, NewStmt(s, TRUE), NewRows(r, s, c)
        PROVE Accounted'
    <3>1. s \in Stmts /\ \A q \in Stmts : q # s => OpenRowsOf(q)' = OpenRowsOf(q)
      BY <2>3, NewRowsEffect DEF FreeStmts
    <3>2. OpenRowsOf(s)' # {}
      BY <2>3, NewRowsEffect
    <3> QED BY <2>1, <2>3, <3>1, <3>2, AccountedAfterNew DEF Idle
  <2> QED BY <1>4, <2>2, <2>3 DEF QueryContext
<1>5. ASSUME NEW s \in Stmts, BindFails(s) PROVE Accounted'
  <2>1. call.op = "none" /\ call' = Idle /\ UNCHANGED <<stmt, rows>>
    BY <1>5, ReturnCall DEF BindFails, TypeInv, Owners
  <2>2. \A q \in Stmts : cstmt'[q] = "none" <=> cstmt[q] = "none"
    BY <1>5 DEF BindFails, Prepared, Reset, TypeInv, TypeOK
  <2> QED BY <2>1, <2>2, AccountedAfterRun DEF Idle
<1>6. ASSUME NEW s \in Stmts, StmtClose(s) PROVE Accounted'
  <2>1. call.op = "none" /\ call' = Idle /\ UNCHANGED rows /\ CloseStmt(s)
    BY <1>6, ReturnCall DEF StmtClose, TypeInv, Owners
  <2> QED BY <2>1, AccountedAfterClose DEF OpenRowsOf
<1>7. ASSUME NEW s \in Stmts, NEW c \in Ctx, StmtExec(s, c) PROVE Accounted'
  <2>1. call.op = "none" /\ call'.op = "stmtExec" /\ call'.pc = "arm" /\ UNCHANGED <<stmt, rows>>
    BY <1>7, StartCall DEF StmtExec, Bind, TypeInv, Owners
  <2> QED BY <1>7, <2>1 DEF StmtExec, Bind, Prepared, Reset, OpenRowsOf, TypeInv, TypeOK
<1>8. ASSUME NEW s \in Stmts, NEW c \in Ctx, StmtQuery(s, c) PROVE Accounted'
  <2>1. call.op = "none" /\ call' = Idle /\ UNCHANGED stmt
    BY <1>8, ReturnCall DEF StmtQuery, Bind, TypeInv, Owners
  <2>2. PICK r \in FreeRows : NewRows(r, s, c)
    BY <1>8 DEF StmtQuery
  <2>3. /\ stmt[s].obj = "open" /\ cstmt'[s] = "ready"
        /\ \A q \in Stmts : q # s => cstmt'[q] = cstmt[q]
    BY <1>8 DEF StmtQuery, Bind, Prepared, Reset, TypeInv, TypeOK
  <2> QED BY <2>1, <2>2, <2>3, NewRowsEffect DEF Idle
<1>9. ASSUME NEW r \in Rows, RowsNext(r) PROVE Accounted'
  <2>1. call.op = "none" /\ call'.pc = "arm" /\ UNCHANGED <<stmt, rows, cstmt>>
    BY <1>9, StartCall DEF RowsNext, external, TypeInv, Owners
  <2> QED BY <2>1, AccountedAfterRun
<1>10. ASSUME NEW r \in Rows, RowsClose(r) PROVE Accounted'
  <2>1. call.op = "none" /\ call' = Idle /\ CloseRows(r) /\ rows[r].obj = "open"
    BY <1>10, ReturnCall DEF RowsClose, TypeInv, Owners
  <2> QED BY <2>1, CloseRowsEffect, AccountedAfterClose, AccountedAfterReset
<1>11. CASE Arm
  <2>1. SameWork /\ call'.pc = "step" /\ UNCHANGED <<stmt, rows, cstmt>>
    BY <1>11, ArmCall DEF Arm, external
  <2> QED BY <2>1, AccountedAfterRun DEF SameWork
<1>12. CASE StepBegin
  BY <1>12, StepBeginCall DEF StepBegin, SameWork, OpenRowsOf, TypeInv, TypeOK, Owners
<1>13. CASE StepNull
  BY <1>13, StepNullCall DEF StepNull, external, SameWork, OpenRowsOf
<1>14. ASSUME NEW result \in Result, NEW state \in CState \ {"none"}, StepReturns(result, state)
       PROVE Accounted'
  <2>1. SameWork /\ call.pc = "run" /\ call'.pc = "stop"
    BY <1>14, StepReturnsCall
  <2>2. UNCHANGED <<stmt, rows>> /\ cstmt' = [cstmt EXCEPT ![call.stmt] = state]
    BY <1>14 DEF StepReturns
  <2>3. \A q \in Stmts : cstmt'[q] = "none" <=> cstmt[q] = "none"
    BY <1>14, <2>1, <2>2 DEF TypeInv, TypeOK, Owners
  <2> QED BY <2>1, <2>2, <2>3, AccountedAfterRun DEF SameWork
<1>15. CASE Stop
  <2>1. call' = Idle /\ call.op \in {"exec", "stmtExec", "next"} /\ call.stmt \in Stmts
    BY <1>15 DEF Stop, TypeInv, TypeOK, Owners, Call
  <2>2. CASE call.op = "exec"
    BY <1>15, <2>1, <2>2, AccountedAfterClose DEF Stop, OpenRowsOf
  <2>3. CASE call.op = "stmtExec"
    BY <1>15, <2>1, <2>3, AccountedAfterReset DEF Stop, OpenRowsOf
  <2>4. CASE call.op = "next" /\ call.result = "row"
    BY <1>15, <2>1, <2>4 DEF Stop, OpenRowsOf, Idle
  <2>5. CASE call.op = "next" /\ call.result # "row"
    <3>1. CloseRows(call.rows) /\ call.rows \in Rows /\ rows[call.rows].obj = "open"
      BY <1>15, <2>5 DEF Stop, NextOwnsRows, TypeInv, Owners
    <3> QED BY <2>1, <2>5, <3>1, CloseRowsEffect, AccountedAfterClose, AccountedAfterReset
  <2> QED BY <2>1, <2>2, <2>3, <2>4, <2>5
<1>16. ASSUME NEW c \in Ctxs, Cancel(c) PROVE Accounted'
  BY <1>16 DEF Cancel, external, OpenRowsOf
<1>17. ASSUME NEW w \in Watchers, Watch(w) PROVE Accounted'
  BY <1>17 DEF Watch, WatcherFires, WatcherInterrupts, WatcherStops, external, OpenRowsOf
<1>18. CASE UNCHANGED vars
  BY <1>18 DEF vars, external, OpenRowsOf
<1>19. StepRow \/ StepDone \/ StepError \/ StepInterrupted =>
         \E result \in Result, state \in CState \ {"none"} : StepReturns(result, state)
  BY DEF StepRow, StepDone, StepError, StepInterrupted, Result, CState
<1> QED
  BY <1>1, <1>2, <1>3, <1>4, <1>5, <1>6, <1>7, <1>8, <1>9, <1>10, <1>11, <1>12, <1>13, <1>14,
     <1>15, <1>16, <1>17, <1>18, <1>19 DEF Next, Driver

LEMMA NextOwnsRowsStep ==
  ASSUME TypeInv, NextOwnsRows, [Next]_vars
  PROVE  NextOwnsRows'
<1> USE DEF NextOwnsRows
<1>1. CASE call' = Idle
  BY <1>1 DEF Idle
<1>2. ASSUME NEW op \in {"exec", "stmtExec"}, NEW s, NEW c, Start(op, s, Null, c)
      PROVE NextOwnsRows'
  BY <1>2, StartCall
<1>3. ASSUME NEW r \in Rows, RowsNext(r) PROVE NextOwnsRows'
  <2>1. Start("next", rows[r].stmt, r, rows[r].ctx) /\ rows[r].obj = "open" /\ UNCHANGED rows
    BY <1>3 DEF RowsNext
  <2>2. call'.rows = r /\ call'.stmt = rows[r].stmt
    BY <2>1, StartCall, ZenonT(60)
  <2> QED BY <2>1, <2>2
<1>4. CASE UNCHANGED rows /\ (SameWork \/ call' = call)
  BY <1>4 DEF SameWork
<1>5. Connect \/ ConnClose => call' = Idle
  BY DEF Connect, ConnClose, Return
<1>6. ASSUME NEW c \in Ctx, Prepare(c) \/ ExecTransient(c) \/ QueryContext(c)
      PROVE call' = Idle \/ \E s \in Stmts : Start("exec", s, Null, c)
  BY <1>6, ReturnCall DEF Prepare, ExecTransient, QueryContext, FreeStmts
<1>7. ASSUME NEW s \in Stmts, BindFails(s) \/ StmtClose(s) PROVE call' = Idle
  BY <1>7, ReturnCall DEF BindFails, StmtClose
<1>8. ASSUME NEW s \in Stmts, NEW c \in Ctx, StmtExec(s, c) \/ StmtQuery(s, c)
      PROVE call' = Idle \/ Start("stmtExec", s, Null, c)
  BY <1>8, ReturnCall DEF StmtExec, StmtQuery
<1>9. ASSUME NEW r \in Rows, RowsClose(r) PROVE call' = Idle
  BY <1>9, ReturnCall DEF RowsClose
<1>10. Arm \/ StepBegin \/ StepNull => UNCHANGED rows /\ SameWork
  BY ArmCall, StepBeginCall, StepNullCall DEF Arm, StepBegin, StepNull
<1>11. ASSUME NEW result \in Result, NEW state \in CState, StepReturns(result, state)
       PROVE UNCHANGED rows /\ SameWork
  BY <1>11, StepReturnsCall DEF StepReturns
<1>12. Stop => call' = Idle
  BY DEF Stop
<1>13. ConnectFails \/ (\E c \in Ctxs : Cancel(c)) \/ (\E w \in Watchers : Watch(w)) \/ UNCHANGED vars
         => UNCHANGED rows /\ call' = call
  BY DEF ConnectFails, Cancel, Watch, WatcherFires, WatcherInterrupts, WatcherStops, vars
<1>14. StepRow \/ StepDone \/ StepError \/ StepInterrupted =>
         \E result \in Result, state \in CState : StepReturns(result, state)
  BY DEF StepRow, StepDone, StepError, StepInterrupted, Result, CState
<1> QED
  BY <1>1, <1>2, <1>3, <1>4, <1>5, <1>6, <1>7, <1>8, <1>9, <1>10, <1>11, <1>12, <1>13, <1>14
  DEF Next, Driver

\* StatementsAccounted, for any number of statements and Rows and any order of
\* prepares, failing binds, steps and closes.
THEOREM NoStatementLeaks == Spec => []StatementsAccounted
<1>1. Init => NextOwnsRows /\ Accounted
  BY DEF Init, NextOwnsRows, Accounted, StatementsAccounted, RunsOpen, Idle
<1>2. TypeInv /\ NextOwnsRows /\ [Next]_vars => NextOwnsRows'
  BY NextOwnsRowsStep
<1>3. TypeInv /\ NextOwnsRows /\ Accounted /\ [Next]_vars => Accounted'
  BY AccountedStep
<1>4. Accounted => StatementsAccounted
  BY DEF Accounted
<1> QED BY <1>1, <1>2, <1>3, <1>4, TypeCorrect, PTL DEF Spec

-----------------------------------------------------------------------------
(* The handle.                                                             *)

\* Where no statement goes away the handle keeps its reason to wait.
LEMMA HandleKept ==
  ASSUME HandleFollows, UNCHANGED <<closed, handle>>, call'.pc # "unconnected",
         \A q \in Stmts : cstmt[q] # "none" => cstmt'[q] # "none"
  PROVE  HandleFollows'
BY DEF HandleFollows, Live

LEMMA HandleAfterClose ==
  ASSUME TypeInv, HandleFollows, NEW s \in Stmts, CloseStmt(s), UNCHANGED closed,
         call'.pc # "unconnected"
  PROVE  HandleFollows'
BY CloseStmtEffect DEF HandleFollows

LEMMA HandleAfterReset ==
  ASSUME TypeInv, Accounted, HandleFollows, NEW s \in Stmts, ResetForReuse(s), UNCHANGED closed,
         call'.pc # "unconnected"
  PROVE  HandleFollows'
BY ResetForReuseEffect, HandleKept

LEMMA HandleStep ==
  ASSUME TypeInv, NextOwnsRows, Accounted, HandleFollows, [Next]_vars
  PROVE  HandleFollows'
<1> USE DEF conn, external
<1>1. CASE Connect \/ ConnectFails
  BY <1>1 DEF Connect, ConnectFails, Return, Idle, HandleFollows
<1>2. ASSUME NEW c \in Ctx, Prepare(c) \/ ExecTransient(c) \/ QueryContext(c)
      PROVE HandleFollows'
  <2>1. UNCHANGED <<closed, handle>>
    BY <1>2 DEF Prepare, ExecTransient, QueryContext
  <2>2. call'.pc # "unconnected"
    <3>1. CASE Prepare(c)
      BY <3>1, ReturnCall DEF Prepare
    <3>2. CASE ExecTransient(c)
      BY <3>2, ReturnCall, StartCall DEF ExecTransient
    <3>3. CASE QueryContext(c)
      BY <3>3, ReturnCall DEF QueryContext
    <3> QED BY <1>2, <3>1, <3>2, <3>3
  <2>3. UNCHANGED cstmt \/ \E s \in FreeStmts, ephemeral \in BOOLEAN : NewStmt(s, ephemeral)
    BY <1>2 DEF Prepare, ExecTransient, QueryContext
  <2>4. \A q \in Stmts : cstmt[q] # "none" => cstmt'[q] # "none"
    BY <2>3, NewStmtEffect
  <2> QED BY <2>1, <2>2, <2>4, HandleKept
<1>3. ASSUME NEW s \in Stmts, BindFails(s) PROVE HandleFollows'
  <2>1. \A q \in Stmts : cstmt[q] # "none" => cstmt'[q] # "none"
    BY <1>3 DEF BindFails, Reset, TypeInv, TypeOK
  <2>2. call'.pc # "unconnected"
    BY <1>3, ReturnCall DEF BindFails
  <2> QED BY <1>3, <2>1, <2>2, HandleKept DEF BindFails
<1>4. ASSUME NEW s \in Stmts, StmtClose(s) PROVE HandleFollows'
  <2>1. call'.pc # "unconnected"
    BY <1>4, ReturnCall DEF StmtClose
  <2> QED BY <1>4, <2>1, HandleAfterClose DEF StmtClose
<1>5. ASSUME NEW s \in Stmts, NEW c \in Ctx, StmtExec(s, c) \/ StmtQuery(s, c)
      PROVE HandleFollows'
  <2>1. call'.pc # "unconnected"
    <3>1. CASE StmtExec(s, c)
      BY <3>1, StartCall DEF StmtExec
    <3>2. CASE StmtQuery(s, c)
      BY <3>2, ReturnCall DEF StmtQuery
    <3> QED BY <1>5, <3>1, <3>2
  <2>2. \A q \in Stmts : cstmt[q] # "none" => cstmt'[q] # "none"
    BY <1>5 DEF StmtExec, StmtQuery, Bind, Reset, TypeInv, TypeOK
  <2> QED BY <1>5, <2>1, <2>2, HandleKept DEF StmtExec, StmtQuery
<1>6. ASSUME NEW r \in Rows, RowsNext(r) PROVE HandleFollows'
  BY <1>6, StartCall, HandleKept DEF RowsNext
<1>7. ASSUME NEW r \in Rows, RowsClose(r) PROVE HandleFollows'
  <2>1. call'.pc # "unconnected" /\ UNCHANGED closed
    BY <1>7, ReturnCall DEF RowsClose
  <2>2. CloseRows(r) /\ rows[r].obj = "open"
    BY <1>7 DEF RowsClose
  <2> QED BY <2>1, <2>2, CloseRowsEffect, HandleAfterClose, HandleAfterReset
<1>8. CASE ConnClose
  BY <1>8 DEF ConnClose, Return, Idle, HandleFollows
<1>9. CASE Arm
  BY <1>9, ArmCall, HandleKept DEF Arm
<1>10. CASE StepBegin
  <2>1. \A q \in Stmts : cstmt[q] # "none" => cstmt'[q] # "none"
    BY <1>10 DEF StepBegin, TypeInv, TypeOK
  <2> QED BY <1>10, <2>1, StepBeginCall, HandleKept DEF StepBegin
<1>11. CASE StepNull
  BY <1>11, StepNullCall, HandleKept DEF StepNull
<1>12. ASSUME NEW result \in Result, NEW state \in CState \ {"none"}, StepReturns(result, state)
       PROVE HandleFollows'
  <2>1. \A q \in Stmts : cstmt[q] # "none" => cstmt'[q] # "none"
    BY <1>12 DEF StepReturns, TypeInv, TypeOK
  <2> QED BY <1>12, <2>1, StepReturnsCall, HandleKept DEF StepReturns
<1>13. CASE Stop
  <2>1. call'.pc # "unconnected" /\ call.op \in {"exec", "stmtExec", "next"}
        /\ call.stmt \in Stmts /\ UNCHANGED closed
    BY <1>13 DEF Stop, Idle, TypeInv, TypeOK, Owners, Call
  <2>2. CASE call.op = "exec"
    BY <1>13, <2>1, <2>2, HandleAfterClose DEF Stop
  <2>3. CASE call.op = "stmtExec"
    BY <1>13, <2>1, <2>3, HandleAfterReset DEF Stop
  <2>4. CASE call.op = "next" /\ call.result = "row"
    BY <1>13, <2>1, <2>4, HandleKept DEF Stop
  <2>5. CASE call.op = "next" /\ call.result # "row"
    <3>1. CloseRows(call.rows) /\ call.rows \in Rows /\ rows[call.rows].obj = "open"
      BY <1>13, <2>5 DEF Stop, NextOwnsRows, TypeInv, Owners
    <3> QED BY <2>1, <3>1, CloseRowsEffect, HandleAfterClose, HandleAfterReset
  <2> QED BY <2>1, <2>2, <2>3, <2>4, <2>5
<1>14. ASSUME NEW c \in Ctxs, Cancel(c) PROVE HandleFollows'
  BY <1>14 DEF Cancel, HandleFollows, Live
<1>15. ASSUME NEW w \in Watchers, Watch(w) PROVE HandleFollows'
  BY <1>15 DEF Watch, WatcherFires, WatcherInterrupts, WatcherStops, HandleFollows, Live
<1>16. CASE UNCHANGED vars
  BY <1>16 DEF vars, HandleFollows, Live
<1>17. StepRow \/ StepDone \/ StepError \/ StepInterrupted =>
         \E result \in Result, state \in CState \ {"none"} : StepReturns(result, state)
  BY DEF StepRow, StepDone, StepError, StepInterrupted, Result, CState
<1> QED
  BY <1>1, <1>2, <1>3, <1>4, <1>5, <1>6, <1>7, <1>8, <1>9, <1>10, <1>11, <1>12, <1>13, <1>14,
     <1>15, <1>16, <1>17 DEF Next, Driver

\* HandleReleased: the connection and its statements closed in any order leave
\* neither an open handle nor a zombie, and a failed Connect leaves none.
THEOREM HandleAlwaysReleased == Spec => []HandleReleased
<1>1. Init => NextOwnsRows /\ Accounted /\ HandleFollows
  BY DEF Init, NextOwnsRows, Accounted, StatementsAccounted, RunsOpen, HandleFollows, Idle
<1>2. TypeInv /\ NextOwnsRows /\ [Next]_vars => NextOwnsRows'
  BY NextOwnsRowsStep
<1>3. TypeInv /\ NextOwnsRows /\ Accounted /\ [Next]_vars => Accounted'
  BY AccountedStep
<1>4. TypeInv /\ NextOwnsRows /\ Accounted /\ HandleFollows /\ [Next]_vars => HandleFollows'
  BY HandleStep
<1>5. Accounted /\ HandleFollows => HandleReleased
  BY DEF Accounted, StatementsAccounted, HandleFollows, HandleReleased, Live
<1> QED BY <1>1, <1>2, <1>3, <1>4, <1>5, TypeCorrect, PTL DEF Spec

-----------------------------------------------------------------------------
(* Where statements stand between calls.                                   *)

\* q is back at its start or gone, or stands where it stood, with its owner.
SameOrReset(q) ==
  \/ cstmt'[q] \in {"none", "ready"}
  \/ /\ cstmt'[q] = cstmt[q]
     /\ OpenRowsOf(q) # {} => OpenRowsOf(q)' # {}
     /\ Executing(q) => Executing(q)'

LEMMA StatesKept ==
  ASSUME StatesOwned, call.pc # "stop", call'.pc # "stop", \A q \in Stmts : SameOrReset(q)
  PROVE  StatesOwned'
BY DEF StatesOwned, SameOrReset

\* The end of a call that resets or finalizes its statement.
LEMMA StatesAfterStop ==
  ASSUME StatesOwned, call.pc = "stop", call' = Idle,
         cstmt'[call.stmt] \in {"none", "ready"},
         \A q \in Stmts : q # call.stmt => cstmt'[q] = cstmt[q] /\ OpenRowsOf(q)' = OpenRowsOf(q)
  PROVE  StatesOwned'
BY DEF StatesOwned, Executing, Idle

LEMMA CloseRowsResets ==
  ASSUME TypeInv, Accounted, NEW r \in Rows, rows[r].obj = "open", CloseRows(r)
  PROVE  /\ cstmt'[rows[r].stmt] \in {"none", "ready"}
         /\ \A q \in Stmts : q # rows[r].stmt =>
              cstmt'[q] = cstmt[q] /\ OpenRowsOf(q)' = OpenRowsOf(q)
<1> DEFINE s == rows[r].stmt
<1>1. s \in Stmts /\ \A q \in Stmts : q # s => OpenRowsOf(q)' = OpenRowsOf(q)
  BY CloseRowsEffect
<1>2. CASE CloseStmt(s)
  BY <1>1, <1>2, CloseStmtEffect
<1>3. CASE ResetForReuse(s)
  <2>1. stmt[s].obj # "open" => cstmt[s] = "none"
    BY <1>1 DEF Accounted, StatementsAccounted
  <2> QED BY <1>1, <1>3, <2>1, ResetForReuseEffect
<1> QED BY <1>2, <1>3, CloseRowsEffect

LEMMA StatesOwnedStep ==
  ASSUME TypeInv, NextOwnsRows, Accounted, StatesOwned, [Next]_vars
  PROVE  StatesOwned'
<1> USE DEF conn, external
<1>1. CASE Connect \/ ConnectFails \/ ConnClose
  <2>1. call.pc # "stop" /\ call'.pc # "stop" /\ call.op = "none" /\ UNCHANGED <<cstmt, rows>>
    BY <1>1, ReturnCall DEF Connect, ConnectFails, ConnClose, TypeInv, Owners
  <2> QED BY <2>1, StatesKept DEF SameOrReset, OpenRowsOf, Executing
<1>2. ASSUME NEW c \in Ctx, Prepare(c) PROVE StatesOwned'
  <2>1. call.pc # "stop" /\ call'.pc # "stop" /\ call.op = "none" /\ UNCHANGED rows
    BY <1>2, ReturnCall DEF Prepare, TypeInv, Owners
  <2>2. \A q \in Stmts : cstmt'[q] = cstmt[q] \/ cstmt'[q] = "ready"
    BY <1>2, NewStmtEffect DEF Prepare
  <2> QED BY <2>1, <2>2, StatesKept DEF SameOrReset, OpenRowsOf, Executing
<1>3. ASSUME NEW c \in Ctx, ExecTransient(c) PROVE StatesOwned'
  <2>1. call.pc # "stop" /\ call'.pc # "stop" /\ call.op = "none" /\ UNCHANGED rows
    BY <1>3, ReturnCall, StartCall DEF ExecTransient, TypeInv, Owners
  <2>2. \A q \in Stmts : cstmt'[q] = cstmt[q] \/ cstmt'[q] = "ready"
    BY <1>3, NewStmtEffect DEF ExecTransient
  <2> QED BY <2>1, <2>2, StatesKept DEF SameOrReset, OpenRowsOf, Executing
<1>4. ASSUME NEW c \in Ctx, QueryContext(c) PROVE StatesOwned'
  <2>1. call.pc # "stop" /\ call'.pc # "stop" /\ call.op = "none"
    BY <1>4, ReturnCall DEF QueryContext, TypeInv, Owners
  <2>2. CASE UNCHANGED <<cstmt, rows>>
    BY <2>1, <2>2, StatesKept DEF SameOrReset, OpenRowsOf, Executing
  <2>3. ASSUME NEW s \in FreeStmts, NEW r \in FreeRows, NewStmt(s, TRUE), NewRows(r, s, c)
        PROVE StatesOwned'
    <3>1. \A q \in Stmts : q # s => cstmt'[q] = cstmt[q] /\ OpenRowsOf(q)' = OpenRowsOf(q)
      BY <2>3, NewStmtEffect, NewRowsEffect
    <3>2. cstmt'[s] = "ready"
      BY <2>3, NewStmtEffect
    <3> QED BY <2>1, <3>1, <3>2, StatesKept DEF SameOrReset, Executing
  <2> QED BY <1>4, <2>2, <2>3 DEF QueryContext
<1>5. ASSUME NEW s \in Stmts, BindFails(s) PROVE StatesOwned'
  <2>1. call.pc # "stop" /\ call'.pc # "stop" /\ call.op = "none" /\ UNCHANGED rows
    BY <1>5, ReturnCall DEF BindFails, TypeInv, Owners
  <2>2. \A q \in Stmts : cstmt'[q] = cstmt[q] \/ cstmt'[q] = "ready"
    BY <1>5 DEF BindFails, Reset, TypeInv, TypeOK
  <2> QED BY <2>1, <2>2, StatesKept DEF SameOrReset, OpenRowsOf, Executing
<1>6. ASSUME NEW s \in Stmts, StmtClose(s) PROVE StatesOwned'
  <2>1. call.pc # "stop" /\ call'.pc # "stop" /\ call.op = "none" /\ UNCHANGED rows
    BY <1>6, ReturnCall DEF StmtClose, TypeInv, Owners
  <2>2. \A q \in Stmts : cstmt'[q] = cstmt[q] \/ cstmt'[q] = "none"
    BY <1>6, CloseStmtEffect DEF StmtClose
  <2> QED BY <2>1, <2>2, StatesKept DEF SameOrReset, OpenRowsOf, Executing
<1>7. ASSUME NEW s \in Stmts, NEW c \in Ctx, StmtExec(s, c) PROVE StatesOwned'
  <2>1. call.pc # "stop" /\ call'.pc # "stop" /\ call.op = "none" /\ UNCHANGED rows
    BY <1>7, StartCall DEF StmtExec, Bind, TypeInv, Owners
  <2>2. \A q \in Stmts : cstmt'[q] = cstmt[q] \/ cstmt'[q] = "ready"
    BY <1>7 DEF StmtExec, Bind, Reset, TypeInv, TypeOK
  <2> QED BY <2>1, <2>2, StatesKept DEF SameOrReset, OpenRowsOf, Executing
<1>8. ASSUME NEW s \in Stmts, NEW c \in Ctx, StmtQuery(s, c) PROVE StatesOwned'
  <2>1. call.pc # "stop" /\ call'.pc # "stop" /\ call.op = "none"
    BY <1>8, ReturnCall DEF StmtQuery, Bind, TypeInv, Owners
  <2>2. PICK r \in FreeRows : NewRows(r, s, c)
    BY <1>8 DEF StmtQuery
  <2>3. \A q \in Stmts : q # s => cstmt'[q] = cstmt[q] /\ OpenRowsOf(q)' = OpenRowsOf(q)
    BY <1>8, <2>2, NewRowsEffect DEF StmtQuery, Bind, Reset, TypeInv, TypeOK
  <2>4. cstmt'[s] = "ready"
    BY <1>8 DEF StmtQuery, Bind, Reset, TypeInv, TypeOK
  <2> QED BY <2>1, <2>3, <2>4, StatesKept DEF SameOrReset, Executing
<1>9. ASSUME NEW r \in Rows, RowsNext(r) PROVE StatesOwned'
  <2>1. call.pc # "stop" /\ call'.pc # "stop" /\ call.op = "none" /\ UNCHANGED <<rows, cstmt>>
    BY <1>9, StartCall DEF RowsNext, TypeInv, Owners
  <2> QED BY <2>1, StatesKept DEF SameOrReset, OpenRowsOf, Executing
<1>10. ASSUME NEW r \in Rows, RowsClose(r) PROVE StatesOwned'
  <2>1. call.pc # "stop" /\ call'.pc # "stop" /\ call.op = "none"
    BY <1>10, ReturnCall DEF RowsClose, TypeInv, Owners
  <2>2. CloseRows(r) /\ rows[r].obj = "open"
    BY <1>10 DEF RowsClose
  <2> QED BY <2>1, <2>2, CloseRowsResets, StatesKept DEF SameOrReset, Executing
<1>11. CASE Arm
  <2>1. SameWork /\ call.pc = "arm" /\ call'.pc = "step" /\ UNCHANGED <<rows, cstmt>>
    BY <1>11, ArmCall DEF Arm
  <2> QED BY <2>1, StatesKept DEF SameOrReset, OpenRowsOf, Executing, SameWork
<1>12. CASE StepBegin
  <2>1. SameWork /\ call.pc = "step" /\ call'.pc = "run" /\ UNCHANGED rows
    BY <1>12, StepBeginCall DEF StepBegin
  <2>2. call.stmt \in Stmts /\ call.op \in {"exec", "stmtExec", "next"}
    BY <2>1 DEF TypeInv, TypeOK, Owners, Call
  <2>3. \A q \in Stmts : cstmt'[q] = IF q = call.stmt THEN "active" ELSE cstmt[q]
    BY <1>12, <2>2 DEF StepBegin, TypeInv, TypeOK
  <2>4. OpenRowsOf(call.stmt) # {} \/ Executing(call.stmt)
    BY <2>2 DEF NextOwnsRows, OpenRowsOf, Executing, TypeInv, Owners
  <2> QED BY <2>1, <2>3, <2>4 DEF StatesOwned, OpenRowsOf, Executing, SameWork
<1>13. CASE StepNull
  <2>1. SameWork /\ call.pc = "step" /\ call'.pc = "stop" /\ call'.result = "error"
        /\ UNCHANGED <<rows, cstmt>>
    BY <1>13, StepNullCall DEF StepNull
  <2> QED BY <2>1 DEF StatesOwned, OpenRowsOf, Executing, SameWork
<1>14. ASSUME NEW result \in Result, NEW state \in CState, StepReturns(result, state),
              result = "row" => call.op = "next" /\ state = "active", state # "active" => result # "row",
              state = "active" => result = "row"
       PROVE StatesOwned'
  <2>1. SameWork /\ call.pc = "run" /\ call'.pc = "stop" /\ call'.result = result
    BY <1>14, StepReturnsCall
  <2>2. call.stmt \in Stmts
    BY <2>1 DEF TypeInv, Owners
  <2>3. UNCHANGED rows /\ \A q \in Stmts : cstmt'[q] = IF q = call.stmt THEN state ELSE cstmt[q]
    BY <1>14, <2>2 DEF StepReturns, TypeInv, TypeOK
  <2>4. state = "active" => OpenRowsOf(call.stmt) # {}
    BY <1>14 DEF NextOwnsRows, OpenRowsOf, TypeInv, Owners
  <2> QED BY <1>14, <2>1, <2>2, <2>3, <2>4 DEF StatesOwned, OpenRowsOf, Executing, SameWork
<1>15. CASE Stop
  <2>1. call.pc = "stop" /\ call' = Idle /\ call.op \in {"exec", "stmtExec", "next"} /\ call.stmt \in Stmts
    BY <1>15 DEF Stop, TypeInv, TypeOK, Owners, Call
  <2>2. CASE call.op = "exec"
    BY <1>15, <2>1, <2>2, CloseStmtEffect, StatesAfterStop DEF Stop, OpenRowsOf
  <2>3. CASE call.op = "stmtExec"
    <3>1. ResetForReuse(call.stmt) /\ UNCHANGED rows
      BY <1>15, <2>3 DEF Stop
    <3>2. cstmt'[call.stmt] \in {"none", "ready"}
      BY <2>1, <3>1, ResetForReuseEffect DEF Accounted, StatementsAccounted
    <3> QED BY <2>1, <3>1, <3>2, ResetForReuseEffect, StatesAfterStop DEF OpenRowsOf
  <2>4. CASE call.op = "next" /\ call.result = "row"
    <3>1. UNCHANGED <<cstmt, rows>> /\ call'.pc = "idle"
      BY <1>15, <2>1, <2>4 DEF Stop, Idle
    <3> QED BY <2>1, <2>4, <3>1 DEF StatesOwned, OpenRowsOf, Executing
  <2>5. CASE call.op = "next" /\ call.result # "row"
    <3>1. /\ CloseRows(call.rows) /\ call.rows \in Rows
          /\ rows[call.rows].obj = "open" /\ rows[call.rows].stmt = call.stmt
      BY <1>15, <2>5 DEF Stop, NextOwnsRows, TypeInv, Owners
    <3> QED BY <2>1, <3>1, CloseRowsResets, StatesAfterStop
  <2> QED BY <2>1, <2>2, <2>3, <2>4, <2>5
<1>16. CASE UNCHANGED <<rows, cstmt, call>>
  BY <1>16 DEF StatesOwned, OpenRowsOf, Executing
<1>17. (\E c \in Ctxs : Cancel(c)) \/ (\E w \in Watchers : Watch(w)) \/ UNCHANGED vars
         => UNCHANGED <<rows, cstmt, call>>
  BY DEF Cancel, Watch, WatcherFires, WatcherInterrupts, WatcherStops, vars
<1>18. StepRow \/ StepDone \/ StepError \/ StepInterrupted => StatesOwned'
  BY <1>14 DEF StepRow, StepDone, StepError, StepInterrupted, Result, CState
<1> QED
  BY <1>1, <1>2, <1>3, <1>4, <1>5, <1>6, <1>7, <1>8, <1>9, <1>10, <1>11, <1>12, <1>13,
     <1>15, <1>16, <1>17, <1>18 DEF Next, Driver

\* IdleStatementsReset: between calls a statement that ran is at its start, or
\* open Rows are on it, however its last execution ended.
THEOREM StatementsReset == Spec => []IdleStatementsReset
<1>1. Init => NextOwnsRows /\ Accounted /\ StatesOwned
  BY DEF Init, NextOwnsRows, Accounted, StatementsAccounted, RunsOpen, StatesOwned, Idle
<1>2. TypeInv /\ NextOwnsRows /\ [Next]_vars => NextOwnsRows'
  BY NextOwnsRowsStep
<1>3. TypeInv /\ NextOwnsRows /\ Accounted /\ [Next]_vars => Accounted'
  BY AccountedStep
<1>4. TypeInv /\ NextOwnsRows /\ Accounted /\ StatesOwned /\ [Next]_vars => StatesOwned'
  BY StatesOwnedStep
<1>5. TypeInv /\ StatesOwned => IdleStatementsReset
  BY DEF TypeInv, TypeOK, Owners, StatesOwned, IdleStatementsReset, Executing
<1> QED BY <1>1, <1>2, <1>3, <1>4, <1>5, TypeCorrect, PTL DEF Spec

=============================================================================
