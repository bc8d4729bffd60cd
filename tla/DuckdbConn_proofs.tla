------------------------- MODULE DuckdbConn_proofs -------------------------
(***************************************************************************)
(* Proofs about one DuckDB connection, for any number of statements, Rows, *)
(* watchers and contexts, and results of any number of chunks of any size. *)
(***************************************************************************)
EXTENDS DuckdbConn, TLAPS

\* A call in progress names the objects it works on and no others, and the
\* Rows it is to open are not open yet.
CallNames ==
  /\ call.pc \in {"unconnected", "idle"} <=> call.op = "none"
  /\ call.op # "none" => call.ctx \in Ctx
  /\ call.op \in {"exec", "query"} <=> call.stmt \in Stmts
  /\ call.op = "query" <=> call.rows \in Rows
  /\ call.rows \in Rows => rows[call.rows].obj # "open"
  /\ call.pc \in {"unconnected", "idle", "arm"} => call.watcher = Null

\* The chunk fields of Rows say where the reader is: only open Rows have a
\* chunk, they have one, and they have read up to chunkRow of it.
RowsFollow ==
  \A r \in Rows :
    /\ rows[r].obj = "open" => rows[r].stmt \in Stmts
    /\ rows[r].chunk => rows[r].obj = "open"
    /\ chunks[r] = IF rows[r].chunk THEN 1 ELSE 0
    /\ rows[r].chunkRow <= rows[r].chunkSize
    /\ position[r].size = rows[r].chunkSize /\ position[r].row = rows[r].chunkRow
    /\ ~rows[r].chunk => position[r] = BeforeFirst

TypeInv == TypeOK /\ CallNames /\ RowsFollow

StmtObject == [obj : {"none", "open", "closed"}, ephemeral : BOOLEAN]

-----------------------------------------------------------------------------
(* What the parts of an action do to the types.                            *)

LEMMA NullIsNone == Null \notin Stmts /\ Null \notin Rows /\ Null \notin Watchers
BY NullAssumption

LEMMA EmptyRowsType ==
  /\ BeforeFirst \in Position /\ NoRows \in RowsObject
  /\ \A o \in {"none", "closed"} : [NoRows EXCEPT !.obj = o] \in RowsObject
  /\ \A s \in Stmts : [NoRows EXCEPT !.obj = "open", !.stmt = s] \in RowsObject
<1>1. 0 \in 0 .. MaxSize /\ 0 \in 0 .. MaxChunks
  BY SizeAssumption
<1>2. BeforeFirst \in Position
  BY <1>1 DEF BeforeFirst, Position
<1>3. NoRows \in RowsObject
  BY <1>1 DEF NoRows, RowsObject
<1> QED BY <1>2, <1>3 DEF RowsObject

\* Idle names nothing, so a call that returns leaves CallNames true.
LEMMA ReturnType ==
  ASSUME NEW out \in Outcome, Return(out)
  PROVE  call' \in Call /\ ret' \in Outcome /\ CallNames'
BY NullIsNone DEF Return, Idle, Call, CallNames

LEMMA BeginType ==
  ASSUME NEW op \in {"direct", "exec", "query"}, NEW s \in Stmts \cup {Null},
         NEW r \in Rows \cup {Null}, NEW c \in Ctx,
         op \in {"exec", "query"} <=> s \in Stmts,
         op = "query" <=> r \in Rows,
         r \in Rows => rows'[r].obj # "open",
         Begin(op, s, r, c)
  PROVE  call' \in Call /\ ret' \in Outcome /\ CallNames'
BY NullIsNone DEF Begin, Idle, Call, CallNames, Outcome

LEMMA PrepareOutcomesType ==
  ASSUME NEW c \in Ctx, NEW out \in PrepareOutcomes(c)
  PROVE  out \in Outcome
BY DEF PrepareOutcomes, Outcome

LEMMA NewStmtType ==
  ASSUME TypeOK, NEW s \in Stmts, NEW ephemeral \in BOOLEAN, NewStmt(s, ephemeral)
  PROVE  stmt' \in [Stmts -> StmtObject] /\ prepared' \subseteq Stmts
BY DEF TypeOK, NewStmt, StmtObject

LEMMA CloseStmtType ==
  ASSUME TypeOK, NEW s \in Stmts, CloseStmt(s)
  PROVE  stmt' \in [Stmts -> StmtObject] /\ prepared' \subseteq Stmts
BY DEF TypeOK, CloseStmt, StmtObject

LEMMA CloseEphemeralType ==
  ASSUME TypeOK, NEW s \in Stmts \cup {Null}, CloseEphemeral(s)
  PROVE  stmt' \in [Stmts -> StmtObject] /\ prepared' \subseteq Stmts
<1>1. CASE s \in Stmts /\ CloseStmt(s)
  BY <1>1, CloseStmtType
<1>2. CASE UNCHANGED <<stmt, prepared>>
  BY <1>2 DEF TypeOK, StmtObject
<1> QED BY <1>1, <1>2 DEF CloseEphemeral

LEMMA ReadNewChunkType ==
  ASSUME TypeInv, NEW r \in Rows, rows[r].obj = "open", ~HasRow(r),
         position[r].chunk < MaxChunks,
         NEW size \in 1 .. MaxSize, ReadNewChunk(r, size, 1)
  PROVE  /\ rows' \in [Rows -> RowsObject] /\ chunks' \in [Rows -> Nat]
         /\ position' \in [Rows -> Position]
         /\ RowsFollow'
<1>1. /\ rows' = [rows EXCEPT ![r].chunk = TRUE, ![r].chunkSize = size, ![r].chunkRow = 1]
      /\ chunks' = [chunks EXCEPT ![r] = @ - (IF rows[r].chunk THEN 1 ELSE 0) + 1]
      /\ position' = [position EXCEPT ![r] = [chunk |-> @.chunk + 1, size |-> size, row |-> 1]]
  BY DEF ReadNewChunk
<1>2. size \in 0 .. MaxSize /\ 1 \in 0 .. MaxSize /\ 1 <= size
  BY SizeAssumption
<1>3. rows' \in [Rows -> RowsObject]
  <2> DEFINE read == [rows[r] EXCEPT !.chunk = TRUE, !.chunkSize = size, !.chunkRow = 1]
  <2>1. rows \in [Rows -> RowsObject]
    BY DEF TypeInv, TypeOK
  <2>2. read \in RowsObject
    BY <1>2, <2>1 DEF RowsObject
  <2>3. rows' = [rows EXCEPT ![r] = read]
    BY <1>1, <2>1
  <2> QED BY <2>1, <2>2, <2>3
<1>4. position[r].chunk + 1 \in 0 .. MaxChunks
  BY SizeAssumption DEF TypeInv, TypeOK, Position
<1>5. position' \in [Rows -> Position]
  BY <1>1, <1>2, <1>4 DEF TypeInv, TypeOK, Position
<1>6. chunks' \in [Rows -> Nat] /\ \A q \in Rows : chunks'[q] = IF q = r THEN 1 ELSE chunks[q]
  BY <1>1 DEF TypeInv, TypeOK, RowsFollow
<1>7. RowsFollow'
  BY <1>1, <1>2, <1>6 DEF TypeInv, TypeOK, RowsFollow, RowsObject
<1> QED BY <1>3, <1>5, <1>6, <1>7

LEMMA CloseRowsType ==
  ASSUME TypeInv, NEW r \in Rows, rows[r].obj = "open", CloseRows(r)
  PROVE  /\ rows' \in [Rows -> RowsObject] /\ chunks' \in [Rows -> Nat]
         /\ position' \in [Rows -> Position] /\ results' \subseteq Rows
         /\ stmt' \in [Stmts -> StmtObject] /\ prepared' \subseteq Stmts
         /\ RowsFollow'
<1>1. rows[r].stmt \in Stmts /\ TypeOK /\ CloseEphemeral(rows[r].stmt)
  BY DEF TypeInv, RowsFollow, CloseRows
<1>2. stmt' \in [Stmts -> StmtObject] /\ prepared' \subseteq Stmts
  BY <1>1, CloseEphemeralType
<1>3. /\ rows' = [rows EXCEPT ![r] = [NoRows EXCEPT !.obj = "closed"]]
      /\ position' = [position EXCEPT ![r] = BeforeFirst]
      /\ chunks' = [chunks EXCEPT ![r] = @ - (IF rows[r].chunk THEN 1 ELSE 0)]
      /\ results' = results \ {r}
  BY DEF CloseRows
<1>4. [NoRows EXCEPT !.obj = "closed"] \in RowsObject /\ BeforeFirst \in Position
  BY EmptyRowsType
<1>5. rows' \in [Rows -> RowsObject] /\ position' \in [Rows -> Position] /\ results' \subseteq Rows
  BY <1>3, <1>4 DEF TypeInv, TypeOK
<1>6. chunks' \in [Rows -> Nat] /\ \A q \in Rows : chunks'[q] = IF q = r THEN 0 ELSE chunks[q]
  BY <1>3 DEF TypeInv, TypeOK, RowsFollow
<1>7. RowsFollow'
  BY <1>3, <1>6 DEF TypeInv, TypeOK, RowsFollow, NoRows, BeforeFirst
<1> QED BY <1>2, <1>5, <1>6, <1>7

\* Most steps leave the Rows alone, and those of the environment the call too.
LEMMA SameReading ==
  ASSUME TypeInv, UNCHANGED reading
  PROVE  RowsFollow' /\ (UNCHANGED call => CallNames')
BY DEF TypeInv, CallNames, RowsFollow, reading

LEMMA FillsType ==
  ASSUME TypeInv, call.pc \in {"execute", "run"},
         NEW state \in {"success", "interrupt", "error"}, Fills(state)
  PROVE  TypeInv'
<1>1. call' = [call EXCEPT !.pc = "stop", !.state = state] /\ UNCHANGED rows
  BY DEF Fills, reading
<1>2. call' \in Call /\ CallNames'
  BY <1>1 DEF TypeInv, TypeOK, Call, CallNames
<1>3. RowsFollow'
  BY SameReading DEF Fills
<1>4. results' \subseteq Rows /\ direct' \in BOOLEAN
  BY DEF TypeInv, TypeOK, CallNames, Fills
<1> QED BY <1>2, <1>3, <1>4 DEF Fills, TypeInv, TypeOK, connection, reading

LEMMA FinishType ==
  ASSUME TypeInv, Finish
  PROVE  TypeInv'
<1> USE DEF TypeInv
<1>1. call.pc = "stop" /\ StopWatcher(call.watcher) /\ UNCHANGED <<connection, chunks, position, cancelled, flag>>
  BY DEF Finish
<1>2. watcher' \in [Watchers -> WatcherState]
  BY <1>1, ZenonT(60) DEF StopWatcher, TypeOK, WatcherState
<1>3. CASE call.op = "query" /\ call.state = "success"
  <2> DEFINE opened == [NoRows EXCEPT !.obj = "open", !.stmt = call.stmt]
  <2>1. call.rows \in Rows /\ call.stmt \in Stmts /\ rows[call.rows].obj # "open"
    BY <1>3 DEF CallNames
  <2>2. /\ rows' = [rows EXCEPT ![call.rows] = opened] /\ Return("ok")
        /\ UNCHANGED <<stmt, prepared, results, direct>>
    BY <1>3 DEF Finish
  <2>3. opened \in RowsObject
    BY <2>1, EmptyRowsType
  <2>4. rows' \in [Rows -> RowsObject]
    BY <2>1, <2>2, <2>3 DEF TypeOK
  <2>5. RowsFollow'
    BY <1>1, <2>1, <2>2 DEF TypeOK, RowsFollow, NoRows, BeforeFirst
  <2>6. call' \in Call /\ ret' \in Outcome /\ CallNames'
    BY <2>2, ReturnType DEF Outcome
  <2> QED BY <1>1, <1>2, <2>2, <2>4, <2>5, <2>6 DEF TypeOK, connection
<1>4. CASE ~(call.op = "query" /\ call.state = "success")
  <2> DEFINE out == IF call.state = "success" THEN "ok"
                    ELSE IF call.ctx \in cancelled THEN "ctxErr" ELSE call.state
  <2>1. DestroyResult /\ CloseEphemeral(call.stmt) /\ Return(out) /\ UNCHANGED rows
    BY <1>4 DEF Finish
  <2>2. out \in Outcome
    BY DEF TypeOK, Call, Outcome
  <2>3. call' \in Call /\ ret' \in Outcome /\ CallNames'
    BY <2>1, <2>2, ReturnType
  <2>4. call.stmt \in Stmts \cup {Null}
    BY DEF TypeOK, Call
  <2>5. stmt' \in [Stmts -> StmtObject] /\ prepared' \subseteq Stmts
    BY <2>1, <2>4, CloseEphemeralType
  <2>6. results' \subseteq Rows /\ direct' \in BOOLEAN
    BY <2>1 DEF DestroyResult, TypeOK
  <2>7. RowsFollow'
    BY <1>1, <2>1, SameReading DEF reading
  <2> QED BY <1>1, <1>2, <2>1, <2>3, <2>5, <2>6, <2>7 DEF TypeOK, connection, StmtObject
<1> QED BY <1>3, <1>4

\* Every variable keeps to its set: the counter of chunks does not go below
\* zero, and chunkRow does not pass chunkSize.  Calls and Rows name real objects.
THEOREM TypeCorrect == Spec => []TypeInv
<1>1. Init => TypeInv
  <2> SUFFICES ASSUME Init PROVE TypeInv
    OBVIOUS
  <2>1. NoRows \in RowsObject /\ BeforeFirst \in Position
    BY EmptyRowsType
  <2>2. rows \in [Rows -> RowsObject] /\ position \in [Rows -> Position]
    BY <2>1 DEF Init
  <2>3. watcher \in [Watchers -> WatcherState]
    BY DEF Init, WatcherState, Ended
  <2>4. call \in Call /\ ret \in Outcome /\ CallNames
    BY NullIsNone DEF Init, Idle, Call, Outcome, CallNames
  <2>5. RowsFollow
    BY DEF Init, RowsFollow, NoRows, BeforeFirst
  <2> QED BY <2>2, <2>3, <2>4, <2>5 DEF Init, TypeInv, TypeOK
<1>2. TypeInv /\ [Next]_vars => TypeInv'
  <2> SUFFICES ASSUME TypeInv, [Next]_vars PROVE TypeInv'
    OBVIOUS
  <2> USE DEF TypeInv, TypeOK, connection, StmtObject
  <2>1. CASE Connect
    <3>1. Return("ok") /\ UNCHANGED reading
      BY <2>1 DEF Connect
    <3>2. call' \in Call /\ ret' \in Outcome /\ CallNames'
      BY <3>1, ReturnType DEF Outcome
    <3> QED BY <2>1, <3>1, <3>2, SameReading DEF Connect, reading
  <2>2. CASE ConnectFails
    <3>1. ret' \in Outcome /\ UNCHANGED call /\ UNCHANGED reading
      BY <2>2 DEF ConnectFails, Outcome
    <3> QED BY <2>2, <3>1, SameReading DEF ConnectFails, reading
  <2>3. CASE ConnClose
    <3>1. Return("ok") /\ UNCHANGED reading
      BY <2>3 DEF ConnClose
    <3>2. call' \in Call /\ ret' \in Outcome /\ CallNames'
      BY <3>1, ReturnType DEF Outcome
    <3> QED BY <2>3, <3>1, <3>2, SameReading DEF ConnClose, reading
  <2>4. ASSUME NEW c \in Ctx, Prepare(c) PROVE TypeInv'
    <3>1. PICK out \in PrepareOutcomes(c) :
            /\ Return(out)
            /\ IF out = "ok" THEN \E s \in FreeStmts : NewStmt(s, FALSE)
                             ELSE UNCHANGED <<stmt, prepared>>
      BY <2>4 DEF Prepare
    <3>2. call' \in Call /\ ret' \in Outcome /\ CallNames'
      BY <3>1, PrepareOutcomesType, ReturnType
    <3>3. stmt' \in [Stmts -> StmtObject] /\ prepared' \subseteq Stmts
      BY <3>1, NewStmtType DEF FreeStmts
    <3> QED BY <2>4, <3>2, <3>3, SameReading DEF Prepare, reading
  <2>5. ASSUME NEW c \in Ctx, Ephemeral(c) PROVE TypeInv'
    <3>1. PICK out \in PrepareOutcomes(c) :
            \/ /\ out = "ok"
               /\ \E s \in FreeStmts :
                    /\ NewStmt(s, TRUE)
                    /\ Begin("exec", s, Null, c) \/ \E r \in FreeRows : Begin("query", s, r, c)
            \/ /\ IF out = "ok" THEN BindFails ELSE Return(out)
               /\ UNCHANGED <<stmt, prepared>>
      BY <2>5 DEF Ephemeral
    <3>2. UNCHANGED <<connection, reading, watcher, cancelled, results, direct, flag>>
      BY <2>5 DEF Ephemeral
    <3>3. RowsFollow' /\ UNCHANGED rows
      BY <3>2, SameReading DEF reading
    <3>4. CASE \E s \in FreeStmts :
                 /\ NewStmt(s, TRUE)
                 /\ Begin("exec", s, Null, c) \/ \E r \in FreeRows : Begin("query", s, r, c)
      <4>1. PICK s \in FreeStmts :
              /\ NewStmt(s, TRUE)
              /\ Begin("exec", s, Null, c) \/ \E r \in FreeRows : Begin("query", s, r, c)
        BY <3>4
      <4>2. s \in Stmts
        BY DEF FreeStmts
      <4>3. stmt' \in [Stmts -> StmtObject] /\ prepared' \subseteq Stmts
        BY <4>1, <4>2, NewStmtType
      <4>4. call' \in Call /\ ret' \in Outcome /\ CallNames'
        BY <3>3, <4>1, <4>2, BeginType, NullIsNone DEF FreeRows
      <4> QED BY <3>2, <3>3, <4>3, <4>4 DEF reading
    <3>5. CASE (IF out = "ok" THEN BindFails ELSE Return(out)) /\ UNCHANGED <<stmt, prepared>>
      <4>1. call' \in Call /\ ret' \in Outcome /\ CallNames'
        BY <3>5, PrepareOutcomesType, ReturnType DEF BindFails, Outcome
      <4> QED BY <3>2, <3>3, <3>5, <4>1 DEF reading
    <3> QED BY <3>1, <3>4, <3>5
  <2>6. ASSUME NEW c \in Ctx, ExecDirect(c) PROVE TypeInv'
    <3>1. call' \in Call /\ ret' \in Outcome /\ CallNames'
      BY <2>6, BeginType, NullIsNone DEF ExecDirect
    <3> QED BY <2>6, <3>1, SameReading DEF ExecDirect, reading
  <2>7. ASSUME NEW s \in Stmts, NEW c \in Ctx, StmtRun(s, c) PROVE TypeInv'
    <3>1. UNCHANGED <<connection, stmt, reading, watcher, cancelled, prepared, results, direct, flag>>
      BY <2>7 DEF StmtRun
    <3>2. CASE BindFails
      <4>1. call' \in Call /\ ret' \in Outcome /\ CallNames'
        BY <3>2, ReturnType DEF BindFails, Outcome
      <4> QED BY <3>1, <4>1, SameReading DEF reading
    <3>3. CASE Begin("exec", s, Null, c) \/ \E r \in FreeRows : Begin("query", s, r, c)
      <4>1. call' \in Call /\ ret' \in Outcome /\ CallNames'
        BY <3>1, <3>3, BeginType, NullIsNone DEF FreeRows, reading
      <4> QED BY <3>1, <4>1, SameReading DEF reading
    <3> QED BY <2>7, <3>2, <3>3 DEF StmtRun
  <2>8. ASSUME NEW s \in Stmts, StmtClose(s) PROVE TypeInv'
    <3>1. stmt' \in [Stmts -> StmtObject] /\ prepared' \subseteq Stmts
      BY <2>8, CloseStmtType DEF StmtClose
    <3>2. call' \in Call /\ ret' \in Outcome /\ CallNames'
      BY <2>8, ReturnType DEF StmtClose, Outcome
    <3> QED BY <2>8, <3>1, <3>2, SameReading DEF StmtClose, reading
  <2>9. CASE Arm
    <3>1. UNCHANGED <<connection, stmt, reading, cancelled, ret, prepared, results, direct, flag>>
      BY <2>9 DEF Arm
    <3>2. call.pc = "arm" /\ call.op # "none" /\ call.ctx \in Ctx
      BY <2>9 DEF Arm, CallNames
    <3>3. CASE call' = [call EXCEPT !.pc = "execute"] /\ UNCHANGED watcher
      BY <3>1, <3>2, <3>3, SameReading DEF Call, CallNames, reading
    <3>4. CASE /\ call.ctx # Background
               /\ \E w \in FreeWatchers :
                    /\ call' = [call EXCEPT !.pc = "execute", !.watcher = w]
                    /\ watcher' = [watcher EXCEPT ![w] = [pc |-> "select", ctx |-> call.ctx,
                                                          done |-> FALSE]]
      <4>1. PICK w \in FreeWatchers :
              /\ call' = [call EXCEPT !.pc = "execute", !.watcher = w]
              /\ watcher' = [watcher EXCEPT ![w] = [pc |-> "select", ctx |-> call.ctx,
                                                    done |-> FALSE]]
        BY <3>4
      <4>2. w \in Watchers /\ call.ctx \in Ctxs
        BY <3>2, <3>4 DEF FreeWatchers, Ctx
      <4>3. watcher' \in [Watchers -> WatcherState]
        BY <4>1, <4>2 DEF WatcherState
      <4>4. call' \in Call /\ CallNames'
        BY <3>1, <3>2, <4>1, <4>2 DEF Call, CallNames, reading
      <4> QED BY <3>1, <4>3, <4>4, SameReading DEF reading
    <3> QED BY <2>9, <3>3, <3>4 DEF Arm
  <2>10. CASE Execute
    <3>1. call' \in Call /\ CallNames'
      BY <2>10 DEF Execute, Call, CallNames, reading
    <3> QED BY <2>10, <3>1, SameReading DEF Execute, reading
  <2>11. CASE ExecuteNull
    BY <2>11, FillsType DEF ExecuteNull
  <2>12. CASE Succeeds
    BY <2>12, FillsType DEF Succeeds
  <2>13. CASE Fails
    BY <2>13, FillsType DEF Fails
  <2>14. CASE Interrupted
    BY <2>14, FillsType DEF Interrupted
  <2>15. CASE Finish
    BY <2>15, FinishType
  <2>16. ASSUME NEW r \in Rows, NextRow(r) PROVE TypeInv'
    <3>1. /\ rows[r].obj = "open" /\ rows[r].chunk /\ rows[r].chunkRow < rows[r].chunkSize
          /\ rows' = [rows EXCEPT ![r].chunkRow = @ + 1]
          /\ position' = [position EXCEPT ![r].row = rows[r].chunkRow + 1]
          /\ UNCHANGED chunks
      BY <2>16 DEF NextRow, HasRow
    <3>2. rows[r].chunkRow + 1 \in 0 .. MaxSize
      BY <3>1, SizeAssumption DEF RowsObject
    <3>3. rows' \in [Rows -> RowsObject]
      BY <3>1, <3>2, SMTT(30) DEF RowsObject
    <3>4. position' \in [Rows -> Position]
      BY <3>1, <3>2 DEF Position
    <3>5. RowsFollow'
      BY <3>1 DEF RowsFollow, RowsObject, Position
    <3>6. call' \in Call /\ ret' \in Outcome /\ CallNames'
      BY <2>16, ReturnType DEF NextRow, Outcome
    <3> QED BY <2>16, <3>3, <3>4, <3>5, <3>6 DEF NextRow
  <2>17. ASSUME NEW r \in Rows, NextChunk(r) PROVE TypeInv'
    <3>1. PICK size \in 1 .. MaxSize : ReadNewChunk(r, size, 1)
      BY <2>17 DEF NextChunk
    <3>2. /\ rows' \in [Rows -> RowsObject] /\ chunks' \in [Rows -> Nat]
          /\ position' \in [Rows -> Position] /\ RowsFollow'
      BY <2>17, <3>1, ReadNewChunkType DEF NextChunk
    <3>3. call' \in Call /\ ret' \in Outcome /\ CallNames'
      BY <3>1, ReturnType DEF ReadNewChunk, Outcome
    <3> QED BY <2>17, <3>2, <3>3 DEF NextChunk
  <2>18. ASSUME NEW r \in Rows, NextEnds(r) \/ RowsClose(r) PROVE TypeInv'
    <3>1. /\ rows[r].obj = "open" /\ CloseRows(r)
          /\ UNCHANGED <<connection, watcher, cancelled, direct, flag>>
      BY <2>18 DEF NextEnds, RowsClose
    <3>2. call' \in Call /\ ret' \in Outcome /\ CallNames'
      BY <2>18, ReturnType DEF NextEnds, RowsClose, Outcome
    <3> QED BY <3>1, <3>2, CloseRowsType
  <2>19. ASSUME NEW c \in Ctxs, Cancel(c) PROVE TypeInv'
    BY <2>19, SameReading DEF Cancel, reading
  <2>20. ASSUME NEW w \in Watchers, WatcherFires(w) \/ WatcherInterrupts(w) \/ WatcherStops(w)
         PROVE  TypeInv'
    <3>1. UNCHANGED <<call, reading>>
      BY <2>20 DEF WatcherFires, WatcherInterrupts, WatcherStops
    <3>2. watcher' \in [Watchers -> WatcherState]
      BY <2>20 DEF WatcherFires, WatcherInterrupts, WatcherStops, WatcherState
    <3> QED BY <2>20, <3>1, <3>2, SameReading
            DEF WatcherFires, WatcherInterrupts, WatcherStops, reading
  <2>21. CASE UNCHANGED vars
    BY <2>21, SameReading DEF vars, reading
  <2> QED BY <2>1, <2>2, <2>3, <2>4, <2>5, <2>6, <2>7, <2>8, <2>9, <2>10, <2>11, <2>12, <2>13,
             <2>14, <2>15, <2>16, <2>17, <2>18, <2>19, <2>20, <2>21 DEF Next
<1> QED BY <1>1, <1>2, PTL DEF Spec

\* The variables of the model hold what its types say.
THEOREM TypeSafe == Spec => []TypeOK
<1>1. TypeInv => TypeOK
  BY DEF TypeInv
<1> QED
  BY <1>1, TypeCorrect, PTL

-----------------------------------------------------------------------------
(* Results and prepared statements.                                        *)

\* An ephemeral statement has one owner: the call that runs it, or one Rows.
\* It is open as long as it has, so that CloseEphemeral closes it once.
EphemeralOwned ==
  /\ call.stmt \in Stmts =>
       /\ stmt[call.stmt].obj = "open"
       /\ stmt[call.stmt].ephemeral => OpenRowsOf(call.stmt) = {}
  /\ \A r \in Rows : rows[r].obj = "open" /\ stmt[rows[r].stmt].ephemeral =>
       /\ stmt[rows[r].stmt].obj = "open"
       /\ OpenRowsOf(rows[r].stmt) = {r}

ResultsInv == TypeInv /\ EphemeralOwned /\ ResultsAccounted

\* A call that returns without having touched statements, Rows or results.
LEMMA ReturnKeeps ==
  ASSUME ResultsInv, call.stmt \notin Stmts, call.pc # "stop",
         NEW out \in Outcome, Return(out),
         UNCHANGED <<stmt, prepared, rows, results, direct>>
  PROVE  EphemeralOwned' /\ ResultsAccounted'
<1>1. call' = Idle
  BY DEF Return
<1>2. \A s \in Stmts : OpenRowsOf(s)' = OpenRowsOf(s)
  BY DEF OpenRowsOf
<1>3. EphemeralOwned'
  BY <1>1, <1>2, NullIsNone DEF ResultsInv, TypeInv, RowsFollow, EphemeralOwned, Idle
<1>4. ResultsAccounted'
  BY <1>1, <1>2, NullIsNone DEF ResultsInv, TypeInv, TypeOK, ResultsAccounted, Idle
<1> QED BY <1>3, <1>4

\* A call that begins on a statement that is open already, or on none.
LEMMA BeginKeeps ==
  ASSUME ResultsInv, call.stmt \notin Stmts, call.pc # "stop",
         NEW op, NEW s \in Stmts \cup {Null}, NEW r, NEW c,
         s \in Stmts => stmt[s].obj = "open" /\ ~stmt[s].ephemeral,
         Begin(op, s, r, c),
         UNCHANGED <<stmt, prepared, rows, results, direct>>
  PROVE  EphemeralOwned' /\ ResultsAccounted'
<1>1. call'.pc = "arm" /\ call'.stmt = s
  BY DEF Begin, Idle
<1>2. \A t \in Stmts : OpenRowsOf(t)' = OpenRowsOf(t)
  BY DEF OpenRowsOf
<1>3. EphemeralOwned'
  BY <1>1, <1>2, NullIsNone DEF ResultsInv, TypeInv, RowsFollow, EphemeralOwned
<1>4. ResultsAccounted'
  BY <1>1, <1>2 DEF ResultsInv, TypeInv, TypeOK, ResultsAccounted
<1> QED BY <1>3, <1>4

\* A new statement takes an object that no Rows read from.
LEMMA NewStmtKeeps ==
  ASSUME ResultsInv, call.stmt \notin Stmts, call.pc # "stop",
         NEW s \in FreeStmts, NEW ephemeral \in BOOLEAN, NewStmt(s, ephemeral),
         call'.stmt \in Stmts => call'.stmt = s,
         ephemeral => call'.stmt = s, call'.pc # "stop",
         UNCHANGED <<rows, results, direct>>
  PROVE  EphemeralOwned' /\ ResultsAccounted'
<1>1. s \in Stmts /\ OpenRowsOf(s) = {}
  BY DEF FreeStmts
<1>2. /\ stmt' = [stmt EXCEPT ![s] = [obj |-> "open", ephemeral |-> ephemeral]]
      /\ prepared' = prepared \cup {s}
  BY DEF NewStmt
<1>3. \A t \in Stmts : OpenRowsOf(t)' = OpenRowsOf(t)
  BY DEF OpenRowsOf
<1>4. \A r \in Rows : rows[r].obj = "open" => rows[r].stmt \in Stmts /\ rows[r].stmt # s
  BY <1>1 DEF OpenRowsOf, ResultsInv, TypeInv, RowsFollow
<1>5. EphemeralOwned'
  BY <1>1, <1>2, <1>3, <1>4 DEF ResultsInv, TypeInv, TypeOK, EphemeralOwned
<1>6. ResultsAccounted'
  BY <1>1, <1>2, <1>3 DEF ResultsInv, TypeInv, TypeOK, ResultsAccounted
<1> QED BY <1>5, <1>6

\* The same call goes on, and has no result yet.
LEMMA CallGoesOn ==
  ASSUME ResultsInv, call.pc # "stop", call'.pc # "stop", call'.stmt = call.stmt,
         UNCHANGED <<stmt, prepared, rows, results, direct>>
  PROVE  EphemeralOwned' /\ ResultsAccounted'
<1>1. \A s \in Stmts : OpenRowsOf(s)' = OpenRowsOf(s)
  BY DEF OpenRowsOf
<1>2. EphemeralOwned'
  BY <1>1 DEF ResultsInv, TypeInv, RowsFollow, EphemeralOwned
<1>3. ResultsAccounted'
  BY <1>1 DEF ResultsInv, TypeInv, TypeOK, ResultsAccounted
<1> QED BY <1>2, <1>3

LEMMA FillsKeeps ==
  ASSUME ResultsInv, call.pc \in {"execute", "run"}, NEW state, Fills(state)
  PROVE  EphemeralOwned' /\ ResultsAccounted'
<1>1. /\ call'.pc = "stop" /\ call'.stmt = call.stmt /\ call'.rows = call.rows
      /\ IF call.op = "query"
           THEN results' = results \cup {call.rows} /\ UNCHANGED direct
           ELSE direct' = TRUE /\ UNCHANGED results
      /\ UNCHANGED <<stmt, prepared, rows>>
  BY DEF Fills, reading, ResultsInv, TypeInv, TypeOK, Call
<1>2. /\ ~direct
      /\ call.op = "query" => call.rows \in Rows
      /\ call.op # "query" => call.rows = Null
  BY DEF ResultsInv, TypeInv, TypeOK, CallNames, Call, ResultsAccounted
<1>3. \A s \in Stmts : OpenRowsOf(s)' = OpenRowsOf(s)
  BY <1>1 DEF OpenRowsOf
<1>4. EphemeralOwned'
  BY <1>1, <1>3 DEF ResultsInv, TypeInv, RowsFollow, EphemeralOwned
<1>5. ResultsAccounted'
  BY <1>1, <1>2, <1>3, NullIsNone DEF ResultsInv, TypeInv, TypeOK, ResultsAccounted
<1> QED BY <1>4, <1>5

\* Rows that are closed take their result along and, if it is ephemeral, their
\* statement, which no other Rows have.
LEMMA CloseRowsKeeps ==
  ASSUME ResultsInv, call.pc = "idle", NEW r \in Rows, rows[r].obj = "open", CloseRows(r),
         NEW out \in Outcome, Return(out), UNCHANGED direct
  PROVE  EphemeralOwned' /\ ResultsAccounted'
<1> DEFINE s == rows[r].stmt
<1>1. call' = Idle /\ call.op = "none" /\ call.stmt \notin Stmts
  BY DEF Return, ResultsInv, TypeInv, CallNames
<1>2. /\ rows' = [rows EXCEPT ![r] = [NoRows EXCEPT !.obj = "closed"]]
      /\ results' = results \ {r}
      /\ CloseEphemeral(s)
  BY DEF CloseRows
<1>3. \A q \in Rows : /\ q = r => rows'[q].obj = "closed"
                      /\ q # r => rows'[q] = rows[q]
  BY <1>2 DEF ResultsInv, TypeInv, TypeOK, NoRows
<1>4. s \in Stmts /\ stmt \in [Stmts -> StmtObject]
  BY DEF ResultsInv, TypeInv, TypeOK, RowsFollow, StmtObject
<1>5. \A t \in Stmts : OpenRowsOf(t)' = OpenRowsOf(t) \ {r}
  BY <1>3 DEF OpenRowsOf
<1>6. stmt[s].ephemeral => stmt[s].obj = "open" /\ OpenRowsOf(s) = {r}
  BY DEF ResultsInv, EphemeralOwned
<1>7. \A q \in Rows : q # r /\ rows[q].obj = "open" /\ stmt[rows[q].stmt].ephemeral =>
        /\ rows[q].stmt \in Stmts /\ rows[q].stmt # s
        /\ stmt[rows[q].stmt].obj = "open"
        /\ OpenRowsOf(rows[q].stmt) = {q}
  BY <1>6 DEF ResultsInv, TypeInv, RowsFollow, EphemeralOwned, OpenRowsOf
<1>8. CASE stmt[s].ephemeral
  <2>1. stmt' = [stmt EXCEPT ![s].obj = "closed"] /\ prepared' = prepared \ {s}
    BY <1>2, <1>4, <1>8, NullIsNone DEF CloseEphemeral, CloseStmt
  <2>2. \A t \in Stmts : /\ stmt'[t].ephemeral = stmt[t].ephemeral
                         /\ stmt'[t].obj = IF t = s THEN "closed" ELSE stmt[t].obj
    BY <1>4, <2>1 DEF StmtObject
  <2>3. ASSUME NEW q \in Rows, rows'[q].obj = "open", stmt'[rows'[q].stmt].ephemeral
        PROVE  stmt'[rows'[q].stmt].obj = "open" /\ OpenRowsOf(rows[q].stmt)' = {q}
    <3>1. q # r /\ rows'[q] = rows[q] /\ rows[q].obj = "open" /\ rows[q].stmt \in Stmts
      BY <1>3, <2>3 DEF ResultsInv, TypeInv, RowsFollow
    <3>2. rows[q].stmt # s /\ stmt[rows[q].stmt].obj = "open" /\ OpenRowsOf(rows[q].stmt) = {q}
      BY <1>7, <2>2, <2>3, <3>1
    <3>3. OpenRowsOf(rows[q].stmt)' = OpenRowsOf(rows[q].stmt) \ {r}
      BY <1>5, <3>1
    <3> QED BY <2>2, <3>1, <3>2, <3>3
  <2>5. EphemeralOwned'
    BY <1>1, <2>3, NullIsNone DEF EphemeralOwned, Idle
  <2>4. ResultsAccounted'
    BY <1>1, <1>2, <1>3, <1>5, <1>6, <2>1, <2>2, NullIsNone
       DEF ResultsAccounted, ResultsInv, TypeInv, TypeOK, Idle, OpenRowsOf
  <2> QED BY <2>4, <2>5
<1>9. CASE ~stmt[s].ephemeral
  <2>1. UNCHANGED <<stmt, prepared>>
    BY <1>2, <1>9 DEF CloseEphemeral
  <2>2. EphemeralOwned'
    BY <1>1, <1>3, <1>4, <1>5, <1>7, <2>1, NullIsNone
       DEF EphemeralOwned, Idle, ResultsInv, TypeInv, RowsFollow
  <2>3. \A t \in prepared : stmt[t].ephemeral => t # s /\ OpenRowsOf(t) # {}
    BY <1>1, <1>9 DEF ResultsAccounted, ResultsInv, TypeInv, TypeOK
  <2>4. \A t \in prepared : stmt[t].ephemeral => OpenRowsOf(t)' # {}
    BY <1>5, <2>3 DEF OpenRowsOf, ResultsInv, TypeInv, TypeOK
  <2>5. ResultsAccounted'
    BY <1>1, <1>2, <1>3, <2>1, <2>4, NullIsNone
       DEF ResultsAccounted, ResultsInv, TypeInv, TypeOK, Idle
  <2> QED BY <2>2, <2>5
<1> QED BY <1>8, <1>9

\* At the end of a call its result is destroyed or becomes open Rows, and its
\* ephemeral statement is closed or becomes theirs.
LEMMA FinishKeeps ==
  ASSUME ResultsInv, Finish
  PROVE  EphemeralOwned' /\ ResultsAccounted'
<1>1. call.pc = "stop" /\ call' = Idle
  BY DEF Finish, Return
<1>2. stmt \in [Stmts -> StmtObject] /\ rows \in [Rows -> RowsObject]
  BY DEF ResultsInv, TypeInv, TypeOK, StmtObject
<1>3. CASE call.op = "query" /\ call.state = "success"
  <2> DEFINE r == call.rows
             s == call.stmt
  <2>1. r \in Rows /\ s \in Stmts /\ rows[r].obj # "open"
    BY <1>3 DEF ResultsInv, TypeInv, CallNames
  <2>2. /\ rows' = [rows EXCEPT ![r] = [NoRows EXCEPT !.obj = "open", !.stmt = s]]
        /\ UNCHANGED <<stmt, prepared, results, direct>>
    BY <1>3 DEF Finish
  <2>3. \A q \in Rows : /\ q = r => rows'[q].obj = "open" /\ rows'[q].stmt = s
                        /\ q # r => rows'[q] = rows[q]
    BY <1>2, <2>1, <2>2 DEF NoRows
  <2>4. \A t \in Stmts : OpenRowsOf(t)' = IF t = s THEN OpenRowsOf(t) \cup {r} ELSE OpenRowsOf(t)
    BY <2>1, <2>3 DEF OpenRowsOf
  <2>5. stmt[s].obj = "open" /\ (stmt[s].ephemeral => OpenRowsOf(s) = {})
    BY <2>1 DEF ResultsInv, EphemeralOwned
  <2>6. \A q \in Rows : q # r /\ rows[q].obj = "open" /\ stmt[rows[q].stmt].ephemeral =>
          /\ rows[q].stmt \in Stmts /\ rows[q].stmt # s
          /\ stmt[rows[q].stmt].obj = "open"
          /\ OpenRowsOf(rows[q].stmt) = {q}
    BY <2>5 DEF ResultsInv, TypeInv, RowsFollow, EphemeralOwned, OpenRowsOf
  <2>7. ASSUME NEW q \in Rows, rows'[q].obj = "open", stmt'[rows'[q].stmt].ephemeral
        PROVE  stmt'[rows'[q].stmt].obj = "open" /\ OpenRowsOf(rows[q].stmt)' = {q}
    <3>1. CASE q = r
      <4>1. rows'[q].stmt = s /\ stmt[s].ephemeral
        BY <2>2, <2>3, <2>7, <3>1
      <4>2. \A t \in Stmts : t = s => OpenRowsOf(t)' = {r}
        BY <2>4, <2>5, <4>1
      <4> QED BY <2>1, <2>2, <2>5, <3>1, <4>1, <4>2
    <3>2. CASE q # r
      <4>1. rows'[q] = rows[q] /\ rows[q].stmt \in Stmts /\ rows[q].stmt # s
        BY <2>2, <2>3, <2>6, <2>7, <3>2
      <4>2. OpenRowsOf(rows[q].stmt)' = OpenRowsOf(rows[q].stmt)
        BY <2>4, <4>1
      <4> QED BY <2>2, <2>6, <2>7, <3>2, <4>1, <4>2
    <3> QED BY <3>1, <3>2
  <2>8. EphemeralOwned'
    BY <1>1, <2>7, NullIsNone DEF EphemeralOwned, Idle
  <2>9. \A q \in Rows : q \in results' <=> rows'[q].obj = "open"
    BY <1>1, <2>1, <2>2, <2>3 DEF ResultsInv, ResultsAccounted
  <2>10. ~direct' /\ prepared' = {t \in Stmts : stmt'[t].obj = "open"}
    BY <2>1, <2>2, NullIsNone DEF ResultsInv, ResultsAccounted
  <2>11. \A t \in Stmts : t \in prepared /\ stmt[t].ephemeral => OpenRowsOf(t)' # {}
    BY <2>4 DEF ResultsInv, ResultsAccounted
  <2>12. ResultsAccounted'
    BY <1>1, <2>2, <2>9, <2>10, <2>11, NullIsNone DEF ResultsAccounted, Idle
  <2> QED BY <2>8, <2>12
<1>4. CASE ~(call.op = "query" /\ call.state = "success")
  <2> DEFINE s == call.stmt
  <2>1. DestroyResult /\ CloseEphemeral(s) /\ UNCHANGED rows
    BY <1>4 DEF Finish
  <2>2. \A t \in Stmts : OpenRowsOf(t)' = OpenRowsOf(t)
    BY <2>1 DEF OpenRowsOf
  <2>3. s \in Stmts \cup {Null}
    BY DEF ResultsInv, TypeInv, TypeOK, Call
  <2>4. \A r \in Rows : r \in results' <=> rows[r].obj = "open"
    BY <1>1, <2>1 DEF DestroyResult, ResultsInv, TypeInv, CallNames, ResultsAccounted
  <2>5. CASE s \in Stmts /\ stmt[s].ephemeral
    <3>1. stmt' = [stmt EXCEPT ![s].obj = "closed"] /\ prepared' = prepared \ {s}
      BY <2>1, <2>5, NullIsNone DEF CloseEphemeral, CloseStmt
    <3>2. \A t \in Stmts : /\ stmt'[t].ephemeral = stmt[t].ephemeral
                           /\ stmt'[t].obj = IF t = s THEN "closed" ELSE stmt[t].obj
      BY <1>2, <2>5, <3>1 DEF StmtObject
    <3>3. \A q \in Rows : rows[q].obj = "open" => rows[q].stmt \in Stmts /\ rows[q].stmt # s
      BY <2>5 DEF ResultsInv, TypeInv, RowsFollow, EphemeralOwned, OpenRowsOf
    <3>4. EphemeralOwned'
      BY <1>1, <2>1, <2>2, <3>2, <3>3, NullIsNone DEF EphemeralOwned, Idle, ResultsInv
    <3>5. ResultsAccounted'
      BY <1>1, <2>1, <2>2, <2>4, <3>1, <3>2, NullIsNone
         DEF DestroyResult, ResultsAccounted, ResultsInv, TypeInv, TypeOK, Idle
    <3> QED BY <3>4, <3>5
  <2>6. CASE ~(s \in Stmts /\ stmt[s].ephemeral)
    <3>1. UNCHANGED <<stmt, prepared>>
      BY <2>1, <2>3, <2>6 DEF CloseEphemeral
    <3>2. EphemeralOwned'
      BY <1>1, <2>1, <2>2, <3>1, NullIsNone
         DEF EphemeralOwned, Idle, ResultsInv, TypeInv, RowsFollow
    <3>3. ResultsAccounted'
      BY <1>1, <2>1, <2>2, <2>4, <2>6, <3>1, NullIsNone
         DEF DestroyResult, ResultsAccounted, ResultsInv, TypeInv, TypeOK, Idle
    <3> QED BY <3>2, <3>3
  <2> QED BY <2>5, <2>6
<1> QED BY <1>3, <1>4

\* Every result of the library is destroyed once, of failed executions too,
\* and no ephemeral statement outlives its call or its Rows.
THEOREM ResultsAreAccounted == Spec => [](EphemeralOwned /\ ResultsAccounted)
<1>1. Init => EphemeralOwned /\ ResultsAccounted
  BY NullIsNone DEF Init, Idle, NoRows, EphemeralOwned, ResultsAccounted, OpenRowsOf
<1>2. ResultsInv /\ [Next]_vars => EphemeralOwned' /\ ResultsAccounted'
  <2> SUFFICES ASSUME ResultsInv, [Next]_vars PROVE EphemeralOwned' /\ ResultsAccounted'
    OBVIOUS
  <2> DEFINE Idling == call.pc # "stop" /\ call.stmt \notin Stmts
  <2>0. call.pc \in {"unconnected", "idle"} => Idling
    BY DEF ResultsInv, TypeInv, CallNames
  <2>1. CASE Connect
    BY <2>0, <2>1, ReturnKeeps DEF Connect, Outcome, reading
  <2>2. CASE ConnectFails
    BY <2>0, <2>2, CallGoesOn DEF ConnectFails, reading
  <2>3. CASE ConnClose
    BY <2>0, <2>3, ReturnKeeps DEF ConnClose, Outcome, reading
  <2>4. ASSUME NEW c \in Ctx, Prepare(c) PROVE EphemeralOwned' /\ ResultsAccounted'
    <3>1. PICK out \in PrepareOutcomes(c) :
            /\ Return(out)
            /\ IF out = "ok" THEN \E s \in FreeStmts : NewStmt(s, FALSE)
                             ELSE UNCHANGED <<stmt, prepared>>
      BY <2>4 DEF Prepare
    <3>2. Idling /\ UNCHANGED <<rows, results, direct>> /\ call'.stmt = Null /\ call'.pc = "idle"
      BY <2>0, <2>4, <3>1 DEF Prepare, reading, Return, Idle
    <3>3. CASE UNCHANGED <<stmt, prepared>>
      BY <3>1, <3>2, <3>3, PrepareOutcomesType, ReturnKeeps
    <3>4. CASE \E s \in FreeStmts : NewStmt(s, FALSE)
      BY <3>2, <3>4, NewStmtKeeps, NullIsNone
    <3> QED BY <3>1, <3>3, <3>4
  <2>5. ASSUME NEW c \in Ctx, Ephemeral(c) PROVE EphemeralOwned' /\ ResultsAccounted'
    <3>1. Idling /\ UNCHANGED <<rows, results, direct>>
      BY <2>0, <2>5 DEF Ephemeral, reading
    <3>2. PICK out \in PrepareOutcomes(c) :
            \/ \E s \in FreeStmts :
                 /\ NewStmt(s, TRUE)
                 /\ Begin("exec", s, Null, c) \/ \E r \in FreeRows : Begin("query", s, r, c)
            \/ /\ IF out = "ok" THEN BindFails ELSE Return(out)
               /\ UNCHANGED <<stmt, prepared>>
      BY <2>5 DEF Ephemeral
    <3>3. ASSUME NEW s \in FreeStmts, NewStmt(s, TRUE),
                 Begin("exec", s, Null, c) \/ \E r \in FreeRows : Begin("query", s, r, c)
          PROVE  EphemeralOwned' /\ ResultsAccounted'
      <4>1. call'.stmt = s /\ call'.pc = "arm"
        BY <3>3 DEF Begin, Idle
      <4> QED BY <3>1, <3>3, <4>1, NewStmtKeeps
    <3>4. CASE (IF out = "ok" THEN BindFails ELSE Return(out)) /\ UNCHANGED <<stmt, prepared>>
      <4>1. \E o \in Outcome : Return(o)
        BY <3>4, PrepareOutcomesType DEF BindFails, Outcome
      <4> QED BY <3>1, <3>4, <4>1, ReturnKeeps
    <3> QED BY <3>2, <3>3, <3>4
  <2>6. ASSUME NEW c \in Ctx, ExecDirect(c) PROVE EphemeralOwned' /\ ResultsAccounted'
    BY <2>0, <2>6, BeginKeeps, NullIsNone DEF ExecDirect, reading
  <2>7. ASSUME NEW s \in Stmts, NEW c \in Ctx, StmtRun(s, c)
        PROVE  EphemeralOwned' /\ ResultsAccounted'
    <3>1. /\ Idling /\ stmt[s].obj = "open" /\ ~stmt[s].ephemeral
          /\ UNCHANGED <<stmt, prepared, rows, results, direct>>
      BY <2>0, <2>7 DEF StmtRun, reading
    <3>2. \/ \E o \in Outcome : Return(o)
          \/ \E op, r : Begin(op, s, r, c)
      BY <2>7 DEF StmtRun, BindFails, Outcome
    <3> QED BY <3>1, <3>2, ReturnKeeps, BeginKeeps
  <2>8. ASSUME NEW s \in Stmts, StmtClose(s) PROVE EphemeralOwned' /\ ResultsAccounted'
    <3>1. /\ Idling /\ ~stmt[s].ephemeral /\ call' = Idle
          /\ stmt' = [stmt EXCEPT ![s].obj = "closed"] /\ prepared' = prepared \ {s}
          /\ UNCHANGED <<rows, results, direct>>
      BY <2>0, <2>8 DEF StmtClose, CloseStmt, Return, reading
    <3>2. \A t \in Stmts : /\ stmt'[t].ephemeral = stmt[t].ephemeral
                           /\ stmt'[t].obj = IF t = s THEN "closed" ELSE stmt[t].obj
      BY <3>1 DEF ResultsInv, TypeInv, TypeOK
    <3>3. \A t \in Stmts : OpenRowsOf(t)' = OpenRowsOf(t)
      BY <3>1 DEF OpenRowsOf
    <3>4. EphemeralOwned'
      BY <3>1, <3>2, <3>3, NullIsNone DEF EphemeralOwned, Idle, ResultsInv, TypeInv, RowsFollow
    <3>5. ResultsAccounted'
      BY <3>1, <3>2, <3>3, NullIsNone DEF ResultsAccounted, ResultsInv, TypeInv, TypeOK, Idle
    <3> QED BY <3>4, <3>5
  <2>9. CASE Arm
    BY <2>9, CallGoesOn DEF Arm, reading, ResultsInv, TypeInv, TypeOK, Call
  <2>10. CASE Execute
    BY <2>10, CallGoesOn DEF Execute, reading, ResultsInv, TypeInv, TypeOK, Call
  <2>11. CASE ExecuteNull \/ Succeeds \/ Fails \/ Interrupted
    BY <2>11, FillsKeeps DEF ExecuteNull, Succeeds, Fails, Interrupted
  <2>12. CASE Finish
    BY <2>12, FinishKeeps
  <2>13. ASSUME NEW r \in Rows, NextRow(r) \/ NextChunk(r)
         PROVE  EphemeralOwned' /\ ResultsAccounted'
    <3>1. Idling /\ call' = Idle /\ UNCHANGED <<stmt, prepared, results, direct>>
      BY <2>0, <2>13 DEF NextRow, NextChunk, ReadNewChunk, Return
    <3>2. \A q \in Rows : rows'[q].obj = rows[q].obj /\ rows'[q].stmt = rows[q].stmt
      <4>1. rows \in [Rows -> RowsObject]
        BY DEF ResultsInv, TypeInv, TypeOK
      <4>2. CASE NextRow(r)
        BY <4>1, <4>2 DEF NextRow, RowsObject
      <4>3. CASE NextChunk(r)
        <5>1. PICK size \in 1 .. MaxSize :
                rows' = [rows EXCEPT ![r].chunk = TRUE, ![r].chunkSize = size, ![r].chunkRow = 1]
          BY <4>3 DEF NextChunk, ReadNewChunk
        <5>2. rows' = [rows EXCEPT ![r] =
                        [rows[r] EXCEPT !.chunk = TRUE, !.chunkSize = size, !.chunkRow = 1]]
          BY <4>1, <5>1
        <5> QED BY <4>1, <5>2 DEF RowsObject
      <4> QED BY <2>13, <4>2, <4>3
    <3>3. \A s \in Stmts : OpenRowsOf(s)' = OpenRowsOf(s)
      BY <3>2 DEF OpenRowsOf
    <3>4. EphemeralOwned'
      BY <3>1, <3>2, <3>3, NullIsNone DEF EphemeralOwned, Idle, ResultsInv, TypeInv, RowsFollow
    <3>5. ResultsAccounted'
      BY <3>1, <3>2, <3>3, NullIsNone DEF ResultsAccounted, ResultsInv, TypeInv, TypeOK, Idle
    <3> QED BY <3>4, <3>5
  <2>14. ASSUME NEW r \in Rows, NextEnds(r) \/ RowsClose(r)
         PROVE  EphemeralOwned' /\ ResultsAccounted'
    BY <2>14, CloseRowsKeeps DEF NextEnds, RowsClose, Outcome
  <2>15. CASE UNCHANGED <<call, stmt, prepared, rows, results, direct>>
    <3>1. \A s \in Stmts : OpenRowsOf(s)' = OpenRowsOf(s)
      BY <2>15 DEF OpenRowsOf
    <3>2. EphemeralOwned'
      BY <2>15, <3>1 DEF ResultsInv, TypeInv, RowsFollow, EphemeralOwned
    <3>3. ResultsAccounted'
      BY <2>15, <3>1 DEF ResultsInv, TypeInv, TypeOK, ResultsAccounted
    <3> QED BY <3>2, <3>3
  <2>16. ASSUME NEW c \in Ctxs, Cancel(c) PROVE EphemeralOwned' /\ ResultsAccounted'
    BY <2>15, <2>16 DEF Cancel, reading
  <2>17. ASSUME NEW w \in Watchers, WatcherFires(w) \/ WatcherInterrupts(w) \/ WatcherStops(w)
         PROVE  EphemeralOwned' /\ ResultsAccounted'
    BY <2>15, <2>17 DEF WatcherFires, WatcherInterrupts, WatcherStops, reading
  <2>18. CASE UNCHANGED vars
    BY <2>15, <2>18 DEF vars, reading
  <2> QED BY <2>1, <2>2, <2>3, <2>4, <2>5, <2>6, <2>7, <2>8, <2>9, <2>10, <2>11, <2>12, <2>13,
             <2>14, <2>16, <2>17, <2>18 DEF Next
<1> QED BY <1>1, <1>2, TypeCorrect, PTL DEF Spec, ResultsInv

-----------------------------------------------------------------------------
(* Chunks and the rows read from them.                                     *)

\* Rows have one data chunk at most, only while their result exists, and have
\* given it back when they are closed.
THEOREM ChunksAreAccounted == Spec => []ChunksAccounted
<1>1. TypeInv /\ ResultsAccounted => ChunksAccounted
  BY DEF TypeInv, RowsFollow, ResultsAccounted, ChunksAccounted
<1> QED BY <1>1, TypeCorrect, ResultsAreAccounted, PTL

\* What RowsInOrder says of one Rows.
InOrder(r) ==
  \/ position'[r] = position[r]
  \/ position'[r] = [position[r] EXCEPT !.row = @ + 1]
  \/ /\ position'[r].chunk = position[r].chunk + 1
     /\ position'[r].row = 1
     /\ position[r].row = position[r].size
  \/ /\ rows'[r].obj = "closed"
     /\ ret' = "eof" => position[r].row = position[r].size

\* Without a row left the reader is at the end of its chunk, or before the first.
LEMMA NoRowLeft ==
  ASSUME TypeInv, NEW r \in Rows, ~HasRow(r)
  PROVE  position[r].row = position[r].size
<1>1. CASE ~rows[r].chunk
  BY <1>1 DEF TypeInv, RowsFollow, BeforeFirst
<1>2. CASE rows[r].chunk
  <2>1. rows[r].chunkRow \in Nat /\ rows[r].chunkSize \in Nat
    BY DEF TypeInv, TypeOK, RowsObject
  <2> QED BY <1>2, <2>1 DEF TypeInv, RowsFollow, HasRow
<1> QED BY <1>1, <1>2

\* Next returns the rows of a result in order and leaves none out where one
\* chunk ends and the next begins; it says io.EOF at the end of a chunk only.
THEOREM RowsAreInOrder == Spec => RowsInOrder
<1>1. TypeInv /\ [Next]_vars => [\A r \in Rows : InOrder(r)]_vars
  <2> SUFFICES ASSUME TypeInv, Next, NEW r \in Rows PROVE InOrder(r)
    OBVIOUS
  <2>1. CASE UNCHANGED position
    BY <2>1 DEF InOrder
  <2>2. ASSUME NEW q \in Rows, NextRow(q) PROVE InOrder(r)
    <3>1. position' = [position EXCEPT ![q].row = @ + 1]
      BY <2>2 DEF NextRow, TypeInv, TypeOK, Position, RowsFollow
    <3> QED BY <3>1 DEF InOrder, TypeInv, TypeOK, Position
  <2>3. ASSUME NEW q \in Rows, NextChunk(q) PROVE InOrder(r)
    <3>1. PICK size \in 1 .. MaxSize :
            position' = [position EXCEPT ![q] = [chunk |-> @.chunk + 1, size |-> size, row |-> 1]]
      BY <2>3 DEF NextChunk, ReadNewChunk
    <3>2. position[q].row = position[q].size
      BY <2>3, NoRowLeft DEF NextChunk
    <3> QED BY <3>1, <3>2 DEF InOrder, TypeInv, TypeOK
  <2>4. ASSUME NEW q \in Rows, CloseRows(q),
               ~HasRow(q) \/ (RowsClose(q) /\ ret' = "ok")
        PROVE  InOrder(r)
    <3>1. /\ position' = [position EXCEPT ![q] = BeforeFirst]
          /\ rows' = [rows EXCEPT ![q] = [NoRows EXCEPT !.obj = "closed"]]
      BY <2>4 DEF CloseRows
    <3>2. q # r => position'[r] = position[r]
      BY <3>1 DEF TypeInv, TypeOK
    <3>3. rows'[q].obj = "closed"
      BY <3>1 DEF TypeInv, TypeOK, NoRows
    <3>4. ret' = "eof" => position[q].row = position[q].size
      BY <2>4, NoRowLeft
    <3> QED BY <3>2, <3>3, <3>4 DEF InOrder
  <2>5. ASSUME NEW q \in Rows, NextEnds(q) \/ RowsClose(q) PROVE InOrder(r)
    BY <2>4, <2>5 DEF NextEnds, RowsClose, Return
  <2>6. UNCHANGED position \/ \E q \in Rows : NextRow(q) \/ NextChunk(q) \/ NextEnds(q) \/ RowsClose(q)
    BY DEF Next, Connect, ConnectFails, ConnClose, Prepare, Ephemeral, ExecDirect, StmtRun,
           StmtClose, Arm, Execute, ExecuteNull, Succeeds, Fails, Interrupted, Fills, Finish,
           Cancel, WatcherFires, WatcherInterrupts, WatcherStops, reading
  <2> QED BY <2>1, <2>2, <2>3, <2>5, <2>6
<1> QED BY <1>1, TypeCorrect, PTL DEF Spec, RowsInOrder, InOrder

-----------------------------------------------------------------------------
(* Watchers.                                                               *)

\* A goroutine that waits and was not told to end belongs to the call in
\* progress, on every return path.
THEOREM NoWatcherIsOrphan == Spec => []NoOrphanWatcher
<1>1. Init => NoOrphanWatcher
  BY DEF Init, Ended, NoOrphanWatcher
<1>2. TypeInv /\ NoOrphanWatcher /\ [Next]_vars => NoOrphanWatcher'
  <2> SUFFICES ASSUME TypeInv, NoOrphanWatcher, [Next]_vars PROVE NoOrphanWatcher'
    OBVIOUS
  <2> DEFINE Waits(w) == watcher[w].pc = "select" /\ ~watcher[w].done
  <2>0. call.pc \in {"unconnected", "idle", "arm"} => \A w \in Watchers : ~Waits(w)
    BY DEF NoOrphanWatcher
  <2>1. CASE call.pc \in {"unconnected", "idle"} /\ UNCHANGED watcher
    BY <2>0, <2>1 DEF NoOrphanWatcher
  <2>2. CASE Arm
    <3>1. CASE UNCHANGED watcher
      BY <2>0, <2>2, <3>1 DEF Arm, NoOrphanWatcher
    <3>2. CASE \E w \in FreeWatchers :
                 /\ call' = [call EXCEPT !.pc = "execute", !.watcher = w]
                 /\ watcher' = [watcher EXCEPT ![w] = [pc |-> "select", ctx |-> call.ctx,
                                                       done |-> FALSE]]
      <4>1. PICK w \in FreeWatchers :
              /\ call' = [call EXCEPT !.pc = "execute", !.watcher = w]
              /\ watcher' = [watcher EXCEPT ![w] = [pc |-> "select", ctx |-> call.ctx,
                                                    done |-> FALSE]]
        BY <3>2
      <4>2. call'.pc = "execute" /\ call'.watcher = w
        BY <4>1 DEF TypeInv, TypeOK, Call
      <4>3. \A v \in Watchers : v # w => watcher'[v] = watcher[v]
        BY <4>1 DEF TypeInv, TypeOK
      <4> QED BY <2>0, <2>2, <4>2, <4>3 DEF Arm, NoOrphanWatcher
    <3> QED BY <2>2, <3>1, <3>2 DEF Arm
  <2>3. CASE /\ call.pc \in {"execute", "run"} /\ call'.pc \in {"run", "stop"}
             /\ call'.watcher = call.watcher /\ UNCHANGED watcher
    BY <2>3 DEF NoOrphanWatcher
  <2>4. CASE Execute \/ ExecuteNull \/ Succeeds \/ Fails \/ Interrupted
    BY <2>3, <2>4 DEF Execute, ExecuteNull, Succeeds, Fails, Interrupted, Fills,
                      TypeInv, TypeOK, Call
  <2>5. CASE Finish
    <3>1. watcher' = IF call.watcher = Null THEN watcher
                     ELSE [watcher EXCEPT ![call.watcher].done = TRUE]
      BY <2>5 DEF Finish, StopWatcher
    <3>2. \A w \in Watchers : Waits(w) => w = call.watcher
      BY DEF NoOrphanWatcher
    <3>3. \A w \in Watchers : ~(watcher'[w].pc = "select" /\ ~watcher'[w].done)
      BY <3>1, <3>2, NullIsNone DEF TypeInv, TypeOK, WatcherState
    <3> QED BY <3>3 DEF NoOrphanWatcher
  <2>6. ASSUME NEW w \in Watchers, WatcherFires(w) \/ WatcherInterrupts(w) \/ WatcherStops(w)
        PROVE  NoOrphanWatcher'
    <3>1. UNCHANGED call /\ \A v \in Watchers : watcher'[v] = watcher[v] \/ watcher'[v].pc # "select"
      BY <2>6 DEF WatcherFires, WatcherInterrupts, WatcherStops, TypeInv, TypeOK, WatcherState
    <3> QED BY <3>1 DEF NoOrphanWatcher
  <2>7. CASE UNCHANGED <<call, watcher>>
    BY <2>7 DEF NoOrphanWatcher
  <2>8. \/ call.pc \in {"unconnected", "idle"} /\ UNCHANGED watcher
        \/ Arm \/ Execute \/ ExecuteNull \/ Succeeds \/ Fails \/ Interrupted \/ Finish
        \/ \E w \in Watchers : WatcherFires(w) \/ WatcherInterrupts(w) \/ WatcherStops(w)
        \/ UNCHANGED <<call, watcher>>
    BY DEF Next, vars, Connect, ConnectFails, ConnClose, Prepare, Ephemeral, ExecDirect, StmtRun,
           StmtClose, NextRow, NextChunk, NextEnds, RowsClose, Cancel
  <2> QED BY <2>1, <2>2, <2>4, <2>5, <2>6, <2>7, <2>8
<1> QED BY <1>1, <1>2, TypeCorrect, PTL DEF Spec

=============================================================================
