----------------------------- MODULE SqliteTx -----------------------------
(***************************************************************************)
(* Transactions of the SQLite driver (sqlite3/sqlite3.go) as users see     *)
(* them through database/sql: a pool of connections to one database file,  *)
(* of which a user takes one for a statement or for a whole transaction.   *)
(*                                                                         *)
(* The driver keeps no state of a transaction.  BeginTx, Commit and        *)
(* Rollback run the statements BEGIN, COMMIT and ROLLBACK and pass on what *)
(* the library says, and ResetSession lets the pool hand a connection on.  *)
(* So what users get depends on what the library does when such a          *)
(* statement fails.                                                        *)
(*                                                                         *)
(* External: database/sql, which rolls back when the context of a          *)
(* transaction ends, and which gives a connection back to the pool after   *)
(* Commit or Rollback whatever they return, since the driver has both      *)
(* ResetSession and IsValid; and the library with its rollback journal:    *)
(* one writer beside readers, no reader beside a commit, and a write that  *)
(* is interrupted takes the whole transaction with it.  Interrupts that    *)
(* come late and hit another call are left to SqliteConn.                  *)
(***************************************************************************)
EXTENDS Naturals

CONSTANTS
  Users,     \* goroutines that use one sql.DB
  Conns,     \* connections the pool may have
  TxLocks,   \* what _txlock of the DSN may be
  MaxWrites, \* bound on the writes of a behaviour
  None

ASSUME TxLocksAssumption == TxLocks \subseteq {"deferred", "immediate", "exclusive"}
ASSUME MaxWritesAssumption == MaxWrites \in Nat
ASSUME NoneAssumption == None \notin Conns

Writes == 1 .. MaxWrites

VARIABLES
  txLock,    \* config.txLock, the same in all connections
  pool,     \* external: "none", "idle" or "taken", for each connection
  tx,       \* external: not sqlite3_get_autocommit
  pending,  \* external: the writes of the open transaction
  lock,     \* external: the lock the connection has on the file
  durable,  \* external: the writes that are in the file
  written,  \* how many writes were tried
  user,     \* what each user is doing
  promised, \* history: the writes whose sql.Tx committed with no error
  undone    \* history: the writes whose sql.Tx rolled back with no error

library == <<tx, pending, lock, durable>>
vars == <<txLock, pool, library, written, user, promised, undone>>

User == [pc : {"idle", "tx", "rows"}, conn : Conns \cup {None}, mine : SUBSET Writes]
IdleUser == [pc |-> "idle", conn |-> None, mine |-> {}]

Init ==
  /\ txLock \in TxLocks
  /\ pool = [c \in Conns |-> "none"]
  /\ tx = [c \in Conns |-> FALSE]
  /\ pending = [c \in Conns |-> {}]
  /\ lock = [c \in Conns |-> "none"]
  /\ durable = {}
  /\ written = 0
  /\ user = [u \in Users |-> IdleUser]
  /\ promised = {}
  /\ undone = {}

-----------------------------------------------------------------------------
(* The library.                                                            *)

Others(c) == Conns \ {c}
CanRead(c) == \A d \in Others(c) : lock[d] \notin {"pending", "exclusive"}
CanReserve(c) == \A d \in Others(c) : lock[d] \in {"none", "shared"}
CanExclude(c) == \A d \in Others(c) : lock[d] = "none"

\* What this connection holds once it has at least a shared lock.
Shared(c) == IF lock[c] = "none" THEN "shared" ELSE lock[c]
\* And once it may write.
Reserved(c) == IF lock[c] \in {"none", "shared"} THEN "reserved" ELSE lock[c]

\* The transaction of c ends with nothing written.
RollsBack(c) ==
  /\ tx' = [tx EXCEPT ![c] = FALSE]
  /\ pending' = [pending EXCEPT ![c] = {}]
  /\ lock' = [lock EXCEPT ![c] = "none"]
  /\ UNCHANGED durable

\* The transaction of c ends with its writes in the file.
Commits(c) ==
  /\ tx' = [tx EXCEPT ![c] = FALSE]
  /\ pending' = [pending EXCEPT ![c] = {}]
  /\ lock' = [lock EXCEPT ![c] = "none"]
  /\ durable' = durable \cup pending[c]

\* A write succeeds: within a transaction it waits for its COMMIT.
Write(c, w) ==
  \/ /\ tx[c] /\ CanReserve(c)
     /\ pending' = [pending EXCEPT ![c] = @ \cup {w}]
     /\ lock' = [lock EXCEPT ![c] = Reserved(c)]
     /\ UNCHANGED <<tx, durable>>
  \/ /\ ~tx[c] /\ CanExclude(c)
     /\ durable' = durable \cup {w}
     /\ UNCHANGED <<tx, pending, lock>>

\* It fails: the statement alone is undone, or it was interrupted while it ran
\* and the transaction goes with it.
WriteFails(c) ==
  \/ UNCHANGED library
  \/ RollsBack(c)

-----------------------------------------------------------------------------
(* The pool.                                                               *)

\* sql.DB.conn: an idle connection, for which ResetSession returns nil since
\* the driver has not closed it, or a new one.  IsValid lets it come back.
Take(c) == pool[c] \in {"idle", "none"}

\* sql.DB closes an idle connection, and sqlite3_close_v2 rolls back.
PoolCloses(c) ==
  /\ pool[c] = "idle"
  /\ pool' = [pool EXCEPT ![c] = "none"]
  /\ RollsBack(c)
  /\ UNCHANGED <<txLock, written, user, promised, undone>>

-----------------------------------------------------------------------------
(* ExecContext and QueryContext outside a transaction.                     *)

NewWrite == written < MaxWrites /\ written' = written + 1

Exec(u, c) ==
  /\ user[u].pc = "idle" /\ Take(c)
  /\ NewWrite
  /\ Write(c, written + 1) \/ WriteFails(c)
  /\ pool' = [pool EXCEPT ![c] = "idle"]
  /\ UNCHANGED <<txLock, user, promised, undone>>

\* Rows that stay open keep a shared lock.
Query(u, c) ==
  /\ user[u].pc = "idle" /\ Take(c)
  /\ CanRead(c)
  /\ pool' = [pool EXCEPT ![c] = "taken"]
  /\ lock' = [lock EXCEPT ![c] = Shared(c)]
  /\ user' = [user EXCEPT ![u] = [IdleUser EXCEPT !.pc = "rows", !.conn = c]]
  /\ UNCHANGED <<txLock, tx, pending, durable, written, promised, undone>>

RowsClose(u) ==
  LET c == user[u].conn IN
  /\ user[u].pc = "rows"
  /\ lock' = [lock EXCEPT ![c] = IF tx[c] THEN @ ELSE "none"]
  /\ pool' = [pool EXCEPT ![c] = "idle"]
  /\ user' = [user EXCEPT ![u] = IdleUser]
  /\ UNCHANGED <<txLock, tx, pending, durable, written, promised, undone>>

-----------------------------------------------------------------------------
(* BeginTx, ExecContext and QueryContext in a transaction.                 *)

BeginLock == [deferred |-> "none", immediate |-> "reserved", exclusive |-> "exclusive"]

\* Mutation: a connection that is in a transaction already is used as it is.
BeginJoins(c) ==
  /\ tx' = [tx EXCEPT ![c] = TRUE]
  /\ lock' = [lock EXCEPT ![c] = IF tx[c] THEN @ ELSE BeginLock[txLock]]
  /\ UNCHANGED <<pending, durable>>

\* BEGIN, BEGIN IMMEDIATE or BEGIN EXCLUSIVE, which a connection that is in a
\* transaction refuses.
Begin(c) ==
  /\ ~tx[c]
  /\ tx' = [tx EXCEPT ![c] = TRUE]
  /\ txLock # "deferred" => CanReserve(c)
  /\ txLock = "exclusive" => CanExclude(c)
  /\ lock' = [lock EXCEPT ![c] = BeginLock[txLock]]
  /\ UNCHANGED <<pending, durable>>

\* Mutation: the transaction returned has no connection.
BeginTxForgetsConn(u, c) ==
  /\ user[u].pc = "idle" /\ Take(c)
  /\ Begin(c)
  /\ pool' = [pool EXCEPT ![c] = "taken"]
  /\ user' = [user EXCEPT ![u] = [IdleUser EXCEPT !.pc = "tx"]]
  /\ UNCHANGED <<txLock, written, promised, undone>>

BeginTx(u, c) ==
  /\ user[u].pc = "idle" /\ Take(c)
  /\ Begin(c)
  /\ pool' = [pool EXCEPT ![c] = "taken"]
  /\ user' = [user EXCEPT ![u] = [IdleUser EXCEPT !.pc = "tx", !.conn = c]]
  /\ UNCHANGED <<txLock, written, promised, undone>>

\* The connection goes back with what it had.
BeginTxFails(u, c) ==
  /\ user[u].pc = "idle" /\ Take(c)
  /\ pool' = [pool EXCEPT ![c] = "idle"]
  /\ UNCHANGED <<txLock, library, written, user, promised, undone>>

TxWrite(u) ==
  LET c == user[u].conn IN
  /\ user[u].pc = "tx"
  /\ NewWrite
  /\ \/ /\ Write(c, written + 1)
        /\ user' = [user EXCEPT ![u].mine = @ \cup {written + 1}]
     \/ WriteFails(c) /\ UNCHANGED user
  /\ UNCHANGED <<txLock, pool, promised, undone>>

TxRead(u) ==
  LET c == user[u].conn IN
  /\ user[u].pc = "tx" /\ tx[c]
  /\ CanRead(c)
  /\ lock' = [lock EXCEPT ![c] = Shared(c)]
  /\ UNCHANGED <<txLock, pool, tx, pending, durable, written, user, promised, undone>>

-----------------------------------------------------------------------------
(* Commit and Rollback.                                                    *)

\* sql.Tx is done and its connection is idle again, whatever the driver said.
Release(u) ==
  /\ pool' = [pool EXCEPT ![user[u].conn] = "idle"]
  /\ user' = [user EXCEPT ![u] = IdleUser]

\* Mutation: the error of COMMIT is dropped.
CommitIgnoresError(u) ==
  LET c == user[u].conn IN
  /\ user[u].pc = "tx"
  /\ (tx[c] /\ CanExclude(c) /\ Commits(c)) \/ (~tx[c] /\ UNCHANGED library)
  /\ promised' = promised \cup user[u].mine
  /\ Release(u)
  /\ UNCHANGED <<txLock, written, undone>>

Commit(u) ==
  LET c == user[u].conn IN
  /\ user[u].pc = "tx"
  /\ tx[c]
  /\ pending[c] # {} => CanExclude(c)
  /\ Commits(c)
  /\ promised' = promised \cup user[u].mine
  /\ Release(u)
  /\ UNCHANGED <<txLock, written, undone>>

\* The commit hook turns the COMMIT into a rollback.
CommitVetoed(u) ==
  /\ user[u].pc = "tx"
  /\ tx[user[u].conn] /\ pending[user[u].conn] # {}
  /\ RollsBack(user[u].conn)
  /\ Release(u)
  /\ UNCHANGED <<txLock, written, promised, undone>>

\* COMMIT fails: there is no transaction any more, or a reader is in the way,
\* and then the transaction stays open and keeps new readers out.
CommitFails(u) ==
  LET c == user[u].conn IN
  /\ user[u].pc = "tx"
  /\ \/ ~tx[c] /\ UNCHANGED lock
     \/ /\ tx[c] /\ pending[c] # {} /\ ~CanExclude(c)
        /\ lock' = [lock EXCEPT ![c] = "pending"]
  /\ Release(u)
  /\ UNCHANGED <<txLock, tx, pending, durable, written, promised, undone>>

\* By the user, or by database/sql when the context of the transaction ends.
Rollback(u) ==
  /\ user[u].pc = "tx"
  /\ tx[user[u].conn]
  /\ RollsBack(user[u].conn)
  /\ undone' = undone \cup user[u].mine
  /\ Release(u)
  /\ UNCHANGED <<txLock, written, promised>>

\* No transaction is active.
RollbackFails(u) ==
  /\ user[u].pc = "tx"
  /\ ~tx[user[u].conn]
  /\ Release(u)
  /\ UNCHANGED <<txLock, library, written, promised, undone>>

Next ==
  \/ \E u \in Users, c \in Conns : Exec(u, c) \/ Query(u, c) \/ BeginTx(u, c) \/ BeginTxFails(u, c)
  \/ \E u \in Users : \/ RowsClose(u) \/ TxWrite(u) \/ TxRead(u)
                      \/ Commit(u) \/ CommitVetoed(u) \/ CommitFails(u)
                      \/ Rollback(u) \/ RollbackFails(u)
  \/ \E c \in Conns : PoolCloses(c)

Spec == Init /\ [][Next]_vars

-----------------------------------------------------------------------------
\* The type invariant; a user has a connection exactly while it uses one.
TypeOK ==
  /\ txLock \in TxLocks
  /\ pool \in [Conns -> {"none", "idle", "taken"}]
  /\ tx \in [Conns -> BOOLEAN]
  /\ pending \in [Conns -> SUBSET Writes]
  /\ lock \in [Conns -> {"none", "shared", "reserved", "pending", "exclusive"}]
  /\ durable \subseteq Writes
  /\ written \in 0 .. MaxWrites
  /\ user \in [Users -> User]
  /\ \A u \in Users : user[u].conn = None <=> user[u].pc = "idle"
  /\ promised \subseteq Writes
  /\ undone \subseteq Writes

\* What Commit and Rollback answer is true: after a Commit without an error
\* every write of the transaction is in the file, after a Rollback without an
\* error none is, and none gets there later with another's commit.
AnswersHonest ==
  /\ promised \subseteq durable
  /\ undone \cap durable = {}
  /\ \A c \in Conns : undone \cap pending[c] = {}

\* A sql.Tx whose transaction is still there holds its own writes and no one
\* else's: nothing that a failed COMMIT left behind is committed with it.
TxHoldsItsWrites ==
  \A u \in Users :
    user[u].pc = "tx" /\ tx[user[u].conn] => pending[user[u].conn] = user[u].mine

\* A connection in the pool is in no transaction: the next user of it starts
\* afresh, as a driver.SessionResetter is there to see to (sqlite3.go:144).
IdleConnsClean == \A c \in Conns : pool[c] = "idle" => ~tx[c]
=============================================================================
