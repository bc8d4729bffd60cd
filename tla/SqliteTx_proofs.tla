-------------------------- MODULE SqliteTx_proofs --------------------------
(***************************************************************************)
(* Proofs about SqliteTx: its type invariant, that the answers of Commit   *)
(* and Rollback are true, and that a sql.Tx commits its own writes only,   *)
(* for any number of users and connections and with any _txlock.           *)
(*                                                                         *)
(* A failed COMMIT leaves a transaction open on an idle connection, with   *)
(* writes that nobody answers for any more.  So the invariant has to say   *)
(* where every write is, in the file or in one connection's transaction,   *)
(* and that a connection whose transaction a user lost gets no new one     *)
(* before the user has given it back.                                      *)
(***************************************************************************)
EXTENDS SqliteTx, TLAPS

\* A connection that a user has is out of the pool, and is that user's alone.
ConnsTaken ==
  /\ \A u \in Users : user[u].pc # "idle" => pool[user[u].conn] = "taken"
  /\ \A u, v \in Users :
       user[u].pc # "idle" /\ user[v].pc # "idle" /\ user[u].conn = user[v].conn => u = v

\* Writes wait in open transactions only.
PendingInTx == \A c \in Conns : pending[c] # {} => tx[c]

\* A write that was not tried yet is nowhere.
NotYetWritten ==
  \A w \in Writes : w > written =>
    /\ w \notin durable
    /\ w \notin undone
    /\ \A c \in Conns : w \notin pending[c]

\* A write is in the file or waits on one connection.
PendingApart ==
  /\ \A c \in Conns : pending[c] \cap durable = {}
  /\ \A c, d \in Conns : c # d => pending[c] \cap pending[d] = {}

\* Where the writes are, and what was said of them.
Books == PendingInTx /\ NotYetWritten /\ PendingApart /\ AnswersHonest

Inv == TypeOK /\ ConnsTaken /\ Books /\ TxHoldsItsWrites

Locks == {"none", "shared", "reserved", "pending", "exclusive"}

\* The types of the library's variables.
LibraryOK ==
  /\ tx \in [Conns -> BOOLEAN]
  /\ pending \in [Conns -> SUBSET Writes]
  /\ lock \in [Conns -> Locks]
  /\ durable \subseteq Writes

-----------------------------------------------------------------------------
(* The library's steps.                                                    *)

\* A rollback empties one transaction and nothing else.
LEMMA RollsBackDoes ==
  ASSUME TypeOK, NEW c \in Conns, RollsBack(c)
  PROVE  /\ LibraryOK' /\ durable' = durable
         /\ ~tx'[c] /\ pending'[c] = {}
         /\ \A d \in Conns \ {c} : tx'[d] = tx[d] /\ pending'[d] = pending[d]
BY DEF RollsBack, TypeOK, LibraryOK, Locks

\* A commit moves the writes of one transaction to the file.
LEMMA CommitsDoes ==
  ASSUME TypeOK, NEW c \in Conns, Commits(c)
  PROVE  /\ LibraryOK' /\ durable' = durable \cup pending[c]
         /\ ~tx'[c] /\ pending'[c] = {}
         /\ \A d \in Conns \ {c} : tx'[d] = tx[d] /\ pending'[d] = pending[d]
BY DEF Commits, TypeOK, LibraryOK, Locks

\* A write waits in the transaction of its connection, or is in the file.
LEMMA WriteDoes ==
  ASSUME TypeOK, NEW c \in Conns, NEW w \in Writes, Write(c, w)
  PROVE  /\ LibraryOK' /\ tx' = tx
         /\ \/ tx[c] /\ durable' = durable /\ pending'[c] = pending[c] \cup {w}
            \/ ~tx[c] /\ durable' = durable \cup {w} /\ pending'[c] = pending[c]
         /\ \A d \in Conns \ {c} : pending'[d] = pending[d]
<1>1. CASE tx[c] /\ Reserved(c) \in Locks
  BY <1>1 DEF Write, TypeOK, LibraryOK, Locks
<1>2. CASE ~tx[c]
  BY <1>2 DEF Write, TypeOK, LibraryOK, Locks
<1>3. Reserved(c) \in Locks
  BY DEF Reserved, TypeOK, Locks
<1> QED
  BY <1>1, <1>2, <1>3

\* The books are right after a step that takes writes out of transactions only,
\* unless it says that they are undone.
LEMMA LossKeepsBooks ==
  ASSUME TypeOK, Books, LibraryOK', written \in Nat, written' \in Nat, written <= written',
         durable' = durable, promised' = promised, undone' = undone,
         \A c \in Conns : \/ tx'[c] /\ pending'[c] = pending[c]
                          \/ tx'[c] = tx[c] /\ pending'[c] = pending[c]
                          \/ pending'[c] = {}
  PROVE  Books'
<1> USE DEF Books
<1>1. PendingInTx' /\ PendingApart' /\ AnswersHonest'
  BY DEF PendingInTx, PendingApart, AnswersHonest
<1>2. NotYetWritten'
  BY DEF NotYetWritten, Writes
<1> QED
  BY <1>1, <1>2

\* A new write does not disturb them.
LEMMA WriteKeepsBooks ==
  ASSUME TypeOK, Books, NEW c \in Conns, NEW w \in Writes, w = written + 1, written' = w,
         written \in Nat, Write(c, w), promised' = promised, undone' = undone
  PROVE  Books'
<1> USE DEF Books
<1>1. /\ tx' = tx
      /\ \/ tx[c] /\ durable' = durable /\ pending'[c] = pending[c] \cup {w}
         \/ ~tx[c] /\ durable' = durable \cup {w} /\ pending'[c] = pending[c]
      /\ \A d \in Conns \ {c} : pending'[d] = pending[d]
  BY WriteDoes
<1>2. /\ w \notin durable /\ w \notin undone /\ w > written
      /\ \A d \in Conns : w \notin pending[d]
  BY DEF NotYetWritten
<1>3. PendingInTx'
  BY <1>1 DEF PendingInTx
<1>4. NotYetWritten'
  BY <1>1 DEF NotYetWritten, Writes
<1>5. PendingApart'
  <2>1. ASSUME NEW d \in Conns PROVE pending'[d] \cap durable' = {}
    BY <1>1, <1>2 DEF PendingApart, PendingInTx
  <2>2. ASSUME NEW d \in Conns, NEW e \in Conns, d # e
        PROVE  pending'[d] \cap pending'[e] = {}
    BY <2>2, <1>1, <1>2 DEF PendingApart
  <2> QED
    BY <2>1, <2>2 DEF PendingApart
<1>6. AnswersHonest'
  BY <1>1, <1>2 DEF AnswersHonest
<1> QED
  BY <1>3, <1>4, <1>5, <1>6

-----------------------------------------------------------------------------
LEMMA InitInv == Init => Inv
<1> SUFFICES ASSUME Init PROVE Inv
  OBVIOUS
<1>1. 0 \in 0 .. MaxWrites
  BY MaxWritesAssumption
<1>2. IdleUser \in User
  BY DEF IdleUser, User
<1>3. TypeOK
  BY <1>1, <1>2 DEF Init, TypeOK, IdleUser
<1>4. ConnsTaken /\ TxHoldsItsWrites
  BY DEF Init, ConnsTaken, TxHoldsItsWrites, IdleUser
<1>5. Books
  BY DEF Init, Books, PendingInTx, NotYetWritten, PendingApart, AnswersHonest
<1> QED
  BY <1>3, <1>4, <1>5 DEF Inv

-----------------------------------------------------------------------------
(* The users and the pool.                                                 *)

\* A user that is busy has a connection.
LEMMA BusyHasConn ==
  ASSUME TypeOK, NEW u \in Users, user[u].pc # "idle"
  PROVE  user[u].conn \in Conns
BY DEF TypeOK, User

\* A connection that the pool may hand out is no user's.
LEMMA TakeIsFree ==
  ASSUME Inv, NEW c \in Conns, Take(c)
  PROVE  \A u \in Users : user[u].pc # "idle" => user[u].conn # c
BY DEF Inv, ConnsTaken, Take

\* What is left to show when a step leaves the users and their pool as they are.
LEMMA UsersStay ==
  ASSUME Inv, LibraryOK', Books', UNCHANGED <<txLock, user>>,
         pool' \in [Conns -> {"none", "idle", "taken"}],
         written' \in 0 .. MaxWrites, promised' \subseteq Writes, undone' \subseteq Writes,
         \A u \in Users : user[u].pc # "idle" => pool'[user[u].conn] = pool[user[u].conn],
         \A u \in Users : user[u].pc = "tx" =>
           \/ ~tx'[user[u].conn]
           \/ tx'[user[u].conn] = tx[user[u].conn]
              /\ pending'[user[u].conn] = pending[user[u].conn]
  PROVE  Inv'
<1> USE DEF Inv
<1>1. TypeOK'
  BY DEF TypeOK, LibraryOK, Locks
<1>2. ConnsTaken'
  BY DEF ConnsTaken
<1>3. TxHoldsItsWrites'
  BY DEF TxHoldsItsWrites
<1> QED
  BY <1>1, <1>2, <1>3

\* A user gets a connection from the pool, with no writes waiting on it if it
\* is for a transaction.
LEMMA UserTakes ==
  ASSUME Inv, LibraryOK', Books', NEW u \in Users, NEW c \in Conns, NEW r \in User,
         Take(c), user[u].pc = "idle", r.pc # "idle", r.conn = c,
         pool' = [pool EXCEPT ![c] = "taken"], user' = [user EXCEPT ![u] = r],
         UNCHANGED <<txLock, written, promised, undone, pending>>,
         r.pc = "tx" => pending[c] = r.mine,
         \A d \in Conns \ {c} : tx'[d] = tx[d]
  PROVE  Inv'
<1> USE DEF Inv
<1>1. /\ pool' \in [Conns -> {"none", "idle", "taken"}] /\ pool'[c] = "taken"
      /\ \A d \in Conns \ {c} : pool'[d] = pool[d]
  BY DEF TypeOK
<1>2. /\ user' \in [Users -> User] /\ user'[u] = r
      /\ \A v \in Users \ {u} : user'[v] = user[v]
  BY DEF TypeOK
<1>3. TypeOK'
  BY <1>1, <1>2, NoneAssumption DEF TypeOK, LibraryOK, Locks
<1>4. \A v \in Users \ {u} : user[v].pc # "idle" => user[v].conn \in Conns \ {c}
  BY BusyHasConn, TakeIsFree
<1>5. ConnsTaken'
  BY <1>1, <1>2, <1>4 DEF ConnsTaken
<1>6. TxHoldsItsWrites'
  BY <1>2, <1>4 DEF TxHoldsItsWrites
<1> QED
  BY <1>3, <1>5, <1>6

\* A user gives its connection back to the pool.
LEMMA UserReleases ==
  ASSUME Inv, LibraryOK', Books', NEW u \in Users, user[u].pc # "idle",
         pool' = [pool EXCEPT ![user[u].conn] = "idle"],
         user' = [user EXCEPT ![u] = IdleUser],
         UNCHANGED <<txLock, written>>, promised' \subseteq Writes, undone' \subseteq Writes,
         \A d \in Conns \ {user[u].conn} : tx'[d] = tx[d] /\ pending'[d] = pending[d]
  PROVE  Inv'
<1> USE DEF Inv
<1>1. user[u].conn \in Conns
  BY BusyHasConn
<1>2. /\ pool' \in [Conns -> {"none", "idle", "taken"}]
      /\ \A d \in Conns \ {user[u].conn} : pool'[d] = pool[d]
  BY <1>1 DEF TypeOK
<1>3. IdleUser \in User /\ IdleUser.pc = "idle" /\ IdleUser.conn = None
  BY DEF IdleUser, User
<1>4. /\ user' \in [Users -> User] /\ user'[u] = IdleUser
      /\ \A v \in Users \ {u} : user'[v] = user[v]
  BY <1>3 DEF TypeOK
<1>5. TypeOK'
  BY <1>2, <1>3, <1>4 DEF TypeOK, LibraryOK, Locks
<1>6. \A v \in Users \ {u} : user[v].pc # "idle" => user[v].conn \in Conns \ {user[u].conn}
  BY BusyHasConn DEF ConnsTaken
<1>7. ConnsTaken'
  BY <1>2, <1>3, <1>4, <1>6 DEF ConnsTaken
<1>8. TxHoldsItsWrites'
  BY <1>3, <1>4, <1>6 DEF TxHoldsItsWrites
<1> QED
  BY <1>5, <1>7, <1>8

-----------------------------------------------------------------------------
(* Every step keeps the invariant.                                         *)

LEMMA ExecKeeps ==
  ASSUME Inv, NEW u \in Users, NEW c \in Conns, Exec(u, c)
  PROVE  Inv'
<1> USE DEF Inv
<1>1. /\ Take(c) /\ written < MaxWrites /\ written' = written + 1
      /\ Write(c, written + 1) \/ UNCHANGED library \/ RollsBack(c)
      /\ pool' = [pool EXCEPT ![c] = "idle"] /\ UNCHANGED <<txLock, user, promised, undone>>
  BY DEF Exec, NewWrite, WriteFails
<1>2. written \in Nat /\ written' \in Nat /\ written + 1 \in Writes /\ written' \in 0 .. MaxWrites
      /\ written <= written'
  BY <1>1, MaxWritesAssumption DEF TypeOK, Writes
<1>3. \A v \in Users : user[v].pc # "idle" => user[v].conn \in Conns \ {c}
  BY <1>1, TakeIsFree, BusyHasConn
<1>4. /\ LibraryOK' /\ Books'
      /\ \A d \in Conns \ {c} : tx'[d] = tx[d] /\ pending'[d] = pending[d]
  <2>1. CASE Write(c, written + 1)
    BY <2>1, <1>1, <1>2, WriteDoes, WriteKeepsBooks
  <2>2. CASE UNCHANGED library
    <3>1. LibraryOK'
      BY <2>2 DEF library, TypeOK, LibraryOK, Locks
    <3> QED
      BY <2>2, <3>1, <1>1, <1>2, LossKeepsBooks DEF library
  <2>3. CASE RollsBack(c)
    BY <2>3, <1>1, <1>2, RollsBackDoes, LossKeepsBooks
  <2> QED
    BY <1>1, <2>1, <2>2, <2>3
<1>5. /\ pool' \in [Conns -> {"none", "idle", "taken"}]
      /\ \A d \in Conns \ {c} : pool'[d] = pool[d]
  BY <1>1 DEF TypeOK
<1>6. promised' \subseteq Writes /\ undone' \subseteq Writes
  BY <1>1 DEF TypeOK
<1>7. \A v \in Users : user[v].pc = "tx" =>
        tx'[user[v].conn] = tx[user[v].conn] /\ pending'[user[v].conn] = pending[user[v].conn]
  BY <1>3, <1>4
<1>8. \A v \in Users : user[v].pc # "idle" => pool'[user[v].conn] = pool[user[v].conn]
  BY <1>3, <1>5
<1> QED
  BY <1>1, <1>2, <1>4, <1>5, <1>6, <1>7, <1>8, UsersStay

\* The library's variables but the locks stay.
LEMMA SameTransactions ==
  ASSUME Inv, UNCHANGED <<tx, pending, durable, written, promised, undone>>,
         lock' \in [Conns -> Locks]
  PROVE  LibraryOK' /\ Books'
<1>1. LibraryOK'
  BY DEF Inv, TypeOK, LibraryOK
<1>2. Books'
  BY DEF Inv, Books, PendingInTx, NotYetWritten, PendingApart, AnswersHonest
<1> QED
  BY <1>1, <1>2

LEMMA QueryKeeps ==
  ASSUME Inv, NEW u \in Users, NEW c \in Conns, Query(u, c)
  PROVE  Inv'
<1> DEFINE r == [IdleUser EXCEPT !.pc = "rows", !.conn = c]
<1> USE DEF Inv
<1>1. Shared(c) \in Locks
  BY DEF Shared, TypeOK, Locks
<1>2. lock' \in [Conns -> Locks]
  BY <1>1 DEF Query, TypeOK, Locks
<1>3. LibraryOK' /\ Books'
  BY <1>2, SameTransactions DEF Query
<1>4. r \in User /\ r.pc = "rows" /\ r.conn = c
  BY DEF User, IdleUser
<1>5. user' = [user EXCEPT ![u] = r]
  BY DEF Query
<1> HIDE DEF r
<1> QED
  BY <1>3, <1>4, <1>5, UserTakes DEF Query

LEMMA RowsCloseKeeps ==
  ASSUME Inv, NEW u \in Users, RowsClose(u)
  PROVE  Inv'
<1> USE DEF Inv
<1>1. user[u].pc # "idle" /\ user[u].conn \in Conns
  BY BusyHasConn DEF RowsClose
<1>2. lock' \in [Conns -> Locks]
  BY <1>1 DEF RowsClose, TypeOK, Locks
<1>3. LibraryOK' /\ Books'
  BY <1>2, SameTransactions DEF RowsClose
<1>4. promised' \subseteq Writes /\ undone' \subseteq Writes
  BY DEF RowsClose, TypeOK
<1> QED
  BY <1>1, <1>3, <1>4, UserReleases DEF RowsClose

LEMMA BeginTxKeeps ==
  ASSUME Inv, NEW u \in Users, NEW c \in Conns, BeginTx(u, c)
  PROVE  Inv'
<1> DEFINE r == [IdleUser EXCEPT !.pc = "tx", !.conn = c]
<1> USE DEF Inv
<1>1. /\ ~tx[c] /\ tx' = [tx EXCEPT ![c] = TRUE] /\ UNCHANGED <<pending, durable>>
      /\ lock' = [lock EXCEPT ![c] = BeginLock[txLock]]
      /\ UNCHANGED <<txLock, written, promised, undone>>
  BY DEF BeginTx, Begin
<1>2. BeginLock[txLock] \in Locks
  BY TxLocksAssumption DEF BeginLock, TypeOK, Locks
<1>3. LibraryOK'
  BY <1>1, <1>2 DEF TypeOK, LibraryOK, Locks
<1>4. \A d \in Conns : tx[d] => tx'[d]
  BY <1>1 DEF TypeOK
<1>5. Books'
  BY <1>1, <1>4 DEF Books, PendingInTx, NotYetWritten, PendingApart, AnswersHonest
<1>6. r \in User /\ r.pc = "tx" /\ r.conn = c /\ r.mine = {}
  BY DEF User, IdleUser
<1>7. user' = [user EXCEPT ![u] = r] /\ Take(c) /\ user[u].pc = "idle"
      /\ pool' = [pool EXCEPT ![c] = "taken"]
  BY DEF BeginTx
\* A connection without a transaction has nothing waiting.
<1>8. pending[c] = {}
  BY <1>1 DEF Books, PendingInTx
<1>9. \A d \in Conns \ {c} : tx'[d] = tx[d]
  BY <1>1 DEF TypeOK
<1> HIDE DEF r
<1> QED
  BY <1>1, <1>3, <1>5, <1>6, <1>7, <1>8, <1>9, UserTakes

LEMMA BeginTxFailsKeeps ==
  ASSUME Inv, NEW u \in Users, NEW c \in Conns, BeginTxFails(u, c)
  PROVE  Inv'
<1> USE DEF Inv
<1>1. /\ Take(c) /\ pool' = [pool EXCEPT ![c] = "idle"]
      /\ UNCHANGED <<txLock, tx, pending, lock, durable, written, user, promised, undone>>
  BY DEF BeginTxFails, library
<1>2. LibraryOK' /\ Books'
  BY <1>1, SameTransactions DEF TypeOK, Locks
<1>3. /\ pool' \in [Conns -> {"none", "idle", "taken"}]
      /\ \A d \in Conns \ {c} : pool'[d] = pool[d]
  BY <1>1 DEF TypeOK
<1>4. \A v \in Users : user[v].pc # "idle" => pool'[user[v].conn] = pool[user[v].conn]
  BY <1>1, <1>3, TakeIsFree, BusyHasConn
<1>5. written' \in 0 .. MaxWrites /\ promised' \subseteq Writes /\ undone' \subseteq Writes
  BY <1>1 DEF TypeOK
<1> QED
  BY <1>1, <1>2, <1>3, <1>4, <1>5, UsersStay

LEMMA TxWriteKeeps ==
  ASSUME Inv, NEW u \in Users, TxWrite(u)
  PROVE  Inv'
<1> USE DEF Inv
<1>1. PICK c \in Conns : c = user[u].conn
  BY BusyHasConn DEF TxWrite
<1>2. /\ user[u].pc = "tx" /\ written < MaxWrites /\ written' = written + 1
      /\ UNCHANGED <<txLock, pool, promised, undone>>
  BY DEF TxWrite, NewWrite
<1>3. written \in Nat /\ written' \in Nat /\ written' \in Writes /\ written' \in 0 .. MaxWrites
      /\ written <= written'
  BY <1>2, MaxWritesAssumption DEF TypeOK, Writes
<1>4. \A v \in Users \ {u} : user[v].pc # "idle" => user[v].conn \in Conns \ {c}
  BY <1>1, <1>2, BusyHasConn DEF ConnsTaken
<1>5. promised' \subseteq Writes /\ undone' \subseteq Writes
  BY <1>2 DEF TypeOK
<1>6. CASE Write(c, written') /\ user' = [user EXCEPT ![u].mine = @ \cup {written'}]
  <2> DEFINE r == [user[u] EXCEPT !.mine = @ \cup {written'}]
  <2>1. LibraryOK' /\ Books'
    BY <1>2, <1>3, <1>6, WriteDoes, WriteKeepsBooks
  <2>2. /\ r \in User /\ r.pc = "tx" /\ r.conn = c /\ r.mine = user[u].mine \cup {written'}
    BY <1>1, <1>2, <1>3 DEF TypeOK, User
  <2>3. user' = [user EXCEPT ![u] = r]
    BY <1>6
  <2> HIDE DEF r
  <2>4. /\ user' \in [Users -> User] /\ user'[u] = r
        /\ \A v \in Users \ {u} : user'[v] = user[v]
    BY <2>2, <2>3 DEF TypeOK
  <2>5. TypeOK'
    BY <1>2, <1>3, <1>5, <2>1, <2>2, <2>4, NoneAssumption DEF TypeOK, LibraryOK, Locks
  <2>6. ConnsTaken'
    BY <1>1, <1>2, <1>4, <2>2, <2>4 DEF ConnsTaken
  <2>7. TxHoldsItsWrites'
    <3>1. /\ tx' = tx
          /\ tx[c] => pending'[c] = pending[c] \cup {written'}
          /\ \A d \in Conns \ {c} : pending'[d] = pending[d]
      BY <1>3, <1>6, WriteDoes
    <3>2. ASSUME NEW v \in Users, user'[v].pc = "tx", tx'[user'[v].conn]
          PROVE  pending'[user'[v].conn] = user'[v].mine
      <4>1. CASE v = u
        <5>1. tx[c] => pending[c] = user[u].mine
          BY <1>1, <1>2 DEF TxHoldsItsWrites
        <5> QED
          BY <4>1, <5>1, <3>1, <3>2, <2>2, <2>4
      <4>2. CASE v # u
        BY <4>2, <3>1, <3>2, <1>4, <2>4 DEF TxHoldsItsWrites
      <4> QED
        BY <4>1, <4>2
    <3> QED
      BY <3>2 DEF TxHoldsItsWrites
  <2> QED
    BY <2>1, <2>5, <2>6, <2>7
<1>7. CASE WriteFails(c) /\ UNCHANGED user
  <2>1. /\ LibraryOK' /\ Books'
        /\ \A d \in Conns : \/ tx'[d] = tx[d] /\ pending'[d] = pending[d]
                            \/ ~tx'[d]
    <3>1. CASE UNCHANGED library
      <4>1. LibraryOK'
        BY <3>1 DEF library, TypeOK, LibraryOK, Locks
      <4> QED
        BY <3>1, <4>1, <1>2, <1>3, LossKeepsBooks DEF library
    <3>2. CASE RollsBack(c)
      <4>1. /\ LibraryOK' /\ durable' = durable /\ ~tx'[c] /\ pending'[c] = {}
            /\ \A d \in Conns \ {c} : tx'[d] = tx[d] /\ pending'[d] = pending[d]
        BY <3>2, RollsBackDoes
      <4> QED
        BY <4>1, <1>2, <1>3, LossKeepsBooks
    <3> QED
      BY <3>1, <3>2, <1>7 DEF WriteFails
  <2>2. pool' \in [Conns -> {"none", "idle", "taken"}]
    BY <1>2 DEF TypeOK
  <2>3. \A v \in Users : user[v].pc = "tx" =>
          \/ ~tx'[user[v].conn]
          \/ tx'[user[v].conn] = tx[user[v].conn]
             /\ pending'[user[v].conn] = pending[user[v].conn]
    BY <2>1, BusyHasConn
  <2> QED
    BY <1>2, <1>3, <1>5, <1>7, <2>1, <2>2, <2>3, UsersStay
<1> QED
  BY <1>1, <1>2, <1>6, <1>7 DEF TxWrite

LEMMA TxReadKeeps ==
  ASSUME Inv, NEW u \in Users, TxRead(u)
  PROVE  Inv'
<1> USE DEF Inv
<1>1. user[u].conn \in Conns
  BY BusyHasConn DEF TxRead
<1>2. Shared(user[u].conn) \in Locks
  BY <1>1 DEF Shared, TypeOK, Locks
<1>3. lock' \in [Conns -> Locks]
  BY <1>2 DEF TxRead, TypeOK, Locks
<1>4. /\ LibraryOK' /\ Books'
  BY <1>3, SameTransactions DEF TxRead
<1>5. /\ pool' \in [Conns -> {"none", "idle", "taken"}] /\ written' \in 0 .. MaxWrites
      /\ promised' \subseteq Writes /\ undone' \subseteq Writes
  BY DEF TxRead, TypeOK
<1> QED
  BY <1>4, <1>5, UsersStay DEF TxRead

LEMMA CommitKeeps ==
  ASSUME Inv, NEW u \in Users, Commit(u)
  PROVE  Inv'
<1> USE DEF Inv
<1>1. PICK c \in Conns : c = user[u].conn
  BY BusyHasConn DEF Commit
<1>2. /\ user[u].pc = "tx" /\ tx[c] /\ Commits(c)
      /\ promised' = promised \cup user[u].mine /\ Release(u)
      /\ UNCHANGED <<txLock, written, undone>>
  BY <1>1 DEF Commit
<1>3. /\ LibraryOK' /\ durable' = durable \cup pending[c] /\ ~tx'[c] /\ pending'[c] = {}
      /\ \A d \in Conns \ {c} : tx'[d] = tx[d] /\ pending'[d] = pending[d]
  BY <1>2, CommitsDoes
<1>4. pending[c] = user[u].mine
  BY <1>1, <1>2 DEF TxHoldsItsWrites
<1>5. Books'
  <2> USE DEF Books
  <2>1. PendingInTx' /\ PendingApart'
    BY <1>3 DEF PendingInTx, PendingApart
  <2>2. NotYetWritten'
    BY <1>2, <1>3 DEF NotYetWritten
  <2>3. AnswersHonest'
    BY <1>2, <1>3, <1>4 DEF AnswersHonest
  <2> QED
    BY <2>1, <2>2, <2>3
<1>6. promised' \subseteq Writes /\ undone' \subseteq Writes
  BY <1>2, <1>4 DEF TypeOK
<1> QED
  BY <1>1, <1>2, <1>3, <1>5, <1>6, UserReleases DEF Release

LEMMA CommitVetoedKeeps ==
  ASSUME Inv, NEW u \in Users, CommitVetoed(u)
  PROVE  Inv'
<1> USE DEF Inv
<1>1. PICK c \in Conns : c = user[u].conn
  BY BusyHasConn DEF CommitVetoed
<1>2. /\ user[u].pc = "tx" /\ RollsBack(c) /\ Release(u)
      /\ UNCHANGED <<txLock, written, promised, undone>>
  BY <1>1 DEF CommitVetoed
<1>3. /\ LibraryOK' /\ durable' = durable /\ ~tx'[c] /\ pending'[c] = {}
      /\ \A d \in Conns \ {c} : tx'[d] = tx[d] /\ pending'[d] = pending[d]
  BY <1>2, RollsBackDoes
<1>4. written \in Nat /\ promised' \subseteq Writes /\ undone' \subseteq Writes
  BY <1>2, MaxWritesAssumption DEF TypeOK
<1>5. Books'
  BY <1>2, <1>3, <1>4, LossKeepsBooks
<1> QED
  BY <1>1, <1>2, <1>3, <1>4, <1>5, UserReleases DEF Release

LEMMA CommitFailsKeeps ==
  ASSUME Inv, NEW u \in Users, CommitFails(u)
  PROVE  Inv'
<1> USE DEF Inv
<1>1. user[u].pc = "tx" /\ user[u].conn \in Conns
  BY BusyHasConn DEF CommitFails
<1>2. lock' \in [Conns -> Locks]
  BY <1>1 DEF CommitFails, TypeOK, Locks
<1>3. LibraryOK' /\ Books'
  BY <1>2, SameTransactions DEF CommitFails
<1>4. promised' \subseteq Writes /\ undone' \subseteq Writes
  BY DEF CommitFails, TypeOK
<1> QED
  BY <1>1, <1>3, <1>4, UserReleases DEF CommitFails, Release

LEMMA RollbackKeeps ==
  ASSUME Inv, NEW u \in Users, Rollback(u)
  PROVE  Inv'
<1> USE DEF Inv
<1>1. PICK c \in Conns : c = user[u].conn
  BY BusyHasConn DEF Rollback
<1>2. /\ user[u].pc = "tx" /\ tx[c] /\ RollsBack(c)
      /\ undone' = undone \cup user[u].mine /\ Release(u)
      /\ UNCHANGED <<txLock, written, promised>>
  BY <1>1 DEF Rollback
<1>3. /\ LibraryOK' /\ durable' = durable /\ ~tx'[c] /\ pending'[c] = {}
      /\ \A d \in Conns \ {c} : tx'[d] = tx[d] /\ pending'[d] = pending[d]
  BY <1>2, RollsBackDoes
<1>4. pending[c] = user[u].mine
  BY <1>1, <1>2 DEF TxHoldsItsWrites
<1>5. Books'
  <2> USE DEF Books
  <2>1. PendingInTx' /\ PendingApart'
    BY <1>3 DEF PendingInTx, PendingApart
  <2>2. NotYetWritten'
    BY <1>2, <1>3, <1>4 DEF NotYetWritten
  <2>3. AnswersHonest'
    <3>1. pending[c] \cap durable = {} /\ \A d \in Conns \ {c} : pending[c] \cap pending[d] = {}
      BY DEF PendingApart
    <3> QED
      BY <3>1, <1>2, <1>3, <1>4 DEF AnswersHonest
  <2> QED
    BY <2>1, <2>2, <2>3
<1>6. promised' \subseteq Writes /\ undone' \subseteq Writes
  BY <1>2, <1>4 DEF TypeOK
<1> QED
  BY <1>1, <1>2, <1>3, <1>5, <1>6, UserReleases DEF Release

LEMMA RollbackFailsKeeps ==
  ASSUME Inv, NEW u \in Users, RollbackFails(u)
  PROVE  Inv'
<1> USE DEF Inv
<1>1. /\ user[u].pc = "tx" /\ Release(u)
      /\ UNCHANGED <<txLock, tx, pending, lock, durable, written, promised, undone>>
  BY DEF RollbackFails, library
<1>2. LibraryOK' /\ Books'
  BY <1>1, SameTransactions DEF TypeOK, Locks
<1>3. promised' \subseteq Writes /\ undone' \subseteq Writes
  BY <1>1 DEF TypeOK
<1> QED
  BY <1>1, <1>2, <1>3, UserReleases DEF Release

LEMMA PoolClosesKeeps ==
  ASSUME Inv, NEW c \in Conns, PoolCloses(c)
  PROVE  Inv'
<1> USE DEF Inv
<1>1. /\ pool[c] = "idle" /\ pool' = [pool EXCEPT ![c] = "none"] /\ RollsBack(c)
      /\ UNCHANGED <<txLock, written, user, promised, undone>>
  BY DEF PoolCloses
<1>2. /\ LibraryOK' /\ durable' = durable /\ ~tx'[c] /\ pending'[c] = {}
      /\ \A d \in Conns \ {c} : tx'[d] = tx[d] /\ pending'[d] = pending[d]
  BY <1>1, RollsBackDoes
<1>3. /\ written \in Nat /\ written' \in 0 .. MaxWrites
      /\ promised' \subseteq Writes /\ undone' \subseteq Writes
  BY <1>1, MaxWritesAssumption DEF TypeOK
<1>4. Books'
  BY <1>1, <1>2, <1>3, LossKeepsBooks
<1>5. /\ pool' \in [Conns -> {"none", "idle", "taken"}]
      /\ \A d \in Conns \ {c} : pool'[d] = pool[d]
  BY <1>1 DEF TypeOK
<1>6. \A v \in Users : user[v].pc # "idle" => user[v].conn \in Conns \ {c}
  BY <1>1, BusyHasConn DEF ConnsTaken
<1>7. \A v \in Users : user[v].pc # "idle" => pool'[user[v].conn] = pool[user[v].conn]
  BY <1>5, <1>6
<1>8. \A v \in Users : user[v].pc = "tx" =>
        tx'[user[v].conn] = tx[user[v].conn] /\ pending'[user[v].conn] = pending[user[v].conn]
  BY <1>2, <1>6
<1> QED
  BY <1>1, <1>2, <1>3, <1>4, <1>5, <1>7, <1>8, UsersStay

-----------------------------------------------------------------------------
LEMMA NextInv == Inv /\ [Next]_vars => Inv'
<1> SUFFICES ASSUME Inv, [Next]_vars PROVE Inv'
  OBVIOUS
<1>1. ASSUME NEW u \in Users, NEW c \in Conns,
             Exec(u, c) \/ Query(u, c) \/ BeginTx(u, c) \/ BeginTxFails(u, c)
      PROVE  Inv'
  BY <1>1, ExecKeeps, QueryKeeps, BeginTxKeeps, BeginTxFailsKeeps
<1>2. ASSUME NEW u \in Users, RowsClose(u) \/ TxWrite(u) \/ TxRead(u)
      PROVE  Inv'
  BY <1>2, RowsCloseKeeps, TxWriteKeeps, TxReadKeeps
<1>3. ASSUME NEW u \in Users,
             Commit(u) \/ CommitVetoed(u) \/ CommitFails(u) \/ Rollback(u) \/ RollbackFails(u)
      PROVE  Inv'
  BY <1>3, CommitKeeps, CommitVetoedKeeps, CommitFailsKeeps, RollbackKeeps,
     RollbackFailsKeeps
<1>4. ASSUME NEW c \in Conns, PoolCloses(c) PROVE Inv'
  BY <1>4, PoolClosesKeeps
<1>5. CASE UNCHANGED vars
  BY <1>5 DEF vars, library, Inv, TypeOK, ConnsTaken, Books, PendingInTx, NotYetWritten,
     PendingApart, AnswersHonest, TxHoldsItsWrites
<1> QED
  BY <1>1, <1>2, <1>3, <1>4, <1>5 DEF Next

\* The invariant behind the theorems: where every write is.
THEOREM Invariance == Spec => []Inv
BY InitInv, NextInv, PTL DEF Spec

\* The type invariant, with a connection for exactly the users that are busy.
THEOREM TypeCorrect == Spec => []TypeOK
BY Invariance, PTL DEF Inv

\* What Commit and Rollback answer stays true: the writes of a transaction
\* that was committed are in the file, those of one that was rolled back never
\* get there, whatever failed, was interrupted or was left open in between.
THEOREM AnswersAreHonest == Spec => []AnswersHonest
BY Invariance, PTL DEF Inv, Books

\* A transaction that is still open when its sql.Tx ends holds the writes of
\* that sql.Tx and none that a failed COMMIT left on the connection.
THEOREM TransactionsHoldTheirWrites == Spec => []TxHoldsItsWrites
BY Invariance, PTL DEF Inv
=============================================================================
