------------------------- MODULE MCSqliteConnLive -------------------------
(* SqliteConn for its liveness: one statement with its Rows, a watcher of   *)
(* the call in progress and one left over from an earlier call.             *)
EXTENDS SqliteConn
=============================================================================
