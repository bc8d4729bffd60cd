-------------------------- MODULE MCSqliteRegistry --------------------------
(* SqliteRegistry with two goroutines, two names, two Go functions and three *)
(* registrations: enough to replace a name while a statement runs and while  *)
(* another registration is under way.                                        *)
EXTENDS SqliteRegistry
=============================================================================
