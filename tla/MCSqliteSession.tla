-------------------------- MODULE MCSqliteSession --------------------------
(* SqliteSession with two options in a data source name, ints of three bits *)
(* and int64s of three; "auto" is UTC+1 and "zone" UTC-2, in half minutes.  *)
EXTENDS SqliteSession

MCOffsetOf == [auto |-> 2, zone |-> -4]
============================================================================
