--------------------------- MODULE FunctionTable ---------------------------
(***************************************************************************)
(* What RegisterFunc and RegisterCollation promise the users of a          *)
(* connection: a table from names to Go functions.  Registering replaces   *)
(* the entry of a name at once or not at all; a call of the name from SQL  *)
(* runs the Go function that is in the table; an entry does not change     *)
(* under a running statement; entries go only with the connection.         *)
(***************************************************************************)
CONSTANTS
  Procs,  \* goroutines
  Kinds,  \* "scalar" and "collation": two name spaces
  Names,
  Impls,  \* Go functions
  None

VARIABLES
  impl,   \* impl[k][n]: the Go function a name stands for, or None
  using,  \* using[p]: the <<kind, name>> that p's running statement calls, or None
  answer  \* answer[p]: the Go function p's running statement called last, or None

table == <<impl, using, answer>>

Init ==
  /\ impl = [k \in Kinds |-> [n \in Names |-> None]]
  /\ using = [p \in Procs |-> None]
  /\ answer = [p \in Procs |-> None]

\* A statement that calls a name may run only if the name is defined.
Start(p, k, n) ==
  /\ using[p] = None
  /\ impl[k][n] # None
  /\ using' = [using EXCEPT ![p] = <<k, n>>]
  /\ answer' = [answer EXCEPT ![p] = None]
  /\ UNCHANGED impl

Run(p) ==
  /\ using[p] # None
  /\ answer' = [answer EXCEPT ![p] = impl[using[p][1]][using[p][2]]]
  /\ UNCHANGED <<impl, using>>

Finish(p) ==
  /\ using[p] # None
  /\ using' = [using EXCEPT ![p] = None]
  /\ answer' = [answer EXCEPT ![p] = None]
  /\ UNCHANGED impl

Define(k, n, i) ==
  /\ \A p \in Procs : using[p] # <<k, n>>
  /\ impl' = [impl EXCEPT ![k][n] = i]
  /\ UNCHANGED <<using, answer>>

\* The connection is gone; nothing runs on it any more.
Drop(k, n) ==
  /\ \A p \in Procs : using[p] = None
  /\ impl' = [impl EXCEPT ![k][n] = None]
  /\ UNCHANGED <<using, answer>>

Next ==
  \/ \E p \in Procs : Run(p) \/ Finish(p)
  \/ \E p \in Procs, k \in Kinds, n \in Names : Start(p, k, n)
  \/ \E k \in Kinds, n \in Names : Drop(k, n) \/ \E i \in Impls : Define(k, n, i)

Spec == Init /\ [][Next]_table
=============================================================================
