-------------------------- MODULE SqliteRegistry --------------------------
(***************************************************************************)
(* The registries of a connection: Go functions that SQL calls through C   *)
(* callbacks.                                                              *)
(*                                                                         *)
(* SQLite never holds a Go function.  RegisterFunc and RegisterCollation   *)
(* draw an id, put the Go function under it into c.scalars or c.collations *)
(* and give SQLite the id with two C callbacks: one that looks the id up   *)
(* and runs the function, and the destructor that removes the entry.       *)
(* SQLite calls the destructor when a function is replaced, when the       *)
(* handle is freed and, for functions but not for collations, when the     *)
(* registration fails.                                                     *)
(*                                                                         *)
(* Goroutines share the connection: registryMu guards nextID and the maps, *)
(* each of its critical sections being one step here, and the handle's own *)
(* mutex (SQLITE_OPEN_FULLMUTEX) lets one goroutine at a time be inside    *)
(* the library, callbacks included.  External: that mutex, the library's   *)
(* table, and its refusal to replace a function while a statement is       *)
(* active.                                                                 *)
(***************************************************************************)
EXTENDS Naturals

CONSTANTS
  Procs,  \* goroutines that use the connection
  Names,  \* names SQL knows functions and collations by
  Impls,  \* Go functions
  MaxId,  \* bound on nextID
  None

Kinds == {"scalar", "collation"}
Ids == 1..MaxId
NoId == 0

ASSUME MaxIdAssumption == MaxId \in Nat
ASSUME NoneAssumption == None \notin Impls \cup Procs \cup (Kinds \X Names)

VARIABLES
  nextID,    \* c.nextID
  registry,  \* registry[k][id]: c.scalars and c.collations
  closed,    \* c.closed
  table,     \* external: table[k][n], the id the library holds for a name
  dbMutex,   \* external: the goroutine inside the library, or None
  proc       \* the goroutines

library == <<table, dbMutex>>
vars == <<nextID, registry, closed, library, proc>>

\* A goroutine registers ("add" to "cleanup") or runs a statement ("callback",
\* "row").  victim is the id whose destructor the library has to call.
Proc == [pc : {"idle", "add", "create", "destroy", "leave", "cleanup",
               "callback", "inside", "row"},
         kind : Kinds \cup {None}, name : Names \cup {None},
         impl : Impls \cup {None}, id : Ids \cup {NoId},
         victim : Ids \cup {NoId}, ok : BOOLEAN, answer : Impls \cup {None}]

IdleProc == [pc |-> "idle", kind |-> None, name |-> None, impl |-> None,
             id |-> NoId, victim |-> NoId, ok |-> FALSE, answer |-> None]

Init ==
  /\ nextID = 0
  /\ registry = [k \in Kinds |-> [id \in Ids |-> None]]
  /\ closed = FALSE
  /\ table = [k \in Kinds |-> [n \in Names |-> NoId]]
  /\ dbMutex = None
  /\ proc = [p \in Procs |-> IdleProc]

Registering(p) == proc[p].pc \in {"add", "create", "destroy", "leave", "cleanup"}
Running(p) == proc[p].pc \in {"callback", "inside", "row"}
VdbeActive == \E p \in Procs : Running(p)

Goto(p, label) == proc' = [proc EXCEPT ![p].pc = label]
Delete(k, id) == registry' = [registry EXCEPT ![k][id] = None]

-----------------------------------------------------------------------------
(* RegisterFunc and RegisterCollation.                                     *)

\* Draw an id and go on to add the entry.
Draw(p, k, n, i, id) ==
  proc' = [proc EXCEPT ![p] = [IdleProc EXCEPT !.pc = "add", !.kind = k, !.name = n,
                                               !.impl = i, !.id = id]]

\* Mutation: the increment is lost.
NextRegistryIDLost(p, k, n, i) ==
  /\ proc[p].pc = "idle" /\ ~closed /\ nextID < MaxId
  /\ Draw(p, k, n, i, nextID + 1)
  /\ UNCHANGED <<nextID, registry, closed, library>>

\* nextRegistryID; the bound on ids is the model's.
NextRegistryID(p, k, n, i) ==
  /\ proc[p].pc = "idle"
  /\ ~closed
  /\ nextID < MaxId
  /\ nextID' = nextID + 1
  /\ Draw(p, k, n, i, nextID + 1)
  /\ UNCHANGED <<registry, closed, library>>

\* Mutation: a name that is known keeps its id and changes its entry.
AddEntryInPlace(p) ==
  LET me == proc[p]
      held == table[me.kind][me.name]
  IN  /\ me.pc = "add"
      /\ registry' = [registry EXCEPT
                        ![me.kind][IF held = NoId THEN me.id ELSE held] = me.impl]
      /\ Goto(p, "create")
      /\ UNCHANGED <<nextID, closed, library>>

\* The entry goes in before the library knows the id.
AddEntry(p) ==
  /\ proc[p].pc = "add"
  /\ registry' = [registry EXCEPT ![proc[p].kind][proc[p].id] = proc[p].impl]
  /\ Goto(p, "create")
  /\ UNCHANGED <<nextID, closed, library>>

\* Mutation: the library is given the function itself and not its id.
CreateOkFunction(p) ==
  LET me == proc[p] IN
  /\ me.pc = "create" /\ dbMutex = None
  /\ table[me.kind][me.name] = NoId \/ ~VdbeActive
  /\ dbMutex' = p
  /\ table' = [table EXCEPT ![me.kind][me.name] = me.impl]
  /\ proc' = [proc EXCEPT ![p].pc = "destroy", ![p].ok = TRUE,
                          ![p].victim = table[me.kind][me.name]]
  /\ UNCHANGED <<nextID, registry, closed>>

\* CreateFunctionV2Callbacks, CreateCollationV2Callbacks: the library takes
\* the id and owes the replaced one its destructor.
CreateOk(p) ==
  LET me == proc[p] IN
  /\ me.pc = "create"
  /\ dbMutex = None
  /\ table[me.kind][me.name] = NoId \/ ~VdbeActive
  /\ dbMutex' = p
  /\ table' = [table EXCEPT ![me.kind][me.name] = me.id]
  /\ proc' = [proc EXCEPT ![p].pc = "destroy", ![p].ok = TRUE,
                          ![p].victim = table[me.kind][me.name]]
  /\ UNCHANGED <<nextID, registry, closed>>

\* The library refuses (an active statement, a bad name, no memory): it calls
\* the destructor of a refused function, and not that of a refused collation.
CreateFails(p) ==
  LET me == proc[p] IN
  /\ me.pc = "create"
  /\ dbMutex = None
  /\ dbMutex' = p
  /\ proc' = [proc EXCEPT ![p].pc = "destroy", ![p].ok = FALSE,
                          ![p].victim = IF me.kind = "scalar" THEN me.id ELSE NoId]
  /\ UNCHANGED <<nextID, registry, closed, table>>

\* Mutation: the destructor of the replaced registration removes the id of the
\* registration that replaces it.
DestroyOwn(p) ==
  LET me == proc[p] IN
  /\ me.pc = "destroy"
  /\ IF me.victim = NoId THEN UNCHANGED registry ELSE Delete(me.kind, me.id)
  /\ Goto(p, "leave")
  /\ UNCHANGED <<nextID, closed, library>>

\* The destructor callback, unregisterScalar or unregisterCollation, with the
\* id SQLite passes it.
Destroy(p) ==
  LET me == proc[p] IN
  /\ me.pc = "destroy"
  /\ IF me.victim = NoId THEN UNCHANGED registry ELSE Delete(me.kind, me.victim)
  /\ Goto(p, "leave")
  /\ UNCHANGED <<nextID, closed, library>>

Leave(p) ==
  /\ proc[p].pc = "leave"
  /\ dbMutex' = None
  /\ IF proc[p].ok THEN proc' = [proc EXCEPT ![p] = IdleProc] ELSE Goto(p, "cleanup")
  /\ UNCHANGED <<nextID, registry, closed, table>>

\* Mutation: the destructor is trusted to have cleaned up.
CleanupNot(p) ==
  /\ proc[p].pc = "cleanup"
  /\ proc' = [proc EXCEPT ![p] = IdleProc]
  /\ UNCHANGED <<nextID, registry, closed, library>>

\* result != SQLITE_OK: unregister the id, again for a function.
Cleanup(p) ==
  /\ proc[p].pc = "cleanup"
  /\ Delete(proc[p].kind, proc[p].id)
  /\ proc' = [proc EXCEPT ![p] = IdleProc]
  /\ UNCHANGED <<nextID, closed, library>>

-----------------------------------------------------------------------------
(* Statements that call a registered function or collation.                *)

\* sqlite3_step of a statement that uses a name the library knows.
StepBegin(p, k, n) ==
  /\ proc[p].pc = "idle"
  /\ ~closed
  /\ dbMutex = None
  /\ table[k][n] # NoId
  /\ dbMutex' = p
  /\ proc' = [proc EXCEPT ![p] = [IdleProc EXCEPT !.pc = "callback", !.kind = k, !.name = n,
                                                  !.id = table[k][n]]]
  /\ UNCHANGED <<nextID, registry, closed, table>>

\* invokeScalar, or the comparison callback: look the id up and run the entry.
Callback(p) ==
  /\ proc[p].pc = "callback"
  /\ proc' = [proc EXCEPT ![p].pc = "inside",
                          ![p].answer = registry[proc[p].kind][proc[p].id]]
  /\ UNCHANGED <<nextID, registry, closed, library>>

\* sqlite3_step returns a row: the statement stays active.
StepRow(p) ==
  /\ proc[p].pc = "inside"
  /\ dbMutex' = None
  /\ Goto(p, "row")
  /\ UNCHANGED <<nextID, registry, closed, table>>

StepAgain(p) ==
  /\ proc[p].pc = "row"
  /\ dbMutex = None
  /\ dbMutex' = p
  /\ Goto(p, "callback")
  /\ UNCHANGED <<nextID, registry, closed, table>>

\* The statement is reset or finalized.
StepEnd(p) ==
  /\ proc[p].pc = "row"
  /\ dbMutex = None
  /\ proc' = [proc EXCEPT ![p] = IdleProc]
  /\ UNCHANGED <<nextID, registry, closed, library>>

-----------------------------------------------------------------------------
\* SQLiteConn.Close, which nobody calls during a registration.  Statements
\* that still run keep the handle as a zombie.
Close ==
  /\ ~closed
  /\ dbMutex = None
  /\ \A p \in Procs : ~Registering(p)
  /\ closed' = TRUE
  /\ UNCHANGED <<nextID, registry, library, proc>>

\* The handle is freed with its last statement: every destructor is called.
DestroyOnClose(k, n) ==
  /\ closed
  /\ dbMutex = None
  /\ ~VdbeActive
  /\ table[k][n] # NoId
  /\ Delete(k, table[k][n])
  /\ table' = [table EXCEPT ![k][n] = NoId]
  /\ UNCHANGED <<nextID, closed, dbMutex, proc>>

Next ==
  \/ \E p \in Procs, k \in Kinds, n \in Names :
       StepBegin(p, k, n) \/ \E i \in Impls : NextRegistryID(p, k, n, i)
  \/ \E p \in Procs :
       \/ AddEntry(p) \/ CreateOk(p) \/ CreateFails(p) \/ Destroy(p) \/ Leave(p) \/ Cleanup(p)
       \/ Callback(p) \/ StepRow(p) \/ StepAgain(p) \/ StepEnd(p)
  \/ Close
  \/ \E k \in Kinds, n \in Names : DestroyOnClose(k, n)

Spec == Init /\ [][Next]_vars

-----------------------------------------------------------------------------
\* What the library holds for a name, and hands to a callback, is an id: Go
\* functions are in the Go maps only.
TypeOK ==
  /\ nextID \in 0..MaxId
  /\ registry \in [Kinds -> [Ids -> Impls \cup {None}]]
  /\ closed \in BOOLEAN
  /\ table \in [Kinds -> [Names -> Ids \cup {NoId}]]
  /\ dbMutex \in Procs \cup {None}
  /\ proc \in [Procs -> Proc]

Held(k) == {table[k][n] : n \in Names} \ {NoId}
Entries(k) == {id \in Ids : registry[k][id] # None}

\* When no registration is in progress the Go maps hold exactly the ids the
\* library holds: after a refused registration, which cleans up differently
\* for functions and collations, after a replacement and after Close there is
\* no entry left over that keeps a closure alive, and none is missing.
RegistryMatchesLibrary ==
  (\A p \in Procs : ~Registering(p)) => \A k \in Kinds : Entries(k) = Held(k)

\* Two names never share an id, not even while two goroutines register: the
\* destructor of one would remove the function of the other.
IdsDistinct ==
  \A k, l \in Kinds : \A n, m \in Names :
    table[k][n] = table[l][m] /\ table[k][n] # NoId => k = l /\ n = m

\* A callback never misses its entry.  For a function SQLite would report an
\* error, but a comparison without entry silently answers "equal".
CallbackFindsEntry ==
  \A p \in Procs : proc[p].pc = "inside" => proc[p].answer # None

\* The registries implement the table of functions that users see.
FT == INSTANCE FunctionTable WITH
  impl <- [k \in Kinds |-> [n \in Names |->
             IF table[k][n] = NoId THEN None ELSE registry[k][table[k][n]]]],
  using <- [p \in Procs |-> IF Running(p) THEN <<proc[p].kind, proc[p].name>> ELSE None],
  answer <- [p \in Procs |-> proc[p].answer]

ImplementsFunctionTable == FT!Spec
=============================================================================
