----------------------- MODULE SqliteRegistry_proofs -----------------------
(***************************************************************************)
(* Proofs about SqliteRegistry: its type invariant and its three safety    *)
(* invariants, and that the registries implement FunctionTable, for any    *)
(* number of goroutines, names, functions and ids.                         *)
(*                                                                         *)
(* None of the invariants is inductive.  That the Go maps match the        *)
(* library when nobody registers follows from saying, at every step of     *)
(* every registration, who answers for an entry: the library's table, the  *)
(* registration that drew the id, or the one that replaced it and has yet  *)
(* to run its destructor.                                                  *)
(***************************************************************************)
EXTENDS SqliteRegistry, TLAPS

\* The goroutines that hold the handle's mutex.
InLibrary(p) == proc[p].pc \in {"destroy", "leave", "callback", "inside"}

\* The library knows the id by a name.
Named(id) == \E k \in Kinds, n \in Names : table[k][n] = id

\* p has replaced a function, and the destructor of the old one is to come.
Owed(p) == proc[p].pc = "destroy" /\ proc[p].ok /\ proc[p].victim # NoId

\* What holds of a goroutine at each of its program points.
ProcState(p) ==
  /\ proc[p].pc = "idle" => proc[p] = IdleProc
  /\ proc[p].pc # "idle" =>
       proc[p].kind \in Kinds /\ proc[p].name \in Names /\ proc[p].id \in 1..nextID
  /\ Registering(p) => proc[p].impl \in Impls /\ proc[p].answer = None
  /\ proc[p].pc \in {"add", "create", "cleanup"} => ~proc[p].ok
  /\ (dbMutex = p) <=> InLibrary(p)
  /\ proc[p].pc = "create" => registry[proc[p].kind][proc[p].id] = proc[p].impl
  /\ proc[p].pc = "destroy" /\ ~proc[p].ok => proc[p].victim \in {NoId, proc[p].id}
  /\ Running(p) => table[proc[p].kind][proc[p].name] = proc[p].id
  /\ proc[p].pc = "inside" => proc[p].answer # None

ProcStates == \A p \in Procs : ProcState(p)

\* An id is drawn before the library or a goroutine has it.
IdsDrawn == \A k \in Kinds, n \in Names : table[k][n] <= nextID

\* Two registrations under way never have the same id.
DrawnOnce ==
  \A p, q \in Procs : Registering(p) /\ Registering(q) /\ proc[p].id = proc[q].id => p = q

\* The library has the id of a registration exactly when it accepted it.
NamedIfOk ==
  \A p \in Procs : Registering(p) =>
    /\ proc[p].ok => table[proc[p].kind][proc[p].name] = proc[p].id
    /\ ~proc[p].ok => ~Named(proc[p].id)

\* An id that waits for its destructor is nobody else's.
VictimsGone ==
  \A p \in Procs : Owed(p) =>
    /\ proc[p].victim <= nextID /\ ~Named(proc[p].victim)
    /\ \A q \in Procs : Registering(q) => proc[q].id # proc[p].victim

\* What the library may call is in the maps.
NamedHaveEntries ==
  \A k \in Kinds, n \in Names : table[k][n] # NoId => registry[k][table[k][n]] # None

\* p answers for the entry id of c.scalars or c.collations.
AnswersFor(p, k, id) ==
  /\ proc[p].kind = k
  /\ (Registering(p) /\ proc[p].id = id) \/ (Owed(p) /\ proc[p].victim = id)

\* What is in the maps, someone answers for.
EntriesOwned ==
  \A k \in Kinds, id \in Ids : registry[k][id] # None =>
    (\E n \in Names : table[k][n] = id) \/ (\E p \in Procs : AnswersFor(p, k, id))

Inv ==
  /\ TypeOK
  /\ ProcStates
  /\ IdsDistinct
  /\ IdsDrawn
  /\ DrawnOnce
  /\ NamedIfOk
  /\ VictimsGone
  /\ NamedHaveEntries
  /\ EntriesOwned

-----------------------------------------------------------------------------
(* Lemmas about the steps of one goroutine.                                *)

\* The records a goroutine can be in: one that is idle, one that has drawn an
\* id, one that has begun a statement.
LEMMA IdleTyped == IdleProc \in Proc
BY DEF IdleProc, Proc

\* A goroutine gets a new record: it has it, and the others keep theirs.
LEMMA ProcGets ==
  ASSUME TypeOK, NEW p \in Procs, NEW d \in Proc, proc' = [proc EXCEPT ![p] = d]
  PROVE  /\ proc' \in [Procs -> Proc]
         /\ proc'[p] = d
         /\ \A q \in Procs : q # p => proc'[q] = proc[q]
BY DEF TypeOK

\* Goto changes the program counter of one goroutine and nothing else.
LEMMA GotoMoves ==
  ASSUME TypeOK, NEW p \in Procs, NEW l, Goto(p, l),
         l \in {"idle", "add", "create", "destroy", "leave", "cleanup", "callback",
                "inside", "row"}
  PROVE  /\ proc' \in [Procs -> Proc]
         /\ proc'[p].pc = l
         /\ proc'[p].kind = proc[p].kind /\ proc'[p].name = proc[p].name
         /\ proc'[p].impl = proc[p].impl /\ proc'[p].id = proc[p].id
         /\ proc'[p].victim = proc[p].victim /\ proc'[p].ok = proc[p].ok
         /\ proc'[p].answer = proc[p].answer
         /\ \A q \in Procs : q # p => proc'[q] = proc[q]
<1> DEFINE d == [proc[p] EXCEPT !.pc = l]
<1>1. proc[p] \in Proc
  BY DEF TypeOK
<1>2. d \in Proc /\ d.pc = l /\ d.kind = proc[p].kind /\ d.name = proc[p].name
      /\ d.impl = proc[p].impl /\ d.id = proc[p].id /\ d.victim = proc[p].victim
      /\ d.ok = proc[p].ok /\ d.answer = proc[p].answer
  BY <1>1 DEF Proc
<1>3. proc' = [proc EXCEPT ![p] = d]
  BY DEF Goto
<1> HIDE DEF d
<1> QED
  BY <1>2, <1>3, ProcGets

\* A goroutine whose record stays is where it was.
SameState(q) ==
  /\ proc'[q] = proc[q]
  /\ InLibrary(q)' = InLibrary(q) /\ Registering(q)' = Registering(q)
  /\ Running(q)' = Running(q) /\ Owed(q)' = Owed(q)

LEMMA OthersStay ==
  ASSUME NEW p \in Procs, \A q \in Procs : q # p => proc'[q] = proc[q]
  PROVE  \A q \in Procs : q # p => SameState(q)
BY DEF SameState, InLibrary, Registering, Running, Owed

\* Removing the entry of one id leaves the others.
LEMMA DeleteRemoves ==
  ASSUME TypeOK, NEW k \in Kinds, NEW id \in Ids, Delete(k, id)
  PROVE  /\ registry' \in [Kinds -> [Ids -> Impls \cup {None}]]
         /\ registry'[k][id] = None
         /\ \A l \in Kinds, i \in Ids : l # k \/ i # id => registry'[l][i] = registry[l][i]
BY DEF Delete, TypeOK

\* Nobody is inside the library when its mutex is free.
LEMMA NobodyInside ==
  ASSUME ProcStates, dbMutex = None
  PROVE  \A p \in Procs : ~InLibrary(p) /\ ~Owed(p) /\ (Registering(p) => ~proc[p].ok)
BY NoneAssumption DEF ProcStates, ProcState, InLibrary, Owed, Registering

\* What a registration under way has.
LEMMA RegisteringState ==
  ASSUME TypeOK, ProcStates, NEW p \in Procs, Registering(p)
  PROVE  /\ proc[p] \in Proc /\ proc[p].kind \in Kinds /\ proc[p].name \in Names
         /\ proc[p].id \in Ids /\ proc[p].id \in 1..nextID /\ nextID \in Nat
         /\ proc[p].impl \in Impls /\ proc[p].answer = None
<1>1. ProcState(p) /\ proc[p] \in Proc /\ proc[p].pc # "idle"
  BY DEF ProcStates, TypeOK, Registering
<1>2. nextID \in Nat /\ nextID <= MaxId
  BY MaxIdAssumption DEF TypeOK
<1> QED
  BY <1>1, <1>2, MaxIdAssumption DEF ProcState, Ids

-----------------------------------------------------------------------------
LEMMA InitInv == Init => Inv
<1> SUFFICES ASSUME Init PROVE Inv
  OBVIOUS
<1>0. 0 \in 0..MaxId
  BY MaxIdAssumption
<1>1. TypeOK
  BY <1>0, IdleTyped DEF Init, TypeOK
<1>2. \A p \in Procs : proc[p] = IdleProc /\ ~Registering(p) /\ ~Running(p)
                       /\ ~InLibrary(p) /\ ~Owed(p)
  BY DEF Init, IdleProc, Registering, Running, InLibrary, Owed
<1>3. ProcStates
  BY <1>2, NoneAssumption DEF ProcStates, ProcState, Init, IdleProc, InLibrary, Registering, Running
<1>4. IdsDistinct /\ IdsDrawn /\ NamedHaveEntries /\ EntriesOwned
  BY DEF Init, IdsDistinct, IdsDrawn, NamedHaveEntries, EntriesOwned, NoId
<1>5. DrawnOnce /\ NamedIfOk /\ VictimsGone
  BY <1>2 DEF DrawnOnce, NamedIfOk, VictimsGone
<1> QED
  BY <1>1, <1>3, <1>4, <1>5 DEF Inv

-----------------------------------------------------------------------------
(* Every step of a goroutine keeps the invariant.                          *)

LEMMA NextRegistryIDKeeps ==
  ASSUME Inv, NEW p \in Procs, NEW k \in Kinds, NEW n \in Names, NEW i \in Impls,
         NextRegistryID(p, k, n, i)
  PROVE  Inv'
<1> DEFINE d == [IdleProc EXCEPT !.pc = "add", !.kind = k, !.name = n, !.impl = i,
                                 !.id = nextID + 1]
<1> USE DEF Inv, SameState
<1>1. nextID' = nextID + 1 /\ nextID \in Nat /\ nextID + 1 \in Ids /\ nextID' \in 0..MaxId
  BY MaxIdAssumption DEF NextRegistryID, TypeOK, Ids
<1>2. d \in Proc
  BY <1>1, IdleTyped DEF Proc
<1>3. d.pc = "add" /\ d.kind = k /\ d.name = n /\ d.impl = i /\ d.id = nextID + 1
      /\ d.ok = FALSE /\ d.answer = None
  BY DEF IdleProc
<1>4. proc' = [proc EXCEPT ![p] = d]
  BY DEF NextRegistryID, Draw
<1> HIDE DEF d
<1>5. /\ proc' \in [Procs -> Proc] /\ proc'[p] = d
      /\ \A q \in Procs : q # p => proc'[q] = proc[q]
  BY <1>2, <1>4, ProcGets
<1>6. UNCHANGED <<registry, closed, table, dbMutex>> /\ proc[p].pc = "idle"
  BY DEF NextRegistryID, library
<1>7. TypeOK'
  BY <1>1, <1>5, <1>6 DEF TypeOK
<1>8. ~InLibrary(p) /\ ~Registering(p) /\ ~Running(p) /\ ~Owed(p)
  BY <1>6 DEF InLibrary, Registering, Running, Owed
<1>9. InLibrary(p)' = FALSE /\ Registering(p)' /\ ~Running(p)' /\ ~Owed(p)'
  BY <1>3, <1>5 DEF InLibrary, Registering, Running, Owed
<1>10. \A q \in Procs : q # p => SameState(q)
  BY <1>5, OthersStay
<1>11. ~Named(nextID + 1) /\ \A q \in Procs : proc[q].id # nextID + 1 \/ ~Registering(q)
  BY <1>1 DEF IdsDrawn, Named, ProcStates, ProcState, Registering, TypeOK
<1>12. ProcState(p)'
  BY <1>1, <1>3, <1>5, <1>6, <1>8, <1>9 DEF ProcStates, ProcState
<1>13. ASSUME NEW q \in Procs, q # p PROVE ProcState(q)'
  BY <1>1, <1>5, <1>6, <1>10, <1>13 DEF ProcStates, ProcState
<1>14. IdsDistinct' /\ IdsDrawn' /\ NamedHaveEntries'
  BY <1>1, <1>6 DEF IdsDistinct, IdsDrawn, NamedHaveEntries, TypeOK, Ids, NoId
<1>15. DrawnOnce'
  BY <1>3, <1>5, <1>10, <1>11 DEF DrawnOnce
<1>16. NamedIfOk'
  BY <1>3, <1>5, <1>6, <1>10, <1>11 DEF NamedIfOk, Named
<1>17. VictimsGone'
  <2> SUFFICES ASSUME NEW q \in Procs, Owed(q)'
               PROVE  /\ proc'[q].victim <= nextID' /\ ~Named(proc[q].victim)'
                      /\ \A r \in Procs : Registering(r)' => proc'[r].id # proc'[q].victim
    BY DEF VictimsGone
  <2>1. q # p /\ Owed(q) /\ proc'[q] = proc[q] /\ proc[q].victim \in Nat
    BY <1>5, <1>9, <1>10 DEF TypeOK, Proc, Ids, NoId
  <2> QED
    BY <2>1, <1>1, <1>3, <1>5, <1>6, <1>10, <1>11 DEF VictimsGone, Named
<1>18. EntriesOwned'
  BY <1>5, <1>6, <1>8, <1>10 DEF EntriesOwned, AnswersFor
<1> QED
  BY <1>7, <1>12, <1>13, <1>14, <1>15, <1>16, <1>17, <1>18 DEF ProcStates

LEMMA AddEntryKeeps ==
  ASSUME Inv, NEW p \in Procs, AddEntry(p)
  PROVE  Inv'
<1> DEFINE k == proc[p].kind
           id == proc[p].id
<1> USE DEF Inv, SameState
<1>1. /\ k \in Kinds /\ proc[p].name \in Names /\ id \in 1..nextID /\ proc[p].impl \in Impls
      /\ id \in Ids /\ nextID \in Nat
      /\ proc[p].answer = None /\ ~proc[p].ok /\ dbMutex # p /\ proc[p].pc = "add"
  BY MaxIdAssumption, SMTT(30)
     DEF AddEntry, ProcStates, ProcState, Registering, InLibrary, TypeOK, Ids
<1>2. /\ proc' \in [Procs -> Proc] /\ proc'[p].pc = "create"
      /\ proc'[p].kind = k /\ proc'[p].name = proc[p].name /\ proc'[p].impl = proc[p].impl
      /\ proc'[p].id = id /\ proc'[p].ok = proc[p].ok /\ proc'[p].answer = proc[p].answer
      /\ \A q \in Procs : q # p => proc'[q] = proc[q]
  BY GotoMoves DEF AddEntry
<1>3. UNCHANGED <<nextID, closed, table, dbMutex>>
  BY DEF AddEntry, library
<1>4. /\ registry' \in [Kinds -> [Ids -> Impls \cup {None}]]
      /\ registry'[k][id] = proc[p].impl
      /\ \A l \in Kinds, i \in Ids : l # k \/ i # id => registry'[l][i] = registry[l][i]
  BY <1>1 DEF AddEntry, TypeOK
<1>5. TypeOK'
  BY <1>2, <1>3, <1>4 DEF TypeOK
<1>6. /\ InLibrary(p)' = FALSE /\ Registering(p)' /\ ~Running(p)' /\ ~Owed(p)'
      /\ Registering(p) /\ ~Owed(p)
  BY <1>1, <1>2 DEF InLibrary, Registering, Running, Owed
<1>7. \A q \in Procs : q # p => SameState(q)
  BY <1>2, OthersStay
<1>8. ProcState(p)'
  BY <1>1, <1>2, <1>3, <1>4, <1>6 DEF ProcState
<1>9. ASSUME NEW q \in Procs, q # p PROVE ProcState(q)'
  <2>1. ProcState(q) /\ SameState(q)
    BY <1>7, <1>9 DEF ProcStates
  <2>2. proc[q].pc = "create" => Registering(q) /\ proc[q].id # id
    BY <1>6, <1>9 DEF DrawnOnce, Registering
  <2>3. proc[q].pc = "create" => proc[q].kind \in Kinds /\ proc[q].id \in Ids
    BY <1>1, <2>1, MaxIdAssumption DEF ProcState, Registering, TypeOK, Ids
  <2> QED
    BY <2>1, <2>2, <2>3, <1>3, <1>4 DEF ProcState
<1>10. IdsDistinct' /\ IdsDrawn'
  BY <1>3 DEF IdsDistinct, IdsDrawn
<1>11. DrawnOnce' /\ NamedIfOk'
  BY <1>1, <1>2, <1>3, <1>6, <1>7 DEF DrawnOnce, NamedIfOk, Named
<1>12. VictimsGone'
  <2> SUFFICES ASSUME NEW q \in Procs, Owed(q)'
               PROVE  /\ proc'[q].victim <= nextID' /\ ~Named(proc[q].victim)'
                      /\ \A r \in Procs : Registering(r)' => proc'[r].id # proc'[q].victim
    BY DEF VictimsGone
  <2>1. q # p /\ SameState(q)
    BY <1>6, <1>7
  <2> QED
    BY <2>1, <1>2, <1>3, <1>6, <1>7 DEF VictimsGone, Named
<1>13. NamedHaveEntries'
  <2> SUFFICES ASSUME NEW l \in Kinds, NEW n \in Names, table[l][n] # NoId
               PROVE  registry'[l][table[l][n]] # None
    BY <1>3 DEF NamedHaveEntries
  <2>1. table[l][n] \in Ids /\ registry[l][table[l][n]] # None
    BY DEF NamedHaveEntries, TypeOK
  <2> QED
    BY <2>1, <1>1, <1>4, NoneAssumption
<1>14. EntriesOwned'
  <2> SUFFICES ASSUME NEW l \in Kinds, NEW i \in Ids, registry'[l][i] # None
               PROVE  (\E n \in Names : table'[l][n] = i)
                      \/ (\E q \in Procs : AnswersFor(q, l, i)')
    BY DEF EntriesOwned
  <2>1. CASE l = k /\ i = id
    BY <2>1, <1>2, <1>6 DEF AnswersFor
  <2>2. CASE l # k \/ i # id
    BY <2>2, <1>2, <1>3, <1>4, <1>6, <1>7 DEF EntriesOwned, AnswersFor
  <2> QED
    BY <2>1, <2>2
<1> QED
  BY <1>5, <1>8, <1>9, <1>10, <1>11, <1>12, <1>13, <1>14 DEF ProcStates

LEMMA CreateOkKeeps ==
  ASSUME Inv, NEW p \in Procs, CreateOk(p)
  PROVE  Inv'
<1> DEFINE k == proc[p].kind
           n == proc[p].name
           id == proc[p].id
           old == table[k][n]
           d == [proc[p] EXCEPT !.pc = "destroy", !.ok = TRUE, !.victim = old]
<1> USE DEF Inv, SameState
<1>1. /\ proc[p].pc = "create" /\ Registering(p) /\ dbMutex = None
      /\ UNCHANGED <<nextID, registry, closed>> /\ dbMutex' = p
      /\ old = NoId \/ ~VdbeActive
  BY DEF CreateOk, Registering
<1>2. /\ proc[p] \in Proc /\ k \in Kinds /\ n \in Names /\ id \in Ids /\ id \in 1..nextID
      /\ nextID \in Nat /\ proc[p].impl \in Impls /\ proc[p].answer = None
  BY <1>1, RegisteringState
<1>3. /\ old \in Ids \cup {NoId} /\ ~proc[p].ok
      /\ registry[k][id] = proc[p].impl
  BY <1>1, <1>2 DEF TypeOK, ProcStates, ProcState
<1>4. /\ d \in Proc /\ d.pc = "destroy" /\ d.ok /\ d.victim = old /\ d.kind = k /\ d.name = n
      /\ d.id = id /\ d.impl = proc[p].impl /\ d.answer = None
  BY <1>2, <1>3 DEF Proc
<1>5. proc' = [proc EXCEPT ![p] = d]
  BY DEF CreateOk
<1> HIDE DEF d
<1>6. /\ proc' \in [Procs -> Proc] /\ proc'[p] = d
      /\ \A q \in Procs : q # p => proc'[q] = proc[q]
  BY <1>4, <1>5, ProcGets
<1>7. /\ table' \in [Kinds -> [Names -> Ids \cup {NoId}]] /\ table'[k][n] = id
      /\ \A l \in Kinds, m \in Names : l # k \/ m # n => table'[l][m] = table[l][m]
  BY <1>2 DEF CreateOk, TypeOK
<1>8. TypeOK'
  BY <1>1, <1>6, <1>7 DEF TypeOK
<1>9. \A q \in Procs : q # p => SameState(q)
  BY <1>6, OthersStay
<1>10. Registering(p)' /\ InLibrary(p)' /\ ~Running(p)'
  BY <1>4, <1>6 DEF Registering, InLibrary, Running
<1>11. \A q \in Procs : ~InLibrary(q) /\ ~Owed(q) /\ (Registering(q) => ~proc[q].ok)
  BY <1>1, NobodyInside
<1>12. ~Named(id) /\ id # NoId /\ id # old
  BY <1>1, <1>2, <1>3 DEF NamedIfOk, Named, NoId, Ids
<1>13. ProcState(p)'
  BY <1>1, <1>2, <1>4, <1>6, <1>7, <1>10 DEF ProcState
<1>14. ASSUME NEW q \in Procs, q # p PROVE ProcState(q)'
  <2>1. ProcState(q) /\ SameState(q) /\ ~InLibrary(q)
    BY <1>9, <1>11, <1>14 DEF ProcStates
  <2>2. Running(q) => /\ proc[q].kind \in Kinds /\ proc[q].name \in Names
                      /\ proc[q].kind # k \/ proc[q].name # n
    <3> SUFFICES ASSUME Running(q)
                 PROVE  /\ proc[q].kind \in Kinds /\ proc[q].name \in Names
                        /\ proc[q].kind # k \/ proc[q].name # n
      OBVIOUS
    <3>1. /\ proc[q].kind \in Kinds /\ proc[q].name \in Names /\ proc[q].id \in 1..nextID
          /\ table[proc[q].kind][proc[q].name] = proc[q].id
      BY <2>1 DEF ProcState, Running
    <3>2. old = NoId
      BY <1>1 DEF VdbeActive
    <3> QED
      BY <3>1, <3>2, <1>2 DEF NoId
  <2> QED
    BY <2>1, <2>2, <1>1, <1>7, <1>14, NoneAssumption DEF ProcState
<1>15. IdsDistinct'
  <2> SUFFICES ASSUME NEW l \in Kinds, NEW l2 \in Kinds, NEW m \in Names, NEW m2 \in Names,
                      table'[l][m] = table'[l2][m2], table'[l][m] # NoId
               PROVE  l = l2 /\ m = m2
    BY DEF IdsDistinct
  <2>1. CASE l = k /\ m = n
    BY <2>1, <1>7, <1>12 DEF Named
  <2>2. CASE l2 = k /\ m2 = n
    BY <2>2, <1>7, <1>12 DEF Named
  <2>3. CASE (l # k \/ m # n) /\ (l2 # k \/ m2 # n)
    BY <2>3, <1>7 DEF IdsDistinct
  <2> QED
    BY <2>1, <2>2, <2>3
<1>16. IdsDrawn' /\ NamedHaveEntries'
  <2> SUFFICES ASSUME NEW l \in Kinds, NEW m \in Names
               PROVE  /\ table'[l][m] <= nextID'
                      /\ table'[l][m] # NoId => registry'[l][table'[l][m]] # None
    BY DEF IdsDrawn, NamedHaveEntries
  <2>1. CASE l = k /\ m = n
    BY <2>1, <1>1, <1>2, <1>3, <1>7, NoneAssumption
  <2>2. CASE l # k \/ m # n
    BY <2>2, <1>1, <1>7 DEF IdsDrawn, NamedHaveEntries
  <2> QED
    BY <2>1, <2>2
<1>17. DrawnOnce'
  BY <1>1, <1>4, <1>6, <1>9 DEF DrawnOnce
<1>18. NamedIfOk'
  <2> SUFFICES ASSUME NEW q \in Procs, Registering(q)'
               PROVE  /\ proc'[q].ok => table'[proc'[q].kind][proc'[q].name] = proc'[q].id
                      /\ ~proc'[q].ok => ~Named(proc[q].id)'
    BY DEF NamedIfOk
  <2>1. CASE q = p
    BY <2>1, <1>4, <1>6, <1>7
  <2>2. CASE q # p
    <3>1. SameState(q) /\ Registering(q) /\ ~proc[q].ok /\ ~Named(proc[q].id)
      BY <2>2, <1>9, <1>11 DEF NamedIfOk
    <3>2. proc[q].id # id
      BY <3>1, <2>2, <1>1 DEF DrawnOnce
    <3> QED
      BY <3>1, <3>2, <1>7 DEF Named
  <2> QED
    BY <2>1, <2>2
<1>19. VictimsGone'
  <2> SUFFICES ASSUME NEW v \in Ids, v = old
               PROVE  /\ v <= nextID /\ ~Named(v)'
                      /\ \A r \in Procs : Registering(r)' => proc'[r].id # v
    <3>1. ASSUME NEW q \in Procs, Owed(q)' PROVE q = p /\ proc'[q].victim \in Ids
      BY <3>1, <1>3, <1>4, <1>6, <1>9, <1>11 DEF Owed
    <3> QED
      BY <3>1, <1>1, <1>4, <1>6 DEF VictimsGone
  <2>1. v # NoId /\ v <= nextID
    BY <1>2 DEF IdsDrawn, Ids, NoId
  <2>2. ~Named(v)'
    <3> SUFFICES ASSUME NEW l \in Kinds, NEW m \in Names, table'[l][m] = v
                 PROVE  FALSE
      BY DEF Named
    <3> QED
      BY <2>1, <1>2, <1>7, <1>12 DEF IdsDistinct
  <2>3. ASSUME NEW r \in Procs, Registering(r)' PROVE proc'[r].id # v
    BY <2>3, <1>2, <1>4, <1>6, <1>9, <1>11, <1>12 DEF NamedIfOk, Named
  <2> QED
    BY <2>1, <2>2, <2>3
<1>20. EntriesOwned'
  <2> SUFFICES ASSUME NEW l \in Kinds, NEW i \in Ids, registry[l][i] # None
               PROVE  (\E m \in Names : table'[l][m] = i)
                      \/ (\E q \in Procs : AnswersFor(q, l, i)')
    BY <1>1 DEF EntriesOwned
  <2>1. CASE \E m \in Names : table[l][m] = i
    <3> PICK m \in Names : table[l][m] = i
      BY <2>1
    <3>1. CASE l = k /\ m = n
      BY <3>1, <1>4, <1>6 DEF AnswersFor, Owed, NoId, Ids
    <3>2. CASE l # k \/ m # n
      BY <3>2, <1>7
    <3> QED
      BY <3>1, <3>2
  <2>2. CASE \E q \in Procs : AnswersFor(q, l, i)
    <3> PICK q \in Procs : AnswersFor(q, l, i)
      BY <2>2
    <3>1. CASE q = p
      BY <3>1, <1>4, <1>6, <1>10, <1>11 DEF AnswersFor
    <3>2. CASE q # p
      BY <3>2, <1>9 DEF AnswersFor
    <3> QED
      BY <3>1, <3>2
  <2> QED
    BY <2>1, <2>2 DEF EntriesOwned
<1> QED
  BY <1>8, <1>13, <1>14, <1>15, <1>16, <1>17, <1>18, <1>19, <1>20 DEF ProcStates

-----------------------------------------------------------------------------
(* Steps that leave the registries and the library's table alone.          *)

\* The ids and the entries have the owners they had.
LEMMA OwnersStay ==
  ASSUME Inv, UNCHANGED <<nextID, registry, table>>,
         \A q \in Procs : /\ Registering(q)' = Registering(q) /\ Owed(q)' = Owed(q)
                          /\ Registering(q) => /\ proc'[q].kind = proc[q].kind
                                               /\ proc'[q].name = proc[q].name
                                               /\ proc'[q].id = proc[q].id
                                               /\ proc'[q].ok = proc[q].ok
                          /\ Owed(q) => proc'[q].victim = proc[q].victim
  PROVE  /\ IdsDistinct' /\ IdsDrawn' /\ DrawnOnce' /\ NamedIfOk' /\ VictimsGone'
         /\ NamedHaveEntries' /\ EntriesOwned'
<1> USE DEF Inv
<1>1. IdsDistinct' /\ IdsDrawn' /\ NamedHaveEntries'
  BY DEF IdsDistinct, IdsDrawn, NamedHaveEntries
<1>2. DrawnOnce' /\ NamedIfOk'
  BY DEF DrawnOnce, NamedIfOk, Named
<1>3. VictimsGone'
  BY DEF VictimsGone, Named
<1>4. \A q \in Procs : Owed(q) => Registering(q)
  BY DEF Owed, Registering
<1>5. EntriesOwned'
  BY <1>4 DEF EntriesOwned, AnswersFor
<1> QED
  BY <1>1, <1>2, <1>3, <1>5

\* A goroutine that does not move stays in its state.
LEMMA OtherStays ==
  ASSUME ProcStates, NEW q \in Procs, SameState(q), UNCHANGED <<nextID, registry, table>>,
         dbMutex' = q <=> dbMutex = q
  PROVE  ProcState(q)'
BY DEF SameState, ProcStates, ProcState

LEMMA CreateFailsKeeps ==
  ASSUME Inv, NEW p \in Procs, CreateFails(p)
  PROVE  Inv'
<1> DEFINE d == [proc[p] EXCEPT !.pc = "destroy", !.ok = FALSE,
                                !.victim = IF proc[p].kind = "scalar" THEN proc[p].id ELSE NoId]
<1> USE DEF Inv, SameState
<1>1. /\ proc[p].pc = "create" /\ Registering(p) /\ ~Owed(p) /\ dbMutex = None
      /\ UNCHANGED <<nextID, registry, closed, table>> /\ dbMutex' = p
  BY DEF CreateFails, Registering, Owed
<1>2. /\ proc[p] \in Proc /\ proc[p].kind \in Kinds /\ proc[p].name \in Names
      /\ proc[p].id \in Ids /\ proc[p].id \in 1..nextID
      /\ proc[p].impl \in Impls /\ proc[p].answer = None
  BY <1>1, RegisteringState
<1>3. ~proc[p].ok /\ proc[p].ok = FALSE
  BY <1>1, <1>2 DEF ProcStates, ProcState, Proc
<1>4. /\ d \in Proc /\ d.pc = "destroy" /\ d.ok = FALSE /\ d.victim \in {NoId, proc[p].id}
      /\ d.kind = proc[p].kind /\ d.name = proc[p].name /\ d.id = proc[p].id
      /\ d.impl = proc[p].impl /\ d.answer = None
  BY <1>2 DEF Proc
<1>5. proc' = [proc EXCEPT ![p] = d]
  BY DEF CreateFails
<1> HIDE DEF d
<1>6. /\ proc' \in [Procs -> Proc] /\ proc'[p] = d
      /\ \A q \in Procs : q # p => proc'[q] = proc[q]
  BY <1>4, <1>5, ProcGets
<1>7. TypeOK'
  BY <1>1, <1>6 DEF TypeOK
<1>8. \A q \in Procs : q # p => SameState(q)
  BY <1>6, OthersStay
<1>9. Registering(p)' /\ InLibrary(p)' /\ ~Running(p)' /\ ~Owed(p)'
  BY <1>4, <1>6 DEF Registering, InLibrary, Running, Owed
<1>10. ProcState(p)'
  BY <1>1, <1>2, <1>4, <1>6, <1>9 DEF ProcState
<1>11. ASSUME NEW q \in Procs, q # p PROVE ProcState(q)'
  BY <1>1, <1>8, <1>11, OtherStays, NoneAssumption
<1>12. \A q \in Procs : /\ Registering(q)' = Registering(q) /\ Owed(q)' = Owed(q)
                        /\ Registering(q) => /\ proc'[q].kind = proc[q].kind
                                             /\ proc'[q].name = proc[q].name
                                             /\ proc'[q].id = proc[q].id
                                             /\ proc'[q].ok = proc[q].ok
                        /\ Owed(q) => proc'[q].victim = proc[q].victim
  <2> SUFFICES ASSUME NEW q \in Procs
               PROVE  /\ Registering(q)' = Registering(q) /\ Owed(q)' = Owed(q)
                      /\ Registering(q) => /\ proc'[q].kind = proc[q].kind
                                           /\ proc'[q].name = proc[q].name
                                           /\ proc'[q].id = proc[q].id
                                           /\ proc'[q].ok = proc[q].ok
                      /\ Owed(q) => proc'[q].victim = proc[q].victim
    OBVIOUS
  <2>1. CASE q = p
    <3>1. Registering(p)' = Registering(p) /\ Owed(p)' = Owed(p)
      BY <1>1, <1>9 DEF Registering, Owed
    <3> QED
      BY <2>1, <3>1, <1>1, <1>3, <1>4, <1>6
  <2>2. CASE q # p
    BY <2>2, <1>8
  <2> QED
    BY <2>1, <2>2
<1> QED
  BY <1>1, <1>7, <1>10, <1>11, <1>12, OwnersStay DEF ProcStates

\* A goroutine outside a registration moves to a state outside one: what the
\* running of statements keeps.
LEMMA RunningKeeps ==
  ASSUME Inv, NEW p \in Procs, UNCHANGED <<nextID, registry, table>>,
         TypeOK', ProcState(p)', ~Registering(p), ~Registering(p)',
         \A q \in Procs : q # p => proc'[q] = proc[q] /\ (dbMutex' = q <=> dbMutex = q)
  PROVE  Inv'
<1> USE DEF Inv, SameState
<1>1. \A q \in Procs : q # p => SameState(q)
  BY OthersStay
<1>2. ProcStates'
  BY <1>1, OtherStays DEF ProcStates
<1>3. Registering(p)' = Registering(p) /\ Owed(p)' = Owed(p) /\ ~Owed(p)
  BY DEF Registering, Owed
<1>4. \A q \in Procs : /\ Registering(q)' = Registering(q) /\ Owed(q)' = Owed(q)
                       /\ Registering(q) => /\ proc'[q].kind = proc[q].kind
                                            /\ proc'[q].name = proc[q].name
                                            /\ proc'[q].id = proc[q].id
                                            /\ proc'[q].ok = proc[q].ok
                       /\ Owed(q) => proc'[q].victim = proc[q].victim
  BY <1>1, <1>3
<1> QED
  BY <1>2, <1>4, OwnersStay

LEMMA StepBeginKeeps ==
  ASSUME Inv, NEW p \in Procs, NEW k \in Kinds, NEW n \in Names, StepBegin(p, k, n)
  PROVE  Inv'
<1> DEFINE d == [IdleProc EXCEPT !.pc = "callback", !.kind = k, !.name = n,
                                 !.id = table[k][n]]
<1> USE DEF Inv
<1>1. /\ proc[p].pc = "idle" /\ dbMutex = None /\ dbMutex' = p
      /\ UNCHANGED <<nextID, registry, closed, table>> /\ proc' = [proc EXCEPT ![p] = d]
  BY DEF StepBegin
<1>2. table[k][n] \in Ids /\ table[k][n] \in 1..nextID
  BY MaxIdAssumption DEF StepBegin, TypeOK, IdsDrawn, Ids, NoId
<1>3. /\ d \in Proc /\ d.pc = "callback" /\ d.kind = k /\ d.name = n /\ d.id = table[k][n]
  BY <1>2, IdleTyped DEF Proc, IdleProc
<1> HIDE DEF d
<1>4. /\ proc' \in [Procs -> Proc] /\ proc'[p] = d
      /\ \A q \in Procs : q # p => proc'[q] = proc[q]
  BY <1>1, <1>3, ProcGets
<1>5. TypeOK'
  BY <1>1, <1>4 DEF TypeOK
<1>6. ~Registering(p)' /\ InLibrary(p)' /\ ~Registering(p)
  BY <1>1, <1>3, <1>4 DEF Registering, InLibrary
<1>7. ProcState(p)'
  BY <1>1, <1>2, <1>3, <1>4, <1>6 DEF ProcState
<1> QED
  BY <1>1, <1>4, <1>5, <1>6, <1>7, RunningKeeps, NoneAssumption

LEMMA CallbackKeeps ==
  ASSUME Inv, NEW p \in Procs, Callback(p)
  PROVE  Inv' /\ registry[proc[p].kind][proc[p].id] \in Impls
<1> DEFINE a == registry[proc[p].kind][proc[p].id]
           d == [proc[p] EXCEPT !.pc = "inside", !.answer = a]
<1> USE DEF Inv
<1>1. /\ proc[p].pc = "callback" /\ Running(p) /\ InLibrary(p) /\ ~Registering(p)
      /\ UNCHANGED <<nextID, registry, closed, table, dbMutex>>
      /\ proc' = [proc EXCEPT ![p] = d] /\ proc[p] \in Proc
  BY DEF Callback, library, Running, InLibrary, Registering, TypeOK
<1>2. /\ proc[p].kind \in Kinds /\ proc[p].name \in Names /\ proc[p].id \in 1..nextID
      /\ table[proc[p].kind][proc[p].name] = proc[p].id /\ dbMutex = p
  BY <1>1 DEF ProcStates, ProcState
<1>3. a \in Impls
  <2>1. proc[p].id # NoId /\ proc[p].id \in Ids
    BY <1>1, <1>2 DEF NoId, Proc
  <2> QED
    BY <2>1, <1>2 DEF NamedHaveEntries, TypeOK
<1>4. /\ d \in Proc /\ d.pc = "inside" /\ d.answer = a /\ d.kind = proc[p].kind
      /\ d.name = proc[p].name /\ d.id = proc[p].id
  BY <1>1, <1>3 DEF Proc
<1>5. a # None
  BY <1>3, NoneAssumption
<1> HIDE DEF d
<1>6. /\ proc' \in [Procs -> Proc] /\ proc'[p] = d
      /\ \A q \in Procs : q # p => proc'[q] = proc[q]
  BY <1>1, <1>4, ProcGets
<1>7. TypeOK'
  BY <1>1, <1>6 DEF TypeOK
<1>8. ~Registering(p)' /\ InLibrary(p)'
  BY <1>4, <1>6 DEF Registering, InLibrary
<1>9. ProcState(p)'
  BY <1>1, <1>2, <1>4, <1>5, <1>6, <1>8 DEF ProcState
<1> QED
  BY <1>1, <1>3, <1>6, <1>7, <1>8, <1>9, RunningKeeps

LEMMA StepRowKeeps ==
  ASSUME Inv, NEW p \in Procs, StepRow(p)
  PROVE  Inv'
<1> USE DEF Inv
<1>1. /\ proc[p].pc = "inside" /\ Running(p) /\ InLibrary(p) /\ ~Registering(p)
      /\ UNCHANGED <<nextID, registry, closed, table>> /\ dbMutex' = None /\ Goto(p, "row")
  BY DEF StepRow, Running, InLibrary, Registering
<1>2. ProcState(p)
  BY DEF ProcStates
<1>3. /\ proc' \in [Procs -> Proc] /\ proc'[p].pc = "row" /\ proc'[p].kind = proc[p].kind
      /\ proc'[p].name = proc[p].name /\ proc'[p].id = proc[p].id
      /\ \A q \in Procs : q # p => proc'[q] = proc[q]
  BY <1>1, GotoMoves
<1>4. TypeOK'
  BY <1>1, <1>3 DEF TypeOK
<1>5. ~Registering(p)' /\ ~InLibrary(p)' /\ p # None
  BY <1>3, NoneAssumption DEF Registering, InLibrary
<1>6. ProcState(p)'
  BY <1>1, <1>2, <1>3, <1>5 DEF ProcState
<1>7. \A q \in Procs : q # p => (dbMutex' = q <=> dbMutex = q)
  BY <1>1, <1>2, NoneAssumption DEF ProcState
<1> QED
  BY <1>1, <1>3, <1>4, <1>5, <1>6, <1>7, RunningKeeps

LEMMA StepAgainKeeps ==
  ASSUME Inv, NEW p \in Procs, StepAgain(p)
  PROVE  Inv'
<1> USE DEF Inv
<1>1. /\ proc[p].pc = "row" /\ Running(p) /\ ~Registering(p) /\ dbMutex = None
      /\ UNCHANGED <<nextID, registry, closed, table>> /\ dbMutex' = p /\ Goto(p, "callback")
  BY DEF StepAgain, Running, Registering
<1>2. ProcState(p)
  BY DEF ProcStates
<1>3. /\ proc' \in [Procs -> Proc] /\ proc'[p].pc = "callback" /\ proc'[p].kind = proc[p].kind
      /\ proc'[p].name = proc[p].name /\ proc'[p].id = proc[p].id
      /\ \A q \in Procs : q # p => proc'[q] = proc[q]
  BY <1>1, GotoMoves
<1>4. TypeOK'
  BY <1>1, <1>3 DEF TypeOK
<1>5. ~Registering(p)' /\ InLibrary(p)'
  BY <1>3 DEF Registering, InLibrary
<1>6. ProcState(p)'
  BY <1>1, <1>2, <1>3, <1>5 DEF ProcState
<1> QED
  BY <1>1, <1>3, <1>4, <1>5, <1>6, RunningKeeps, NoneAssumption

LEMMA StepEndKeeps ==
  ASSUME Inv, NEW p \in Procs, StepEnd(p)
  PROVE  Inv'
<1> USE DEF Inv
<1>1. /\ proc[p].pc = "row" /\ ~Registering(p) /\ ~InLibrary(p)
      /\ UNCHANGED <<nextID, registry, closed, table, dbMutex>>
      /\ proc' = [proc EXCEPT ![p] = IdleProc]
  BY DEF StepEnd, library, Registering, InLibrary
<1>2. /\ proc' \in [Procs -> Proc] /\ proc'[p] = IdleProc /\ proc'[p].pc = "idle"
      /\ \A q \in Procs : q # p => proc'[q] = proc[q]
  BY <1>1, IdleTyped, ProcGets DEF IdleProc
<1>3. TypeOK'
  BY <1>1, <1>2 DEF TypeOK
<1>4. ~Registering(p)' /\ ~InLibrary(p)' /\ ~Running(p)'
  BY <1>2 DEF Registering, InLibrary, Running
<1>5. ProcState(p)'
  BY <1>1, <1>2, <1>4 DEF ProcStates, ProcState
<1> QED
  BY <1>1, <1>2, <1>3, <1>4, <1>5, RunningKeeps

-----------------------------------------------------------------------------
(* Steps that remove an entry or end a registration.                       *)

LEMMA DestroyKeeps ==
  ASSUME Inv, NEW p \in Procs, Destroy(p)
  PROVE  Inv'
<1> DEFINE k == proc[p].kind
           v == proc[p].victim
<1> USE DEF Inv, SameState
<1>1. /\ proc[p].pc = "destroy" /\ Registering(p) /\ InLibrary(p)
      /\ UNCHANGED <<nextID, closed, table, dbMutex>> /\ Goto(p, "leave")
      /\ v = NoId => UNCHANGED registry
      /\ v # NoId => Delete(k, v)
  BY DEF Destroy, library, Registering, InLibrary
<1>2. /\ proc[p] \in Proc /\ k \in Kinds /\ proc[p].name \in Names
      /\ proc[p].id \in Ids /\ proc[p].id \in 1..nextID
      /\ proc[p].impl \in Impls /\ proc[p].answer = None /\ ProcState(p)
  BY <1>1, RegisteringState DEF ProcStates
<1>3. /\ proc' \in [Procs -> Proc] /\ proc'[p].pc = "leave"
      /\ proc'[p].kind = k /\ proc'[p].name = proc[p].name /\ proc'[p].impl = proc[p].impl
      /\ proc'[p].id = proc[p].id /\ proc'[p].victim = v /\ proc'[p].ok = proc[p].ok
      /\ proc'[p].answer = None
      /\ \A q \in Procs : q # p => proc'[q] = proc[q]
  BY <1>1, <1>2, GotoMoves
<1>4. v # NoId => v \in Ids
  BY <1>2 DEF Proc
<1>5. /\ registry' \in [Kinds -> [Ids -> Impls \cup {None}]]
      /\ v # NoId => registry'[k][v] = None
      /\ \A l \in Kinds, i \in Ids : l # k \/ i # v => registry'[l][i] = registry[l][i]
  <2>1. CASE v = NoId
    BY <2>1, <1>1 DEF TypeOK
  <2>2. CASE v # NoId
    BY <2>2, <1>1, <1>2, <1>4, DeleteRemoves
  <2> QED
    BY <2>1, <2>2
<1>6. TypeOK'
  BY <1>1, <1>3, <1>5 DEF TypeOK
<1>7. \A q \in Procs : q # p => SameState(q)
  BY <1>3, OthersStay
<1>8. Registering(p)' /\ InLibrary(p)' /\ ~Running(p)' /\ ~Owed(p)'
  BY <1>3 DEF Registering, InLibrary, Running, Owed
\* The victim is what p replaced, or what it failed to register.
<1>9. /\ ~Named(v) \/ v = NoId
      /\ \A q \in Procs : q # p /\ Registering(q) => proc[q].id # v
  <2>1. CASE proc[p].ok /\ v # NoId
    BY <2>1, <1>1 DEF VictimsGone, Owed
  <2>2. CASE v = NoId
    <3>1. \A q \in Procs : Registering(q) => proc[q].id # NoId
      BY RegisteringState DEF NoId
    <3> QED
      BY <2>2, <3>1
  <2>3. CASE ~proc[p].ok /\ v # NoId
    <3>1. v = proc[p].id
      BY <2>3, <1>1, <1>2 DEF ProcState
    <3> QED
      BY <2>3, <3>1, <1>1 DEF NamedIfOk, DrawnOnce
  <2> QED
    BY <2>1, <2>2, <2>3
<1>10. ProcState(p)'
  BY <1>1, <1>2, <1>3, <1>8 DEF ProcState
<1>11. ASSUME NEW q \in Procs, q # p PROVE ProcState(q)'
  <2>1. ProcState(q) /\ SameState(q)
    BY <1>7, <1>11 DEF ProcStates
  <2>2. proc[q].pc = "create" => Registering(q)
    BY DEF Registering
  <2>3. proc[q].pc = "create" =>
          proc[q].id # v /\ proc[q].kind \in Kinds /\ proc[q].id \in Ids
    BY <2>2, <1>9, <1>11, RegisteringState
  <2> QED
    BY <2>1, <2>3, <1>1, <1>5 DEF ProcState
<1>12. IdsDistinct' /\ IdsDrawn'
  BY <1>1 DEF IdsDistinct, IdsDrawn
<1>13. DrawnOnce' /\ NamedIfOk'
  BY <1>1, <1>3, <1>7, <1>8 DEF DrawnOnce, NamedIfOk, Named
<1>14. VictimsGone'
  <2> SUFFICES ASSUME NEW q \in Procs, Owed(q)'
               PROVE  /\ proc'[q].victim <= nextID' /\ ~Named(proc[q].victim)'
                      /\ \A r \in Procs : Registering(r)' => proc'[r].id # proc'[q].victim
    BY DEF VictimsGone
  <2>1. q # p /\ SameState(q)
    BY <1>7, <1>8
  <2> QED
    BY <2>1, <1>1, <1>3, <1>7, <1>8 DEF VictimsGone, Named
<1>15. NamedHaveEntries'
  <2> SUFFICES ASSUME NEW l \in Kinds, NEW n \in Names, table[l][n] # NoId
               PROVE  registry'[l][table[l][n]] # None
    BY <1>1 DEF NamedHaveEntries
  <2>1. table[l][n] \in Ids /\ registry[l][table[l][n]] # None /\ table[l][n] # v
    BY <1>9 DEF NamedHaveEntries, TypeOK, Named
  <2> QED
    BY <2>1, <1>5
<1>16. EntriesOwned'
  <2> SUFFICES ASSUME NEW l \in Kinds, NEW i \in Ids, registry'[l][i] # None
               PROVE  (\E n \in Names : table'[l][n] = i)
                      \/ (\E q \in Procs : AnswersFor(q, l, i)')
    BY DEF EntriesOwned
  <2>1. (l # k \/ i # v) /\ registry[l][i] # None
    BY <1>4, <1>5 DEF NoId, Ids
  <2>2. CASE \E n \in Names : table[l][n] = i
    BY <2>2, <1>1
  <2>3. CASE \E q \in Procs : AnswersFor(q, l, i)
    <3> PICK q \in Procs : AnswersFor(q, l, i)
      BY <2>3
    <3>1. CASE q = p
      BY <3>1, <2>1, <1>3, <1>8 DEF AnswersFor
    <3>2. CASE q # p
      BY <3>2, <1>7 DEF AnswersFor
    <3> QED
      BY <3>1, <3>2
  <2> QED
    BY <2>1, <2>2, <2>3 DEF EntriesOwned
<1> QED
  BY <1>6, <1>10, <1>11, <1>12, <1>13, <1>14, <1>15, <1>16 DEF ProcStates

\* A registration ends: the library has the id, or its entry goes.
LEMMA EndKeeps ==
  ASSUME Inv, NEW p \in Procs, UNCHANGED <<nextID, table>>, TypeOK',
         Registering(p), ~Owed(p), proc'[p] = IdleProc, dbMutex' # p,
         \A q \in Procs : q # p => proc'[q] = proc[q] /\ (dbMutex' = q <=> dbMutex = q),
         \/ proc[p].ok /\ UNCHANGED registry
         \/ ~proc[p].ok /\ Delete(proc[p].kind, proc[p].id)
  PROVE  Inv'
<1> USE DEF Inv, SameState
<1>1. ~Registering(p)' /\ ~InLibrary(p)' /\ ~Running(p)' /\ ~Owed(p)'
  BY DEF Registering, InLibrary, Running, Owed, IdleProc
<1>2. \A q \in Procs : q # p => SameState(q)
  BY OthersStay
<1>3. /\ proc[p].kind \in Kinds /\ proc[p].name \in Names /\ proc[p].id \in Ids
      /\ proc[p].ok => table[proc[p].kind][proc[p].name] = proc[p].id
      /\ ~proc[p].ok => ~Named(proc[p].id)
  BY RegisteringState DEF NamedIfOk
<1>4. ASSUME NEW l \in Kinds, NEW i \in Ids
      PROVE  \/ registry'[l][i] = registry[l][i]
             \/ ~proc[p].ok /\ registry'[l][i] = None /\ l = proc[p].kind /\ i = proc[p].id
  BY <1>3, DeleteRemoves
<1>5. ~proc[p].ok => registry'[proc[p].kind][proc[p].id] = None
  BY <1>3, DeleteRemoves
<1>6. ProcState(p)'
  BY <1>1 DEF ProcState, IdleProc
<1>7. ASSUME NEW q \in Procs, q # p PROVE ProcState(q)'
  <2>1. ProcState(q) /\ SameState(q)
    BY <1>2, <1>7 DEF ProcStates
  <2>2. proc[q].pc = "create" => Registering(q)
    BY DEF Registering
  <2>3. proc[q].pc = "create" =>
          proc[q].id # proc[p].id /\ proc[q].kind \in Kinds /\ proc[q].id \in Ids
    BY <2>2, <1>7, RegisteringState DEF DrawnOnce
  <2>4. proc[q].pc = "create" =>
          registry'[proc[q].kind][proc[q].id] = registry[proc[q].kind][proc[q].id]
    BY <2>3, <1>4
  <2> QED
    BY <2>1, <2>4, <1>7 DEF ProcState
<1>8. IdsDistinct' /\ IdsDrawn'
  BY DEF IdsDistinct, IdsDrawn
<1>9. DrawnOnce' /\ NamedIfOk'
  BY <1>1, <1>2 DEF DrawnOnce, NamedIfOk, Named
<1>10. VictimsGone'
  BY <1>1, <1>2 DEF VictimsGone, Named
<1>11. NamedHaveEntries'
  <2> SUFFICES ASSUME NEW l \in Kinds, NEW n \in Names, table[l][n] # NoId
               PROVE  registry'[l][table[l][n]] # None
    BY DEF NamedHaveEntries
  <2>1. table[l][n] \in Ids /\ registry[l][table[l][n]] # None /\ Named(table[l][n])
    BY DEF NamedHaveEntries, TypeOK, Named
  <2> QED
    BY <2>1, <1>3, <1>4
<1>12. EntriesOwned'
  <2> SUFFICES ASSUME NEW l \in Kinds, NEW i \in Ids, registry'[l][i] # None
               PROVE  (\E n \in Names : table'[l][n] = i)
                      \/ (\E q \in Procs : AnswersFor(q, l, i)')
    BY DEF EntriesOwned
  <2>1. registry[l][i] # None
    BY <1>4
  <2>2. CASE \E n \in Names : table[l][n] = i
    BY <2>2
  <2>3. CASE \E q \in Procs : q # p /\ AnswersFor(q, l, i)
    BY <2>3, <1>2 DEF AnswersFor
  <2>4. CASE AnswersFor(p, l, i)
    <3>1. i = proc[p].id /\ l = proc[p].kind
      BY <2>4 DEF AnswersFor
    <3>2. proc[p].ok
      BY <3>1, <1>5
    <3> QED
      BY <3>1, <3>2, <1>3
  <2> QED
    BY <2>1, <2>2, <2>3, <2>4 DEF EntriesOwned
<1> QED
  BY <1>6, <1>7, <1>8, <1>9, <1>10, <1>11, <1>12 DEF ProcStates

LEMMA LeaveKeeps ==
  ASSUME Inv, NEW p \in Procs, Leave(p)
  PROVE  Inv'
<1> USE DEF Inv, SameState
<1>1. /\ proc[p].pc = "leave" /\ Registering(p) /\ InLibrary(p) /\ ~Owed(p)
      /\ UNCHANGED <<nextID, registry, closed, table>> /\ dbMutex' = None
  BY DEF Leave, Registering, InLibrary, Owed
<1>2. dbMutex' # p /\ \A q \in Procs : q # p => (dbMutex' = q <=> dbMutex = q)
  BY <1>1, NoneAssumption DEF ProcStates, ProcState
<1>3. CASE proc[p].ok
  <2>1. proc' = [proc EXCEPT ![p] = IdleProc]
    BY <1>3 DEF Leave
  <2>2. /\ proc' \in [Procs -> Proc] /\ proc'[p] = IdleProc
        /\ \A q \in Procs : q # p => proc'[q] = proc[q]
    BY <2>1, IdleTyped, ProcGets
  <2>3. TypeOK'
    BY <1>1, <2>2 DEF TypeOK
  <2> QED
    BY <1>1, <1>2, <1>3, <2>2, <2>3, EndKeeps
<1>4. CASE ~proc[p].ok
  <2>1. /\ proc' \in [Procs -> Proc] /\ proc'[p].pc = "cleanup"
        /\ proc'[p].kind = proc[p].kind /\ proc'[p].name = proc[p].name
        /\ proc'[p].impl = proc[p].impl /\ proc'[p].id = proc[p].id
        /\ proc'[p].ok = proc[p].ok /\ proc'[p].answer = proc[p].answer
        /\ \A q \in Procs : q # p => proc'[q] = proc[q]
    BY <1>4, GotoMoves DEF Leave
  <2>2. TypeOK'
    BY <1>1, <2>1 DEF TypeOK
  <2>3. Registering(p)' /\ ~InLibrary(p)' /\ ~Running(p)' /\ ~Owed(p)'
    BY <2>1 DEF Registering, InLibrary, Running, Owed
  <2>4. ProcState(p)'
    BY <1>1, <1>2, <1>4, <2>1, <2>3 DEF ProcStates, ProcState
  <2>5. \A q \in Procs : q # p => SameState(q)
    BY <2>1, OthersStay
  <2>6. \A q \in Procs : q # p => ProcState(q)'
    BY <1>1, <1>2, <2>5, OtherStays
  <2>7. Registering(p)' = Registering(p) /\ Owed(p)' = Owed(p)
    BY <1>1, <2>3 DEF Registering, Owed
  <2>8. \A q \in Procs : /\ Registering(q)' = Registering(q) /\ Owed(q)' = Owed(q)
                         /\ Registering(q) => /\ proc'[q].kind = proc[q].kind
                                              /\ proc'[q].name = proc[q].name
                                              /\ proc'[q].id = proc[q].id
                                              /\ proc'[q].ok = proc[q].ok
                         /\ Owed(q) => proc'[q].victim = proc[q].victim
    BY <1>1, <2>1, <2>5, <2>7
  <2> QED
    BY <1>1, <2>2, <2>4, <2>6, <2>8, OwnersStay DEF ProcStates
<1> QED
  BY <1>3, <1>4

LEMMA CleanupKeeps ==
  ASSUME Inv, NEW p \in Procs, Cleanup(p)
  PROVE  Inv'
<1> USE DEF Inv
<1>1. /\ proc[p].pc = "cleanup" /\ Registering(p) /\ ~InLibrary(p) /\ ~Owed(p)
      /\ UNCHANGED <<nextID, closed, table, dbMutex>>
      /\ Delete(proc[p].kind, proc[p].id) /\ proc' = [proc EXCEPT ![p] = IdleProc]
  BY DEF Cleanup, library, Registering, InLibrary, Owed
<1>2. ~proc[p].ok /\ dbMutex # p /\ proc[p].kind \in Kinds /\ proc[p].id \in Ids
  BY <1>1, RegisteringState DEF ProcStates, ProcState
<1>3. /\ proc' \in [Procs -> Proc] /\ proc'[p] = IdleProc
      /\ \A q \in Procs : q # p => proc'[q] = proc[q]
  BY <1>1, IdleTyped, ProcGets
<1>4. registry' \in [Kinds -> [Ids -> Impls \cup {None}]]
  BY <1>1, <1>2, DeleteRemoves
<1>5. TypeOK'
  BY <1>1, <1>3, <1>4 DEF TypeOK
<1> QED
  BY <1>1, <1>2, <1>3, <1>5, EndKeeps

LEMMA CloseKeeps ==
  ASSUME Inv, Close
  PROVE  Inv'
<1> USE DEF Inv, SameState
<1>1. UNCHANGED <<nextID, registry, table, dbMutex, proc>> /\ closed' \in BOOLEAN
  BY DEF Close, library
<1>2. TypeOK'
  BY <1>1 DEF TypeOK
<1>3. \A q \in Procs : SameState(q)
  BY <1>1 DEF InLibrary, Registering, Running, Owed
<1>4. ProcStates'
  BY <1>1, <1>3, OtherStays DEF ProcStates
<1> QED
  BY <1>1, <1>2, <1>3, <1>4, OwnersStay

LEMMA DestroyOnCloseKeeps ==
  ASSUME Inv, NEW k \in Kinds, NEW n \in Names, DestroyOnClose(k, n)
  PROVE  Inv'
<1> DEFINE v == table[k][n]
<1> USE DEF Inv
<1>1. /\ dbMutex = None /\ ~VdbeActive /\ v \in Ids /\ Delete(k, v)
      /\ UNCHANGED <<nextID, closed, dbMutex, proc>>
  BY DEF DestroyOnClose, TypeOK
<1>2. /\ registry' \in [Kinds -> [Ids -> Impls \cup {None}]]
      /\ registry'[k][v] = None
      /\ \A l \in Kinds, i \in Ids : l # k \/ i # v => registry'[l][i] = registry[l][i]
  BY <1>1, DeleteRemoves
<1>3. /\ table' \in [Kinds -> [Names -> Ids \cup {NoId}]] /\ table'[k][n] = NoId
      /\ \A l \in Kinds, m \in Names : l # k \/ m # n => table'[l][m] = table[l][m]
  BY DEF DestroyOnClose, TypeOK
<1>4. TypeOK'
  BY <1>1, <1>2, <1>3 DEF TypeOK
<1>5. \A q \in Procs : ~InLibrary(q) /\ ~Owed(q) /\ ~Running(q)
                       /\ (Registering(q) => ~proc[q].ok /\ ~Named(proc[q].id))
  BY <1>1, NobodyInside DEF VdbeActive, NamedIfOk
<1>6. ASSUME NEW q \in Procs PROVE ProcState(q)'
  <2>1. ProcState(q) /\ ~Running(q)
    BY <1>5 DEF ProcStates
  <2>2. proc[q].pc = "create" => Registering(q)
    BY DEF Registering
  <2>3. proc[q].pc = "create" =>
          proc[q].id # v /\ proc[q].kind \in Kinds /\ proc[q].id \in Ids
    BY <2>2, <1>5, RegisteringState DEF Named
  <2> QED
    BY <2>1, <2>3, <1>1, <1>2, <1>5
       DEF ProcState, Registering, Running, InLibrary
<1>7. IdsDistinct'
  <2> SUFFICES ASSUME NEW l \in Kinds, NEW l2 \in Kinds, NEW m \in Names, NEW m2 \in Names,
                      table'[l][m] = table'[l2][m2], table'[l][m] # NoId
               PROVE  l = l2 /\ m = m2
    BY DEF IdsDistinct
  <2> QED
    BY <1>3 DEF IdsDistinct
<1>8. IdsDrawn'
  <2> SUFFICES ASSUME NEW l \in Kinds, NEW m \in Names PROVE table'[l][m] <= nextID
    BY <1>1 DEF IdsDrawn
  <2>1. CASE l = k /\ m = n
    BY <2>1, <1>3, MaxIdAssumption DEF TypeOK, NoId
  <2>2. CASE l # k \/ m # n
    BY <2>2, <1>3 DEF IdsDrawn
  <2> QED
    BY <2>1, <2>2
<1>9. DrawnOnce'
  BY <1>1 DEF DrawnOnce, Registering
<1>10. \A i \in Ids : ~Named(i) => ~Named(i)'
  BY <1>3 DEF Named, Ids, NoId
<1>11. NamedIfOk'
  <2> SUFFICES ASSUME NEW q \in Procs, Registering(q)
               PROVE  ~proc[q].ok /\ ~Named(proc[q].id)'
    BY <1>1 DEF NamedIfOk, Registering
  <2>1. proc[q].id \in Ids /\ ~proc[q].ok /\ ~Named(proc[q].id)
    BY <1>5, RegisteringState
  <2>2. \A i \in Ids : i = proc[q].id => ~Named(i)'
    BY <2>1, <1>10
  <2> QED
    BY <2>1, <2>2, <1>1 DEF Named
<1>12. VictimsGone'
  BY <1>1, <1>5 DEF VictimsGone, Owed
<1>13. NamedHaveEntries'
  <2> SUFFICES ASSUME NEW l \in Kinds, NEW m \in Names, table'[l][m] # NoId
               PROVE  registry'[l][table'[l][m]] # None
    BY DEF NamedHaveEntries
  <2>1. (l # k \/ m # n) /\ table'[l][m] = table[l][m] /\ table[l][m] \in Ids
    BY <1>3 DEF TypeOK
  <2>2. l # k \/ table[l][m] # v
    BY <2>1 DEF IdsDistinct
  <2> QED
    BY <2>1, <2>2, <1>2 DEF NamedHaveEntries
<1>14. EntriesOwned'
  <2> SUFFICES ASSUME NEW l \in Kinds, NEW i \in Ids, registry'[l][i] # None
               PROVE  (\E m \in Names : table'[l][m] = i)
                      \/ (\E q \in Procs : AnswersFor(q, l, i)')
    BY DEF EntriesOwned
  <2>1. (l # k \/ i # v) /\ registry[l][i] # None
    BY <1>2
  <2>2. CASE \E m \in Names : table[l][m] = i
    BY <2>1, <2>2, <1>3
  <2>3. CASE \E q \in Procs : AnswersFor(q, l, i)
    BY <2>3, <1>1 DEF AnswersFor, Registering, Owed
  <2> QED
    BY <2>1, <2>2, <2>3 DEF EntriesOwned
<1> QED
  BY <1>4, <1>6, <1>7, <1>8, <1>9, <1>11, <1>12, <1>13, <1>14 DEF ProcStates

-----------------------------------------------------------------------------
(* The theorems.                                                           *)

LEMMA NextInv == Inv /\ [Next]_vars => Inv'
<1> SUFFICES ASSUME Inv, [Next]_vars PROVE Inv'
  OBVIOUS
<1>1. ASSUME NEW p \in Procs, NEW k \in Kinds, NEW n \in Names,
             StepBegin(p, k, n) \/ \E i \in Impls : NextRegistryID(p, k, n, i)
      PROVE  Inv'
  BY <1>1, StepBeginKeeps, NextRegistryIDKeeps
<1>2. ASSUME NEW p \in Procs,
             \/ AddEntry(p) \/ CreateOk(p) \/ CreateFails(p)
             \/ Destroy(p) \/ Leave(p) \/ Cleanup(p)
      PROVE  Inv'
  BY <1>2, AddEntryKeeps, CreateOkKeeps, CreateFailsKeeps, DestroyKeeps, LeaveKeeps,
     CleanupKeeps
<1>3. ASSUME NEW p \in Procs, Callback(p) \/ StepRow(p) \/ StepAgain(p) \/ StepEnd(p)
      PROVE  Inv'
  BY <1>3, CallbackKeeps, StepRowKeeps, StepAgainKeeps, StepEndKeeps
<1>4. CASE Close
  BY <1>4, CloseKeeps
<1>5. ASSUME NEW k \in Kinds, NEW n \in Names, DestroyOnClose(k, n) PROVE Inv'
  BY <1>5, DestroyOnCloseKeeps
<1>6. CASE UNCHANGED vars
  BY <1>6 DEF vars, library, Inv, TypeOK, ProcStates, ProcState, IdsDistinct, IdsDrawn,
     DrawnOnce, NamedIfOk, VictimsGone, NamedHaveEntries, EntriesOwned, AnswersFor, Named,
     Owed, InLibrary, Registering, Running
<1> QED
  BY <1>1, <1>2, <1>3, <1>4, <1>5, <1>6 DEF Next

\* The invariant behind the theorems: who answers for every id and every entry
\* at each step of each registration.
THEOREM Invariance == Spec => []Inv
BY InitInv, NextInv, PTL DEF Spec

\* The type invariant, of goroutines inside registrations and statements too.
THEOREM TypeCorrect == Spec => []TypeOK
BY Invariance, PTL DEF Inv

\* Every id the library holds is held once: the destructor SQLite runs for one
\* name never removes the function of another.
THEOREM IdsAreDistinct == Spec => []IdsDistinct
BY Invariance, PTL DEF Inv

\* A callback finds the Go function of the id SQLite passes it, also when the
\* name was replaced or another registration was refused in the meantime.
THEOREM CallbacksFindEntries == Spec => []CallbackFindsEntry
<1>1. Inv => CallbackFindsEntry
  BY DEF Inv, ProcStates, ProcState, CallbackFindsEntry
<1> QED
  BY <1>1, Invariance, PTL

\* With no registration under way the Go maps hold the ids the library holds
\* and no other: what was replaced, refused or closed has left them.
THEOREM RegistriesMatch == Spec => []RegistryMatchesLibrary
<1>1. Inv => RegistryMatchesLibrary
  <2> SUFFICES ASSUME Inv, \A p \in Procs : ~Registering(p), NEW k \in Kinds
               PROVE  Entries(k) = Held(k)
    BY DEF RegistryMatchesLibrary
  <2> USE DEF Inv
  <2>1. \A p \in Procs, id \in Ids : ~AnswersFor(p, k, id)
    BY DEF AnswersFor, Owed, Registering
  <2>2. ASSUME NEW id \in Entries(k) PROVE id \in Held(k)
    BY <2>1 DEF Entries, Held, EntriesOwned, Ids, NoId
  <2>3. ASSUME NEW id \in Held(k) PROVE id \in Entries(k)
    BY DEF Entries, Held, NamedHaveEntries, TypeOK
  <2> QED
    BY <2>2, <2>3
<1> QED
  BY <1>1, Invariance, PTL

-----------------------------------------------------------------------------
(* The refinement of FunctionTable.                                        *)

\* The abstract table, the running statements and their last answers, as
\* SqliteRegistry instantiates FunctionTable with them.
ImplBar == [k \in Kinds |-> [n \in Names |->
              IF table[k][n] = NoId THEN None ELSE registry[k][table[k][n]]]]
UsingBar == [p \in Procs |-> IF Running(p) THEN <<proc[p].kind, proc[p].name>> ELSE None]
AnswerBar == [p \in Procs |-> proc[p].answer]

\* The abstract table stays when the table and what it names stay.
LEMMA ImplStays ==
  ASSUME UNCHANGED table,
         \A k \in Kinds, n \in Names :
           table[k][n] # NoId => registry'[k][table[k][n]] = registry[k][table[k][n]]
  PROVE  UNCHANGED ImplBar
BY DEF ImplBar

\* The running statements stay when no goroutine begins or ends one.
LEMMA UsingStays ==
  ASSUME \A p \in Procs : /\ Running(p)' = Running(p)
                          /\ Running(p) => /\ proc'[p].kind = proc[p].kind
                                           /\ proc'[p].name = proc[p].name
                          /\ proc'[p].answer = proc[p].answer
  PROVE  UNCHANGED <<UsingBar, AnswerBar>>
<1>1. UNCHANGED AnswerBar
  BY DEF AnswerBar
<1>2. UNCHANGED UsingBar
  BY DEF UsingBar
<1> QED
  BY <1>1, <1>2

LEMMA InitTable == Init => FT!Init
<1> SUFFICES ASSUME Init PROVE FT!Init
  OBVIOUS
<1>1. \A p \in Procs : ~Running(p) /\ proc[p].answer = None
  BY DEF Init, IdleProc, Running
<1>2. ImplBar = [k \in Kinds |-> [n \in Names |-> None]]
  BY DEF Init, ImplBar
<1>3. UsingBar = [p \in Procs |-> None] /\ AnswerBar = [p \in Procs |-> None]
  BY <1>1 DEF UsingBar, AnswerBar
<1> QED
  BY <1>2, <1>3 DEF FT!Init, ImplBar, UsingBar, AnswerBar

LEMMA Stutters ==
  ASSUME UNCHANGED <<ImplBar, UsingBar, AnswerBar>>
  PROVE  UNCHANGED FT!table
BY DEF FT!table, ImplBar, UsingBar, AnswerBar

\* Before and after its registration, and during it, users see nothing of a
\* goroutine but the step at which the library takes its id.
LEMMA RegistrationStutters ==
  ASSUME Inv, NEW p \in Procs, UNCHANGED table,
         \A k \in Kinds, n \in Names :
           table[k][n] # NoId => registry'[k][table[k][n]] = registry[k][table[k][n]],
         ~Running(p), ~Running(p)', proc[p].answer = None, proc'[p].answer = None,
         \A q \in Procs : q # p => proc'[q] = proc[q]
  PROVE  UNCHANGED FT!table
<1>1. UNCHANGED ImplBar
  BY ImplStays
<1>2. \A q \in Procs : /\ Running(q)' = Running(q)
                       /\ Running(q) => /\ proc'[q].kind = proc[q].kind
                                        /\ proc'[q].name = proc[q].name
                       /\ proc'[q].answer = proc[q].answer
  <2>1. Running(p)' = Running(p)
    BY DEF Running
  <2>2. \A q \in Procs : q # p => Running(q)' = Running(q)
    BY DEF Running
  <2> QED
    BY <2>1, <2>2
<1> QED
  BY <1>1, <1>2, UsingStays, Stutters

LEMMA NextRegistryIDStutters ==
  ASSUME Inv, NEW p \in Procs, NEW k \in Kinds, NEW n \in Names, NEW i \in Impls,
         NextRegistryID(p, k, n, i)
  PROVE  UNCHANGED FT!table
<1>1. /\ proc[p] = IdleProc /\ UNCHANGED <<registry, table>>
  BY DEF NextRegistryID, library, Inv, ProcStates, ProcState
<1>2. /\ proc'[p].pc = "add" /\ proc'[p].answer = None
      /\ \A q \in Procs : q # p => proc'[q] = proc[q]
  BY DEF NextRegistryID, Draw, IdleProc, Inv, TypeOK
<1>3. ~Running(p) /\ ~Running(p)' /\ proc[p].answer = None
  BY <1>1, <1>2 DEF Running, IdleProc
<1> QED
  BY <1>1, <1>2, <1>3, RegistrationStutters

LEMMA RegistrationStepStutters ==
  ASSUME Inv, NEW p \in Procs,
         AddEntry(p) \/ CreateFails(p) \/ Destroy(p) \/ Leave(p) \/ Cleanup(p)
  PROVE  UNCHANGED FT!table
<1> USE DEF Inv
<1>1. Registering(p) /\ ~Running(p) /\ UNCHANGED table
  BY DEF AddEntry, CreateFails, Destroy, Leave, Cleanup, library, Registering, Running
<1>2. /\ proc[p] \in Proc /\ proc[p].kind \in Kinds /\ proc[p].id \in Ids
      /\ proc[p].answer = None
  BY <1>1, RegisteringState
<1>3. \/ proc' = [proc EXCEPT ![p] = IdleProc]
      \/ \E l \in {"create", "leave", "cleanup"} : Goto(p, l)
      \/ /\ proc'[p].pc = "destroy" /\ proc'[p].answer = proc[p].answer
         /\ \A q \in Procs : q # p => proc'[q] = proc[q]
  <2>1. CASE AddEntry(p)
    BY <2>1 DEF AddEntry
  <2>2. CASE CreateFails(p)
    BY <2>2 DEF CreateFails, TypeOK
  <2>3. CASE Destroy(p)
    BY <2>3 DEF Destroy
  <2>4. CASE Leave(p) \/ Cleanup(p)
    BY <2>4 DEF Leave, Cleanup
  <2> QED
    BY <2>1, <2>2, <2>3, <2>4
<1>4. /\ proc'[p].answer = None /\ ~Running(p)'
      /\ \A q \in Procs : q # p => proc'[q] = proc[q]
  <2>1. CASE proc' = [proc EXCEPT ![p] = IdleProc]
    BY <2>1 DEF Running, IdleProc, TypeOK
  <2>2. CASE \E l \in {"create", "leave", "cleanup"} : Goto(p, l)
    BY <2>2, <1>2, GotoMoves DEF Running
  <2>3. CASE /\ proc'[p].pc = "destroy" /\ proc'[p].answer = proc[p].answer
             /\ \A q \in Procs : q # p => proc'[q] = proc[q]
    BY <2>3, <1>2 DEF Running
  <2> QED
    BY <1>3, <2>1, <2>2, <2>3
<1>5. ASSUME NEW k \in Kinds, NEW n \in Names, table[k][n] # NoId
      PROVE  registry'[k][table[k][n]] = registry[k][table[k][n]]
  <2>1. table[k][n] \in Ids /\ Named(table[k][n])
    BY <1>5 DEF TypeOK, Named
  <2>2. CASE AddEntry(p)
    <3>1. ~Named(proc[p].id)
      BY <2>2, <1>1 DEF AddEntry, NamedIfOk, ProcStates, ProcState
    <3> QED
      BY <2>1, <2>2, <3>1, <1>2 DEF AddEntry, TypeOK
  <2>3. CASE CreateFails(p) \/ Leave(p)
    BY <2>3 DEF CreateFails, Leave
  <2>4. CASE Destroy(p) /\ proc[p].victim = NoId
    BY <2>4 DEF Destroy
  <2>5. CASE Destroy(p) /\ proc[p].victim # NoId
    <3>1. proc[p].victim \in Ids /\ Delete(proc[p].kind, proc[p].victim)
      BY <2>5, <1>2 DEF Destroy, Proc
    <3>2. ~Named(proc[p].victim)
      BY <2>5, <1>1 DEF Destroy, VictimsGone, Owed, NamedIfOk, ProcStates, ProcState
    <3> QED
      BY <2>1, <3>1, <3>2, <1>2, DeleteRemoves
  <2>6. CASE Cleanup(p)
    <3>1. ~Named(proc[p].id) /\ Delete(proc[p].kind, proc[p].id)
      BY <2>6, <1>1 DEF Cleanup, NamedIfOk, ProcStates, ProcState
    <3> QED
      BY <2>1, <3>1, <1>2, DeleteRemoves
  <2> QED
    BY <2>2, <2>3, <2>4, <2>5, <2>6
<1> QED
  BY <1>1, <1>2, <1>4, <1>5, RegistrationStutters

LEMMA CreateOkDefines ==
  ASSUME Inv, NEW p \in Procs, CreateOk(p), NEW k \in Kinds, NEW n \in Names,
         NEW i \in Impls, proc[p].kind = k, proc[p].name = n, proc[p].impl = i
  PROVE  FT!Define(k, n, i)
<1> USE DEF Inv
<1>1. /\ proc[p].pc = "create" /\ Registering(p) /\ ~Running(p) /\ UNCHANGED registry
      /\ table' = [table EXCEPT ![k][n] = proc[p].id]
      /\ table[k][n] = NoId \/ ~VdbeActive
  BY DEF CreateOk, Registering, Running
<1>2. /\ k \in Kinds /\ n \in Names /\ proc[p].id \in Ids /\ i \in Impls
      /\ proc[p].answer = None /\ registry[k][proc[p].id] = i /\ proc[p].id # NoId
  BY <1>1, RegisteringState DEF ProcStates, ProcState, Ids, NoId
<1>3. /\ proc'[p].pc = "destroy" /\ proc'[p].answer = proc[p].answer
      /\ \A q \in Procs : q # p => proc'[q] = proc[q]
  BY DEF CreateOk, TypeOK
<1>4. \A q \in Procs : UsingBar[q] # <<k, n>>
  <2> SUFFICES ASSUME NEW q \in Procs, Running(q) PROVE <<proc[q].kind, proc[q].name>> # <<k, n>>
    <3>1. <<k, n>> \in Kinds \X Names
      BY <1>2
    <3>2. <<k, n>> # None
      BY <3>1, NoneAssumption
    <3> QED
      BY <3>2 DEF UsingBar
  <2>1. table[proc[q].kind][proc[q].name] = proc[q].id /\ proc[q].id \in 1..nextID
    BY DEF ProcStates, ProcState, Running
  <2>2. table[k][n] = NoId
    BY <1>1 DEF VdbeActive
  <2> QED
    BY <2>1, <2>2 DEF NoId
<1>5. ImplBar' = [ImplBar EXCEPT ![k][n] = i]
  BY <1>1, <1>2, ZenonT(60) DEF ImplBar, TypeOK
<1>6. UNCHANGED <<UsingBar, AnswerBar>>
  <2>1. Running(p)' = Running(p)
    BY <1>1, <1>3 DEF Running
  <2>2. \A q \in Procs : q # p => Running(q)' = Running(q)
    BY <1>3 DEF Running
  <2> QED
    BY <1>1, <1>3, <2>1, <2>2, UsingStays
<1> QED
  BY <1>4, <1>5, <1>6 DEF FT!Define, ImplBar, UsingBar, AnswerBar

LEMMA StepBeginStarts ==
  ASSUME Inv, NEW p \in Procs, NEW k \in Kinds, NEW n \in Names, StepBegin(p, k, n)
  PROVE  FT!Start(p, k, n)
<1> USE DEF Inv
<1>1. /\ proc[p].pc = "idle" /\ ~Running(p) /\ UNCHANGED <<registry, table>>
      /\ table[k][n] # NoId
  BY DEF StepBegin, Running
<1>2. /\ proc'[p].pc = "callback" /\ proc'[p].kind = k /\ proc'[p].name = n
      /\ proc'[p].answer = None /\ Running(p)'
      /\ \A q \in Procs : q # p => proc'[q] = proc[q]
  BY DEF StepBegin, IdleProc, Running, TypeOK
<1>3. UsingBar[p] = None /\ ImplBar[k][n] # None
  BY <1>1 DEF UsingBar, ImplBar, NamedHaveEntries
<1>4. \A q \in Procs : q # p => Running(q)' = Running(q)
  BY <1>2 DEF Running
<1>5. UsingBar' = [UsingBar EXCEPT ![p] = <<k, n>>]
  BY <1>2, <1>4 DEF UsingBar
<1>6. AnswerBar' = [AnswerBar EXCEPT ![p] = None]
  BY <1>2 DEF AnswerBar
<1>7. UNCHANGED ImplBar
  BY <1>1, ImplStays
<1> QED
  BY <1>3, <1>5, <1>6, <1>7 DEF FT!Start, ImplBar, UsingBar, AnswerBar

LEMMA CallbackRuns ==
  ASSUME Inv, NEW p \in Procs, Callback(p)
  PROVE  FT!Run(p)
<1> DEFINE k == proc[p].kind
           n == proc[p].name
<1> USE DEF Inv
<1>1. /\ proc[p].pc = "callback" /\ Running(p) /\ UNCHANGED <<registry, table>>
  BY DEF Callback, library, Running
<1>2. /\ k \in Kinds /\ n \in Names /\ table[k][n] = proc[p].id /\ proc[p].id # NoId
  BY <1>1 DEF ProcStates, ProcState, NoId
<1>3. /\ proc'[p].pc = "inside" /\ proc'[p].kind = k /\ proc'[p].name = n
      /\ proc'[p].answer = registry[k][proc[p].id] /\ Running(p)'
      /\ \A q \in Procs : q # p => proc'[q] = proc[q]
  BY DEF Callback, Running, TypeOK, Proc
<1>4. UsingBar[p] = <<k, n>> /\ ImplBar[k][n] = registry[k][proc[p].id]
  BY <1>1, <1>2 DEF UsingBar, ImplBar
<1>5. UsingBar[p] # None
  <2>1. <<k, n>> \in Kinds \X Names
    BY <1>2
  <2> QED
    BY <2>1, <1>4, NoneAssumption
<1>6. \A q \in Procs : q # p => Running(q)' = Running(q)
  BY <1>3 DEF Running
<1>7. UNCHANGED UsingBar
  BY <1>1, <1>3, <1>6 DEF UsingBar
<1>8. AnswerBar' = [AnswerBar EXCEPT ![p] = ImplBar[UsingBar[p][1]][UsingBar[p][2]]]
  <2>1. ImplBar[UsingBar[p][1]][UsingBar[p][2]] = registry[k][proc[p].id]
    BY <1>4
  <2> QED
    BY <2>1, <1>3 DEF AnswerBar
<1>9. UNCHANGED ImplBar
  BY <1>1, ImplStays
<1> QED
  BY <1>5, <1>7, <1>8, <1>9 DEF FT!Run, ImplBar, UsingBar, AnswerBar

LEMMA StepEndFinishes ==
  ASSUME Inv, NEW p \in Procs, StepEnd(p)
  PROVE  FT!Finish(p)
<1> USE DEF Inv
<1>1. proc[p].pc = "row" /\ Running(p) /\ UNCHANGED <<registry, table>>
  BY DEF StepEnd, library, Running
<1>2. /\ proc[p].kind \in Kinds /\ proc[p].name \in Names
  BY <1>1 DEF ProcStates, ProcState
<1>3. /\ proc'[p].answer = None /\ ~Running(p)'
      /\ \A q \in Procs : q # p => proc'[q] = proc[q]
  BY DEF StepEnd, IdleProc, Running, TypeOK
<1>4. UsingBar[p] # None
  <2>1. <<proc[p].kind, proc[p].name>> \in Kinds \X Names
    BY <1>2
  <2> QED
    BY <2>1, <1>1, NoneAssumption DEF UsingBar
<1>5. \A q \in Procs : q # p => Running(q)' = Running(q)
  BY <1>3 DEF Running
<1>6. UsingBar' = [UsingBar EXCEPT ![p] = None]
  BY <1>3, <1>5 DEF UsingBar
<1>7. AnswerBar' = [AnswerBar EXCEPT ![p] = None]
  BY <1>3 DEF AnswerBar
<1>8. UNCHANGED ImplBar
  BY <1>1, ImplStays
<1> QED
  BY <1>4, <1>6, <1>7, <1>8 DEF FT!Finish, ImplBar, UsingBar, AnswerBar

LEMMA StepStutters ==
  ASSUME Inv, NEW p \in Procs, StepRow(p) \/ StepAgain(p)
  PROVE  UNCHANGED FT!table
<1> USE DEF Inv
<1>1. /\ proc[p].pc \in {"inside", "row"} /\ Running(p) /\ UNCHANGED <<registry, table>>
      /\ \E l \in {"row", "callback"} : Goto(p, l)
  BY DEF StepRow, StepAgain, Running
<1>2. /\ proc'[p].pc \in {"row", "callback"} /\ proc'[p].answer = proc[p].answer
      /\ proc'[p].kind = proc[p].kind /\ proc'[p].name = proc[p].name
      /\ \A q \in Procs : q # p => proc'[q] = proc[q]
  BY <1>1, GotoMoves
<1>3. Running(p)' = Running(p)
  BY <1>1, <1>2 DEF Running
<1>4. \A q \in Procs : q # p => Running(q)' = Running(q)
  BY <1>2 DEF Running
<1>5. UNCHANGED <<UsingBar, AnswerBar>>
  BY <1>2, <1>3, <1>4, UsingStays
<1>6. UNCHANGED ImplBar
  BY <1>1, ImplStays
<1> QED
  BY <1>5, <1>6, Stutters

LEMMA DestroyOnCloseDrops ==
  ASSUME Inv, NEW k \in Kinds, NEW n \in Names, DestroyOnClose(k, n)
  PROVE  FT!Drop(k, n)
<1> DEFINE v == table[k][n]
<1> USE DEF Inv
<1>1. /\ ~VdbeActive /\ v # NoId /\ Delete(k, v) /\ UNCHANGED proc
      /\ table' = [table EXCEPT ![k][n] = NoId] /\ v \in Ids
  BY DEF DestroyOnClose, TypeOK
<1>2. \A q \in Procs : UsingBar[q] = None
  BY <1>1 DEF UsingBar, VdbeActive
<1>3. UNCHANGED <<UsingBar, AnswerBar>>
  BY <1>1 DEF UsingBar, AnswerBar, Running
<1>4. ASSUME NEW l \in Kinds, NEW m \in Names
      PROVE  ImplBar'[l][m] = IF l = k /\ m = n THEN None ELSE ImplBar[l][m]
  <2>1. CASE l = k /\ m = n
    BY <2>1, <1>1 DEF ImplBar, TypeOK
  <2>2. CASE l # k \/ m # n
    <3>1. table'[l][m] = table[l][m]
      BY <2>2, <1>1 DEF TypeOK
    <3>2. CASE table[l][m] = NoId
      BY <2>2, <3>1, <3>2 DEF ImplBar
    <3>3. CASE table[l][m] # NoId
      <4>1. table[l][m] \in Ids /\ (l # k \/ table[l][m] # v)
        BY <2>2, <3>3, <1>1 DEF IdsDistinct, TypeOK
      <4>2. registry'[l][table[l][m]] = registry[l][table[l][m]]
        BY <4>1, <1>1, DeleteRemoves
      <4> QED
        BY <2>2, <3>1, <3>3, <4>2 DEF ImplBar
    <3> QED
      BY <3>2, <3>3
  <2> QED
    BY <2>1, <2>2
<1>5. ImplBar' = [ImplBar EXCEPT ![k][n] = None]
  <2>1. ImplBar' = [l \in Kinds |-> [m \in Names |-> ImplBar'[l][m]]]
    BY DEF ImplBar
  <2>2. [ImplBar EXCEPT ![k][n] = None]
          = [l \in Kinds |-> [m \in Names |->
               IF l = k /\ m = n THEN None ELSE ImplBar[l][m]]]
    BY DEF ImplBar
  <2> QED
    BY <2>1, <2>2, <1>4
<1> QED
  BY <1>2, <1>3, <1>5 DEF FT!Drop, ImplBar, UsingBar, AnswerBar

LEMMA NextTable == Inv /\ [Next]_vars => [FT!Next]_(FT!table)
<1> SUFFICES ASSUME Inv, [Next]_vars PROVE FT!Next \/ UNCHANGED FT!table
  OBVIOUS
<1> USE DEF Inv
<1>1. ASSUME NEW p \in Procs, NEW k \in Kinds, NEW n \in Names, StepBegin(p, k, n)
      PROVE  FT!Next
  BY <1>1, StepBeginStarts DEF FT!Next
<1>2. ASSUME NEW p \in Procs, NEW k \in Kinds, NEW n \in Names,
             \E i \in Impls : NextRegistryID(p, k, n, i)
      PROVE  UNCHANGED FT!table
  BY <1>2, NextRegistryIDStutters
<1>3. ASSUME NEW p \in Procs, CreateOk(p) PROVE FT!Next
  <2>1. proc[p].kind \in Kinds /\ proc[p].name \in Names /\ proc[p].impl \in Impls
    BY <1>3, RegisteringState DEF CreateOk, Registering
  <2>2. PICK k \in Kinds, n \in Names, i \in Impls :
          proc[p].kind = k /\ proc[p].name = n /\ proc[p].impl = i
    BY <2>1
  <2>3. FT!Define(k, n, i)
    BY <1>3, <2>2, CreateOkDefines
  <2> QED
    BY <2>3 DEF FT!Next
<1>4. ASSUME NEW p \in Procs,
             AddEntry(p) \/ CreateFails(p) \/ Destroy(p) \/ Leave(p) \/ Cleanup(p)
      PROVE  UNCHANGED FT!table
  BY <1>4, RegistrationStepStutters
<1>5. ASSUME NEW p \in Procs, Callback(p) PROVE FT!Next
  BY <1>5, CallbackRuns DEF FT!Next
<1>6. ASSUME NEW p \in Procs, StepRow(p) \/ StepAgain(p) PROVE UNCHANGED FT!table
  BY <1>6, StepStutters
<1>7. ASSUME NEW p \in Procs, StepEnd(p) PROVE FT!Next
  BY <1>7, StepEndFinishes DEF FT!Next
<1>8. CASE Close \/ UNCHANGED vars
  <2>1. UNCHANGED <<registry, table, proc>>
    BY <1>8 DEF Close, vars, library
  <2> QED
    BY <2>1 DEF FT!table, Running
<1>9. ASSUME NEW k \in Kinds, NEW n \in Names, DestroyOnClose(k, n) PROVE FT!Next
  BY <1>9, DestroyOnCloseDrops DEF FT!Next
<1> QED
  BY <1>1, <1>2, <1>3, <1>4, <1>5, <1>6, <1>7, <1>8, <1>9 DEF Next

\* What users see is a table of functions: a registration replaces a name at
\* once, at the step in which the library takes its id, or not at all, and SQL
\* runs what the table has, whatever the ids, the maps and the destructors do.
THEOREM RegistriesImplementTable == Spec => ImplementsFunctionTable
<1>1. Spec => FT!Init /\ [][FT!Next]_(FT!table)
  BY InitTable, NextTable, Invariance, PTL DEF Spec
<1> QED
  BY <1>1 DEF ImplementsFunctionTable, FT!Spec
=============================================================================
