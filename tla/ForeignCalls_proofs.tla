------------------------ MODULE ForeignCalls_proofs ------------------------
(***************************************************************************)
(* Proofs about the memory around a call from Go to C, for any number of   *)
(* goroutines and blocks and for every wrapper that ForeignApi lists.      *)
(***************************************************************************)
EXTENDS ForeignCalls, TLAPS

\* What makes a row of ForeignApi safe to run: the wrapper reads the kind of
\* result the library gives, and frees exactly what it owns and has copied.
Agrees(c) ==
  /\ c.args \subseteq ArgKinds
  /\ \/ c.gives \in {"value", "kept"} /\ c.reads = "value"
     \/ /\ c.gives = "borrowed"
        /\ c.reads \in {"string", "gostring", "bytes", "serialized", "vector", "raw"}
     \/ c.gives = "owned" /\ c.reads \in {"ownedString", "serialized", "raw"}

-----------------------------------------------------------------------------
(* The table of the wrappers.                                              *)

\* Each form of row, whatever functions it stands for.
LEMMA RowKinds ==
  ASSUME NEW fns, NEW args \in SUBSET ArgKinds
  PROVE  /\ Agrees(Plain(fns)) /\ Agrees(OwnedText(fns))
         /\ Agrees(Takes(fns, args)) /\ Agrees(Text(fns, args))
         /\ Agrees(TakesBytes(fns, args)) /\ Agrees(TakesCallbacks(fns, args))
         /\ Agrees(Raw(fns, args, "borrowed")) /\ Agrees(Raw(fns, args, "owned"))
         /\ \A reads \in {"gostring", "bytes", "serialized", "vector", "raw"} :
              Agrees(Row(fns, args, "borrowed", reads))
         /\ Agrees(Row(fns, args, "owned", "serialized")) /\ Agrees(Row(fns, args, "owned", "raw"))
         /\ Agrees(Row(fns, args, "kept", "value"))
BY DEF Agrees, ArgKinds, Row, Plain, Takes, Text, OwnedText, TakesBytes, TakesCallbacks, Raw

LEMMA SqliteAgrees ==
  \A r \in SqliteDbCalls \cup SqliteFuncCalls \cup SqliteExtCalls
             \cup SqliteSerializeCalls \cup SqliteBindCalls : Agrees(r)
<1>1. \A r \in SqliteDbCalls : Agrees(r)
  BY RowKinds, ZenonT(60) DEF SqliteDbCalls, ArgKinds
<1>2. \A r \in SqliteFuncCalls : Agrees(r)
  BY RowKinds DEF SqliteFuncCalls, ArgKinds
<1>3. \A r \in SqliteExtCalls : Agrees(r)
  BY RowKinds DEF SqliteExtCalls, ArgKinds
<1>4. \A r \in SqliteSerializeCalls : Agrees(r)
  BY RowKinds DEF SqliteSerializeCalls, ArgKinds
<1>5. \A r \in SqliteBindCalls : Agrees(r)
  BY RowKinds DEF SqliteBindCalls, ArgKinds
<1> QED BY <1>1, <1>2, <1>3, <1>4, <1>5

LEMMA DuckdbAgrees ==
  \A r \in DuckdbDbCalls \cup DuckdbPreparedCalls \cup DuckdbBindCalls
             \cup DuckdbTypeCalls \cup DuckdbChunkCalls \cup DuckdbVectorReads
             \cup DuckdbPendingCalls \cup DuckdbCreateCalls \cup DuckdbGetCalls
             \cup DuckdbConvertCalls \cup DuckdbAppenderCalls \cup DuckdbTableCalls : Agrees(r)
<1>1. \A r \in DuckdbDbCalls : Agrees(r)
  BY RowKinds DEF DuckdbDbCalls, ArgKinds
<1>2. \A r \in DuckdbPreparedCalls \cup DuckdbBindCalls : Agrees(r)
  BY RowKinds DEF DuckdbPreparedCalls, DuckdbBindCalls, ArgKinds
<1>3. \A r \in DuckdbTypeCalls \cup DuckdbChunkCalls : Agrees(r)
  BY RowKinds, SMTT(30) DEF DuckdbTypeCalls, DuckdbChunkCalls, ArgKinds
<1>4. \A r \in DuckdbVectorReads \cup DuckdbPendingCalls : Agrees(r)
  BY RowKinds DEF DuckdbVectorReads, DuckdbPendingCalls, ArgKinds
<1>5. \A r \in DuckdbCreateCalls \cup DuckdbGetCalls : Agrees(r)
  BY RowKinds DEF DuckdbCreateCalls, DuckdbGetCalls, ArgKinds
<1>6. \A r \in DuckdbConvertCalls \cup DuckdbAppenderCalls : Agrees(r)
  BY RowKinds DEF DuckdbConvertCalls, DuckdbAppenderCalls, ArgKinds
<1>7. \A r \in DuckdbTableCalls : Agrees(r)
  BY RowKinds DEF DuckdbTableCalls, ArgKinds
<1> QED BY <1>1, <1>2, <1>3, <1>4, <1>5, <1>6, <1>7

\* Every wrapper of sqlite3sys and duckdbsys treats the memory it is given as
\* the library's contract says.
THEOREM WrappersAgree == \A c \in Calls : Agrees(c)
<1> SUFFICES ASSUME NEW c \in Calls PROVE Agrees(c)
  OBVIOUS
<1>1. PICK r \in Rows : c = [args |-> r.args, gives |-> r.gives, reads |-> r.reads]
  BY DEF Calls
<1>2. Agrees(r)
  BY SqliteAgrees, DuckdbAgrees DEF Rows
<1> QED BY <1>1, <1>2 DEF Agrees

-----------------------------------------------------------------------------
(* The memory of the calls.                                                *)

\* Whose the memory is that a call was handed by the library.
OwnerAt(g) ==
  IF call[g].pc = "read" /\ call[g].reads = "raw" /\ got[g].moved THEN "lost"
  ELSE IF call[g].gives = "borrowed" THEN "library" ELSE "caller"

\* What a call has said and has been given so far, by how far it is: memory
\* for Deserialize is the caller's until the library has returned, and what
\* the library handed out is there for this call until the wrapper is done.
MemoryOf(g) ==
  /\ call[g].pc = "idle" => call[g] = IdleCall
  /\ call[g].pc \in {"made", "inside"} =>
       /\ call[g].said = "value"
       /\ call[g].at # Null =>
            call[g].gives = "kept" /\ block[call[g].at] = [owner |-> "caller", of |-> g]
  /\ call[g].pc \in {"returned", "read"} /\ call[g].gives \in {"value", "kept"} =>
       /\ call[g].said = "value"
       /\ call[g].at # Null => block[call[g].at] = [owner |-> "library", of |-> g]
  /\ call[g].pc \in {"returned", "read"} /\ call[g].gives \in {"borrowed", "owned"} =>
       /\ call[g].said # "value"
       /\ call[g].said = "null" <=> call[g].at = Null
       /\ call[g].at # Null => block[call[g].at] = [owner |-> OwnerAt(g), of |-> g]
  /\ call[g].pc \in {"made", "inside", "returned"} => got[g] = Nothing
  /\ call[g].pc = "read" /\ call[g].reads = "raw" /\ ~got[g].moved =>
       /\ got[g].at = call[g].at
       /\ call[g].at # Null => got[g].has = "raw"

MemoryInv == TypeOK /\ \A g \in Callers : Agrees(call[g]) /\ MemoryOf(g)

LEMMA NullIsNone == Null \notin Callers /\ Null \notin Blocks
BY NullAssumption

\* A step of another goroutine, or of the library, that takes no block of g.
LEMMA SameMemory ==
  ASSUME MemoryInv, NEW g \in Callers,
         call'[g] = call[g], got'[g] = got[g] \/ call[g].pc = "idle",
         \A b \in Blocks : block[b].of = g /\ block[b].owner # "nobody" /\ call[g].pc # "idle" =>
                             block'[b] = block[b]
  PROVE  Agrees(call'[g]) /\ MemoryOf(g)'
<1>1. call[g].at \in Blocks \cup {Null} /\ Agrees(call'[g])
  BY DEF MemoryInv, TypeOK, CallState
<1>2. CASE call[g].pc = "idle"
  BY <1>1, <1>2 DEF MemoryInv, MemoryOf
<1>3. CASE call[g].pc # "idle"
  <2>1. got'[g] = got[g] /\ MemoryOf(g)
    BY <1>3 DEF MemoryInv
  <2>2. call[g].at # Null /\ block[call[g].at].of = g /\ block[call[g].at].owner # "nobody" =>
          block'[call[g].at] = block[call[g].at]
    BY <1>1, <1>3
  <2>3. OwnerAt(g)' = OwnerAt(g) /\ OwnerAt(g) # "nobody"
    BY <2>1 DEF OwnerAt
  <2> QED BY <2>1, <2>2, <2>3, <1>1 DEF MemoryOf
<1> QED BY <1>1, <1>2, <1>3

BlockState == [owner : {"nobody", "library", "caller", "lost"}, of : Callers \cup {Null}]
GotState == [said : Said, at : Blocks \cup {Null}, moved : BOOLEAN,
             has : {"value", "null", "empty", "data", "raw", "garbage"}]

\* A call that only goes on to its next step.
LEMMA GotoType ==
  ASSUME TypeOK, NEW g \in Callers, NEW pc \in {"idle", "made", "inside", "returned", "read"},
         call' = [call EXCEPT ![g].pc = pc]
  PROVE  /\ call' \in [Callers -> CallState]
         /\ \A h \in Callers : h # g => call'[h] = call[h]
         /\ call'[g].pc = pc /\ call'[g].args = call[g].args /\ call'[g].gives = call[g].gives
         /\ call'[g].reads = call[g].reads /\ call'[g].said = call[g].said
         /\ call'[g].at = call[g].at /\ call'[g].held = call[g].held
<1> DEFINE d == [call[g] EXCEPT !.pc = pc]
<1>1. call \in [Callers -> CallState] /\ call[g] \in CallState
  BY DEF TypeOK
<1>2. /\ d \in CallState /\ d.pc = pc /\ d.args = call[g].args /\ d.gives = call[g].gives
      /\ d.reads = call[g].reads /\ d.said = call[g].said /\ d.at = call[g].at
      /\ d.held = call[g].held
  BY <1>1 DEF CallState
<1>3. call' = [call EXCEPT ![g] = d]
  BY <1>1
<1> HIDE DEF d
<1> QED BY <1>1, <1>2, <1>3

LEMMA CollectKeeps ==
  ASSUME MemoryInv, NEW g \in Callers,
         MoveStack(g) \/ \E kind \in ArgKinds : Collect(g, kind)
  PROVE  MemoryInv'
<1>1. UNCHANGED <<call, got, block>>
  BY DEF MoveStack, Collect
<1>2. gone' \in [Callers -> SUBSET ArgKinds]
  BY DEF MoveStack, Collect, MemoryInv, TypeOK, ArgKinds
<1>3. \A h \in Callers : Agrees(call'[h]) /\ MemoryOf(h)'
  BY <1>1, SameMemory
<1> QED BY <1>1, <1>2, <1>3 DEF MemoryInv, TypeOK

LEMMA BeginKeeps ==
  ASSUME MemoryInv, NEW g \in Callers, NEW c \in Calls, NEW held \in BOOLEAN, Begin(g, c, held)
  PROVE  MemoryInv'
<1> DEFINE made == [IdleCall EXCEPT !.pc = "made", !.args = c.args, !.gives = c.gives,
                                    !.reads = c.reads, !.held = held]
<1>1. /\ call' = [call EXCEPT ![g] = made] /\ gone' = [gone EXCEPT ![g] = {}]
      /\ got' = [got EXCEPT ![g] = Nothing] /\ UNCHANGED block
  BY DEF Begin
<1>2. Agrees(c)
  BY WrappersAgree
<1>3. made \in CallState /\ Agrees(made) /\ Nothing \in GotState
  BY <1>2 DEF Agrees, IdleCall, CallState, Said, Nothing, GotState
<1>4. TypeOK'
  BY <1>1, <1>3 DEF MemoryInv, TypeOK, GotState
<1>5. ASSUME NEW h \in Callers PROVE Agrees(call'[h]) /\ MemoryOf(h)'
  <2>1. CASE h = g
    <3>1. call'[h] = made /\ got'[h] = Nothing
      BY <1>1, <2>1 DEF MemoryInv, TypeOK
    <3> QED BY <1>3, <3>1 DEF MemoryOf, IdleCall
  <2>2. CASE h # g
    BY <1>1, <2>2, SameMemory DEF MemoryInv, TypeOK
  <2> QED BY <2>1, <2>2
<1> QED BY <1>4, <1>5 DEF MemoryInv

LEMMA BeginDeserializeKeeps ==
  ASSUME MemoryInv, NEW g \in Callers, NEW c \in Calls, BeginDeserialize(g, c)
  PROVE  MemoryInv'
<1> DEFINE made == [IdleCall EXCEPT !.pc = "made", !.args = c.args, !.gives = c.gives,
                                    !.reads = c.reads]
<1>1. /\ call[g].pc = "idle" /\ c.gives = "kept"
      /\ gone' = [gone EXCEPT ![g] = {}] /\ got' = [got EXCEPT ![g] = Nothing]
      /\ \/ \E b \in FreeBlocks :
              /\ call' = [call EXCEPT ![g] = [made EXCEPT !.at = b]]
              /\ block' = [block EXCEPT ![b] = [owner |-> "caller", of |-> g]]
         \/ call' = [call EXCEPT ![g] = made] /\ UNCHANGED block
         \/ UNCHANGED <<call, block>>
  BY DEF BeginDeserialize
<1>2. Agrees(c)
  BY WrappersAgree
<1>3. /\ Nothing \in GotState
      /\ \A at \in Blocks \cup {Null} :
           LET d == [made EXCEPT !.at = at] IN
           d \in CallState /\ Agrees(d) /\ d.pc = "made" /\ d.said = "value" /\ d.gives = "kept"
             /\ d.at = at
  BY <1>1, <1>2 DEF Agrees, IdleCall, CallState, Said, Nothing, GotState
<1>4. made = [made EXCEPT !.at = Null]
  <2>1. made \in CallState /\ made.at = Null
    BY <1>2 DEF Agrees, IdleCall, CallState, Said
  <2> HIDE DEF made
  <2> QED BY <2>1 DEF CallState
<1>5. gone' \in [Callers -> SUBSET ArgKinds] /\ got' \in [Callers -> GotState]
  BY <1>1, <1>3 DEF MemoryInv, TypeOK, GotState
<1>6. \A h \in Callers : got'[h] = IF h = g THEN Nothing ELSE got[h]
  BY <1>1 DEF MemoryInv, TypeOK
<1>7. ASSUME NEW at \in Blocks \cup {Null},
             at # Null => block[at].owner = "nobody",
             call' = [call EXCEPT ![g] = [made EXCEPT !.at = at]],
             block' = [block EXCEPT ![at] = [owner |-> "caller", of |-> g]]
      PROVE  MemoryInv'
  <2>1. call' \in [Callers -> CallState]
    BY <1>3, <1>7 DEF MemoryInv, TypeOK
  <2>2. block' \in [Blocks -> BlockState]
    BY <1>7 DEF MemoryInv, TypeOK, BlockState
  <2>3. ASSUME NEW h \in Callers PROVE Agrees(call'[h]) /\ MemoryOf(h)'
    <3>1. CASE h = g
      <4>1. call'[h] = [made EXCEPT !.at = at] /\ got'[h] = Nothing
        BY <1>6, <1>7, <3>1 DEF MemoryInv, TypeOK
      <4>2. at # Null => block'[at] = [owner |-> "caller", of |-> g]
        BY <1>7 DEF MemoryInv, TypeOK
      <4> HIDE DEF made
      <4> QED BY <1>3, <3>1, <4>1, <4>2 DEF MemoryOf
    <3>2. CASE h # g
      <4>1. call'[h] = call[h] /\ got'[h] = got[h]
        BY <1>6, <1>7, <3>2 DEF MemoryInv, TypeOK
      <4>2. \A b \in Blocks : block[b].owner # "nobody" => block'[b] = block[b]
        BY <1>7, NullIsNone DEF MemoryInv, TypeOK
      <4> QED BY <4>1, <4>2, SameMemory
    <3> QED BY <3>1, <3>2
  <2> QED BY <1>5, <2>1, <2>2, <2>3 DEF MemoryInv, TypeOK, GotState, BlockState
<1>8. CASE UNCHANGED <<call, block>>
  <2>1. \A h \in Callers : Agrees(call'[h]) /\ MemoryOf(h)'
    BY <1>1, <1>6, <1>8, SameMemory
  <2> QED BY <1>5, <1>8, <2>1 DEF MemoryInv, TypeOK, GotState
<1>9. CASE call' = [call EXCEPT ![g] = made] /\ UNCHANGED block
  <2>1. block' = [block EXCEPT ![Null] = [owner |-> "caller", of |-> g]]
    BY <1>9, NullIsNone DEF MemoryInv, TypeOK
  <2> QED BY <1>4, <1>7, <1>9, <2>1
<1>10. CASE \E b \in FreeBlocks :
              /\ call' = [call EXCEPT ![g] = [made EXCEPT !.at = b]]
              /\ block' = [block EXCEPT ![b] = [owner |-> "caller", of |-> g]]
  BY <1>7, <1>10, NullIsNone DEF FreeBlocks
<1> QED BY <1>1, <1>8, <1>9, <1>10

LEMMA EnterKeeps ==
  ASSUME MemoryInv, NEW g \in Callers, Enter(g)
  PROVE  MemoryInv'
<1>1. call[g].pc = "made" /\ call' = [call EXCEPT ![g].pc = "inside"] /\ UNCHANGED <<gone, got, block>>
  BY DEF Enter, Goto
<1>2. TypeOK'
  BY <1>1, GotoType DEF MemoryInv, TypeOK
<1>3. ASSUME NEW h \in Callers PROVE Agrees(call'[h]) /\ MemoryOf(h)'
  <2>1. CASE h = g
    <3>1. /\ call'[g].pc = "inside" /\ call'[g].args = call[g].args /\ call'[g].gives = call[g].gives
          /\ call'[g].reads = call[g].reads /\ call'[g].said = call[g].said
          /\ call'[g].at = call[g].at
      BY <1>1, GotoType DEF MemoryInv
    <3>2. Agrees(call[g]) /\ MemoryOf(g)
      BY DEF MemoryInv
    <3>3. Agrees(call'[g])
      BY <3>1, <3>2 DEF Agrees
    <3> QED BY <1>1, <2>1, <3>1, <3>2, <3>3 DEF MemoryOf
  <2>2. CASE h # g
    <3>1. call'[h] = call[h]
      BY <1>1, <2>2 DEF MemoryInv, TypeOK
    <3> QED BY <1>1, <3>1, SameMemory
  <2> QED BY <2>1, <2>2
<1> QED BY <1>2, <1>3 DEF MemoryInv

\* What the library may answer, by what the call is given.
LEMMA ReturnsCases ==
  ASSUME MemoryInv, NEW g \in Callers, LibraryReturns(g)
  PROVE  \/ /\ call[g].gives \in {"value", "kept"}
            /\ call' = [call EXCEPT ![g].pc = "returned"]
            /\ block' = IF call[g].at = Null THEN block
                        ELSE [block EXCEPT ![call[g].at] = [owner |-> "library", of |-> g]]
         \/ /\ call[g].gives \in {"borrowed", "owned"}
            /\ \E said \in {"empty", "data"}, b \in FreeBlocks :
                 /\ call' = [call EXCEPT ![g].pc = "returned", ![g].said = said, ![g].at = b]
                 /\ block' = [block EXCEPT ![b] = [owner |-> OwnerAt(g), of |-> g]]
         \/ /\ call[g].gives \in {"borrowed", "owned"}
            /\ call' = [call EXCEPT ![g].pc = "returned", ![g].said = "null"]
            /\ UNCHANGED block
<1>1. call[g].pc = "inside" /\ call[g].gives \in {"value", "kept", "borrowed", "owned"}
  BY DEF LibraryReturns, MemoryInv, TypeOK, CallState
<1>2. CASE call[g].gives = "value"
  <2>1. call[g].at = Null
    BY <1>1, <1>2 DEF MemoryInv, MemoryOf
  <2> QED BY <1>2, <2>1 DEF LibraryReturns, Goto
<1>3. CASE call[g].gives = "kept"
  BY <1>3 DEF LibraryReturns, Goto
<1>4. CASE call[g].gives \in {"borrowed", "owned"}
  <2>1. OwnerAt(g) = IF call[g].gives = "owned" THEN "caller" ELSE "library"
    BY <1>1, <1>4 DEF OwnerAt
  <2> QED BY <1>4, <2>1 DEF LibraryReturns, Hands
<1> QED BY <1>1, <1>2, <1>3, <1>4

LEMMA LibraryReturnsKeeps ==
  ASSUME MemoryInv, NEW g \in Callers, LibraryReturns(g)
  PROVE  MemoryInv'
<1> DEFINE c == call[g]
<1>1. c.pc = "inside" /\ UNCHANGED <<gone, got>> /\ got[g] = Nothing /\ c.said = "value"
  BY DEF LibraryReturns, MemoryInv, MemoryOf
<1>2. c \in CallState /\ Agrees(c) /\ block \in [Blocks -> BlockState]
  BY DEF MemoryInv, TypeOK, BlockState
<1>3. CASE /\ c.gives \in {"value", "kept"}
           /\ call' = [call EXCEPT ![g].pc = "returned"]
           /\ block' = IF c.at = Null THEN block
                       ELSE [block EXCEPT ![c.at] = [owner |-> "library", of |-> g]]
  <2>1. c.at # Null => c.at \in Blocks /\ block[c.at] = [owner |-> "caller", of |-> g]
    BY <1>1, <1>2 DEF MemoryInv, MemoryOf, CallState
  <2>2. call' \in [Callers -> CallState] /\ block' \in [Blocks -> BlockState]
    BY <1>2, <1>3, <2>1 DEF MemoryInv, TypeOK, CallState, BlockState
  <2>3. ASSUME NEW h \in Callers PROVE Agrees(call'[h]) /\ MemoryOf(h)'
    <3>1. CASE h = g
      <4>1. call'[h] = [call[h] EXCEPT !.pc = "returned"]
        BY <1>3, <3>1 DEF MemoryInv, TypeOK
      <4>2. call'[h].at = c.at /\ call'[h].said = "value" /\ call'[h].gives = c.gives
            /\ call'[h].reads = c.reads /\ call'[h].args = c.args /\ call'[h].pc = "returned"
        BY <1>1, <1>2, <3>1, <4>1 DEF CallState
      <4>3. c.at # Null => block'[c.at] = [owner |-> "library", of |-> g]
        BY <1>2, <1>3, <2>1
      <4> QED BY <1>1, <1>2, <1>3, <3>1, <4>2, <4>3 DEF Agrees, MemoryOf
    <3>2. CASE h # g
      <4>1. call'[h] = call[h] /\ got'[h] = got[h]
        BY <1>1, <1>3, <3>2 DEF MemoryInv, TypeOK
      <4>2. \A b \in Blocks : block[b].of = h => block'[b] = block[b]
        BY <1>2, <1>3, <2>1, <3>2
      <4> QED BY <4>1, <4>2, SameMemory
    <3> QED BY <3>1, <3>2
  <2> QED BY <1>1, <2>2, <2>3 DEF MemoryInv, TypeOK, BlockState
<1>4. CASE /\ c.gives \in {"borrowed", "owned"}
           /\ \E said \in {"empty", "data"}, b \in FreeBlocks :
                /\ call' = [call EXCEPT ![g].pc = "returned", ![g].said = said, ![g].at = b]
                /\ block' = [block EXCEPT ![b] = [owner |-> OwnerAt(g), of |-> g]]
  <2>1. PICK said \in {"empty", "data"}, b \in FreeBlocks :
          /\ call' = [call EXCEPT ![g].pc = "returned", ![g].said = said, ![g].at = b]
          /\ block' = [block EXCEPT ![b] = [owner |-> OwnerAt(g), of |-> g]]
    BY <1>4
  <2> DEFINE d == [c EXCEPT !.pc = "returned", !.said = said, !.at = b]
  <2>2. b \in Blocks /\ b # Null /\ block[b].owner = "nobody"
    BY NullIsNone DEF FreeBlocks
  <2>3. call' = [call EXCEPT ![g] = d]
    BY <2>1 DEF MemoryInv, TypeOK
  <2>4. /\ d \in CallState /\ d.pc = "returned" /\ d.said = said /\ d.at = b
        /\ d.gives = c.gives /\ d.reads = c.reads /\ d.args = c.args
    BY <1>2, <2>2 DEF CallState, Said
  <2>5. OwnerAt(g) \in {"library", "caller"}
        /\ OwnerAt(g) = IF c.gives = "borrowed" THEN "library" ELSE "caller"
    BY <1>1 DEF OwnerAt
  <2> HIDE DEF d
  <2>6. call' \in [Callers -> CallState] /\ block' \in [Blocks -> BlockState]
    <3>1. [owner |-> OwnerAt(g), of |-> g] \in BlockState
      BY <2>5 DEF BlockState
    <3>2. call \in [Callers -> CallState] /\ block \in [Blocks -> BlockState]
      BY DEF MemoryInv, TypeOK, BlockState
    <3>3. call' \in [Callers -> CallState]
      BY <2>3, <2>4, <3>2
    <3>4. block' \in [Blocks -> BlockState]
      BY <2>1, <3>1, <3>2
    <3> QED BY <3>3, <3>4
  <2>7. ASSUME NEW h \in Callers PROVE Agrees(call'[h]) /\ MemoryOf(h)'
    <3>1. CASE h = g
      <4>1. call'[h] = d /\ block'[b] = [owner |-> OwnerAt(g), of |-> g] /\ got'[h] = Nothing
        BY <1>1, <1>2, <2>1, <2>2, <2>3, <3>1 DEF MemoryInv, TypeOK
      <4>2. OwnerAt(h)' = OwnerAt(g)
        BY <2>4, <2>5, <4>1 DEF OwnerAt
      <4> QED BY <1>2, <1>4, <2>2, <2>4, <3>1, <4>1, <4>2 DEF Agrees, MemoryOf
    <3>2. CASE h # g
      <4>1. call'[h] = call[h] /\ got'[h] = got[h]
        BY <1>1, <2>3, <3>2 DEF MemoryInv, TypeOK
      <4>2. \A e \in Blocks : block[e].owner # "nobody" => block'[e] = block[e]
        BY <1>2, <2>1, <2>2
      <4> QED BY <4>1, <4>2, SameMemory
    <3> QED BY <3>1, <3>2
  <2> QED BY <1>1, <2>6, <2>7 DEF MemoryInv, TypeOK, BlockState
<1>5. CASE /\ c.gives \in {"borrowed", "owned"}
           /\ call' = [call EXCEPT ![g].pc = "returned", ![g].said = "null"]
           /\ UNCHANGED block
  <2> DEFINE d == [c EXCEPT !.pc = "returned", !.said = "null"]
  <2>1. call' = [call EXCEPT ![g] = d]
    BY <1>5 DEF MemoryInv, TypeOK
  <2>2. /\ d \in CallState /\ d.pc = "returned" /\ d.said = "null" /\ d.at = c.at
        /\ d.gives = c.gives /\ d.reads = c.reads /\ d.args = c.args
    BY <1>2 DEF CallState, Said
  <2>3. c.at = Null
    BY <1>1, <1>5 DEF MemoryInv, MemoryOf
  <2> HIDE DEF d
  <2>4. call' \in [Callers -> CallState]
    BY <2>1, <2>2 DEF MemoryInv, TypeOK
  <2>5. ASSUME NEW h \in Callers PROVE Agrees(call'[h]) /\ MemoryOf(h)'
    <3>1. CASE h = g
      <4>1. call'[h] = d /\ got'[h] = Nothing
        BY <1>1, <2>1, <3>1 DEF MemoryInv, TypeOK
      <4> QED BY <1>2, <1>5, <2>2, <2>3, <4>1 DEF Agrees, MemoryOf
    <3>2. CASE h # g
      <4>1. call'[h] = call[h] /\ got'[h] = got[h]
        BY <1>1, <2>1, <3>2 DEF MemoryInv, TypeOK
      <4> QED BY <1>5, <4>1, SameMemory
    <3> QED BY <3>1, <3>2
  <2> QED BY <1>1, <1>5, <2>4, <2>5 DEF MemoryInv, TypeOK
<1> QED BY <1>3, <1>4, <1>5, ReturnsCases

\* Whatever a call is read as is one of the values Go can have.
LEMMA ReadAsType ==
  ASSUME MemoryInv, NEW g \in Callers
  PROVE  ReadAs(g, Written(g)) \in {"value", "null", "empty", "data", "raw", "garbage"}
<1> DEFINE w == Written(g)
<1>1. w.said \in Said /\ w.reads = call[g].reads /\ call[g] \in CallState
  BY DEF Written, MemoryInv, TypeOK, CallState, Said
<1>2. \A said \in Said : ContentOf(g, w.at, said) \in Said \cup {"garbage"}
  BY DEF ContentOf
<1>3. w.reads \in {"value", "string", "ownedString", "gostring", "bytes", "serialized", "vector", "raw"}
  BY <1>1 DEF CallState
<1> HIDE DEF w
<1>4. ReadAs(g, w) \in {"value", "null", "empty", "data", "raw", "garbage"}
  BY <1>1, <1>2, <1>3 DEF ReadAs, Said
<1> QED BY <1>4 DEF w

LEMMA ReadResultKeeps ==
  ASSUME MemoryInv, NEW g \in Callers, ReadResult(g)
  PROVE  MemoryInv'
<1> DEFINE c == call[g]
           moved == "stackOut" \in gone[g]
           r == [said |-> c.said, has |-> ReadAs(g, Written(g)),
                 at |-> IF c.reads = "raw" THEN c.at ELSE Null, moved |-> moved]
<1>1. /\ c.pc = "returned" /\ UNCHANGED gone
      /\ call' = [call EXCEPT ![g].pc = "read"]
      /\ got' = [got EXCEPT ![g] = r]
      /\ block' = IF c.reads = "raw" /\ c.at # Null /\ moved
                  THEN [block EXCEPT ![c.at].owner = "lost"] ELSE block
  BY DEF ReadResult, Goto
<1>2. c \in CallState /\ Agrees(c) /\ MemoryOf(g) /\ block \in [Blocks -> BlockState]
  BY DEF MemoryInv, TypeOK, BlockState
<1>3. r \in GotState
  BY <1>2, ReadAsType DEF GotState, CallState
<1>4. r.moved = moved /\ (c.reads = "raw" => r.at = c.at)
  OBVIOUS
<1>5. c.at # Null => c.at \in Blocks /\ block[c.at].of = g /\ block[c.at].owner # "nobody"
  <2>1. c.at # Null => c.at \in Blocks
    BY <1>2 DEF CallState
  <2>2. c.gives \in {"value", "kept"} \/ c.gives \in {"borrowed", "owned"}
    BY <1>2 DEF Agrees
  <2> QED BY <1>1, <1>2, <2>1, <2>2 DEF MemoryOf, OwnerAt
<1>6. c.reads = "raw" /\ ~moved /\ c.at # Null => r.has = "raw"
  <2>1. ASSUME c.reads = "raw", ~moved, c.at # Null PROVE r.has = "raw"
    <3>1. c.said # "null"
      BY <1>1, <1>2, <2>1 DEF MemoryOf, Agrees
    <3>2. Written(g).said = c.said /\ Written(g).reads = "raw"
      BY <1>2, <2>1 DEF Written, CallState
    <3> QED BY <3>1, <3>2 DEF ReadAs
  <2> QED BY <2>1
<1> HIDE DEF r
<1>7. TypeOK'
  <2>1. call' \in [Callers -> CallState]
    BY <1>1, GotoType DEF MemoryInv
  <2>2. got' \in [Callers -> GotState]
    BY <1>1, <1>3 DEF MemoryInv, TypeOK, GotState
  <2>3. block' \in [Blocks -> BlockState]
    BY <1>1, <1>2, <1>5 DEF BlockState
  <2> QED BY <1>1, <2>1, <2>2, <2>3 DEF MemoryInv, TypeOK, GotState, BlockState
<1>8. ASSUME NEW h \in Callers PROVE Agrees(call'[h]) /\ MemoryOf(h)'
  <2>1. CASE h = g
    <3>1. call'[h] = [call[h] EXCEPT !.pc = "read"] /\ got'[h] = r
      BY <1>1, <2>1 DEF MemoryInv, TypeOK
    <3>2. /\ call'[h].pc = "read" /\ call'[h].said = c.said /\ call'[h].at = c.at
          /\ call'[h].gives = c.gives /\ call'[h].reads = c.reads /\ call'[h].args = c.args
      BY <1>2, <2>1, <3>1 DEF CallState
    <3>3. c.at # Null => block'[c.at].of = g
                         /\ block'[c.at].owner = IF c.reads = "raw" /\ moved THEN "lost"
                                                 ELSE block[c.at].owner
      BY <1>1, <1>2, <1>5 DEF BlockState
    <3>4. c.at # Null /\ ~(c.reads = "raw" /\ moved) => block'[c.at] = block[c.at]
      BY <1>1
    <3>5. c.at # Null /\ c.reads = "raw" /\ moved => block'[c.at] = [owner |-> "lost", of |-> g]
      BY <1>1, <1>2, <1>5, <3>3 DEF BlockState
    <3>6. Agrees(call'[h])
      BY <1>2, <3>2 DEF Agrees
    <3>7. OwnerAt(h)' = IF c.reads = "raw" /\ moved THEN "lost" ELSE OwnerAt(g)
      BY <1>1, <1>4, <2>1, <3>1, <3>2 DEF OwnerAt
    <3>8. c.gives \in {"value", "kept"} => c.reads = "value"
      BY <1>2 DEF Agrees
    <3> QED BY <1>1, <1>2, <1>4, <1>6, <2>1, <3>1, <3>2, <3>4, <3>5, <3>6, <3>7, <3>8, ZenonT(60) DEF MemoryOf
  <2>2. CASE h # g
    <3>1. call'[h] = call[h] /\ got'[h] = got[h]
      BY <1>1, <2>2 DEF MemoryInv, TypeOK
    <3>2. \A b \in Blocks : block[b].of = h => block'[b] = block[b]
      BY <1>1, <1>2, <1>5, <2>2
    <3> QED BY <3>1, <3>2, SameMemory
  <2> QED BY <2>1, <2>2
<1> QED BY <1>7, <1>8 DEF MemoryInv

\* What Finish frees is what the call was handed for it to free.
LEMMA FreesOwned ==
  ASSUME MemoryInv, NEW g \in Callers, call[g].pc = "read", Frees(g)
  PROVE  call[g].at \in Blocks /\ block[call[g].at] = [owner |-> "caller", of |-> g]
<1>1. call[g] \in CallState /\ Agrees(call[g]) /\ MemoryOf(g)
  BY DEF MemoryInv, TypeOK
<1>2. call[g].gives = "owned" /\ call[g].reads # "raw" /\ call[g].said # "null"
  BY <1>1 DEF Frees, Agrees
<1>3. call[g].at # Null /\ OwnerAt(g) = "caller"
  BY <1>1, <1>2 DEF MemoryOf, OwnerAt
<1> QED BY <1>1, <1>2, <1>3 DEF MemoryOf, CallState

LEMMA IdleCallType == IdleCall \in CallState /\ Agrees(IdleCall) /\ Free \in BlockState /\ Nothing \in GotState
BY DEF IdleCall, CallState, Agrees, Said, Free, BlockState, Nothing, GotState

LEMMA FinishKeeps ==
  ASSUME MemoryInv, NEW g \in Callers, Finish(g)
  PROVE  MemoryInv'
<1>1. /\ call[g].pc = "read" /\ UNCHANGED got
      /\ IF Frees(g) THEN FreeBlock(g, call[g].at) ELSE UNCHANGED block
      /\ call' = [call EXCEPT ![g] = IdleCall] /\ gone' = [gone EXCEPT ![g] = {}]
  BY DEF Finish
<1>2. block \in [Blocks -> BlockState]
  BY DEF MemoryInv, TypeOK, BlockState
<1>3. \/ UNCHANGED block
      \/ /\ call[g].at \in Blocks /\ block[call[g].at].of = g
         /\ block' = [block EXCEPT ![call[g].at] = Free]
  BY <1>1, <1>2, FreesOwned DEF FreeBlock
<1>4. block' \in [Blocks -> BlockState]
  BY <1>2, <1>3, IdleCallType
<1>5. ASSUME NEW h \in Callers PROVE Agrees(call'[h]) /\ MemoryOf(h)'
  <2>1. CASE h = g
    <3>1. call'[h] = IdleCall
      BY <1>1, <2>1 DEF MemoryInv, TypeOK
    <3> QED BY <3>1, IdleCallType DEF MemoryOf, IdleCall
  <2>2. CASE h # g
    <3>1. call'[h] = call[h] /\ got'[h] = got[h]
      BY <1>1, <2>2 DEF MemoryInv, TypeOK
    <3>2. \A b \in Blocks : block[b].of = h => block'[b] = block[b]
      BY <1>2, <1>3, <2>2
    <3> QED BY <3>1, <3>2, SameMemory
  <2> QED BY <2>1, <2>2
<1> QED BY <1>1, <1>4, <1>5, IdleCallType DEF MemoryInv, TypeOK, BlockState

LEMMA UserFreesKeeps ==
  ASSUME MemoryInv, NEW g \in Callers, UserFrees(g)
  PROVE  MemoryInv'
<1>1. /\ call[g].pc = "idle" /\ block[got[g].at] = [owner |-> "caller", of |-> g]
      /\ FreeBlock(g, got[g].at)
      /\ got' = [got EXCEPT ![g] = Nothing] /\ UNCHANGED <<call, gone>>
  BY DEF UserFrees, HoldsMemory
<1>2. block \in [Blocks -> BlockState]
  BY DEF MemoryInv, TypeOK, BlockState
<1>3. block' = [block EXCEPT ![got[g].at] = Free]
  BY <1>1, <1>2 DEF FreeBlock
<1>4. block' \in [Blocks -> BlockState] /\ got' \in [Callers -> GotState]
  BY <1>1, <1>2, <1>3, IdleCallType DEF MemoryInv, TypeOK, GotState
<1>5. ASSUME NEW h \in Callers PROVE Agrees(call'[h]) /\ MemoryOf(h)'
  <2>1. call'[h] = call[h] /\ (h # g => got'[h] = got[h]) /\ (h = g => call[h].pc = "idle")
    BY <1>1 DEF MemoryInv, TypeOK
  <2>2. \A b \in Blocks : block[b].of = h /\ call[h].pc # "idle" => block'[b] = block[b]
    BY <1>1, <1>2, <1>3
  <2> QED BY <2>1, <2>2, SameMemory
<1> QED BY <1>1, <1>4, <1>5 DEF MemoryInv, TypeOK, GotState, BlockState

LEMMA TakeBackKeeps ==
  ASSUME MemoryInv, NEW b \in Blocks, TakeBack(b)
  PROVE  MemoryInv'
<1>1. /\ call[block[b].of].pc = "idle" /\ block' = [block EXCEPT ![b] = Free]
      /\ UNCHANGED <<call, gone, got>>
  BY DEF TakeBack
<1>2. block' \in [Blocks -> BlockState]
  BY <1>1, IdleCallType DEF MemoryInv, TypeOK, BlockState
<1>3. ASSUME NEW h \in Callers PROVE Agrees(call'[h]) /\ MemoryOf(h)'
  <2>1. \A e \in Blocks : block[e].of = h /\ call[h].pc # "idle" => block'[e] = block[e]
    BY <1>1 DEF MemoryInv, TypeOK
  <2> QED BY <1>1, <2>1, SameMemory
<1> QED BY <1>1, <1>2, <1>3 DEF MemoryInv, TypeOK, BlockState

LEMMA InitMemory == Init => MemoryInv
<1> SUFFICES ASSUME Init PROVE MemoryInv
  OBVIOUS
<1>1. TypeOK
  BY IdleCallType DEF Init, TypeOK, BlockState, GotState
<1>2. ASSUME NEW g \in Callers PROVE Agrees(call[g]) /\ MemoryOf(g)
  <2>1. call[g] = IdleCall /\ call[g].pc = "idle"
    BY DEF Init, IdleCall
  <2> QED BY <2>1, IdleCallType DEF MemoryOf
<1> QED BY <1>1, <1>2 DEF MemoryInv

\* Every step is a wrapper's, its caller's, the collector's or the library's.
LEMMA StepKeepsMemory ==
  ASSUME MemoryInv, [Next]_vars
  PROVE  MemoryInv'
<1>1. CASE UNCHANGED vars
  <2>1. \A g \in Callers : Agrees(call'[g]) /\ MemoryOf(g)'
    BY <1>1, SameMemory DEF vars
  <2> QED BY <1>1, <2>1 DEF vars, MemoryInv, TypeOK
<1>2. ASSUME NEW g \in Callers,
             \/ \E c \in Calls, held \in BOOLEAN : Begin(g, c, held)
             \/ \E c \in Calls : BeginDeserialize(g, c)
      PROVE  MemoryInv'
  BY <1>2, BeginKeeps, BeginDeserializeKeeps
<1>3. ASSUME NEW g \in Callers, Wrapper(g) \/ LibraryReturns(g) PROVE MemoryInv'
  BY <1>3, EnterKeeps, LibraryReturnsKeeps, ReadResultKeeps, FinishKeeps DEF Wrapper
<1>4. ASSUME NEW g \in Callers,
             UserFrees(g) \/ MoveStack(g) \/ \E kind \in ArgKinds : Collect(g, kind)
      PROVE  MemoryInv'
  BY <1>4, UserFreesKeeps, CollectKeeps
<1>5. ASSUME NEW b \in Blocks, TakeBack(b) PROVE MemoryInv'
  BY <1>5, TakeBackKeeps
<1> QED BY <1>1, <1>2, <1>3, <1>4, <1>5 DEF Next

\* Every call is handed and frees its own memory only: no goroutine's free()
\* hits a block of the library, of another call, or one that is free already.
THEOREM MemoryAccounted == Spec => []MemoryInv
BY InitMemory, StepKeepsMemory, PTL DEF Spec

\* No block is destroyed by a wrong free(), whichever wrappers run at once.
THEOREM NoWrongFree == Spec => []TypeOK
BY MemoryAccounted, PTL DEF MemoryInv

-----------------------------------------------------------------------------
(* What the wrappers promise.                                              *)

\* Memory that has to be freed always has someone who will free it.
THEOREM MemoryHasAnOwner == Spec => []NothingLeaks
<1> DEFINE Held(g, b) == \/ call[g].pc # "idle" /\ call[g].at = b
                         \/ got[g].has = "raw" /\ got[g].at = b
           OwnedAt(b) == block[b].of \in Callers /\ Held(block[b].of, b)
           AllOwned == \A b \in Blocks : block[b].owner = "caller" => OwnedAt(b)
<1>1. Init => AllOwned
  BY DEF Init, Free
<1>2. MemoryInv /\ AllOwned /\ [Next]_vars => AllOwned'
  <2> SUFFICES ASSUME MemoryInv, AllOwned, [Next]_vars,
                      NEW b \in Blocks, block'[b].owner = "caller"
               PROVE  OwnedAt(b)'
    OBVIOUS
  <2> DEFINE Owned == OwnedAt(b)
  <2>0. /\ block[b].owner = "caller" => Owned
        /\ call \in [Callers -> CallState] /\ got \in [Callers -> GotState]
        /\ block \in [Blocks -> BlockState]
    BY DEF MemoryInv, TypeOK, GotState, BlockState
  <2>1. CASE UNCHANGED <<call, got, block>>
    BY <2>0, <2>1
  <2>2. ASSUME NEW g \in Callers, NEW c \in Calls, NEW held \in BOOLEAN, Begin(g, c, held)
        PROVE  Owned'
    <3>1. UNCHANGED block /\ block[b] = [owner |-> "caller", of |-> block[b].of]
      BY <2>0, <2>2 DEF Begin, BlockState
    <3>2. block[b].of # g
      BY <2>0, <2>2, <3>1 DEF Begin, HoldsMemory
    <3> QED BY <2>0, <2>2, <3>1, <3>2 DEF Begin
  <2>3. ASSUME NEW g \in Callers, NEW c \in Calls, BeginDeserialize(g, c)
        PROVE  Owned'
    <3>1. /\ \A h \in Callers : h # g => call'[h] = call[h] /\ got'[h] = got[h]
          /\ ~HoldsMemory(g) /\ call[g].pc = "idle"
      BY <2>0, <2>3 DEF BeginDeserialize
    <3>2. CASE block'[b] = block[b]
      <4>1. block[b] = [owner |-> "caller", of |-> block[b].of]
        BY <2>0, <3>2 DEF BlockState
      <4>2. block[b].of # g
        BY <2>0, <3>1, <4>1 DEF HoldsMemory
      <4> QED BY <2>0, <3>1, <3>2, <4>1, <4>2
    <3>3. CASE block'[b] # block[b]
      <4>1. /\ block' = [block EXCEPT ![b] = [owner |-> "caller", of |-> g]]
            /\ \E d : call' = [call EXCEPT ![g] = [[IdleCall EXCEPT !.pc = "made", !.args = c.args,
                                 !.gives = c.gives, !.reads = c.reads] EXCEPT !.at = d]] /\ d = b
        BY <2>0, <2>3, <3>3 DEF BeginDeserialize
      <4>2. block'[b].of = g /\ call'[g].pc = "made" /\ call'[g].at = b
        BY <2>0, <4>1 DEF IdleCall
      <4> QED BY <4>2
    <3> QED BY <3>2, <3>3
  <2>4. ASSUME NEW g \in Callers, Enter(g) PROVE Owned'
    <3>1. /\ \A h \in Callers : h # g => call'[h] = call[h]
          /\ call'[g].at = call[g].at /\ call'[g].pc = "inside" /\ call[g].pc = "made"
          /\ UNCHANGED <<got, block>>
      BY <2>4, GotoType DEF Enter, Goto, MemoryInv
    <3> QED BY <2>0, <3>1
  <2>5. ASSUME NEW g \in Callers, LibraryReturns(g) PROVE Owned'
    <3>1. call[g].pc = "inside" /\ got[g] = Nothing /\ UNCHANGED got /\ MemoryOf(g)
      BY <2>5 DEF LibraryReturns, MemoryInv, MemoryOf
    <3>2. ASSUME NEW h \in Callers, h # g PROVE call'[h] = call[h]
      <4>1. CASE call' = [call EXCEPT ![g].pc = "returned"]
        BY <2>0, <3>2, <4>1
      <4>2. CASE call' = [call EXCEPT ![g].pc = "returned", ![g].said = "null"]
        BY <2>0, <3>2, <4>2
      <4>3. ASSUME NEW said, NEW e,
                   call' = [call EXCEPT ![g].pc = "returned", ![g].said = said, ![g].at = e]
            PROVE  call'[h] = call[h]
        BY <2>0, <3>2, <4>3
      <4>4. CASE call[g].gives \in {"value", "kept"}
        <5>1. call' = [call EXCEPT ![g].pc = "returned"]
          BY <2>5, <4>4, ReturnsCases
        <5> QED BY <4>1, <5>1
      <4>5. CASE call[g].gives \in {"borrowed", "owned"}
        <5>1. \/ call' = [call EXCEPT ![g].pc = "returned", ![g].said = "null"]
              \/ \E said \in {"empty", "data"}, e \in FreeBlocks :
                   /\ call' = [call EXCEPT ![g].pc = "returned", ![g].said = said, ![g].at = e]
                   /\ block' = [block EXCEPT ![e] = [owner |-> OwnerAt(g), of |-> g]]
          BY <2>5, <4>5, ReturnsCases
        <5>2. ASSUME NEW said \in {"empty", "data"}, NEW e \in FreeBlocks,
                     call' = [call EXCEPT ![g].pc = "returned", ![g].said = said, ![g].at = e]
              PROVE  call'[h] = call[h]
          BY <4>3, <5>2
        <5> QED BY <4>2, <5>1, <5>2
      <4> QED BY <2>5, <4>4, <4>5, ReturnsCases
    <3>3. CASE block'[b] = block[b] /\ block[b].of # g
      BY <2>0, <3>1, <3>2, <3>3
    <3>4. CASE block'[b] = block[b] /\ block[b].of = g
      <4>1. call[g].at = b /\ call[g].gives = "kept" /\ b # Null
        BY <2>0, <3>1, <3>4, NullIsNone DEF Nothing, MemoryOf
      <4>2. block' = [block EXCEPT ![b] = [owner |-> "library", of |-> g]]
        BY <2>5, <4>1, ReturnsCases
      <4> QED BY <2>0, <4>2
    <3>5. CASE block'[b] # block[b]
      <4>1. CASE call[g].gives \in {"value", "kept"}
        <5>1. block' = [block EXCEPT ![call[g].at] = [owner |-> "library", of |-> g]]
          BY <2>5, <3>5, <4>1, ReturnsCases
        <5> QED BY <2>0, <3>5, <5>1
      <4>2. CASE call[g].gives \in {"borrowed", "owned"}
        <5>1. PICK said \in {"empty", "data"}, e \in FreeBlocks :
                /\ call' = [call EXCEPT ![g].pc = "returned", ![g].said = said, ![g].at = e]
                /\ block' = [block EXCEPT ![e] = [owner |-> OwnerAt(g), of |-> g]]
          BY <2>5, <3>5, <4>2, ReturnsCases
        <5>2. e = b
          BY <2>0, <3>5, <5>1
        <5>3. block'[b].of = g /\ call'[g].pc = "returned" /\ call'[g].at = b
          BY <2>0, <5>1, <5>2 DEF CallState
        <5> QED BY <5>3
      <4> QED BY <2>5, <4>1, <4>2, ReturnsCases
    <3> QED BY <3>3, <3>4, <3>5
  <2>6. ASSUME NEW g \in Callers, ReadResult(g) PROVE Owned'
    <3>1. /\ call[g].pc = "returned" /\ got[g] = Nothing
          /\ block'[b] = block[b] \/ block'[b].owner = "lost"
          /\ call' = [call EXCEPT ![g].pc = "read"]
          /\ \A h \in Callers : h # g => got'[h] = got[h]
      <4>1. /\ call[g].pc = "returned"
            /\ \/ UNCHANGED block
               \/ block' = [block EXCEPT ![call[g].at].owner = "lost"]
            /\ call' = [call EXCEPT ![g].pc = "read"]
            /\ \E r : got' = [got EXCEPT ![g] = r]
        BY <2>6 DEF ReadResult, Goto
      <4>2. got[g] = Nothing
        BY <4>1 DEF MemoryInv, MemoryOf
      <4>3. block'[b] = block[b] \/ block'[b].owner = "lost"
        BY <2>0, <4>1 DEF BlockState
      <4> QED BY <2>0, <4>1, <4>2, <4>3
    <3>2. /\ \A h \in Callers : h # g => call'[h] = call[h]
          /\ call'[g].at = call[g].at /\ call'[g].pc = "read"
      BY <3>1, GotoType DEF MemoryInv
    <3>3. block'[b] = block[b]
      BY <3>1
    <3>4. block[b].of = g => call[g].at = b
      BY <2>0, <3>1, <3>3 DEF Nothing
    <3> QED BY <2>0, <3>1, <3>2, <3>3, <3>4
  <2>7. ASSUME NEW g \in Callers, Finish(g) PROVE Owned'
    <3>1. /\ call[g].pc = "read" /\ UNCHANGED got
          /\ IF Frees(g) THEN FreeBlock(g, call[g].at) ELSE UNCHANGED block
          /\ \A h \in Callers : h # g => call'[h] = call[h]
      BY <2>0, <2>7 DEF Finish
    <3>2. Frees(g) => block' = [block EXCEPT ![call[g].at] = Free]
      BY <2>0, <3>1, FreesOwned DEF FreeBlock
    <3>3. block'[b] = block[b] /\ (Frees(g) => call[g].at # b)
      BY <2>0, <3>1, <3>2 DEF Free
    <3>4. CASE block[b].of # g
      BY <2>0, <3>1, <3>3, <3>4
    <3>5. CASE block[b].of = g
      <4>1. CASE got[g].has = "raw" /\ got[g].at = b
        BY <3>1, <3>3, <3>5, <4>1
      <4>2. CASE call[g].at = b
        <5>1. Agrees(call[g]) /\ MemoryOf(g) /\ call[g].at # Null /\ ~Frees(g)
          BY <3>3, <4>2, NullIsNone DEF MemoryInv
        <5>2. block[b] = [owner |-> "caller", of |-> g]
          BY <2>0, <3>3, <3>5 DEF BlockState
        <5>3. call[g].gives = "owned" /\ OwnerAt(g) = "caller" /\ call[g].said # "null"
          BY <3>1, <4>2, <5>1, <5>2 DEF Agrees, MemoryOf, OwnerAt
        <5>4. call[g].reads = "raw"
          BY <5>1, <5>3 DEF Agrees, Frees
        <5>5. ~got[g].moved
          BY <3>1, <5>3, <5>4 DEF OwnerAt
        <5>6. got[g].has = "raw" /\ got[g].at = b
          BY <3>1, <4>2, <5>1, <5>4, <5>5 DEF MemoryOf
        <5> QED BY <3>1, <3>3, <3>5, <5>6
      <4> QED BY <2>0, <3>3, <3>5, <4>1, <4>2
    <3> QED BY <3>4, <3>5
  <2>8. ASSUME NEW g \in Callers, UserFrees(g) PROVE Owned'
    <3>1. /\ call[g].pc = "idle" /\ block' = [block EXCEPT ![got[g].at] = Free]
          /\ UNCHANGED call /\ \A h \in Callers : h # g => got'[h] = got[h]
      BY <2>0, <2>8 DEF UserFrees, HoldsMemory, FreeBlock
    <3>2. block'[b] = block[b] /\ got[g].at # b
      BY <2>0, <3>1 DEF Free
    <3> QED BY <2>0, <3>1, <3>2
  <2>9. ASSUME NEW e \in Blocks, TakeBack(e) PROVE Owned'
    <3>1. block' = [block EXCEPT ![e] = Free] /\ UNCHANGED <<call, got>>
      BY <2>9 DEF TakeBack
    <3>2. block'[b] = block[b]
      BY <2>0, <3>1 DEF Free
    <3> QED BY <2>0, <3>1, <3>2
  <2>10. ASSUME NEW g \in Callers, MoveStack(g) \/ \E kind \in ArgKinds : Collect(g, kind)
         PROVE  Owned'
    BY <2>1, <2>10 DEF MoveStack, Collect
  <2> QED BY <2>1, <2>2, <2>3, <2>4, <2>5, <2>6, <2>7, <2>8, <2>9, <2>10 DEF Next, vars, Wrapper
<1>3. AllOwned => NothingLeaks
  BY DEF NothingLeaks
<1> QED BY <1>1, <1>2, <1>3, MemoryAccounted, PTL DEF Spec

\* What a goroutine holds after a call.
Honest(r) ==
  r.moved \/ CASE r.said = "data" -> r.has \in {"data", "raw"}
               [] r.said = "empty" -> r.has \in {"empty", "null", "raw"}
               [] r.said = "null" -> r.has \in {"null", "empty"}
               [] r.said = "value" -> r.has = "value"

\* A result is read while it is where the library put it for this call.
LEMMA ReadHonestly ==
  ASSUME MemoryInv, NEW g \in Callers, ReadResult(g)
  PROVE  Honest(got'[g])
<1> DEFINE c == call[g]
           moved == "stackOut" \in gone[g]
           r == [said |-> c.said, has |-> ReadAs(g, Written(g)),
                 at |-> IF c.reads = "raw" THEN c.at ELSE Null, moved |-> moved]
<1>1. got'[g] = r /\ c.pc = "returned"
  BY DEF ReadResult, MemoryInv, TypeOK
<1>2. c \in CallState /\ Agrees(c) /\ MemoryOf(g)
  BY DEF MemoryInv, TypeOK
<1>3. CASE moved
  <2>1. r.moved = moved
    OBVIOUS
  <2> HIDE DEF r
  <2> QED BY <1>1, <1>3, <2>1 DEF Honest
<1>4. CASE ~moved
  <2>1. Written(g) = c
    BY <1>2, <1>4 DEF Written, CallState
  <2>2. CASE c.gives \in {"value", "kept"}
    <3>1. c.said = "value" /\ c.reads = "value"
      BY <1>1, <1>2, <2>2 DEF Agrees, MemoryOf
    <3>2. ReadAs(g, c) = "value"
      BY <3>1 DEF ReadAs
    <3> QED BY <1>1, <2>1, <3>1, <3>2 DEF Honest
  <2>3. CASE c.gives \in {"borrowed", "owned"}
    <3>1. /\ c.said \in {"null", "empty", "data"}
          /\ c.reads \in {"string", "ownedString", "gostring", "bytes", "serialized", "vector", "raw"}
      BY <1>1, <1>2, <2>3 DEF Agrees, MemoryOf, CallState, Said
    <3>2. c.said # "null" => block[c.at] = [owner |-> OwnerAt(g), of |-> g]
                             /\ OwnerAt(g) \in {"library", "caller"}
      BY <1>1, <1>2, <2>3 DEF MemoryOf, OwnerAt
    <3>3. c.said # "null" => \A said : ContentOf(g, c.at, said) = said
      BY <3>2 DEF ContentOf
    <3>4. CASE c.said = "data"
      <4>1. ReadAs(g, c) \in {"data", "raw"}
        BY <3>1, <3>3, <3>4 DEF ReadAs
      <4> QED BY <1>1, <2>1, <3>4, <4>1 DEF Honest
    <3>5. CASE c.said = "empty"
      <4>1. ReadAs(g, c) \in {"empty", "null", "raw"}
        BY <3>1, <3>3, <3>5 DEF ReadAs
      <4> QED BY <1>1, <2>1, <3>5, <4>1 DEF Honest
    <3>6. CASE c.said = "null"
      <4>1. ReadAs(g, c) \in {"null", "empty"}
        BY <3>1, <3>6 DEF ReadAs
      <4> QED BY <1>1, <2>1, <3>6, <4>1 DEF Honest
    <3> QED BY <3>1, <3>4, <3>5, <3>6
  <2> QED BY <1>2, <2>2, <2>3 DEF Agrees
<1> QED BY <1>3, <1>4

\* What Go holds of a result is what the library said, for as long as it is held.
THEOREM ResultsAreCopied == Spec => []ResultsLast
<1> DEFINE AllHonest == \A g \in Callers : Honest(got[g])
<1>1. Honest(Nothing)
  BY DEF Honest, Nothing
<1>2. Init => AllHonest
  BY <1>1 DEF Init
<1>3. MemoryInv /\ AllHonest /\ [Next]_vars => AllHonest'
  <2> SUFFICES ASSUME MemoryInv, AllHonest, [Next]_vars,
                      NEW h \in Callers
               PROVE  Honest(got'[h])
    OBVIOUS
  <2>1. CASE got'[h] = got[h] \/ got'[h] = Nothing
    BY <1>1, <2>1
  <2>2. ASSUME NEW g \in Callers, ReadResult(g) PROVE Honest(got'[h])
    <3>1. h # g => got'[h] = got[h]
      BY <2>2 DEF ReadResult, MemoryInv, TypeOK
    <3> QED BY <2>2, <3>1, ReadHonestly
  <2>3. \/ UNCHANGED got
        \/ \E g \in Callers : got' = [got EXCEPT ![g] = Nothing] \/ ReadResult(g)
    BY DEF Next, vars, Wrapper, Begin, BeginDeserialize, Enter, LibraryReturns, Finish, UserFrees,
           Collect, MoveStack, TakeBack
  <2> QED BY <2>1, <2>2, <2>3 DEF MemoryInv, TypeOK
<1>4. AllHonest => ResultsLast
  BY DEF Honest, ResultsLast
<1> HIDE DEF AllHonest
<1> QED BY <1>2, <1>3, <1>4, MemoryAccounted, PTL DEF Spec

\* Until the library has returned only a slice that its owner dropped and the
\* address of a local variable can be gone.
KeptAlive ==
  \A g \in Callers :
    call[g].pc \in {"made", "inside"} =>
      gone[g] \subseteq {"stackOut"} \cup (IF call[g].held THEN {} ELSE {"slice"})

\* While the library runs it reads and writes live memory only, whenever the
\* collector comes.
THEOREM MemoryIsLive == Spec => []LibraryUsesLiveMemory
<1>1. Init => KeptAlive
  BY DEF Init, IdleCall, KeptAlive
<1>2. MemoryInv /\ KeptAlive /\ [Next]_vars => KeptAlive'
  <2> SUFFICES ASSUME MemoryInv, KeptAlive, [Next]_vars, NEW h \in Callers,
                      call'[h].pc \in {"made", "inside"}
               PROVE  gone'[h] \subseteq {"stackOut"} \cup (IF call'[h].held THEN {} ELSE {"slice"})
    BY DEF KeptAlive
  <2>0. call \in [Callers -> CallState] /\ gone \in [Callers -> SUBSET ArgKinds]
    BY DEF MemoryInv, TypeOK
  <2>1. CASE call'[h] = call[h] /\ gone'[h] = gone[h]
    BY <2>1 DEF KeptAlive
  <2>2. CASE gone'[h] = {}
    BY <2>2
  <2>3. ASSUME NEW g \in Callers, Enter(g)
        PROVE  gone'[h] \subseteq {"stackOut"} \cup (IF call'[h].held THEN {} ELSE {"slice"})
    <3>1. /\ call[g].pc = "made" /\ UNCHANGED gone /\ call'[g].held = call[g].held
          /\ h # g => call'[h] = call[h]
      BY <2>3, GotoType DEF Enter, Goto, MemoryInv
    <3> QED BY <2>0, <3>1 DEF KeptAlive
  <2>4. ASSUME NEW g \in Callers, LibraryReturns(g) \/ ReadResult(g)
        PROVE  call'[h] = call[h] /\ gone'[h] = gone[h]
    <3>1. UNCHANGED gone
      BY <2>4 DEF LibraryReturns, ReadResult
    <3>2. CASE ReadResult(g)
      <4>1. call' = [call EXCEPT ![g].pc = "read"]
        BY <3>2 DEF ReadResult, Goto
      <4>2. h # g
        BY <4>1, GotoType DEF MemoryInv
      <4> QED BY <2>0, <3>1, <4>1, <4>2
    <3>3. CASE LibraryReturns(g)
      <4>1. CASE call' = [call EXCEPT ![g].pc = "returned"]
        BY <2>0, <3>1, <4>1 DEF CallState
      <4>2. CASE call' = [call EXCEPT ![g].pc = "returned", ![g].said = "null"]
        BY <2>0, <3>1, <4>2 DEF CallState
      <4>3. ASSUME NEW said, NEW b,
                   call' = [call EXCEPT ![g].pc = "returned", ![g].said = said, ![g].at = b]
            PROVE  call'[h] = call[h] /\ gone'[h] = gone[h]
        BY <2>0, <3>1, <4>3 DEF CallState
      <4>4. \/ call' = [call EXCEPT ![g].pc = "returned"]
            \/ call' = [call EXCEPT ![g].pc = "returned", ![g].said = "null"]
            \/ \E said \in {"empty", "data"}, b \in FreeBlocks :
                 /\ call' = [call EXCEPT ![g].pc = "returned", ![g].said = said, ![g].at = b]
                 /\ block' = [block EXCEPT ![b] = [owner |-> OwnerAt(g), of |-> g]]
        BY <3>3, ReturnsCases
      <4>5. ASSUME NEW said \in {"empty", "data"}, NEW b \in FreeBlocks,
                   call' = [call EXCEPT ![g].pc = "returned", ![g].said = said, ![g].at = b]
            PROVE  call'[h] = call[h] /\ gone'[h] = gone[h]
        BY <4>3, <4>5
      <4> QED BY <4>1, <4>2, <4>4, <4>5
    <3> QED BY <2>4, <3>2, <3>3
  <2>5. ASSUME NEW g \in Callers, NEW kind \in ArgKinds, Collect(g, kind)
        PROVE  gone'[h] \subseteq {"stackOut"} \cup (IF call'[h].held THEN {} ELSE {"slice"})
    <3>1. /\ kind \in call[g].args \ {"stackOut", "callback", "malloced"} /\ ~Reachable(g, kind)
          /\ gone' = [gone EXCEPT ![g] = @ \cup {kind}] /\ UNCHANGED call
      BY <2>5 DEF Collect
    <3>2. CASE h # g
      BY <2>0, <3>1, <3>2 DEF KeptAlive
    <3>3. CASE h = g
      <4>1. kind = "slice" /\ ~call[h].held
        BY <3>1, <3>3 DEF Reachable, LastUse, ArgKinds
      <4>2. gone'[h] = gone[h] \cup {"slice"}
        BY <2>0, <3>1, <3>3, <4>1
      <4> QED BY <3>1, <4>1, <4>2 DEF KeptAlive
    <3> QED BY <3>2, <3>3
  <2>6. ASSUME NEW g \in Callers, MoveStack(g)
        PROVE  gone'[h] \subseteq {"stackOut"} \cup (IF call'[h].held THEN {} ELSE {"slice"})
    BY <2>0, <2>6 DEF MoveStack, KeptAlive
  <2>7. ASSUME NEW g \in Callers,
               \/ \E c \in Calls, held \in BOOLEAN : Begin(g, c, held)
               \/ \E c \in Calls : BeginDeserialize(g, c)
        PROVE  gone'[h] = {} \/ (call'[h] = call[h] /\ gone'[h] = gone[h])
    <3>1. gone' = [gone EXCEPT ![g] = {}] /\ (UNCHANGED call \/ \E d : call' = [call EXCEPT ![g] = d])
      BY <2>7 DEF Begin, BeginDeserialize
    <3> QED BY <2>0, <3>1
  <2>8. ASSUME NEW g \in Callers, Finish(g) \/ UserFrees(g)
        PROVE  gone'[h] = {} \/ (call'[h] = call[h] /\ gone'[h] = gone[h])
    BY <2>0, <2>8 DEF Finish, UserFrees
  <2>9. ASSUME NEW b \in Blocks, TakeBack(b) PROVE call'[h] = call[h] /\ gone'[h] = gone[h]
    BY <2>9 DEF TakeBack
  <2>10. CASE UNCHANGED vars
    BY <2>1, <2>10 DEF vars
  <2> QED BY <2>1, <2>2, <2>3, <2>4, <2>5, <2>6, <2>7, <2>8, <2>9, <2>10 DEF Next, Wrapper
<1>3. KeptAlive => LibraryUsesLiveMemory
  BY DEF KeptAlive, LibraryUsesLiveMemory
<1> QED BY <1>1, <1>2, <1>3, MemoryAccounted, PTL DEF Spec

=============================================================================
