--------------------------- MODULE ForeignCalls ---------------------------
(***************************************************************************)
(* Memory around a call from Go to C: goroutines that call the wrappers of *)
(* ForeignApi, Go's collector, and the libraries.                          *)
(*                                                                         *)
(* A call makes its arguments, enters the library, returns, turns what it  *)
(* was given into Go values, and frees what it has to free.  Meanwhile the *)
(* collector takes any Go memory that nothing refers to: a number made     *)
(* from an address is no reference.  A goroutine's stack may move until it *)
(* has entered the library.  The library takes back what it lent as soon   *)
(* as the goroutine goes on.                                               *)
(*                                                                         *)
(* External: purego, which keeps strings and typed pointers during a call, *)
(* copies a string result before it returns, and keeps callbacks for ever; *)
(* the collector; the allocators of the libraries.                         *)
(***************************************************************************)
EXTENDS ForeignApi, FiniteSets

CONSTANTS
  Callers, \* goroutines
  Blocks,  \* blocks of C memory
  Null

ASSUME NullAssumption == Null \notin Callers \cup Blocks

VARIABLES
  call,  \* the call each goroutine is in
  gone,  \* the arguments of that call whose memory was collected or moved
  got,   \* what each goroutine holds of its last call
  block  \* C memory: who has to free each block, and for whom it is there

vars == <<call, gone, got, block>>

ArgKinds == {"string", "out", "cString", "slice", "stackOut", "callback", "malloced"}
Said == {"value", "null", "empty", "data"}

IdleCall == [pc |-> "idle", args |-> {}, gives |-> "value", reads |-> "value",
             held |-> FALSE, said |-> "value", at |-> Null]
Free == [owner |-> "nobody", of |-> Null]

\* got: what the library said, what Go has, and where that is if not copied.
Nothing == [said |-> "value", has |-> "value", at |-> Null, moved |-> FALSE]

Init ==
  /\ call = [g \in Callers |-> IdleCall]
  /\ gone = [g \in Callers |-> {}]
  /\ got = [g \in Callers |-> Nothing]
  /\ block = [b \in Blocks |-> Free]

FreeBlocks == {b \in Blocks : block[b].owner = "nobody"}

Goto(g, pc) == call' = [call EXCEPT ![g].pc = pc]

-----------------------------------------------------------------------------
(* Go memory.                                                              *)

\* Mutation: runtime.KeepAlive comes before the call.
LastUseEarlyKeepAlive(kind) ==
  CASE kind \in {"string", "out"} -> {"made", "inside"}
    [] kind \in {"stackOut", "callback", "malloced"} -> {"made", "inside", "returned", "read"}
    [] OTHER -> {}

\* Where in the call something still refers to the memory of an argument.
\* Strings and pointers: purego, until the library returns.  cStringPtr: the
\* wrapper, until its KeepAlive.  A slice: its last use is len(data), when the
\* arguments are made.  A local variable: it is read after the call.
LastUse(kind) ==
  CASE kind \in {"string", "out"} -> {"made", "inside"}
    [] kind = "slice" -> {}
    [] OTHER -> {"made", "inside", "returned", "read"}

\* held: whoever called the wrapper uses the slice again afterwards.
Reachable(g, kind) ==
  \/ call[g].pc \in LastUse(kind)
  \/ kind = "slice" /\ call[g].held

Collect(g, kind) ==
  /\ kind \in call[g].args \ {"stackOut", "callback", "malloced"}
  /\ ~Reachable(g, kind)
  /\ kind \notin gone[g]
  /\ gone' = [gone EXCEPT ![g] = @ \cup {kind}]
  /\ UNCHANGED <<call, got, block>>

\* The stack grows between the conversion of the address and the library.
MoveStack(g) ==
  /\ call[g].pc = "made"
  /\ "stackOut" \in call[g].args
  /\ gone' = [gone EXCEPT ![g] = @ \cup {"stackOut"}]
  /\ UNCHANGED <<call, got, block>>

-----------------------------------------------------------------------------
(* A call.                                                                 *)

\* g was given memory that it has to free itself.
HoldsMemory(g) ==
  got[g].has = "raw" /\ block[got[g].at] = [owner |-> "caller", of |-> g]

\* The arguments are made.  Results of the last call are dropped, except that
\* raw memory that has to be freed is freed first.
Begin(g, c, held) ==
  /\ call[g].pc = "idle"
  /\ ~HoldsMemory(g)
  /\ c.gives # "kept"
  /\ "slice" \notin c.args => ~held
  /\ call' = [call EXCEPT ![g] = [IdleCall EXCEPT !.pc = "made", !.args = c.args,
                !.gives = c.gives, !.reads = c.reads, !.held = held]]
  /\ gone' = [gone EXCEPT ![g] = {}]
  /\ got' = [got EXCEPT ![g] = Nothing]
  /\ UNCHANGED block

\* Deserialize: memory of the library for the bytes, none for an empty slice;
\* it answers SQLITE_NOMEM and calls nothing when there is none.
BeginDeserialize(g, c) ==
  /\ call[g].pc = "idle"
  /\ ~HoldsMemory(g)
  /\ c.gives = "kept"
  /\ LET made == [IdleCall EXCEPT !.pc = "made", !.args = c.args, !.gives = c.gives,
                                  !.reads = c.reads]
     IN  \/ \E b \in FreeBlocks :
              /\ call' = [call EXCEPT ![g] = [made EXCEPT !.at = b]]
              /\ block' = [block EXCEPT ![b] = [owner |-> "caller", of |-> g]]
         \/ call' = [call EXCEPT ![g] = made] /\ UNCHANGED block
         \/ UNCHANGED <<call, block>>
  /\ gone' = [gone EXCEPT ![g] = {}]
  /\ got' = [got EXCEPT ![g] = Nothing]

Enter(g) ==
  /\ call[g].pc = "made"
  /\ Goto(g, "inside")
  /\ UNCHANGED <<gone, got, block>>

\* The library hands out memory: lent, or for the caller to free.
Hands(g, said, owner) ==
  \E b \in FreeBlocks :
    /\ block' = [block EXCEPT ![b] = [owner |-> owner, of |-> g]]
    /\ call' = [call EXCEPT ![g].pc = "returned", ![g].said = said, ![g].at = b]

\* It may always answer NULL: out of range, an error, no memory.
LibraryReturns(g) ==
  /\ call[g].pc = "inside"
  /\ CASE call[g].gives = "value" -> Goto(g, "returned") /\ UNCHANGED block
       [] call[g].gives = "kept" ->
            /\ Goto(g, "returned")
            /\ block' = IF call[g].at = Null THEN block
                        ELSE [block EXCEPT ![call[g].at] = [owner |-> "library", of |-> g]]
       [] call[g].gives \in {"borrowed", "owned"} ->
            \/ \E said \in {"empty", "data"} :
                 Hands(g, said, IF call[g].gives = "owned" THEN "caller" ELSE "library")
            \/ /\ call' = [call EXCEPT ![g].pc = "returned", ![g].said = "null"]
               /\ UNCHANGED block
  /\ UNCHANGED <<gone, got>>

\* What is at a block: what was put there for g, or something else.
ContentOf(g, b, said) ==
  IF block[b].owner \in {"caller", "library"} /\ block[b].of = g THEN said ELSE "garbage"

\* goString, gostring and purego answer "" for NULL; copyBytes answers nil
\* also for no bytes; Serialize tells the two apart.
ReadAs(g, c) ==
  CASE c.reads = "value" -> "value"
    [] c.reads = "raw" -> IF c.said = "null" THEN "null" ELSE "raw"
    [] c.reads = "bytes" -> IF c.said = "data" THEN ContentOf(g, c.at, "data") ELSE "null"
    [] c.reads = "serialized" -> IF c.said = "data" THEN ContentOf(g, c.at, "data") ELSE c.said
    [] c.reads \in {"string", "ownedString", "gostring", "vector"} ->
         IF c.said = "null" THEN "empty" ELSE ContentOf(g, c.at, c.said)

\* What the call is read as: an out variable that moved was not written and
\* still holds zero.
Written(g) ==
  [call[g] EXCEPT !.said = IF @ # "value" /\ "stackOut" \in gone[g] THEN "null" ELSE @]

\* Mutation: the bytes are not copied.
ReadResultAliased(g) ==
  /\ call[g].pc = "returned"
  /\ got' = [got EXCEPT ![g] = [said |-> call[g].said,
               has |-> IF call[g].reads = "serialized" /\ call[g].said = "data"
                       THEN "alias" ELSE ReadAs(g, Written(g)),
               at |-> call[g].at, moved |-> "stackOut" \in gone[g]]]
  /\ Goto(g, "read")
  /\ UNCHANGED <<gone, block>>

\* The result becomes Go values.  The error text of OpenExt is lost when its
\* address is: nobody can free it any more.
ReadResult(g) ==
  /\ call[g].pc = "returned"
  /\ got' = [got EXCEPT ![g] = [said |-> call[g].said, has |-> ReadAs(g, Written(g)),
               at |-> IF call[g].reads = "raw" THEN call[g].at ELSE Null,
               moved |-> "stackOut" \in gone[g]]]
  /\ block' = IF call[g].reads = "raw" /\ call[g].at # Null /\ "stackOut" \in gone[g]
              THEN [block EXCEPT ![call[g].at].owner = "lost"] ELSE block
  /\ Goto(g, "read")
  /\ UNCHANGED gone

\* Mutation: Serialize frees its memory whatever the flags say.
FreesAlways(g) ==
  call[g].said # "null" /\ call[g].reads \in {"ownedString", "serialized"}

\* ownedString and the generated string wrappers free what is not NULL, and
\* Serialize what it did not get with SQLITE_SERIALIZE_NOCOPY.
Frees(g) ==
  /\ call[g].said # "null"
  /\ \/ call[g].reads = "ownedString"
     \/ call[g].reads = "serialized" /\ call[g].gives = "owned"

\* free() of memory that is not the caller's destroys the heap.
FreeBlock(g, b) ==
  block' = [block EXCEPT ![b] = IF @ = [owner |-> "caller", of |-> g] THEN Free
                                ELSE [owner |-> "destroyed", of |-> g]]

\* The result is freed if it must be, and the wrapper returns.
Finish(g) ==
  /\ call[g].pc = "read"
  /\ IF Frees(g) THEN FreeBlock(g, call[g].at) ELSE UNCHANGED block
  /\ call' = [call EXCEPT ![g] = IdleCall]
  /\ gone' = [gone EXCEPT ![g] = {}]
  /\ UNCHANGED got

\* The user of Malloc, GetBlobValue or OpenExt frees what it was given.
UserFrees(g) ==
  /\ call[g].pc = "idle"
  /\ HoldsMemory(g)
  /\ FreeBlock(g, got[g].at)
  /\ got' = [got EXCEPT ![g] = Nothing]
  /\ UNCHANGED <<call, gone>>

\* The library takes back what it lent: the next row, the next message, the
\* end of a statement, a chunk or a connection.
TakeBack(b) ==
  /\ block[b].owner = "library"
  /\ call[block[b].of].pc = "idle"
  /\ block' = [block EXCEPT ![b] = Free]
  /\ UNCHANGED <<call, gone, got>>

Wrapper(g) == Enter(g) \/ ReadResult(g) \/ Finish(g)

Next ==
  \/ \E g \in Callers :
       \/ \E c \in Calls, held \in BOOLEAN : Begin(g, c, held)
       \/ \E c \in Calls : BeginDeserialize(g, c)
       \/ Wrapper(g)
       \/ LibraryReturns(g)
       \/ UserFrees(g)
       \/ \E kind \in ArgKinds : Collect(g, kind)
       \/ MoveStack(g)
  \/ \E b \in Blocks : TakeBack(b)

Spec == Init /\ [][Next]_vars

-----------------------------------------------------------------------------
CallState ==
  [pc : {"idle", "made", "inside", "returned", "read"}, args : SUBSET ArgKinds,
   gives : {"value", "borrowed", "owned", "kept"},
   reads : {"value", "string", "ownedString", "gostring", "bytes", "serialized", "vector", "raw"},
   held : BOOLEAN, said : Said, at : Blocks \cup {Null}]

\* No block is ever destroyed by a wrong free().
TypeOK ==
  /\ call \in [Callers -> CallState]
  /\ gone \in [Callers -> SUBSET ArgKinds]
  /\ got \in [Callers -> [said : Said, at : Blocks \cup {Null}, moved : BOOLEAN,
                has : {"value", "null", "empty", "data", "raw", "garbage"}]]
  /\ block \in [Blocks -> [owner : {"nobody", "library", "caller", "lost"}, of : Callers \cup {Null}]]

\* Memory that has to be freed belongs to a call that is still under way and
\* will free it, or to a user who was given the bare pointer: no wrapper
\* forgets a string that the library allocated for it, and after Deserialize
\* its buffer is the library's.  What is "lost" is exempt.
NothingLeaks ==
  \A b \in Blocks :
    block[b].owner = "caller" =>
      LET g == block[b].of
      IN  \/ call[g].pc # "idle" /\ call[g].at = b
          \/ got[g].has = "raw" /\ got[g].at = b

\* What a goroutine holds is what the library said, for as long as it holds
\* it: copied before the library or the wrapper itself gives the memory away.
\* Serialize answers nil for an error and an empty slice for an empty
\* database.  GetConfigFlag and OpenExt are exempt once the stack has
\* moved.
ResultsLast ==
  \A g \in Callers :
    LET r == got[g]
    IN  r.moved \/ CASE r.said = "data" -> r.has \in {"data", "raw"}
                     [] r.said = "empty" -> r.has \in {"empty", "null", "raw"}
                     [] r.said = "null" -> r.has \in {"null", "empty"}
                     [] r.said = "value" -> r.has = "value"

\* While the library runs it reads and writes live memory only, whatever the
\* collector does: strings, out variables and the buffers of cStringPtr are
\* kept to the end of the call.  Not claimed for a slice that its owner drops
\* before the call is over, nor for the address of a local variable.
LibraryUsesLiveMemory ==
  \A g \in Callers :
    call[g].pc = "inside" =>
      gone[g] \subseteq {"stackOut"} \cup (IF call[g].held THEN {} ELSE {"slice"})
=============================================================================
