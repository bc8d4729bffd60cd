---------------------------- MODULE SqliteParams ----------------------------
(***************************************************************************)
(* The parameters of a statement and the arguments of its calls:           *)
(* bindNamedValues and resolveIndex of sqlite3.go.                         *)
(*                                                                         *)
(* The parameters of an SQL text are numbered from 1.  One is "?", or has  *)
(* a name behind one of three prefixes; ":a" and "@a" are two parameters,  *)
(* which Go's sql.Named("a", ...) cannot tell apart.  An argument has a    *)
(* name or, without one, the number of its place among all arguments.  Its *)
(* value is left out: a parameter remembers which argument of which call   *)
(* it was given.                                                           *)
(*                                                                         *)
(* External: sqlite3_bind_*, which may refuse any value, and database/sql, *)
(* which counts the arguments of a prepared statement against NumInput but *)
(* not those of sql.DB.Exec and Query.                                     *)
(***************************************************************************)
EXTENDS Integers, Sequences, SequencesExt, FiniteSetsExt

CONSTANTS
  MaxParams, \* bound: parameters of a statement, and arguments of a call
  MaxCalls   \* bound: calls of a prepared statement

ASSUME CallBoundsAssumption == MaxParams \in Nat /\ MaxCalls \in Nat

VARIABLE statement \* a statement, its bindings, and the call in progress

Names == {"a", "b"}
Sigils == {":", "@", "$"}
Parameters == {[prefix |-> "?", name |-> ""]} \cup [prefix : Sigils, name : Names]

\* A named parameter that is written twice is one parameter.
ParameterLists ==
  {ps \in BoundedSeq(Parameters, MaxParams) :
     \A i, j \in DOMAIN ps : i # j /\ ps[i] = ps[j] => ps[i].name = ""}

\* Arguments by name; "" is an argument without one.
ArgumentLists == BoundedSeq(Names \cup {""}, MaxParams)

Unset == [call |-> 0, argument |-> 0]

NoStatement ==
  [at |-> "none", params |-> << >>, direct |-> FALSE, calls |-> 0, args |-> << >>,
   next |-> 1, bound |-> << >>]

ParamsInit == statement = NoStatement

-----------------------------------------------------------------------------
\* sqlite3_bind_parameter_index: 0 for a name that is not there.
BindParameterIndex(params, prefix, name) ==
  LET at == {i \in DOMAIN params : params[i] = [prefix |-> prefix, name |-> name]}
  IN  IF at = {} THEN 0 ELSE Min(at)

TriedPrefixes == <<":", "@", "$">>

\* Mutation: an argument with a name is found by its place if the name is not.
ResolveIndexByPlace(params, name, ordinal) ==
  LET found == {p \in DOMAIN TriedPrefixes : BindParameterIndex(params, TriedPrefixes[p], name) # 0}
  IN  IF found = {} THEN ordinal ELSE BindParameterIndex(params, TriedPrefixes[Min(found)], name)

\* resolveIndex: the prefixes are tried in this order.  The name as it is,
\* which it tries first, is never a parameter: sql.Named wants a letter.
ResolveIndex(params, name, ordinal) ==
  LET found == {p \in DOMAIN TriedPrefixes : BindParameterIndex(params, TriedPrefixes[p], name) # 0}
  IN  IF name = "" THEN ordinal
      ELSE IF found = {} THEN 0
      ELSE BindParameterIndex(params, TriedPrefixes[Min(found)], name)

\* direct: the statement is for one call of ExecContext or QueryContext.
PrepareStatement(params, direct) ==
  /\ statement.at = "none"
  /\ statement' = [NoStatement EXCEPT !.at = "prepared", !.params = params, !.direct = direct,
                                      !.bound = [i \in DOMAIN params |-> Unset]]

\* May the statement be called with so many arguments, and once more?
Callable(count) ==
  /\ statement.at \in {"prepared", "ran", "failed"}
  /\ statement.calls < IF statement.direct THEN 1 ELSE MaxCalls
  /\ statement.direct \/ count = Len(statement.params)

\* Mutation: only Reset, which keeps the bindings.
BeginBindingKeeps(args) ==
  /\ Callable(Len(args))
  /\ statement' = [statement EXCEPT !.at = "binding", !.calls = @ + 1, !.args = args, !.next = 1]

\* bindNamedValues up to its loop: Reset and ClearBindings.
BeginBinding(args) ==
  /\ Callable(Len(args))
  /\ statement' = [statement EXCEPT !.at = "binding", !.calls = @ + 1, !.args = args, !.next = 1,
                                    !.bound = [i \in DOMAIN statement.params |-> Unset]]

\* One turn of the loop.  An unknown name, a place that is out of range or a
\* value that the library refuses ends the call, and leaves what is bound.
BindArgument ==
  /\ statement.at = "binding"
  /\ statement.next <= Len(statement.args)
  /\ LET k == statement.next
         index == ResolveIndex(statement.params, statement.args[k], k)
     IN  \/ statement' = [statement EXCEPT !.at = "failed"]
         \/ /\ index \in DOMAIN statement.params
            /\ statement' = [statement EXCEPT
                 !.bound[index] = [call |-> statement.calls, argument |-> k], !.next = k + 1]

\* The statement is stepped, with a parameter that has no value as NULL.
StepBound ==
  /\ statement.at = "binding"
  /\ statement.next > Len(statement.args)
  /\ statement' = [statement EXCEPT !.at = "ran"]

ParamsNext ==
  \/ \E params \in ParameterLists, direct \in BOOLEAN : PrepareStatement(params, direct)
  \/ \E args \in ArgumentLists : BeginBinding(args)
  \/ BindArgument
  \/ StepBound

-----------------------------------------------------------------------------
\* Is parameter i what argument k asks for?
Addresses(k, i) ==
  IF statement.args[k] = "" THEN k = i ELSE statement.args[k] = statement.params[i].name

\* A parameter that has a value has it from an argument of this call which
\* asks for that parameter: nothing is left over from an earlier call, of
\* which one that failed half way is the hard case.
NothingLeftOver ==
  \A i \in DOMAIN statement.params :
    statement.bound[i] # Unset =>
      /\ statement.bound[i].call = statement.calls
      /\ Addresses(statement.bound[i].argument, i)

\* No argument is dropped without an error, except for a later one that asks
\* for the same parameter.
NothingDropped ==
  \A k \in DOMAIN statement.args :
    \E i \in DOMAIN statement.params :
      Addresses(k, i) /\ statement.bound[i] # Unset /\ statement.bound[i].argument >= k

\* A prepared statement has a value for each parameter if its arguments are
\* all without names, or all have names of their own.  Not claimed: arguments
\* of both sorts, where one may take the place of the other.
NothingMissing ==
  LET args == statement.args
  IN  /\ ~statement.direct
      /\ \/ \A k \in DOMAIN args : args[k] = ""
         \/ \A k, l \in DOMAIN args : args[k] # "" /\ (k # l => args[k] # args[l])
      => \A i \in DOMAIN statement.params : statement.bound[i] # Unset

\* When a statement runs its parameters have the arguments of its call.
ParametersTrue ==
  statement.at = "ran" => NothingLeftOver /\ NothingDropped /\ NothingMissing
=============================================================================
