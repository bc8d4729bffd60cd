----------------------------- MODULE MCLibLoad -----------------------------
(* Values for LibLoad: two symbols, one directory beside the loader's search *)
(* path with three names each, and every file system in which at most two   *)
(* of those names hold anything: a file that dlopen refuses, or a library   *)
(* that exports all the symbols or only the first.                          *)
EXTENDS LibLoad

MCSymbolOrder == <<"sqlite3_open", "sqlite3_step">>

Absent == [there |-> FALSE, loads |-> FALSE, exports |-> {}]
Junk == [there |-> TRUE, loads |-> FALSE, exports |-> {}]
Partial == [there |-> TRUE, loads |-> TRUE, exports |-> {"sqlite3_open"}]
Whole == [there |-> TRUE, loads |-> TRUE, exports |-> {"sqlite3_open", "sqlite3_step"}]

FileSystems ==
  {f \in [Path -> {Absent, Junk, Partial, Whole}] :
     Cardinality({p \in Path : f[p] # Absent}) <= 2}

Overrides == {Null, [dir |-> "dir", version |-> 1]}

MCEnvironments ==
  [extraPath : Overrides, scanDir : BOOLEAN, darwin : BOOLEAN, file : FileSystems]
=============================================================================
