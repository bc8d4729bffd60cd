---------------------------- MODULE ForeignApi ----------------------------
(***************************************************************************)
(* What crosses the border between Go and C: every wrapper of sqlite3sys   *)
(* and duckdbsys with the memory it passes, the memory the library gives   *)
(* back, and what the wrapper does with it.  ForeignCalls runs them.       *)
(*                                                                         *)
(* args: the Go memory the library is handed.                              *)
(*   string    a Go string; purego makes the C string and keeps it         *)
(*   out       a typed Go pointer; purego keeps what it points to          *)
(*   cString   cStringPtr: the address of a buffer, and runtime.KeepAlive  *)
(*   slice     the address of the first byte of a slice, as a number       *)
(*   stackOut  the address of a local variable, as a number                *)
(*   callback  a Go function; purego.NewCallback keeps it for ever         *)
(*   malloced  memory of the library, filled by the wrapper                *)
(* Numbers and handles are no memory: args is empty.                       *)
(*                                                                         *)
(* gives: the library's contract, external; the comments of generated.go   *)
(* quote it.  "borrowed" stays the library's, "owned" must be freed by the *)
(* caller, "kept" is memory the library takes over, "value" is no memory.  *)
(*                                                                         *)
(* reads: what the wrapper makes of it.  "string" is a result that purego  *)
(* copies, "ownedString" is copied and freed, "gostring" is copied from an *)
(* out variable, "bytes" is copyBytes, "vector" copies a duckdb_string_t   *)
(* and "raw" is the bare pointer.                                          *)
(*                                                                         *)
(* Every wrapper that passes or returns memory is named.  Of those that    *)
(* take and return numbers and handles, which are all alike here, a Plain  *)
(* row names some and stands for all of its file.                          *)
(***************************************************************************)
EXTENDS Naturals

Row(fns, args, gives, reads) ==
  [fns |-> fns, args |-> args, gives |-> gives, reads |-> reads]

Plain(fns) == Row(fns, {}, "value", "value")
Takes(fns, args) == Row(fns, args, "value", "value")
Text(fns, args) == Row(fns, args, "borrowed", "string")
OwnedText(fns) == Row(fns, {}, "owned", "ownedString")
\* A nil slice, or an empty one, becomes a null pointer; so does a nil function.
TakesBytes(fns, args) == Takes(fns, args \cup {"slice"})
TakesCallbacks(fns, args) == Takes(fns, args \cup {"callback"})
Raw(fns, args, gives) == Row(fns, args, gives, "raw")

-----------------------------------------------------------------------------
(* sqlite3sys.                                                             *)

SqliteDbCalls == {
  Text({"Libversion", "Sourceid", "Errmsg", "Errstr", "DBName", "SQL"}, {}),
  Text({"DBFilename"}, {"string"}),
  OwnedText({"ExpandedSQL"}),
  Takes({"OpenV2 without vfs", "PrepareV2"}, {"string", "out"}),
  Takes({"OpenV2 with vfs"}, {"string", "out", "cString"}),
  Takes({"Complete", "DBReadonly", "TxnState"}, {"string"}),
  Plain({"LibversionNumber", "Threadsafe", "Sleep", "CloseV2", "Errcode", "ExtendedErrcode",
         "ErrorOffset", "BusyTimeout", "ExtendedResultCodes", "GetAutocommit", "IsInterrupted",
         "DBHandle", "ContextDBHandle", "DBMutex", "SystemErrno", "DBCacheflush", "Limit",
         "Finalize", "Reset", "ClearBindings", "Step", "Interrupt", "StmtReadonly",
         "StmtIsexplain", "StmtExplain", "StmtBusy", "DataCount", "NextStmt", "StmtStatus"})}

SqliteFuncCalls == {
  TakesCallbacks({"CreateFunctionV2Callbacks", "CreateAggregateFunctionV2Callbacks",
         "CreateWindowFunctionCallbacks", "CreateCollationV2Callbacks"}, {"string"}),
  Text({"ValueText"}, {}),
  Row({"ValueBlobBytes"}, {}, "borrowed", "bytes"),
  TakesBytes({"ResultBlobBytes"}, {}),
  Takes({"ResultText", "ResultError"}, {"string"}),
  Raw({"UserData", "AggregateContext"}, {}, "borrowed"),
  Plain({"Changes", "TotalChanges", "LastInsertRowid", "ValueType", "ValueInt64", "ValueDouble",
         "ValueDup", "ValueFree", "ResultNull", "ResultInt64", "ResultDouble", "ResultValue",
         "ResultZeroblob", "ResultSubtype", "ResultErrorCode"})}

SqliteExtCalls == {
  Raw({"Malloc", "Malloc64", "Realloc", "Realloc64"}, {}, "owned"),
  TakesCallbacks({"CommitHook", "RollbackHook", "UpdateHook", "ProgressHandler", "TraceV2",
         "BusyHandler", "SetAuthorizer", "WalHook"}, {}),
  Takes({"BackupInit"}, {"string"}),
  Takes({"BlobOpen"}, {"string", "out"}),
  TakesBytes({"BlobReadBytes", "BlobWriteBytes"}, {}),
  Takes({"WalCheckpointV2"}, {"cString", "out"}),
  Takes({"WalCheckpoint"}, {"cString"}),
  Row({"TableColumnMetadata"}, {"string", "out"}, "borrowed", "gostring"),
  Plain({"MemoryUsed", "MemoryHighwater", "SoftHeapLimit64", "HardHeapLimit64",
         "ReleaseMemory", "BackupStep", "BackupFinish", "BlobClose", "BlobBytes", "BlobReopen",
         "WalAutocheckpoint"})}

SqliteSerializeCalls == {
  Takes({"LoadExtension"}, {"string", "cString"}),
  Row({"Serialize"}, {"string", "out"}, "owned", "serialized"),
  Row({"Serialize with SQLITE_SERIALIZE_NOCOPY"}, {"string", "out"}, "borrowed", "serialized"),
  Row({"Deserialize"}, {"string", "malloced"}, "kept", "value"),
  Takes({"Status", "Status64", "DBStatus", "DBStatus64"}, {"out"}),
  Plain({"EnableLoadExtension", "ResetAutoExtension"})}

SqliteBindCalls == {
  Takes({"BindParameterIndex"}, {"string"}),
  TakesBytes({"BindBlobBytes"}, {}),
  Takes({"BindText"}, {"string"}),
  Text({"BindParameterName", "ColumnText", "ColumnName", "ColumnDeclType", "ColumnDatabaseName",
        "ColumnTableName", "ColumnOriginName"}, {}),
  Row({"ColumnBlobBytes"}, {}, "borrowed", "bytes"),
  Plain({"BindParameterCount", "BindNull", "BindDouble", "BindInt", "BindInt64", "BindValue",
         "BindZeroblob", "ColumnCount", "ColumnType", "ColumnBytes", "ColumnInt64",
         "ColumnDouble", "ColumnValue"})}

-----------------------------------------------------------------------------
(* duckdbsys.                                                              *)

DuckdbDbCalls == {
  Takes({"Open", "Query"}, {"string", "out"}),
  Row({"OpenExt"}, {"string", "out", "stackOut"}, "owned", "raw"),
  Row({"GetConfigFlag"}, {"stackOut"}, "borrowed", "gostring"),
  Takes({"SetConfig"}, {"string"}),
  Text({"LibraryVersion"}, {}),
  Text({"ResultError", "ColumnName"}, {"out"}),
  Takes({"Close", "Connect", "Disconnect", "CreateConfig", "DestroyConfig", "DestroyResult",
         "ResultErrorType", "RowsChanged", "RowCount", "ColumnCount", "ColumnType",
         "ColumnLogicalType"}, {"out"}),
  Plain({"Interrupt", "ConfigCount", "ResultStatementType", "ResultReturnType",
         "ResultChunkCount", "ResultGetChunk", "ResultIsStreaming"})}

DuckdbPreparedCalls == {
  Takes({"Prepare", "BindParameterIndex"}, {"string", "out"}),
  Takes({"DestroyPrepare", "ExecutePrepared", "ExecutePreparedStreaming"}, {"out"}),
  Text({"PrepareError"}, {}),
  OwnedText({"ParameterName", "PreparedStatementColumnName"}),
  Plain({"Nparams", "ParamType", "ParamLogicalType", "ClearBindings", "PreparedStatementType",
         "PreparedStatementColumnCount", "PreparedStatementColumnType"})}

DuckdbBindCalls == {
  Takes({"BindVarchar", "BindVarcharLength"}, {"string"}),
  TakesBytes({"BindBlob"}, {}),
  Plain({"BindValue", "BindBoolean", "BindInt64", "BindHugeint",
         "BindDecimal", "BindDouble", "BindTimestamp", "BindInterval", "BindNull"})}

DuckdbTypeCalls == {
  OwnedText({"LogicalTypeGetAlias", "EnumDictionaryValue", "StructTypeChildName",
             "UnionTypeMemberName"}),
  Takes({"LogicalTypeSetAlias"}, {"string"}),
  Takes({"CreateUnionType", "CreateStructType", "DestroyLogicalType"}, {"out"}),
  Plain({"CreateLogicalType", "CreateListType", "CreateArrayType", "CreateMapType",
         "CreateEnumType", "CreateDecimalType", "GetTypeId", "DecimalWidth", "DecimalScale",
         "DecimalInternalType", "EnumInternalType", "EnumDictionarySize", "ListTypeChildType",
         "MapTypeKeyType", "StructTypeChildCount", "UnionTypeMemberCount"})}

DuckdbChunkCalls == {
  Takes({"CreateDataChunk", "DestroyDataChunk"}, {"out"}),
  Raw({"VectorGetData", "VectorGetValidity"}, {}, "borrowed"),
  Raw({"Malloc"}, {}, "owned"),
  Takes({"VectorAssignStringElement", "VectorAssignStringElementLen"}, {"string"}),
  Plain({"DataChunkReset", "DataChunkGetSize", "DataChunkSetSize", "DataChunkGetColumnCount",
         "DataChunkGetVector", "VectorGetColumnType", "ListVectorGetChild", "StructVectorGetChild",
         "ValidityRowIsValid", "ValiditySetRowValidity", "VectorSize"})}

\* The chunk stays the library's; the text or the bytes are copied out of it.
DuckdbVectorReads == {
  Row({"ReadStringFromVector", "ReadBlobFromVector"}, {}, "borrowed", "vector")}

DuckdbPendingCalls == {
  Takes({"ExtractStatements"}, {"string", "out"}),
  Takes({"PrepareExtractedStatement", "DestroyExtracted", "PendingPrepared",
         "PendingPreparedStreaming", "DestroyPending", "ExecutePending"}, {"out"}),
  Text({"ExtractStatementsError", "PendingError"}, {}),
  Plain({"PendingExecuteTask", "PendingExecuteCheckState", "PendingExecutionIsFinished"})}

DuckdbCreateCalls == {
  Takes({"CreateVarchar", "CreateVarcharLength", "CreateBlobValue"}, {"string"}),
  Takes({"DestroyValue", "CreateStructValue", "CreateListValue", "CreateArrayValue",
         "CreateMapValue"}, {"out"}),
  Plain({"CreateBool", "CreateInt64", "CreateHugeint", "CreateDecimalValue", "CreateDouble",
         "CreateDateValue", "CreateTimestampValue", "CreateIntervalValue", "CreateUUID",
         "CreateNullValue", "CreateEnumValue", "CreateUnionValue"})}

\* Mutation: both texts are declared as plain string results, as the generator
\* does for a function its owned_string_returns do not match.
DuckdbGetCallsNotOwned == {
  Row({"GetVarchar", "ValueToString"}, {}, "owned", "string"),
  Raw({"GetBlobValue"}, {}, "owned"),
  Plain({"GetBool", "GetInt64"})}

DuckdbGetCalls == {
  OwnedText({"GetVarchar", "ValueToString"}),
  Raw({"GetBlobValue"}, {}, "owned"),
  Plain({"GetBool", "GetInt64", "GetHugeint", "GetDecimal", "GetDouble", "GetDate", "GetTimestamp",
         "GetInterval", "GetValueType", "GetUUID", "GetMapSize", "GetMapKey", "GetMapValue",
         "IsNullValue", "GetListSize", "GetListChild", "GetEnumValue", "GetStructChild"})}

DuckdbConvertCalls == {
  Plain({"FromDate", "ToDate", "IsFiniteDate", "FromTime", "ToTime", "CreateTimeTZ", "FromTimeTZ",
         "FromTimestamp", "ToTimestamp", "IsFiniteTimestamp", "HugeintToDouble",
         "DoubleToHugeint", "DoubleToDecimal", "DecimalToDouble"})}

DuckdbAppenderCalls == {
  Takes({"AppenderCreate"}, {"string", "out"}),
  Takes({"AppenderDestroy"}, {"out"}),
  Text({"AppenderError"}, {}),
  Takes({"AppendVarchar", "AppendVarcharLength"}, {"string"}),
  TakesBytes({"AppendBlob"}, {}),
  Plain({"AppenderColumnCount", "AppenderColumnType", "AppenderFlush", "AppenderClose",
         "AppenderBeginRow", "AppenderEndRow", "AppendDefault", "AppendBool", "AppendInt64",
         "AppendHugeint", "AppendDouble", "AppendTimestamp", "AppendInterval", "AppendNull",
         "AppendValue", "AppendDataChunk"})}

DuckdbTableCalls == {
  Takes({"TableDescriptionCreate"}, {"string", "out"}),
  Takes({"TableDescriptionDestroy", "ColumnHasDefault"}, {"out"}),
  Text({"TableDescriptionError"}, {}),
  OwnedText({"TableDescriptionGetColumnName"}),
  Takes({"ProfilingInfoGetValue", "GetTableNames"}, {"string"}),
  Plain({"TableDescriptionGetColumnCount", "TableDescriptionGetColumnType", "GetProfilingInfo",
         "ProfilingInfoGetMetrics", "ProfilingInfoGetChildCount", "ProfilingInfoGetChild",
         "StreamFetchChunk", "FetchChunk", "QueryProgress"})}

-----------------------------------------------------------------------------
Rows == UNION {
  SqliteDbCalls, SqliteFuncCalls, SqliteExtCalls, SqliteSerializeCalls, SqliteBindCalls,
  DuckdbDbCalls, DuckdbPreparedCalls, DuckdbBindCalls, DuckdbTypeCalls, DuckdbChunkCalls, DuckdbVectorReads,
  DuckdbPendingCalls, DuckdbCreateCalls, DuckdbGetCalls, DuckdbConvertCalls,
  DuckdbAppenderCalls, DuckdbTableCalls}

\* The kinds of calls; those of one kind differ in numbers and handles only.
Calls == {[args |-> r.args, gives |-> r.gives, reads |-> r.reads] : r \in Rows}
=============================================================================
