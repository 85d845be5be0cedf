-------------------------- MODULE StatementResults --------------------------
(***************************************************************************)
(* Statements of one session and the reading of their results             *)
(* (mysqlx_sql_statement.cc, mysqlx_sql_statement_result.cc,               *)
(* xmysqlnd_stmt.cc, xmysqlnd_rowset_fwd.cc, xmysqlnd_rowset_buffered.cc,  *)
(* the receive loop of xmysqlnd_wireprotocol.cc).                          *)
(*                                                                         *)
(* The server answers an execution with messages on the connection's line. *)
(* A result is read whole (buffered), Prefetch rows at a time (forward     *)
(* only), or row by row through callbacks.  The reader cannot put a        *)
(* message back: what it keeps in has_more_results and                     *)
(* has_more_rows_in_set is all it knows of the rest of the line.           *)
(*                                                                         *)
(* A row is named by its execution, its result set and its number there; a *)
(* result set has one column.                                              *)
(***************************************************************************)
EXTENDS Integers, Sequences

CONSTANTS
  Stmts,          \* statement objects of the application
  Admin,          \* the statement object query and query_cb create
  Prefetch,       \* MYSQLX_EXECUTE_FWD_PREFETCH_COUNT
  SizeModulus,    \* one more than the largest size_t
  MaxExec,        \* bound: executions
  MaxSets,        \* bound: result sets of an answer
  MaxRows,        \* bound: rows of all answers
  MaxBatch,       \* bound: messages of a compressed frame
  LineCap,        \* bound: messages on the line
  Flags,          \* values of execute_flags
  FwdSets,        \* bound: result sets of an answer that is read forward only
  FwdCalls,       \* calls with which the application reads on behind what it
                  \* has of a forward only result: "fetchAll", "nextResult"
  Patient         \* a statement is sent only when the results of the ones
                  \* before it have been read

Executions == 1..MaxExec
AllStmts == Stmts \cup {Admin}

ASSUME ResultsAssumption ==
  /\ Admin \notin Stmts
  /\ Prefetch \in Nat \ {0} /\ Prefetch < SizeModulus
  /\ SizeModulus \in Nat
  /\ MaxExec \in Nat /\ MaxSets \in Nat \ {0} /\ MaxRows \in Nat
  /\ MaxBatch \in Nat \ {0} /\ LineCap \in Nat \ {0}
  /\ FwdSets \in 1..MaxSets
  /\ Flags \subseteq SUBSET {"ASYNC", "BUFFERED"}
  /\ FwdCalls \subseteq {"fetchAll", "nextResult"}
  /\ Patient \in BOOLEAN

VARIABLES
  up,             \* the connection works
  todo,           \* executions the server still has to answer, in order
  phase,          \* where it is in the answer to the first of them
  pos,            \* result set and row it is at
  budget,         \* rows it may still send
  line,           \* messages sent and not received
  produced,       \* ghost: rows sent, by execution
  stmt,           \* st_mysqlx_statement with its xmysqlnd_stmt and reader_ctx
  res,            \* the SqlStatementResult of a statement
  call,           \* the read in progress
  batch,          \* decompressed_messages
  got,            \* ghost: rows given to the application, by execution
  raised,         \* executions for which an exception was thrown
  broken          \* undefined behaviour was reached

serverVars == <<todo, phase, pos, budget, produced>>
readVars == <<call, batch>>
vars == <<up, serverVars, line, stmt, res, readVars, got, raised, broken>>

Row(e, set, n) == [e |-> e, set |-> set, n |-> n]
Rows == [e : Executions, set : 1..MaxSets, n : 1..MaxRows]
NoRow == Row(0, 0, 0)
MessageTypes == {"META", "ROW", "DONE", "MORE", "OK", "ERROR", "NOTICE"}
Message(t) == [type |-> t, row |-> NoRow]
Messages == [type : MessageTypes, row : Rows \cup {NoRow}]

NewStmt ==
  [exec |-> 0, flags |-> {}, send_query_status |-> FALSE, in_execution |-> FALSE,
   partial_read_started |-> FALSE, unread |-> FALSE, field_count |-> 0,
   has_more_results |-> FALSE, has_more_rows_in_set |-> FALSE,
   prefetch_counter |-> 0]
NoResult ==
  [kind |-> "none", rowset |-> FALSE, rows |-> << >>, row_cursor |-> 0,
   has_more_results |-> FALSE, send_query_status |-> FALSE, use |-> "none"]
NoCall ==
  [op |-> "none", s |-> Admin, to |-> "stmt", rowset |-> FALSE, rows |-> << >>,
   ret |-> "AGAIN"]
Idle == call.op = "none"

Init ==
  /\ up = TRUE
  /\ todo = << >> /\ phase = "start" /\ pos = [set |-> 0, n |-> 0]
  /\ budget = MaxRows
  /\ line = << >>
  /\ produced = [e \in Executions |-> << >>]
  /\ stmt = [s \in AllStmts |-> NewStmt]
  /\ res = [s \in AllStmts |-> NoResult]
  /\ call = NoCall /\ batch = << >>
  /\ got = [e \in Executions |-> << >>]
  /\ raised = {}
  /\ broken = FALSE

-----------------------------------------------------------------------------
(***************************************************************************)
(* The server (external): for each execution, in order, result sets that   *)
(* end in MORE (FetchDoneMoreResultsets) or, the last one, in DONE         *)
(* (FetchDone), then a notice and OK (StmtExecuteOk); an ERROR ends the    *)
(* answer at any earlier point.  What it sends while nobody reads, and the *)
(* loss of the connection then, cannot be told from what it sends, and a   *)
(* loss, when the next read waits.                                         *)
(***************************************************************************)
Waiting == ~Idle /\ batch = << >> /\ call.ret = "AGAIN"
Answering == Waiting /\ up /\ todo # << >> /\ Len(line) < LineCap

Send(m) == /\ line' = Append(line, m)
           /\ UNCHANGED <<up, stmt, res, readVars, got, raised, broken>>
AnswerEnds == todo' = Tail(todo) /\ phase' = "start" /\ pos' = [set |-> 0, n |-> 0]

ServerMeta ==
  /\ Answering /\ phase = "start" /\ pos.set < Head(todo).sets
  /\ Send(Message("META"))
  /\ phase' = "rows" /\ pos' = [set |-> pos.set + 1, n |-> 0]
  /\ UNCHANGED <<todo, budget, produced>>

ServerRow ==
  /\ Answering /\ phase = "rows" /\ budget > 0
  /\ LET e == Head(todo).e
         r == Row(e, pos.set, pos.n + 1)
     IN  /\ Send([type |-> "ROW", row |-> r])
         /\ produced' = [produced EXCEPT ![e] = Append(@, r)]
  /\ pos' = [pos EXCEPT !.n = @ + 1] /\ budget' = budget - 1
  /\ UNCHANGED <<todo, phase>>

ServerSetDone ==
  /\ Answering /\ phase = "rows"
  /\ \/ Head(todo).sets > 1 /\ Send(Message("MORE")) /\ phase' = "start"
     \/ Send(Message("DONE")) /\ phase' = "done"
  /\ UNCHANGED <<todo, pos, budget, produced>>

ServerNotice ==
  /\ Answering /\ phase \in {"start", "done"}
  /\ Send(Message("NOTICE"))
  /\ phase' = "noticed"
  /\ UNCHANGED <<todo, pos, budget, produced>>

ServerOk ==
  /\ Answering /\ phase = "noticed"
  /\ Send(Message("OK"))
  /\ AnswerEnds
  /\ UNCHANGED <<budget, produced>>

ServerError ==
  /\ Answering /\ phase \in {"start", "rows"}
  /\ Send(Message("ERROR"))
  /\ AnswerEnds
  /\ UNCHANGED <<budget, produced>>

ConnectionLost ==
  /\ Waiting /\ up /\ up' = FALSE
  /\ line' = << >> /\ todo' = << >> /\ phase' = "start" /\ pos' = [set |-> 0, n |-> 0]
  /\ UNCHANGED <<budget, produced, stmt, res, readVars, got, raised, broken>>

-----------------------------------------------------------------------------
(***************************************************************************)
(* The receive loop.  A frame holds one message, or several of one type    *)
(* that the server compressed together: Configuration asks it not to       *)
(* combine types.  Every message of a frame is processed, whatever the     *)
(* handlers of the earlier ones returned; the last one decides.            *)
(***************************************************************************)
\* mutant: the server may put messages of several types into a frame
combine_mixed_messages_True == TRUE

combine_mixed_messages == FALSE

IsFrame(ms) == combine_mixed_messages \/ \A i \in 1..Len(ms) : ms[i].type = ms[1].type

receive ==
  /\ Waiting
  /\ \/ \E k \in 1..Len(line) :
          /\ k <= MaxBatch /\ IsFrame(SubSeq(line, 1, k))
          /\ batch' = SubSeq(line, 1, k)
          /\ line' = SubSeq(line, k + 1, Len(line))
          /\ UNCHANGED call
     \/ /\ ~up /\ line = << >>
        /\ call' = [call EXCEPT !.ret = "FAIL"]
        /\ UNCHANGED <<batch, line>>
  /\ UNCHANGED <<up, serverVars, stmt, res, got, raised, broken>>

Processing(t) == batch # << >> /\ Head(batch).type = t
Reader == stmt[call.s]
Processed == /\ batch' = Tail(batch)
             /\ UNCHANGED <<up, serverVars, line, res>>

on_COLUMN_META ==
  /\ Processing("META")
  /\ stmt' = [stmt EXCEPT ![call.s] = [Reader EXCEPT !.has_more_results = TRUE,
                !.has_more_rows_in_set = TRUE, !.field_count = Reader.field_count + 1]]
  /\ call' = [call EXCEPT !.ret = "AGAIN"]
  /\ Processed
  /\ UNCHANGED <<got, raised, broken>>

Callback == call.op \in {"callback", "query_cb"}
fwd_prefetch_count == IF call.op \in {"fwd", "next", "fetchAll", "iterNext"}
                      THEN Prefetch ELSE 0

\* mutant: the counter does not wrap
prefetched_Signed == Reader.prefetch_counter - 1

\* prefetch_counter counts down; at 0 already it wraps around, and the read
\* goes on to the end of the result set
prefetched == (Reader.prefetch_counter - 1) % SizeModulus

\* mutant: the row at which the prefetch stops is not added
handler_on_row_field_Drop(r) ==
  LET stops == fwd_prefetch_count # 0 /\ prefetched = 0 IN
  /\ UNCHANGED got
  /\ call' = [call EXCEPT
        !.rowset = TRUE, !.rows = IF stops THEN @ ELSE Append(@, r),
        !.ret = IF stops THEN "PASS" ELSE "AGAIN"]

\* for the one column of a row; the rowset is created with the first row
handler_on_row_field(r) ==
  IF Callback
  THEN /\ got' = [got EXCEPT ![Reader.exec] = Append(@, r)]
       /\ call' = [call EXCEPT !.ret = "AGAIN"]
  ELSE /\ call' = [call EXCEPT
            !.rowset = TRUE, !.rows = Append(@, r),
            !.ret = IF fwd_prefetch_count # 0 /\ prefetched = 0 THEN "PASS" ELSE "AGAIN"]
       /\ UNCHANGED got

\* as many fields are read from the row as metadata came since init_read:
\* none without metadata, and more than the row has after a second set's
on_RSET_ROW ==
  /\ Processing("ROW")
  /\ \/ /\ Reader.field_count = 0
        /\ stmt' = [stmt EXCEPT ![call.s].has_more_results = TRUE]
        /\ call' = [call EXCEPT !.ret = "AGAIN"]
        /\ UNCHANGED <<got, broken>>
     \/ /\ Reader.field_count > 0
        /\ stmt' = [stmt EXCEPT ![call.s] = [Reader EXCEPT !.has_more_results = TRUE,
              !.prefetch_counter = IF fwd_prefetch_count # 0 THEN prefetched
                                   ELSE Reader.prefetch_counter]]
        /\ handler_on_row_field(Head(batch).row)
        /\ broken' = (broken \/ Reader.field_count > 1)
  /\ Processed
  /\ UNCHANGED raised

\* mutant: the rest of the answer, a notice and OK, is left on the line
on_RSET_FETCH_DONE_Pass ==
  /\ Processing("DONE")
  /\ stmt' = [stmt EXCEPT ![call.s] = [Reader EXCEPT !.has_more_results = FALSE,
                !.has_more_rows_in_set = FALSE]]
  /\ call' = [call EXCEPT !.ret = "PASS"]
  /\ Processed
  /\ UNCHANGED <<got, raised, broken>>

on_RSET_FETCH_DONE ==
  /\ Processing("DONE")
  /\ stmt' = [stmt EXCEPT ![call.s] = [Reader EXCEPT !.has_more_results = FALSE,
                !.has_more_rows_in_set = FALSE]]
  /\ call' = [call EXCEPT !.ret = "AGAIN"]
  /\ Processed
  /\ UNCHANGED <<got, raised, broken>>

on_RSET_FETCH_DONE_MORE_RSETS ==
  /\ Processing("MORE")
  /\ stmt' = [stmt EXCEPT ![call.s] = [Reader EXCEPT !.has_more_results = TRUE,
                !.has_more_rows_in_set = FALSE]]
  /\ call' = [call EXCEPT !.ret = "PASS"]
  /\ Processed
  /\ UNCHANGED <<got, raised, broken>>

\* mutant: the read goes on behind the end of the answer
on_STMT_EXECUTE_OK_Again ==
  /\ Processing("OK")
  /\ stmt' = [stmt EXCEPT ![call.s].has_more_results = FALSE]
  /\ call' = [call EXCEPT !.ret = "AGAIN"]
  /\ Processed
  /\ UNCHANGED <<got, raised, broken>>

on_STMT_EXECUTE_OK ==
  /\ Processing("OK")
  /\ stmt' = [stmt EXCEPT ![call.s].has_more_results = FALSE]
  /\ call' = [call EXCEPT !.ret = "PASS"]
  /\ Processed
  /\ UNCHANGED <<got, raised, broken>>

\* handler_on_error hands the error to the application
on_ERROR ==
  /\ Processing("ERROR")
  /\ call' = [call EXCEPT !.ret = "FAIL"]
  /\ raised' = raised \cup {Reader.exec}
  /\ Processed
  /\ UNCHANGED <<stmt, got, broken>>

on_NOTICE ==
  /\ Processing("NOTICE")
  /\ call' = [call EXCEPT !.ret = "AGAIN"]
  /\ Processed
  /\ UNCHANGED <<stmt, got, raised, broken>>

-----------------------------------------------------------------------------
(***************************************************************************)
(* Starting a read.                                                        *)
(***************************************************************************)
\* mutant: the metadata of an earlier result set is kept
init_read_KeepFields(st) ==
  [st EXCEPT !.has_more_results = FALSE, !.has_more_rows_in_set = FALSE, !.unread = FALSE]

init_read(st) ==
  [st EXCEPT !.field_count = 0, !.has_more_results = FALSE,
             !.has_more_rows_in_set = FALSE, !.unread = FALSE]

Read(op, s, to) == [NoCall EXCEPT !.op = op, !.s = s, !.to = to]

get_buffered_result(s, st, to) ==
  /\ stmt' = [stmt EXCEPT ![s] = init_read(st)]
  /\ call' = Read("buffered", s, to)

\* only the first call after a message was sent starts anew: a later one
\* goes on with the rowset, the metadata and the result of the first
get_fwd_result(s, st, to) ==
  /\ stmt' = [stmt EXCEPT ![s] =
       [IF st.partial_read_started THEN st ELSE init_read(st) EXCEPT
          !.partial_read_started = TRUE, !.prefetch_counter = Prefetch]]
  /\ call' = IF st.partial_read_started
             THEN [Read("fwd", s, to) EXCEPT !.rowset = res[s].rowset, !.rows = res[s].rows]
             ELSE Read("fwd", s, to)

get_result(s, st, to) ==
  IF "BUFFERED" \in st.flags THEN get_buffered_result(s, st, to)
                             ELSE get_fwd_result(s, st, to)

(***************************************************************************)
(* Sending.  Nothing stops a statement from being sent while results of    *)
(* another, or of itself, are unread: in_execution is set by reads through *)
(* callbacks only.  A patient application asks hasMoreResults and hasData. *)
(***************************************************************************)
LastExec == CHOOSE e \in {stmt[s].exec : s \in AllStmts} :
              \A s \in AllStmts : stmt[s].exec <= e

\* rowset eof; a result without rowset has no data
eof(s) ==
  \/ ~res[s].rowset
  \/ /\ res[s].row_cursor >= Len(res[s].rows)
     /\ res[s].kind = "fwd" => ~stmt[s].has_more_rows_in_set

ReadToEnd(s) ==
  \/ stmt[s].exec \in {0} \cup raised
  \/ /\ ~stmt[s].unread /\ ~stmt[s].has_more_results
     /\ res[s].kind = "fwd" => eof(s)

MaySend == /\ Idle /\ ~broken /\ LastExec < MaxExec
           /\ Patient => \A s \in AllStmts : ReadToEnd(s)

\* the sending reports success whether or not the connection works
send_raw_message(sets) ==
  todo' = IF up THEN Append(todo, [e |-> LastExec + 1, sets |-> sets]) ELSE todo

execute(s, flags) ==
  LET st == [NewStmt EXCEPT !.exec = LastExec + 1, !.flags = flags,
               !.send_query_status = TRUE, !.unread = "ASYNC" \in flags]
  IN  /\ MaySend
      /\ ~stmt[s].in_execution
      /\ send_raw_message(IF "BUFFERED" \in flags THEN MaxSets ELSE FwdSets)
      /\ res' = [res EXCEPT ![s] = NoResult]
      /\ IF "ASYNC" \in flags
         THEN stmt' = [stmt EXCEPT ![s] = st] /\ UNCHANGED call
         ELSE get_result(s, st, "stmt")
      /\ UNCHANGED <<up, phase, pos, budget, produced, line, batch, got, raised, broken>>

\* query reads with get_buffered_result until has_more_results is FALSE; it
\* runs CREATE and DROP SCHEMA, whose answer has no rows.  query_cb reads
\* with read_one_result while that succeeds.
admin_query(op) ==
  LET st == [NewStmt EXCEPT !.exec = LastExec + 1, !.send_query_status = TRUE] IN
  /\ MaySend
  /\ send_raw_message(IF op = "query" THEN 0 ELSE MaxSets)
  /\ stmt' = [stmt EXCEPT ![Admin] = st]
  /\ call' = Read(op, Admin, "stmt")
  /\ UNCHANGED <<up, phase, pos, budget, produced, line, res, batch, got, raised, broken>>

(***************************************************************************)
(* Reading further.  The application asks hasMoreResults before it calls   *)
(* getResult or getNextResult and stops after an exception; nextResult     *)
(* looks at the flag the result object was created with.                   *)
(***************************************************************************)
Readable(s) == /\ Idle /\ ~broken /\ stmt[s].send_query_status
               /\ stmt[s].exec \notin raised
               /\ stmt[s].unread \/ stmt[s].has_more_results
SecondRead(s) == stmt[s].partial_read_started => "nextResult" \in FwdCalls

getNextResult(s) ==
  /\ Readable(s) /\ SecondRead(s)
  /\ get_result(s, stmt[s], "stmt")
  /\ UNCHANGED <<up, serverVars, line, res, batch, got, raised, broken>>

getNextResult_callbacks(s) ==
  /\ Readable(s) /\ ~stmt[s].partial_read_started
  /\ stmt' = [stmt EXCEPT ![s] = init_read(@)]
  /\ call' = Read("callback", s, "stmt")
  /\ res' = [res EXCEPT ![s] = NoResult]
  /\ UNCHANGED <<up, serverVars, line, batch, got, raised, broken>>

nextResult(s) ==
  /\ Idle /\ ~broken /\ stmt[s].exec \notin raised
  /\ res[s].kind # "none" /\ SecondRead(s)
  /\ res[s].has_more_results /\ res[s].send_query_status
  /\ get_result(s, stmt[s], "result")
  /\ UNCHANGED <<up, serverVars, line, res, batch, got, raised, broken>>

(***************************************************************************)
(* Fetching.  A result is consumed with fetchOne, with fetchAll or with    *)
(* foreach, and not after an exception: an error leaves                    *)
(* has_more_rows_in_set as it was, so a forward only result would wait.    *)
(***************************************************************************)
Usable(s, use) ==
  /\ Idle /\ ~broken /\ stmt[s].exec \notin raised
  /\ res[s].rowset /\ res[s].use \in {"none", use}
Current(s) == res[s].rows[res[s].row_cursor + 1]
HasCurrent(s) == res[s].row_cursor < Len(res[s].rows)
Give(s, rows) == got' = [got EXCEPT ![stmt[s].exec] = @ \o rows]

\* mutant: the prefetch starts one row early
Prefetches_Early(s) == /\ res[s].kind = "fwd" /\ stmt[s].has_more_rows_in_set
                       /\ Len(res[s].rows) - res[s].row_cursor <= 2

\* the row under the cursor is the last one here and the line has more: the
\* rowset is emptied and the next rows are read
Prefetches(s) == /\ res[s].kind = "fwd" /\ stmt[s].has_more_rows_in_set
                 /\ Len(res[s].rows) - res[s].row_cursor = 1

Emptied(r, use) == [r EXCEPT !.rows = << >>, !.row_cursor = 0, !.use = use]
Prefetching(s, op, use) ==
  /\ res' = [res EXCEPT ![s] = Emptied(@, use)]
  /\ stmt' = [stmt EXCEPT ![s].prefetch_counter = Prefetch]
  /\ call' = [Read(op, s, "result") EXCEPT !.rowset = TRUE]

fetchOne(s) ==
  /\ Usable(s, "one") /\ ~eof(s) /\ HasCurrent(s)
  /\ Give(s, <<Current(s)>>)
  /\ \/ Prefetches(s) /\ Prefetching(s, "next", "one")
     \/ /\ ~Prefetches(s)
        /\ res' = [res EXCEPT ![s].row_cursor = @ + 1, ![s].use = "one"]
        /\ UNCHANGED <<stmt, call>>
  /\ UNCHANGED <<up, serverVars, line, batch, raised, broken>>

\* the iterator fetches the first row when it is rewound, every other one
\* after next
iterator_rewind(s) ==
  /\ Usable(s, "none") /\ HasCurrent(s)
  /\ Give(s, <<Current(s)>>)
  /\ res' = [res EXCEPT ![s].use = "iter"]
  /\ UNCHANGED <<up, serverVars, line, stmt, readVars, raised, broken>>

iterator_next(s) ==
  /\ Usable(s, "iter") /\ res[s].use = "iter"
  /\ \/ Prefetches(s) /\ Prefetching(s, "iterNext", "iter") /\ UNCHANGED got
     \/ /\ ~Prefetches(s)
        /\ LET i == res[s].row_cursor + 2
               more == i <= Len(res[s].rows)
           IN  /\ Give(s, IF more THEN <<res[s].rows[i]>> ELSE << >>)
               /\ res' = [res EXCEPT ![s].row_cursor = @ + 1,
                                     ![s].use = IF more THEN "iter" ELSE "over"]
        /\ UNCHANGED <<stmt, call>>
  /\ UNCHANGED <<up, serverVars, line, batch, raised, broken>>

\* a forward only result reads first, whether or not its set has ended; in a
\* set that fits into the first prefetch it reads on behind the end
fetchAll(s) ==
  /\ Usable(s, "none")
  /\ \/ /\ res[s].kind = "buffered"
        /\ Give(s, res[s].rows)
        /\ res' = [res EXCEPT ![s].use = "over"]
        /\ UNCHANGED <<stmt, call>>
     \/ /\ res[s].kind = "fwd"
        /\ \/ stmt[s].has_more_rows_in_set /\ UNCHANGED res
           \/ /\ ~stmt[s].has_more_rows_in_set /\ "fetchAll" \in FwdCalls
              /\ res' = [res EXCEPT ![s].use = "past"]
        /\ call' = [Read("fetchAll", s, "result") EXCEPT !.rowset = TRUE,
                      !.rows = res[s].rows]
        /\ UNCHANGED <<stmt, got>>
  /\ UNCHANGED <<up, serverVars, line, batch, raised, broken>>

-----------------------------------------------------------------------------
(***************************************************************************)
(* The end of a read.                                                      *)
(***************************************************************************)
Returned(op) == ~Idle /\ batch = << >> /\ call.ret # "AGAIN" /\ call.op = op
Passed == call.ret = "PASS"
Settled == call' = NoCall /\ UNCHANGED <<up, serverVars, line, batch>>

Result(kind) ==
  [NoResult EXCEPT
     !.kind = kind, !.rowset = call.rowset, !.rows = call.rows,
     !.has_more_results = Reader.has_more_results, !.send_query_status = TRUE]

\* RAISE_EXCEPTION_FETCH_FAIL; the object that asked takes no further reads
FetchFailed ==
  /\ raised' = raised \cup {Reader.exec}
  /\ \/ /\ call.to = "stmt"
        /\ stmt' = [stmt EXCEPT ![call.s].send_query_status = FALSE]
        /\ UNCHANGED res
     \/ /\ call.to = "result"
        /\ res' = [res EXCEPT ![call.s].send_query_status = FALSE]
        /\ UNCHANGED stmt

buffered_result ==
  /\ Returned("buffered")
  /\ \/ /\ Passed
        /\ res' = [res EXCEPT ![call.s] = Result("buffered")]
        /\ UNCHANGED <<stmt, raised>>
     \/ ~Passed /\ FetchFailed
  /\ Settled
  /\ UNCHANGED <<got, broken>>

\* a second forward only result is the object of the first: nextResult frees
\* it before it keeps it, getNextResult gives it a second owner
fwd_result ==
  /\ Returned("fwd")
  /\ \/ /\ Passed
        /\ res' = [res EXCEPT ![call.s] =
             [Result("fwd") EXCEPT !.row_cursor = res[call.s].row_cursor]]
        /\ broken' = (broken \/ res[call.s].kind = "fwd")
        /\ UNCHANGED <<stmt, raised>>
     \/ ~Passed /\ FetchFailed /\ UNCHANGED broken
  /\ Settled
  /\ UNCHANGED got

\* fetchOne does not look at what next returned
prefetch_done ==
  /\ Returned("next")
  /\ res' = [res EXCEPT ![call.s].rows = call.rows]
  /\ Settled
  /\ UNCHANGED <<stmt, got, raised, broken>>

iterator_prefetched ==
  /\ Returned("iterNext")
  /\ LET more == Passed /\ call.rows # << >> IN
     /\ Give(call.s, IF more THEN <<Head(call.rows)>> ELSE << >>)
     /\ res' = [res EXCEPT ![call.s].rows = call.rows,
                           ![call.s].use = IF more THEN "iter" ELSE "over"]
  /\ Settled
  /\ UNCHANGED <<stmt, raised, broken>>

fetchAll_done ==
  /\ Returned("fetchAll")
  /\ \/ /\ Passed
        /\ Give(call.s, call.rows)
        /\ res' = [res EXCEPT ![call.s] = Emptied(@, "over")]
     \/ /\ ~Passed
        /\ res' = [res EXCEPT ![call.s].rows = call.rows]
        /\ UNCHANGED got
  /\ Settled
  /\ UNCHANGED <<stmt, raised, broken>>

\* mysqlx_fetch_data_with_callback: has_more stays FALSE when the read fails
callbacks_done ==
  /\ Returned("callback")
  /\ stmt' = [stmt EXCEPT ![call.s].in_execution = Passed /\ Reader.has_more_results]
  /\ Settled
  /\ UNCHANGED <<res, got, raised, broken>>

Again(op) == /\ stmt' = [stmt EXCEPT ![Admin] = init_read(@)]
             /\ call' = Read(op, Admin, "stmt")
             /\ UNCHANGED <<up, serverVars, line, batch>>

query_done ==
  /\ Returned("query")
  /\ IF Reader.has_more_results THEN Again("query") ELSE Settled /\ UNCHANGED stmt
  /\ UNCHANGED <<res, got, raised, broken>>

query_cb_done ==
  /\ Returned("query_cb")
  /\ IF Passed /\ Reader.has_more_results
     THEN Again("query_cb") ELSE Settled /\ UNCHANGED stmt
  /\ UNCHANGED <<res, got, raised, broken>>

-----------------------------------------------------------------------------
Server == ServerMeta \/ ServerRow \/ ServerSetDone \/ ServerNotice \/ ServerOk \/ ServerError
Process == \/ on_COLUMN_META \/ on_RSET_ROW \/ on_RSET_FETCH_DONE
           \/ on_RSET_FETCH_DONE_MORE_RSETS \/ on_STMT_EXECUTE_OK \/ on_ERROR \/ on_NOTICE
Return == \/ buffered_result \/ fwd_result \/ prefetch_done \/ iterator_prefetched
          \/ fetchAll_done \/ callbacks_done \/ query_done \/ query_cb_done
Application ==
  \/ \E op \in {"query", "query_cb"} : admin_query(op)
  \/ \E s \in Stmts :
       \/ \E flags \in Flags : execute(s, flags)
       \/ getNextResult(s) \/ getNextResult_callbacks(s) \/ nextResult(s)
       \/ fetchOne(s) \/ fetchAll(s) \/ iterator_rewind(s) \/ iterator_next(s)

Next == Server \/ ConnectionLost \/ receive \/ Process \/ Return \/ Application

\* The server answers what it was sent, and a read that waits goes on when a
\* message comes: the loop of xmysqlnd_receive_message does nothing else.
Fairness == WF_vars(Server \/ receive \/ Process \/ Return)

Spec == Init /\ [][Next]_vars
FairSpec == Spec /\ Fairness

-----------------------------------------------------------------------------
Results ==
  [kind : {"none", "buffered", "fwd"}, rowset : BOOLEAN, rows : Seq(Rows),
   row_cursor : Nat, has_more_results : BOOLEAN, send_query_status : BOOLEAN,
   use : {"none", "one", "iter", "over", "past"}]
Statements ==
  [exec : 0..MaxExec, flags : Flags \cup {{}}, send_query_status : BOOLEAN,
   in_execution : BOOLEAN, partial_read_started : BOOLEAN, unread : BOOLEAN,
   field_count : Nat, has_more_results : BOOLEAN, has_more_rows_in_set : BOOLEAN,
   prefetch_counter : 0..(SizeModulus - 1)]
Reads ==
  [op : {"none", "buffered", "fwd", "next", "iterNext", "fetchAll", "callback",
         "query", "query_cb"},
   s : AllStmts, to : {"stmt", "result"}, rowset : BOOLEAN, rows : Seq(Rows),
   ret : {"AGAIN", "PASS", "FAIL"}]

\* The fields of statements, results and the read in progress keep their types.
TypeOK ==
  /\ up \in BOOLEAN /\ broken \in BOOLEAN
  /\ todo \in Seq([e : Executions, sets : Nat])
  /\ phase \in {"start", "rows", "done", "noticed"}
  /\ pos \in [set : 0..MaxSets, n : 0..MaxRows] /\ budget \in 0..MaxRows
  /\ line \in Seq(Messages) /\ batch \in Seq(Messages)
  /\ produced \in [Executions -> Seq(Rows)] /\ got \in [Executions -> Seq(Rows)]
  /\ stmt \in [AllStmts -> Statements] /\ res \in [AllStmts -> Results]
  /\ call \in Reads
  /\ raised \subseteq Executions

\* Between calls has_more_results tells exactly whether a part of the last
\* statement's answer is still to be read (FETCH_DONE is followed by a notice
\* and StmtExecuteOk, a set may be followed by an empty result), unless the
\* statement failed.
FlagTellsTheLine ==
  \A s \in AllStmts :
    (Idle /\ up /\ stmt[s].exec = LastExec /\ LastExec # 0 /\ ~stmt[s].unread
          /\ LastExec \notin raised)
    => (stmt[s].has_more_results <=> (line # << >> \/ todo # << >>))

\* A buffered result holds one result set and the whole of it, in order, although
\* the rows come in frames of several messages and further sets follow on the line.
BufferedIsOneSet ==
  \A s \in Stmts : res[s].kind = "buffered" /\ res[s].rows # << >> =>
    LET rows == res[s].rows
        sent == produced[stmt[s].exec]
    IN  /\ \A i \in 1..Len(rows) : rows[i] = Row(stmt[s].exec, rows[1].set, i)
        /\ {rows[i] : i \in 1..Len(rows)} =
             {r \in {sent[j] : j \in 1..Len(sent)} : r.set = rows[1].set}

\* When a forward only result says that there is no more data, every row of
\* its set, the first of the answer, has been given to the application: rows
\* prefetched around the end of the set are not lost (RowsInOrder: nor repeated).
NothingLostAtEof ==
  \A s \in Stmts :
    (Idle /\ res[s].kind = "fwd" /\ eof(s) /\ res[s].use \in {"one", "iter"})
    => LET sent == produced[stmt[s].exec]
           given == got[stmt[s].exec]
       IN  \A i \in 1..Len(sent) : sent[i].set = 1 => \E j \in 1..Len(given) : given[j] = sent[i]

\* The read in progress goes on behind the forward only result that the application
\* already has (getNextResult, nextResult), or behind the end of its set (fetchAll).
ReadsPast == /\ res[call.s].kind = "fwd"
           /\ \/ call.op = "fwd"
              \/ call.op = "fetchAll" /\ res[call.s].use = "past"

\* A read that uses the metadata of another result set, or frees or shares the
\* result it returns, is one that goes on with a forward only result; no buffered
\* read, no callback, no first read and no prefetch of a forward only one does.
UndefinedOnlyReadingPast == [][broken' /\ ~broken => ReadsPast]_vars

\* A call of the application that reads returns, unless it goes on with a forward
\* only result: that reads whatever the line has, and waits for ever at the end
\* of the answer.
CallReturns == (~Idle /\ ~ReadsPast) ~> Idle

Delivery == INSTANCE RowDelivery
\* Whatever the way of reading, an execution's rows are given in order and once.
RowsInOrder == Delivery!Spec
=============================================================================
