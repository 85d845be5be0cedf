----------------------- MODULE StatementResultsProofs -----------------------
(***************************************************************************)
(* What the reader keeps in its flags is enough to find its way on the     *)
(* line, for every number of statements, executions, result sets and rows, *)
(* every prefetch count and every grouping of messages into frames.        *)
(* The second half, from Rows on, is about what the messages carry: the    *)
(* rows an application gets are those that were sent, in order.            *)
(***************************************************************************)
EXTENDS StatementResults, SequenceTheorems, TLAPS

\* The application of all theorems but the first: it reads the results of a
\* statement before it sends the next one, reads forward only what has one result
\* set, and does not go on with a forward only result (FwdCalls).
Careful == Patient /\ FwdCalls = {} /\ FwdSets = 1

(***************************************************************************)
(* The inductive invariant.  First what belongs to types.                  *)
(***************************************************************************)
\* The server: a row has a place in its set, and rows are left for those to come.
ServerTyped ==
  /\ up \in BOOLEAN
  /\ todo \in Seq([e : Executions, sets : 0..MaxSets])
  /\ phase \in {"start", "rows", "done", "noticed"}
  /\ pos \in [set : 0..MaxSets, n : 0..MaxRows] /\ budget \in 0..MaxRows
  /\ pos.n + budget <= MaxRows
  /\ phase = "rows" => pos.set > 0
  /\ produced \in [Executions -> Seq(Rows)]

\* A message of a row has a row.
Sent == {m \in Messages : m.type = "ROW" => m.row \in Rows}
LineTyped == line \in Seq(Sent) /\ batch \in Seq(Sent)

\* LastExec is the execution of some statement.
HasLast == \E s \in AllStmts : \A t \in AllStmts : stmt[t].exec <= stmt[s].exec
StmtTyped == stmt \in [AllStmts -> Statements] /\ HasLast

\* A read is of a statement that was executed.
ReadTyped ==
  /\ call \in Reads
  /\ ~Idle => Reader.exec \in Executions
  /\ batch # << >> => ~Idle
  /\ call.op \in {"query", "query_cb"} => call.s = Admin

GotTyped ==
  /\ res \in [AllStmts -> Results]
  /\ got \in [Executions -> Seq(Rows)]
  /\ raised \subseteq Executions
  /\ broken \in BOOLEAN

\* A statement that was not executed has no result.
Untouched ==
  \A s \in AllStmts : stmt[s].exec = 0 =>
    ~stmt[s].send_query_status /\ res[s].kind = "none" /\ ~res[s].rowset

Types == ServerTyped /\ LineTyped /\ StmtTyped /\ ReadTyped /\ GotTyped /\ Untouched

(***************************************************************************)
(* Then the line.  What the server may send in a phase of its answer, and  *)
(* the phase a message leads to; "end" is behind the answer.               *)
(***************************************************************************)
Phases == {"start", "rows", "done", "noticed", "end"}
Sends(p) ==
  CASE p = "start" -> {"META", "NOTICE", "ERROR"}
    [] p = "rows" -> {"ROW", "MORE", "DONE", "ERROR"}
    [] p = "done" -> {"NOTICE"}
    [] p = "noticed" -> {"OK"}
    [] OTHER -> {}
Leads(t) ==
  CASE t \in {"META", "ROW"} -> "rows"
    [] t = "MORE" -> "start"
    [] t = "DONE" -> "done"
    [] t = "NOTICE" -> "noticed"
    [] OTHER -> "end"

\* The messages ms lead from phase p to phase q.
Path(p, ms, q) ==
  /\ ms = << >> => p = q
  /\ ms # << >> => ms[1].type \in Sends(p) /\ Leads(ms[Len(ms)].type) = q
  /\ \A i \in 1..(Len(ms) - 1) : ms[i + 1].type \in Sends(Leads(ms[i].type))

ServerAt == IF todo = << >> THEN "end" ELSE phase

\* The flags of a reader that has read up to phase p ...
InSet(st) == st.field_count = 1 /\ st.has_more_results /\ st.has_more_rows_in_set
AtStart(st) == st.has_more_results /\ ~st.has_more_rows_in_set
NoMore(st) == ~st.has_more_results /\ ~st.has_more_rows_in_set

\* ... in the middle of a read, ...
Reading(p) ==
  /\ ~Reader.unread
  /\ call.ret # "FAIL" => Reader.exec \notin raised
  /\ call.ret = "AGAIN" =>
       \/ p = "start" /\ NoMore(Reader) /\ Reader.field_count = 0
       \/ p = "rows" /\ InSet(Reader)
       \/ p \in {"done", "noticed"} /\ NoMore(Reader)
  /\ call.ret = "PASS" =>
       \/ p = "end" /\ NoMore(Reader)
       \/ p = "start" /\ AtStart(Reader)
       \/ p = "rows" /\ InSet(Reader) /\ Reader.partial_read_started
  /\ call.ret = "FAIL" => p = "end" /\ Reader.exec \in raised

\* ... and between the calls of the application.
Resting(p) ==
  /\ LastExec \in {0} \cup raised => p = "end"
  /\ \A s \in AllStmts : stmt[s].exec = LastExec /\ LastExec \notin {0} \cup raised =>
       IF stmt[s].unread THEN p = "start" /\ NoMore(stmt[s])
       ELSE \/ p = "end" /\ NoMore(stmt[s])
            \/ p = "start" /\ AtStart(stmt[s])
            \/ p = "rows" /\ InSet(stmt[s]) /\ stmt[s].partial_read_started

Stream ==
  up => \E p, q \in Phases :
          /\ IF Idle THEN Resting(p) ELSE Reading(p)
          /\ Path(p, batch, q) /\ Path(q, line, ServerAt)

\* Only rows share a frame, and only rows come behind the message that ends a
\* read; nothing is left behind a lost link; one answer is waited for at a time.
Tidy ==
  /\ \A i \in 1..Len(batch) : batch[i].type = batch[1].type
  /\ batch # << >> /\ call.ret # "AGAIN" => batch[1].type = "ROW"
  /\ ~up => line = << >> /\ todo = << >> /\ batch = << >>
  /\ todo = << >> => phase = "start" /\ pos.set = 0
  /\ Len(todo) <= 1

\* Executions have different numbers, a read is of the last one.
OneReader ==
  /\ \A s, t \in AllStmts : stmt[s].exec = stmt[t].exec /\ stmt[s].exec # 0 => s = t
  /\ \A e \in raised : e <= LastExec
  /\ up /\ ~Idle => Reader.exec = LastExec

\* The statements before the last one have nothing left to read.
OthersDone ==
  up => \A s \in AllStmts : stmt[s].exec # LastExec \/ stmt[s].exec = 0 =>
          stmt[s].exec \in raised \/ (~stmt[s].unread /\ NoMore(stmt[s]))

\* There is one forward only result per execution, and it belongs to a read
\* that was started; the statement of query and query_cb has no result.
OneForwardResult ==
  /\ \A s \in AllStmts : res[s].kind = "fwd" => stmt[s].partial_read_started
  /\ res[Admin].kind = "none" /\ ~stmt[Admin].partial_read_started
  /\ ~Idle /\ call.s = Admin => call.op \in {"query", "query_cb"}
  /\ call.op = "fwd" => res[call.s].kind # "fwd"
  /\ call.op \in {"next", "fetchAll", "iterNext"} => res[call.s].kind = "fwd"
  /\ call.op = "callback" => res[call.s].kind = "none"
  /\ call.op \in {"fwd", "next", "fetchAll", "iterNext"} => Reader.partial_read_started

\* A buffered result that promises another one is right.
ResultsPromise ==
  up => \A s \in AllStmts :
    (Idle \/ call.s # s) /\ res[s].kind = "buffered" /\ res[s].has_more_results
      /\ stmt[s].exec \notin raised => stmt[s].has_more_results

\* The answer to query has no result sets.
QueryHasNoSets ==
  call.op = "query" =>
    /\ todo # << >> => todo[1].sets = 0
    /\ phase \in {"start", "noticed"} /\ pos.set = 0
    /\ \A i \in 1..Len(line) : line[i].type \in {"NOTICE", "OK", "ERROR"}
    /\ \A i \in 1..Len(batch) : batch[i].type \in {"NOTICE", "OK", "ERROR"}
    /\ NoMore(Reader)

IInv == /\ Types /\ Stream /\ Tidy /\ OneReader /\ OthersDone /\ OneForwardResult
        /\ ResultsPromise /\ QueryHasNoSets /\ ~broken
-----------------------------------------------------------------------------
(***************************************************************************)
(* Sequences.                                                              *)
(***************************************************************************)
\* The rest of a sequence is made of its elements.
LEMMA TailElements ==
  ASSUME NEW S, NEW q \in Seq(S), q # << >>
  PROVE  /\ Tail(q) \in Seq(S) /\ Head(q) = q[1] /\ q[1] \in S
         /\ Len(Tail(q)) = Len(q) - 1 /\ Len(q) \in Nat /\ Len(q) > 0
         /\ \A k \in 1..(Len(q) - 1) : Tail(q)[k] = q[k + 1]
OBVIOUS

\* A longer sequence begins with the shorter one.
LEMMA AppendElements ==
  ASSUME NEW S, NEW q \in Seq(S), NEW f \in S
  PROVE  /\ Append(q, f) \in Seq(S) /\ Len(Append(q, f)) = Len(q) + 1
         /\ Append(q, f)[Len(q) + 1] = f /\ Append(q, f) # << >>
         /\ \A k \in 1..Len(q) : Append(q, f)[k] = q[k]
OBVIOUS

\* A sequence is cut in two.
LEMMA CutAt ==
  ASSUME NEW S, NEW q \in Seq(S), NEW n \in 0..Len(q)
  PROVE  /\ SubSeq(q, 1, n) \in Seq(S) /\ Len(SubSeq(q, 1, n)) = n
         /\ \A i \in 1..n : SubSeq(q, 1, n)[i] = q[i]
         /\ SubSeq(q, n + 1, Len(q)) \in Seq(S)
         /\ Len(SubSeq(q, n + 1, Len(q))) = Len(q) - n
         /\ \A i \in 1..(Len(q) - n) : SubSeq(q, n + 1, Len(q))[i] = q[n + i]
<1>1. n \in Int /\ n + 1 \in Int /\ Len(q) \in Int /\ Len(q) \in Nat /\ n <= Len(q) /\ 0 <= n
  OBVIOUS
<1>2. (\A i \in 1..n : q[i] \in S) /\ (\A i \in (n + 1)..Len(q) : q[i] \in S)
  BY <1>1, ElementOfSeq
<1>3. /\ SubSeq(q, 1, n) \in Seq(S)
      /\ Len(SubSeq(q, 1, n)) = IF 1 <= n THEN n - 1 + 1 ELSE 0
      /\ \A i \in 1..n - 1 + 1 : SubSeq(q, 1, n)[i] = q[1 + i - 1]
  BY <1>1, <1>2, SubSeqProperties
<1>4. /\ SubSeq(q, n + 1, Len(q)) \in Seq(S)
      /\ Len(SubSeq(q, n + 1, Len(q))) =
           IF n + 1 <= Len(q) THEN Len(q) - (n + 1) + 1 ELSE 0
      /\ \A i \in 1..Len(q) - (n + 1) + 1 : SubSeq(q, n + 1, Len(q))[i] = q[n + 1 + i - 1]
  BY <1>1, <1>2, SubSeqProperties
<1>5. /\ Len(SubSeq(q, 1, n)) = n
      /\ \A i \in 1..n : SubSeq(q, 1, n)[i] = q[i]
  BY <1>1, <1>3
<1>6. /\ Len(SubSeq(q, n + 1, Len(q))) = Len(q) - n
      /\ \A i \in 1..(Len(q) - n) : SubSeq(q, n + 1, Len(q))[i] = q[n + i]
  BY <1>1, <1>4
<1> QED BY <1>3, <1>4, <1>5, <1>6

(***************************************************************************)
(* The number of the last execution.                                       *)
(***************************************************************************)
LEMMA LastOf ==
  ASSUME NEW f \in [AllStmts -> Statements], NEW s \in AllStmts,
         \A t \in AllStmts : f[t].exec <= f[s].exec
  PROVE  (CHOOSE e \in {f[t].exec : t \in AllStmts} : \A t \in AllStmts : f[t].exec <= e)
           = f[s].exec
<1> DEFINE E == {f[t].exec : t \in AllStmts}
           Top(e) == \A t \in AllStmts : f[t].exec <= e
<1>1. E \subseteq Int
  BY ResultsAssumption DEF Statements
<1>2. f[s].exec \in E /\ Top(f[s].exec)
  OBVIOUS
<1>3. \A e \in E : Top(e) => f[s].exec <= e /\ e <= f[s].exec
  OBVIOUS
<1> HIDE DEF E, Top
<1>4. (CHOOSE e \in E : Top(e)) \in E /\ Top(CHOOSE e \in E : Top(e))
  BY <1>2
<1>5. (CHOOSE e \in E : Top(e)) = f[s].exec
  BY <1>1, <1>2, <1>3, <1>4
<1> QED BY <1>5 DEF E, Top

LEMMA LastIs ==
  ASSUME StmtTyped
  PROVE  /\ LastExec \in 0..MaxExec
         /\ \E s \in AllStmts : stmt[s].exec = LastExec
         /\ \A s \in AllStmts : stmt[s].exec \in 0..MaxExec /\ stmt[s].exec <= LastExec
<1>1. PICK s \in AllStmts : \A t \in AllStmts : stmt[t].exec <= stmt[s].exec
  BY DEF StmtTyped, HasLast
<1>2. stmt \in [AllStmts -> Statements]
  BY DEF StmtTyped
<1>3. LastExec = stmt[s].exec
  BY <1>1, <1>2, LastOf DEF LastExec
<1>4. \A t \in AllStmts : stmt[t].exec \in 0..MaxExec
  BY <1>2 DEF Statements
<1> QED BY <1>1, <1>3, <1>4

\* Reading leaves it alone ...
LEMMA LastKept ==
  ASSUME StmtTyped, stmt' \in [AllStmts -> Statements],
         \A s \in AllStmts : stmt'[s].exec = stmt[s].exec
  PROVE  HasLast' /\ LastExec' = LastExec
<1>1. PICK s \in AllStmts : \A t \in AllStmts : stmt[t].exec <= stmt[s].exec
  BY DEF StmtTyped, HasLast
<1>2. stmt \in [AllStmts -> Statements]
  BY DEF StmtTyped
<1>3. LastExec = stmt[s].exec
  BY <1>1, <1>2, LastOf DEF LastExec
<1>4. \A t \in AllStmts : stmt'[t].exec <= stmt'[s].exec
  BY <1>1
<1>5. LastExec' = stmt'[s].exec
  BY <1>4, LastOf DEF LastExec
<1> QED BY <1>3, <1>4, <1>5 DEF HasLast

\* ... and an execution takes the next number.
LEMMA LastNext ==
  ASSUME StmtTyped, stmt' \in [AllStmts -> Statements], NEW s \in AllStmts,
         stmt'[s].exec = LastExec + 1,
         \A t \in AllStmts \ {s} : stmt'[t].exec = stmt[t].exec
  PROVE  HasLast' /\ LastExec' = LastExec + 1
<1>1. \A t \in AllStmts : stmt[t].exec <= LastExec /\ stmt[t].exec \in 0..MaxExec
  BY LastIs
<1>2. LastExec \in Nat
  BY LastIs, ResultsAssumption
<1>3. \A t \in AllStmts : stmt'[t].exec <= stmt'[s].exec
  BY <1>1, <1>2
<1>4. LastExec' = stmt'[s].exec
  BY <1>3, LastOf DEF LastExec
<1> QED BY <1>3, <1>4 DEF HasLast

(***************************************************************************)
(* Records.                                                                *)
(***************************************************************************)
LEMMA StmtTypes ==
  /\ NewStmt \in Statements
  /\ \A st \in Statements : init_read(st) \in Statements
  /\ Prefetch \in 0..(SizeModulus - 1)
<1>1. Prefetch \in 0..(SizeModulus - 1) /\ 0 \in 0..(SizeModulus - 1) /\ 0 \in 0..MaxExec
  BY ResultsAssumption
<1>2. NewStmt \in Statements
  BY <1>1 DEF NewStmt, Statements
<1>3. \A st \in Statements : init_read(st) \in Statements
  BY DEF init_read, Statements
<1> QED BY <1>1, <1>2, <1>3

Ops == {"buffered", "fwd", "next", "iterNext", "fetchAll", "callback", "query", "query_cb"}

LEMMA CallTypes ==
  /\ NoCall \in Reads
  /\ NoResult \in Results
  /\ \A op \in Ops, s \in AllStmts, to \in {"stmt", "result"} : Read(op, s, to) \in Reads
<1>1. Admin \in AllStmts /\ << >> \in Seq(Rows)
  BY DEF AllStmts
<1>2. NoCall \in Reads
  BY <1>1 DEF NoCall, Reads
<1>3. NoResult \in Results
  BY <1>1 DEF NoResult, Results
<1>4. \A op \in Ops, s \in AllStmts, to \in {"stmt", "result"} : Read(op, s, to) \in Reads
  BY <1>2 DEF Read, Reads, Ops
<1> QED BY <1>2, <1>3, <1>4

\* A statement is changed.
LEMMA StmtSet ==
  ASSUME StmtTyped, NEW s \in AllStmts, NEW x \in Statements,
         stmt' = [stmt EXCEPT ![s] = x]
  PROVE  /\ stmt' \in [AllStmts -> Statements]
         /\ stmt'[s] = x /\ \A t \in AllStmts \ {s} : stmt'[t] = stmt[t]
BY DEF StmtTyped

LEMMA StmtRead ==
  ASSUME StmtTyped, NEW s \in AllStmts, NEW x \in Statements,
         stmt' = [stmt EXCEPT ![s] = x], x.exec = stmt[s].exec
  PROVE  StmtTyped' /\ LastExec' = LastExec /\ \A t \in AllStmts : stmt'[t].exec = stmt[t].exec
<1>1. /\ stmt' \in [AllStmts -> Statements]
      /\ stmt'[s] = x /\ \A t \in AllStmts \ {s} : stmt'[t] = stmt[t]
  BY StmtSet
<1>2. \A t \in AllStmts : stmt'[t].exec = stmt[t].exec
  BY <1>1
<1> QED BY <1>1, <1>2, LastKept DEF StmtTyped

\* A result is changed.
LEMMA ResSet ==
  ASSUME GotTyped, NEW s \in AllStmts, NEW x \in Results, res' = [res EXCEPT ![s] = x]
  PROVE  /\ res' \in [AllStmts -> Results]
         /\ res'[s] = x /\ \A t \in AllStmts \ {s} : res'[t] = res[t]
BY DEF GotTyped

\* Rows are given.
LEMMA GiveTyped ==
  ASSUME GotTyped, NEW s, NEW rows \in Seq(Rows), Give(s, rows)
  PROVE  got' \in [Executions -> Seq(Rows)]
<1>1. \A e \in Executions : got[e] \o rows \in Seq(Rows)
  BY DEF GotTyped
<1> QED BY <1>1 DEF GotTyped, Give

-----------------------------------------------------------------------------
(***************************************************************************)
(* Types, by the groups of actions.                                        *)
(***************************************************************************)
\* A message is sent.
LEMMA SendTyped ==
  ASSUME Types, NEW m \in Sent, Send(m)
  PROVE  LineTyped' /\ StmtTyped' /\ ReadTyped' /\ GotTyped' /\ Untouched'
<1>1. LineTyped'
  BY AppendElements DEF Types, LineTyped, Send, readVars
<1>2. StmtTyped' /\ ReadTyped'
  BY DEF Types, StmtTyped, HasLast, ReadTyped, Idle, Reader, Send, readVars
<1>3. GotTyped' /\ Untouched'
  BY DEF Types, GotTyped, Untouched, Send
<1> QED BY <1>1, <1>2, <1>3

LEMMA MessageSent ==
  \A t \in MessageTypes \ {"ROW"} : Message(t) \in Sent
BY DEF Message, Messages, Sent

LEMMA AnswerEndsTyped ==
  ASSUME ServerTyped, todo # << >>, AnswerEnds, UNCHANGED <<up, budget, produced>>
  PROVE  ServerTyped'
<1>1. todo' \in Seq([e : Executions, sets : 0..MaxSets])
  BY TailElements DEF ServerTyped, AnswerEnds
<1>2. pos' \in [set : 0..MaxSets, n : 0..MaxRows] /\ pos'.n = 0
  BY ResultsAssumption DEF AnswerEnds
<1>3. phase' = "start"
  BY DEF AnswerEnds
<1> QED BY <1>1, <1>2, <1>3 DEF ServerTyped

LEMMA ServerTypes ==
  ASSUME Types, Server \/ ConnectionLost
  PROVE  Types'
<1> USE DEF Types
<1>1. ASSUME todo # << >> PROVE Head(todo) \in [e : Executions, sets : 0..MaxSets]
  <2>1. todo \in Seq([e : Executions, sets : 0..MaxSets])
    BY DEF ServerTyped
  <2>2. Head(todo) = todo[1] /\ todo[1] \in [e : Executions, sets : 0..MaxSets]
    BY <1>1, <2>1, TailElements
  <2> QED BY <2>2
<1>2. CASE ServerMeta
  <2>1. Message("META") \in Sent
    BY MessageSent DEF MessageTypes
  <2>2. todo # << >> /\ pos.set < Head(todo).sets
    BY <1>2 DEF ServerMeta, Answering
  <2>3. pos' \in [set : 0..MaxSets, n : 0..MaxRows] /\ pos'.n = 0 /\ pos'.set > 0
    <3>1. pos' = [set |-> pos.set + 1, n |-> 0]
      BY <1>2 DEF ServerMeta
    <3>2. pos.set \in 0..MaxSets /\ Head(todo).sets \in 0..MaxSets
      BY <1>1, <2>2 DEF ServerTyped
    <3>3. pos.set + 1 \in 0..MaxSets /\ pos.set + 1 > 0 /\ 0 \in 0..MaxRows
      BY <2>2, <3>2, ResultsAssumption
    <3> QED BY <3>1, <3>3
  <2>4. ServerTyped'
    BY <1>2, <2>3, ResultsAssumption DEF ServerMeta, ServerTyped, Send
  <2> QED BY <1>2, <2>1, <2>4, SendTyped DEF ServerMeta
<1>3. CASE ServerRow
  <2> DEFINE e == Head(todo).e
             r == Row(e, pos.set, pos.n + 1)
  <2>1. todo # << >> /\ phase = "rows" /\ budget > 0
    BY <1>3 DEF ServerRow, Answering
  <2>2. e \in Executions
    BY <1>1, <2>1
  <2>3. pos.set \in 1..MaxSets /\ pos.n + 1 \in 1..MaxRows /\ pos.n + 1 + (budget - 1) <= MaxRows
        /\ budget - 1 \in 0..MaxRows
    BY <2>1, ResultsAssumption DEF ServerTyped
  <2>4. r \in Rows
    BY <2>2, <2>3 DEF Row, Rows
  <2>5. [type |-> "ROW", row |-> r] \in Sent
    BY <2>4 DEF Sent, Messages, MessageTypes
  <2>6. produced' = [produced EXCEPT ![e] = Append(produced[e], r)]
    BY <1>3 DEF ServerRow
  <2>7. produced' \in [Executions -> Seq(Rows)]
    BY <2>2, <2>4, <2>6 DEF ServerTyped
  <2>8. pos' = [pos EXCEPT !.n = pos.n + 1] /\ budget' = budget - 1 /\ UNCHANGED <<up, todo, phase>>
    BY <1>3 DEF ServerRow, Send
  <2>9. pos' \in [set : 0..MaxSets, n : 0..MaxRows] /\ pos'.n = pos.n + 1 /\ pos'.set = pos.set
    <3>1. pos.n + 1 \in 0..MaxRows /\ pos \in [set : 0..MaxSets, n : 0..MaxRows]
      BY <2>3, ResultsAssumption DEF ServerTyped
    <3>2. \A k \in 0..MaxRows : /\ [pos EXCEPT !.n = k] \in [set : 0..MaxSets, n : 0..MaxRows]
                               /\ [pos EXCEPT !.n = k].n = k
                               /\ [pos EXCEPT !.n = k].set = pos.set
      BY <3>1
    <3> QED BY <2>8, <3>1, <3>2
  <2>10. ServerTyped'
    BY <2>3, <2>7, <2>8, <2>9 DEF ServerTyped
  <2>11. Send([type |-> "ROW", row |-> r])
    BY <1>3 DEF ServerRow
  <2> QED BY <2>5, <2>10, <2>11, SendTyped
<1>4. CASE ServerSetDone
  <2>1. Message("MORE") \in Sent /\ Message("DONE") \in Sent
    BY MessageSent DEF MessageTypes
  <2>2. ServerTyped'
    BY <1>4 DEF ServerSetDone, ServerTyped, Send
  <2> QED BY <1>4, <2>1, <2>2, SendTyped DEF ServerSetDone
<1>5. CASE ServerNotice
  <2>1. Message("NOTICE") \in Sent
    BY MessageSent DEF MessageTypes
  <2>2. ServerTyped'
    BY <1>5 DEF ServerNotice, ServerTyped, Send
  <2> QED BY <1>5, <2>1, <2>2, SendTyped DEF ServerNotice
<1>6. CASE ServerOk
  <2>1. Message("OK") \in Sent
    BY MessageSent DEF MessageTypes
  <2>2. ServerTyped'
    BY <1>6, AnswerEndsTyped DEF ServerOk, Answering, Send
  <2> QED BY <1>6, <2>1, <2>2, SendTyped DEF ServerOk
<1>7. CASE ServerError
  <2>1. Message("ERROR") \in Sent
    BY MessageSent DEF MessageTypes
  <2>2. ServerTyped'
    BY <1>7, AnswerEndsTyped DEF ServerError, Answering, Send
  <2> QED BY <1>7, <2>1, <2>2, SendTyped DEF ServerError
<1>8. CASE ConnectionLost
  <2>1. ServerTyped'
    <3>1. pos' \in [set : 0..MaxSets, n : 0..MaxRows] /\ pos'.n = 0
      BY <1>8, ResultsAssumption DEF ConnectionLost
    <3>2. todo' = << >> /\ phase' = "start" /\ up' = FALSE /\ UNCHANGED <<budget, produced>>
      BY <1>8 DEF ConnectionLost
    <3>3. todo' \in Seq([e : Executions, sets : 0..MaxSets]) /\ up' \in BOOLEAN
      BY <3>2, EmptySeq
    <3>4. pos'.n + budget' <= MaxRows
      BY <3>1, <3>2, ResultsAssumption DEF ServerTyped
    <3> QED BY <3>1, <3>2, <3>3, <3>4 DEF ServerTyped
  <2>2. LineTyped'
    BY <1>8 DEF ConnectionLost, LineTyped, readVars
  <2>3. StmtTyped' /\ ReadTyped' /\ GotTyped' /\ Untouched'
    BY <1>8 DEF ConnectionLost, StmtTyped, HasLast, ReadTyped, GotTyped, Untouched, Idle,
                Reader, readVars
  <2> QED BY <2>1, <2>2, <2>3
<1> QED BY <1>2, <1>3, <1>4, <1>5, <1>6, <1>7, <1>8 DEF Server

\* Messages are received: they go from the line to the batch.
LEMMA receiveTypes ==
  ASSUME Types, receive
  PROVE  Types'
<1> USE DEF Types
<1>1. ServerTyped' /\ GotTyped' /\ Untouched'
  BY DEF receive, serverVars, ServerTyped, GotTyped, Untouched
<1>2. StmtTyped'
  BY DEF receive, StmtTyped, HasLast
<1>3. LineTyped'
  <2>1. CASE UNCHANGED <<batch, line>>
    BY <2>1 DEF LineTyped
  <2>2. ASSUME NEW k \in 1..Len(line), batch' = SubSeq(line, 1, k),
               line' = SubSeq(line, k + 1, Len(line))
        PROVE  LineTyped'
    <3>1. line \in Seq(Sent) /\ k \in 0..Len(line)
      BY DEF LineTyped
    <3> QED BY <2>2, <3>1, CutAt DEF LineTyped
  <2> QED BY <2>1, <2>2 DEF receive
<1>4. call' \in Reads /\ call'.op = call.op /\ call'.s = call.s
  <2>1. CASE UNCHANGED call
    BY <2>1 DEF ReadTyped
  <2>2. CASE call' = [call EXCEPT !.ret = "FAIL"]
    BY <2>2 DEF ReadTyped, Reads
  <2> QED BY <2>1, <2>2 DEF receive
<1>5. ReadTyped'
  BY <1>4 DEF receive, Waiting, ReadTyped, Idle, Reader
<1> QED BY <1>1, <1>2, <1>3, <1>5

\* The reader is changed by a message: what it read is what it executed.
LEMMA ProcessedTypes ==
  ASSUME Types, batch # << >>, Processed, NEW x \in Statements,
         stmt' = [stmt EXCEPT ![call.s] = x], x.exec = Reader.exec,
         call' \in Reads, call'.op = call.op, call'.s = call.s,
         got' \in [Executions -> Seq(Rows)], raised' \subseteq Executions, broken' \in BOOLEAN
  PROVE  Types'
<1>1. ServerTyped'
  BY DEF Types, Processed, serverVars, ServerTyped
<1>2. LineTyped'
  BY TailElements DEF Types, Processed, LineTyped
<1>3. call.s \in AllStmts
  BY DEF Types, ReadTyped, Reads
<1>4. /\ StmtTyped' /\ \A t \in AllStmts : stmt'[t].exec = stmt[t].exec
      /\ \A t \in AllStmts \ {call.s} : stmt'[t] = stmt[t]
  BY <1>3, StmtRead, StmtSet DEF Types, Reader
<1>5. ReadTyped'
  BY <1>3, <1>4 DEF Types, ReadTyped, Idle, Reader
<1>6. GotTyped'
  BY DEF Types, GotTyped, Processed
<1>7. stmt[call.s].exec # 0
  BY DEF Types, ReadTyped, Reader, Executions
<1>8. Untouched'
  BY <1>4, <1>7 DEF Types, Untouched, Processed
<1> QED BY <1>1, <1>2, <1>4, <1>5, <1>6, <1>8 DEF Types

LEMMA ReaderIs ==
  ASSUME Types
  PROVE  call.s \in AllStmts /\ Reader \in Statements /\ call \in Reads
BY DEF Types, StmtTyped, ReadTyped, Reads, Reader

\* A message that leaves the rows alone.
LEMMA RetTyped ==
  ASSUME Types, NEW ret \in {"AGAIN", "PASS", "FAIL"}, call' = [call EXCEPT !.ret = ret]
  PROVE  call' \in Reads /\ call'.op = call.op /\ call'.s = call.s
BY DEF Types, ReadTyped, Reads

LEMMA ProcessTypes ==
  ASSUME Types, Process
  PROVE  Types'
<1>0. call.s \in AllStmts /\ Reader \in Statements /\ call \in Reads
  BY ReaderIs
<1>1. batch # << >> /\ Processed
  BY DEF Process, Processing, on_COLUMN_META, on_RSET_ROW, on_RSET_FETCH_DONE,
         on_RSET_FETCH_DONE_MORE_RSETS, on_STMT_EXECUTE_OK, on_ERROR, on_NOTICE
<1>2. Head(batch) \in Sent /\ Reader.exec \in Executions
  BY <1>1, TailElements DEF Types, LineTyped, ReadTyped
<1>3. /\ got \in [Executions -> Seq(Rows)] /\ raised \subseteq Executions
      /\ broken \in BOOLEAN
  BY DEF Types, GotTyped
<1>4. CASE on_COLUMN_META
  <2> DEFINE x == [Reader EXCEPT !.has_more_results = TRUE, !.has_more_rows_in_set = TRUE,
                                 !.field_count = Reader.field_count + 1]
  <2>1. x \in Statements /\ x.exec = Reader.exec
    <3>1. Reader.field_count + 1 \in Nat
      BY <1>0 DEF Statements
    <3> QED BY <1>0, <3>1 DEF Statements
  <2>2. stmt' = [stmt EXCEPT ![call.s] = x]
    BY <1>4 DEF on_COLUMN_META, Reader
  <2>3. call' \in Reads /\ call'.op = call.op /\ call'.s = call.s
    BY <1>4, RetTyped DEF on_COLUMN_META
  <2> HIDE DEF x
  <2> QED BY <1>1, <1>3, <1>4, <2>1, <2>2, <2>3, ProcessedTypes DEF on_COLUMN_META
<1>5. CASE on_RSET_ROW
  <2>1. Head(batch).row \in Rows
    BY <1>2, <1>5 DEF on_RSET_ROW, Processing, Sent
  <2>2. CASE /\ stmt' = [stmt EXCEPT ![call.s].has_more_results = TRUE]
             /\ call' = [call EXCEPT !.ret = "AGAIN"] /\ UNCHANGED <<got, broken>>
    <3> DEFINE x == [Reader EXCEPT !.has_more_results = TRUE]
    <3>1. x \in Statements /\ x.exec = Reader.exec
      BY <1>0 DEF Statements
    <3>2. stmt' = [stmt EXCEPT ![call.s] = x]
      BY <2>2 DEF Reader
    <3>3. call' \in Reads /\ call'.op = call.op /\ call'.s = call.s
      BY <2>2, RetTyped
    <3> HIDE DEF x
    <3> QED BY <1>1, <1>3, <1>5, <2>2, <3>1, <3>2, <3>3, ProcessedTypes DEF on_RSET_ROW
  <2>3. CASE /\ stmt' = [stmt EXCEPT ![call.s] = [Reader EXCEPT !.has_more_results = TRUE,
                  !.prefetch_counter = IF fwd_prefetch_count # 0 THEN prefetched
                                       ELSE Reader.prefetch_counter]]
             /\ handler_on_row_field(Head(batch).row)
             /\ broken' = (broken \/ Reader.field_count > 1)
    <3> DEFINE c == IF fwd_prefetch_count # 0 THEN prefetched ELSE Reader.prefetch_counter
               x == [Reader EXCEPT !.has_more_results = TRUE, !.prefetch_counter = c]
    <3>1. c \in 0..(SizeModulus - 1)
      <4>1. Reader.prefetch_counter \in 0..(SizeModulus - 1)
        BY <1>0 DEF Statements
      <4>2. \A k \in 0..(SizeModulus - 1) : (k - 1) % SizeModulus \in 0..(SizeModulus - 1)
        BY ResultsAssumption
      <4> QED BY <4>1, <4>2 DEF prefetched
    <3> HIDE DEF c
    <3>2. x \in Statements /\ x.exec = Reader.exec
      BY <1>0, <3>1 DEF Statements
    <3>3. stmt' = [stmt EXCEPT ![call.s] = x]
      BY <2>3 DEF c
    <3>4. /\ call' \in Reads /\ call'.op = call.op /\ call'.s = call.s
          /\ got' \in [Executions -> Seq(Rows)]
      <4>1. CASE Callback
        <5>1. call' = [call EXCEPT !.ret = "AGAIN"]
              /\ got' = [got EXCEPT ![Reader.exec] = Append(@, Head(batch).row)]
          BY <2>3, <4>1 DEF handler_on_row_field
        <5>2. \A e \in Executions : Append(got[e], Head(batch).row) \in Seq(Rows)
          BY <1>3, <2>1
        <5>3. got' \in [Executions -> Seq(Rows)]
          BY <1>3, <5>1, <5>2
        <5> QED BY <5>1, <5>3, RetTyped
      <4>2. CASE ~Callback
        <5>1. PICK ret \in {"AGAIN", "PASS"} :
                call' = [call EXCEPT !.rowset = TRUE, !.rows = Append(@, Head(batch).row),
                                     !.ret = ret]
          BY <2>3, <4>2 DEF handler_on_row_field
        <5>2. got' = got
          BY <2>3, <4>2 DEF handler_on_row_field
        <5>3. Append(call.rows, Head(batch).row) \in Seq(Rows)
          BY <1>0, <2>1 DEF Reads
        <5> QED BY <1>0, <1>3, <5>1, <5>2, <5>3 DEF Reads
      <4> QED BY <4>1, <4>2
    <3>5. broken' \in BOOLEAN /\ raised' \subseteq Executions
      BY <1>3, <1>5, <2>3 DEF on_RSET_ROW
    <3> HIDE DEF x
    <3> QED BY <1>1, <3>2, <3>3, <3>4, <3>5, ProcessedTypes
  <2> QED BY <1>5, <2>2, <2>3 DEF on_RSET_ROW
<1>6. CASE on_RSET_FETCH_DONE \/ on_RSET_FETCH_DONE_MORE_RSETS
  <2>1. PICK b \in BOOLEAN : stmt' = [stmt EXCEPT ![call.s] = [Reader EXCEPT
               !.has_more_results = b, !.has_more_rows_in_set = FALSE]]
    BY <1>6 DEF on_RSET_FETCH_DONE, on_RSET_FETCH_DONE_MORE_RSETS
  <2> DEFINE x == [Reader EXCEPT !.has_more_results = b, !.has_more_rows_in_set = FALSE]
  <2>2. x \in Statements /\ x.exec = Reader.exec
    BY <1>0 DEF Statements
  <2>3. stmt' = [stmt EXCEPT ![call.s] = x]
    BY <2>1
  <2>4. call' \in Reads /\ call'.op = call.op /\ call'.s = call.s
    BY <1>6, RetTyped DEF on_RSET_FETCH_DONE, on_RSET_FETCH_DONE_MORE_RSETS
  <2>5. UNCHANGED <<got, raised, broken>>
    BY <1>6 DEF on_RSET_FETCH_DONE, on_RSET_FETCH_DONE_MORE_RSETS
  <2> HIDE DEF x
  <2> QED BY <1>1, <1>3, <2>2, <2>3, <2>4, <2>5, ProcessedTypes
<1>7. CASE on_STMT_EXECUTE_OK
  <2> DEFINE x == [Reader EXCEPT !.has_more_results = FALSE]
  <2>1. x \in Statements /\ x.exec = Reader.exec
    BY <1>0 DEF Statements
  <2>2. stmt' = [stmt EXCEPT ![call.s] = x]
    BY <1>7 DEF on_STMT_EXECUTE_OK, Reader
  <2>3. call' \in Reads /\ call'.op = call.op /\ call'.s = call.s
    BY <1>7, RetTyped DEF on_STMT_EXECUTE_OK
  <2> HIDE DEF x
  <2> QED BY <1>1, <1>3, <1>7, <2>1, <2>2, <2>3, ProcessedTypes DEF on_STMT_EXECUTE_OK
<1>8. CASE on_ERROR \/ on_NOTICE
  <2>1. stmt' = [stmt EXCEPT ![call.s] = Reader]
    BY <1>8 DEF on_ERROR, on_NOTICE, Reader, Types, StmtTyped
  <2>2. call' \in Reads /\ call'.op = call.op /\ call'.s = call.s
    BY <1>8, RetTyped DEF on_ERROR, on_NOTICE
  <2>3. UNCHANGED <<got, broken>> /\ raised' \subseteq Executions
    BY <1>2, <1>3, <1>8 DEF on_ERROR, on_NOTICE
  <2> QED BY <1>0, <1>1, <1>3, <2>1, <2>2, <2>3, ProcessedTypes
<1> QED BY <1>4, <1>5, <1>6, <1>7, <1>8 DEF Process

\* A call returns.
LEMMA SettledTypes ==
  ASSUME Types, ~Idle, batch = << >>, Settled, StmtTyped',
         \A t \in AllStmts : stmt'[t].exec = stmt[t].exec,
         \A t \in AllStmts \ {call.s} : stmt'[t] = stmt[t] /\ res'[t] = res[t],
         res' \in [AllStmts -> Results], got' \in [Executions -> Seq(Rows)],
         raised' \subseteq Executions, broken' \in BOOLEAN
  PROVE  Types'
<1>1. ServerTyped' /\ LineTyped'
  BY DEF Types, Settled, serverVars, ServerTyped, LineTyped
<1>2. ReadTyped'
  BY CallTypes DEF Settled, ReadTyped, Idle, NoCall
<1>3. GotTyped'
  BY DEF GotTyped
<1>4. stmt[call.s].exec # 0
  BY DEF Types, ReadTyped, Reader, Executions
<1>5. Untouched'
  BY <1>4 DEF Types, Untouched
<1> QED BY <1>1, <1>2, <1>3, <1>5 DEF Types

LEMMA ResultTyped ==
  ASSUME Types, NEW kind \in {"buffered", "fwd"}
  PROVE  Result(kind) \in Results
<1>1. call.rowset \in BOOLEAN /\ call.rows \in Seq(Rows) /\ Reader.has_more_results \in BOOLEAN
  BY ReaderIs DEF Reads, Statements
<1> QED BY <1>1, CallTypes DEF Result, Results

LEMMA StmtSame ==
  ASSUME Types, stmt' = stmt
  PROVE  /\ StmtTyped' /\ LastExec' = LastExec
         /\ \A t \in AllStmts : stmt'[t].exec = stmt[t].exec
BY DEF Types, StmtTyped, HasLast, LastExec

LEMMA FetchFailedTypes ==
  ASSUME Types, ~Idle, FetchFailed
  PROVE  /\ StmtTyped' /\ \A t \in AllStmts : stmt'[t].exec = stmt[t].exec
         /\ \A t \in AllStmts \ {call.s} : stmt'[t] = stmt[t] /\ res'[t] = res[t]
         /\ res' \in [AllStmts -> Results] /\ raised' \subseteq Executions
<1>0. call.s \in AllStmts /\ Reader \in Statements /\ call \in Reads
  BY ReaderIs
<1>1. raised' \subseteq Executions
  BY DEF FetchFailed, Types, ReadTyped, GotTyped
<1>2. CASE /\ stmt' = [stmt EXCEPT ![call.s].send_query_status = FALSE] /\ UNCHANGED res
  <2> DEFINE x == [Reader EXCEPT !.send_query_status = FALSE]
  <2>1. x \in Statements /\ x.exec = Reader.exec
    BY <1>0 DEF Statements
  <2>2. stmt' = [stmt EXCEPT ![call.s] = x]
    BY <1>2 DEF Reader
  <2> HIDE DEF x
  <2>3. /\ StmtTyped' /\ \A t \in AllStmts : stmt'[t].exec = stmt[t].exec
        /\ \A t \in AllStmts \ {call.s} : stmt'[t] = stmt[t]
    BY <1>0, <2>1, <2>2, StmtRead, StmtSet DEF Types, Reader
  <2> QED BY <1>1, <1>2, <2>3 DEF Types, GotTyped
<1>3. CASE /\ res' = [res EXCEPT ![call.s].send_query_status = FALSE] /\ UNCHANGED stmt
  <2> DEFINE x == [res[call.s] EXCEPT !.send_query_status = FALSE]
  <2>1. res[call.s] \in Results
    BY <1>0 DEF Types, GotTyped
  <2>2. x \in Results
    BY <2>1 DEF Results
  <2>3. res' = [res EXCEPT ![call.s] = x]
    BY <1>3
  <2> HIDE DEF x
  <2>4. res' \in [AllStmts -> Results] /\ \A t \in AllStmts \ {call.s} : res'[t] = res[t]
    BY <1>0, <2>2, <2>3, ResSet DEF Types
  <2> QED BY <1>1, <1>3, <2>4, StmtSame
<1> QED BY <1>2, <1>3 DEF FetchFailed

LEMMA ReturnTypes ==
  ASSUME Types, Return
  PROVE  Types'
<1>0. call.s \in AllStmts /\ Reader \in Statements /\ call \in Reads
  BY ReaderIs
<1>1. ~Idle /\ batch = << >>
  BY DEF Return, Returned, buffered_result, fwd_result, prefetch_done, iterator_prefetched,
         fetchAll_done, callbacks_done, query_done, query_cb_done
<1>2. /\ res \in [AllStmts -> Results] /\ got \in [Executions -> Seq(Rows)]
      /\ raised \subseteq Executions /\ broken \in BOOLEAN
  BY DEF Types, GotTyped
<1>3. res[call.s] \in Results /\ call.rows \in Seq(Rows)
  BY <1>0, <1>2 DEF Reads
<1>4. ASSUME stmt' = stmt, NEW x \in Results, res' = [res EXCEPT ![call.s] = x],
             Settled, got' \in [Executions -> Seq(Rows)], raised' = raised, broken' \in BOOLEAN
      PROVE  Types'
  <2>1. res' \in [AllStmts -> Results] /\ \A t \in AllStmts \ {call.s} : res'[t] = res[t]
    BY <1>0, <1>4, ResSet DEF Types
  <2>2. StmtTyped' /\ \A t \in AllStmts : stmt'[t].exec = stmt[t].exec
    BY <1>4, StmtSame
  <2> QED BY <1>1, <1>2, <1>4, <2>1, <2>2, SettledTypes
<1>5. CASE buffered_result
  <2>1. CASE res' = [res EXCEPT ![call.s] = Result("buffered")] /\ UNCHANGED <<stmt, raised>>
    BY <1>2, <1>4, <1>5, <2>1, ResultTyped DEF buffered_result
  <2>2. CASE FetchFailed
    BY <1>1, <1>2, <1>5, <2>2, FetchFailedTypes, SettledTypes DEF buffered_result
  <2> QED BY <1>5, <2>1, <2>2 DEF buffered_result
<1>6. CASE fwd_result
  <2>1. CASE /\ res' = [res EXCEPT ![call.s] =
                  [Result("fwd") EXCEPT !.row_cursor = res[call.s].row_cursor]]
             /\ broken' = (broken \/ res[call.s].kind = "fwd")
             /\ UNCHANGED <<stmt, raised>>
    <3> DEFINE x == [Result("fwd") EXCEPT !.row_cursor = res[call.s].row_cursor]
    <3>1. Result("fwd") \in Results
      BY ResultTyped
    <3>2. x \in Results
      BY <1>3, <3>1 DEF Results
    <3>3. res' = [res EXCEPT ![call.s] = x] /\ broken' \in BOOLEAN
      BY <1>2, <2>1
    <3>4. Settled /\ got' = got
      BY <1>6 DEF fwd_result
    <3> HIDE DEF x
    <3> QED BY <1>2, <1>4, <2>1, <3>2, <3>3, <3>4
  <2>2. CASE FetchFailed /\ UNCHANGED broken
    BY <1>1, <1>2, <1>6, <2>2, FetchFailedTypes, SettledTypes DEF fwd_result
  <2> QED BY <1>6, <2>1, <2>2 DEF fwd_result
<1>7. CASE prefetch_done
  <2> DEFINE x == [res[call.s] EXCEPT !.rows = call.rows]
  <2>1. x \in Results
    BY <1>3 DEF Results
  <2>2. res' = [res EXCEPT ![call.s] = x]
    BY <1>7 DEF prefetch_done
  <2> HIDE DEF x
  <2> QED BY <1>2, <1>4, <1>7, <2>1, <2>2 DEF prefetch_done
<1>8. CASE iterator_prefetched
  <2>1. PICK use \in {"iter", "over"} :
          res' = [res EXCEPT ![call.s].rows = call.rows, ![call.s].use = use]
    BY <1>8 DEF iterator_prefetched
  <2> DEFINE x == [res[call.s] EXCEPT !.rows = call.rows, !.use = use]
  <2>2. x \in Results
    BY <1>3 DEF Results
  <2>3. res' = [res EXCEPT ![call.s] = x]
    BY <2>1
  <2>4. PICK rows \in {<< >>, <<Head(call.rows)>>} :
          Give(call.s, rows) /\ (rows # << >> => call.rows # << >>)
    BY <1>8 DEF iterator_prefetched
  <2>5. rows \in Seq(Rows)
    <3>1. CASE rows = << >>
      BY <3>1, EmptySeq
    <3>2. CASE rows # << >>
      <4>1. Head(call.rows) \in Rows /\ rows = <<Head(call.rows)>>
        BY <1>3, <2>4, <3>2, TailElements
      <4> QED BY <4>1
    <3> QED BY <3>1, <3>2
  <2>6. got' \in [Executions -> Seq(Rows)]
    BY <2>4, <2>5, GiveTyped DEF Types
  <2> HIDE DEF x
  <2> QED BY <1>2, <1>4, <1>8, <2>2, <2>3, <2>6 DEF iterator_prefetched
<1>9. CASE fetchAll_done
  <2>1. CASE Give(call.s, call.rows) /\ res' = [res EXCEPT ![call.s] = Emptied(@, "over")]
    <3>1. Emptied(res[call.s], "over") \in Results
      BY <1>3, EmptySeq DEF Emptied, Results
    <3>2. got' \in [Executions -> Seq(Rows)]
      BY <1>3, <2>1, GiveTyped DEF Types
    <3> QED BY <1>2, <1>4, <1>9, <2>1, <3>1, <3>2 DEF fetchAll_done
  <2>2. CASE res' = [res EXCEPT ![call.s].rows = call.rows] /\ UNCHANGED got
    <3> DEFINE x == [res[call.s] EXCEPT !.rows = call.rows]
    <3>1. x \in Results
      BY <1>3 DEF Results
    <3>2. res' = [res EXCEPT ![call.s] = x]
      BY <2>2
    <3> HIDE DEF x
    <3> QED BY <1>2, <1>4, <1>9, <2>2, <3>1, <3>2 DEF fetchAll_done
  <2> QED BY <1>9, <2>1, <2>2 DEF fetchAll_done
<1>10. CASE callbacks_done
  <2> DEFINE b == Passed /\ Reader.has_more_results
             x == [Reader EXCEPT !.in_execution = b]
  <2>1. b \in BOOLEAN
    BY DEF Passed
  <2> HIDE DEF b
  <2>2. x \in Statements /\ x.exec = Reader.exec
    BY <1>0, <2>1 DEF Statements
  <2>3. stmt' = [stmt EXCEPT ![call.s] = x]
    BY <1>10 DEF callbacks_done, Reader, b
  <2> HIDE DEF x
  <2>4. /\ StmtTyped' /\ \A t \in AllStmts : stmt'[t].exec = stmt[t].exec
        /\ \A t \in AllStmts \ {call.s} : stmt'[t] = stmt[t]
    BY <1>0, <2>2, <2>3, StmtRead, StmtSet DEF Types, Reader
  <2> QED BY <1>1, <1>2, <1>10, <2>4, SettledTypes DEF callbacks_done
<1>11. CASE query_done \/ query_cb_done
  <2>1. UNCHANGED <<res, got, raised, broken>> /\ call.op \in {"query", "query_cb"}
    BY <1>11 DEF query_done, query_cb_done, Returned
  <2>2. CASE Settled /\ UNCHANGED stmt
    BY <1>1, <1>2, <2>1, <2>2, StmtSame, SettledTypes
  <2>3. ASSUME NEW op \in {"query", "query_cb"}, Again(op) PROVE Types'
    <3>1. call.s = Admin /\ Admin \in AllStmts /\ stmt[Admin].exec \in Executions
      BY <1>1, <2>1 DEF Types, ReadTyped, Reader, AllStmts
    <3>2. init_read(Reader) \in Statements /\ init_read(Reader).exec = Reader.exec
      BY <1>0, StmtTypes DEF init_read, Statements
    <3>3. stmt' = [stmt EXCEPT ![call.s] = init_read(Reader)]
      BY <2>3, <3>1 DEF Again, Reader
    <3>4. /\ StmtTyped' /\ \A t \in AllStmts : stmt'[t].exec = stmt[t].exec
          /\ \A t \in AllStmts \ {call.s} : stmt'[t] = stmt[t]
      BY <1>0, <3>2, <3>3, StmtRead, StmtSet DEF Types, Reader
    <3>5. call' \in Reads /\ call'.op = op /\ call'.s = Admin
      BY <2>3, <3>1, CallTypes DEF Again, Ops, Read, NoCall
    <3>6. ReadTyped'
      BY <1>1, <2>3, <3>1, <3>4, <3>5 DEF ReadTyped, Idle, Reader, Again
    <3>7. ServerTyped' /\ LineTyped'
      BY <2>3 DEF Types, Again, serverVars, ServerTyped, LineTyped
    <3>8. GotTyped'
      BY <1>2, <2>1 DEF GotTyped
    <3>9. Untouched'
      <4>1. stmt[call.s].exec # 0
        BY <1>1 DEF Types, ReadTyped, Reader, Executions
      <4> QED BY <2>1, <3>4, <4>1 DEF Types, Untouched
    <3> QED BY <3>4, <3>6, <3>7, <3>8, <3>9 DEF Types
  <2> QED BY <1>11, <2>2, <2>3 DEF query_done, query_cb_done
<1> QED BY <1>5, <1>6, <1>7, <1>8, <1>9, <1>10, <1>11 DEF Return

\* A read starts, of a statement that was executed before or is executed now.
LEMMA ReadStarts ==
  ASSUME Types, batch' = batch, Idle, NEW s \in AllStmts, StmtTyped',
         stmt'[s].exec \in Executions,
         call' \in Reads, call'.s = s, call'.op \in {"query", "query_cb"} => s = Admin
  PROVE  ReadTyped'
<1>1. batch' = << >>
  BY DEF Types, ReadTyped
<1> QED BY <1>1 DEF ReadTyped, Idle, Reader

\* getResult and its kin, with a statement st that is to be read.
LEMMA GetResultTypes ==
  ASSUME Types, NEW s \in AllStmts, NEW st \in Statements, NEW to \in {"stmt", "result"},
         get_result(s, st, to)
  PROVE  /\ \E x \in Statements :
              /\ stmt' = [stmt EXCEPT ![s] = x] /\ x.exec = st.exec
              /\ x.send_query_status = st.send_query_status
         /\ call' \in Reads /\ call'.s = s /\ call'.op \in {"buffered", "fwd"}
<1>1. /\ init_read(st) \in Statements /\ init_read(st).exec = st.exec
      /\ init_read(st).send_query_status = st.send_query_status
  BY StmtTypes DEF init_read, Statements
<1>2. \A op \in {"buffered", "fwd"} :
        Read(op, s, to) \in Reads /\ Read(op, s, to).s = s /\ Read(op, s, to).op = op
  BY CallTypes DEF Ops, Read, NoCall
<1>3. CASE get_buffered_result(s, st, to)
  BY <1>1, <1>2, <1>3 DEF get_buffered_result
<1>4. CASE get_fwd_result(s, st, to)
  <2> DEFINE y == IF st.partial_read_started THEN st ELSE init_read(st)
             x == [y EXCEPT !.partial_read_started = TRUE, !.prefetch_counter = Prefetch]
  <2>1. y \in Statements /\ y.exec = st.exec /\ y.send_query_status = st.send_query_status
    BY <1>1
  <2>2. stmt' = [stmt EXCEPT ![s] = x]
    BY <1>4 DEF get_fwd_result
  <2> HIDE DEF y
  <2>3. x \in Statements /\ x.exec = st.exec /\ x.send_query_status = st.send_query_status
    BY <2>1, StmtTypes DEF Statements
  <2>4. \/ call' = Read("fwd", s, to)
        \/ call' = [Read("fwd", s, to) EXCEPT !.rowset = res[s].rowset, !.rows = res[s].rows]
    BY <1>4 DEF get_fwd_result
  <2>5. res[s].rowset \in BOOLEAN /\ res[s].rows \in Seq(Rows)
    BY DEF Types, GotTyped, Results
  <2>6. call' \in Reads /\ call'.s = s /\ call'.op = "fwd"
    <3> DEFINE c == Read("fwd", s, to)
    <3>1. c \in Reads /\ c.s = s /\ c.op = "fwd"
      BY <1>2
    <3> HIDE DEF c
    <3>2. [c EXCEPT !.rowset = res[s].rowset, !.rows = res[s].rows] \in Reads
      BY <2>5, <3>1 DEF Reads
    <3>3. call' = c \/ call' = [c EXCEPT !.rowset = res[s].rowset, !.rows = res[s].rows]
      BY <2>4 DEF c
    <3> QED BY <3>1, <3>2, <3>3 DEF Reads
  <2> HIDE DEF x
  <2> QED BY <2>2, <2>3, <2>6
<1> QED BY <1>3, <1>4 DEF get_result

\* A statement is sent, with its number.
LEMMA SendRawTyped ==
  ASSUME Types, MaySend, NEW sets \in 0..MaxSets, send_raw_message(sets),
         UNCHANGED <<up, phase, pos, budget, produced, line, batch>>
  PROVE  ServerTyped' /\ LineTyped' /\ LastExec + 1 \in Executions
<1>1. LastExec + 1 \in Executions
  BY LastIs, ResultsAssumption DEF Types, MaySend, Executions
<1>2. [e |-> LastExec + 1, sets |-> sets] \in [e : Executions, sets : 0..MaxSets]
  BY <1>1
<1> DEFINE S == [e : Executions, sets : 0..MaxSets]
           x == [e |-> LastExec + 1, sets |-> sets]
<1>3. todo \in Seq(S) /\ x \in S /\ (todo' = Append(todo, x) \/ todo' = todo)
  BY <1>2 DEF Types, ServerTyped, send_raw_message
<1> HIDE DEF S, x
<1>4. todo' \in Seq(S)
  BY <1>3, AppendElements
<1> QED BY <1>1, <1>4 DEF Types, ServerTyped, LineTyped, S

LEMMA executeTypes ==
  ASSUME Types, NEW s \in Stmts, NEW flags \in Flags, execute(s, flags)
  PROVE  Types'
<1> DEFINE st == [NewStmt EXCEPT !.exec = LastExec + 1, !.flags = flags,
                    !.send_query_status = TRUE, !.unread = "ASYNC" \in flags]
<1>0. s \in AllStmts /\ s # Admin
  BY ResultsAssumption DEF AllStmts
<1>1. ServerTyped' /\ LineTyped' /\ LastExec + 1 \in Executions
  <2>1. PICK sets \in {MaxSets, FwdSets} : send_raw_message(sets)
    BY DEF execute
  <2>2. sets \in 0..MaxSets
    BY ResultsAssumption
  <2> QED BY <2>1, <2>2, SendRawTyped DEF execute
<1>2. st \in Statements /\ st.exec = LastExec + 1
  <2>1. NewStmt \in Statements /\ LastExec + 1 \in 0..MaxExec
    BY <1>1, StmtTypes, ResultsAssumption DEF Executions
  <2>2. ("ASYNC" \in flags) \in BOOLEAN
    OBVIOUS
  <2> QED BY <2>1, <2>2 DEF Statements
<1>3. Idle /\ batch' = batch
  BY DEF execute, MaySend
<1>4. \/ stmt' = [stmt EXCEPT ![s] = st] /\ UNCHANGED call
      \/ get_result(s, st, "stmt")
  BY DEF execute
<1> HIDE DEF st
<1>5. PICK x \in Statements : stmt' = [stmt EXCEPT ![s] = x] /\ x.exec = LastExec + 1
  BY <1>0, <1>2, <1>4, GetResultTypes
<1>6. /\ stmt' \in [AllStmts -> Statements]
      /\ stmt'[s] = x /\ \A t \in AllStmts \ {s} : stmt'[t] = stmt[t]
  BY <1>0, <1>5, StmtSet DEF Types
<1>7. StmtTyped'
  BY <1>0, <1>5, <1>6, LastNext DEF Types, StmtTyped
<1>8. ReadTyped'
  <2>1. CASE UNCHANGED call
    BY <1>3, <2>1 DEF Types, ReadTyped, Idle
  <2>2. CASE get_result(s, st, "stmt")
    <3>1. call' \in Reads /\ call'.s = s /\ call'.op \in {"buffered", "fwd"}
      BY <1>0, <1>2, <2>2, GetResultTypes
    <3>2. stmt'[s].exec \in Executions
      BY <1>1, <1>5, <1>6
    <3> QED BY <1>0, <1>3, <1>7, <3>1, <3>2, ReadStarts
  <2> QED BY <1>4, <2>1, <2>2
<1>9. res' \in [AllStmts -> Results] /\ \A t \in AllStmts \ {s} : res'[t] = res[t]
  BY <1>0, CallTypes, ResSet DEF Types, execute
<1>10. GotTyped'
  BY <1>9 DEF Types, GotTyped, execute
<1>11. Untouched'
  <2>1. stmt'[s].exec # 0
    BY <1>1, <1>5, <1>6 DEF Executions
  <2> QED BY <1>6, <1>9, <2>1 DEF Types, Untouched
<1> QED BY <1>1, <1>7, <1>8, <1>10, <1>11 DEF Types

LEMMA admin_queryTypes ==
  ASSUME Types, NEW op \in {"query", "query_cb"}, admin_query(op)
  PROVE  Types'
<1> DEFINE st == [NewStmt EXCEPT !.exec = LastExec + 1, !.send_query_status = TRUE]
<1>0. Admin \in AllStmts
  BY DEF AllStmts
<1>1. ServerTyped' /\ LineTyped' /\ LastExec + 1 \in Executions
  <2>1. PICK sets \in {MaxSets, 0} : send_raw_message(sets)
    BY DEF admin_query
  <2>2. sets \in 0..MaxSets
    BY ResultsAssumption
  <2> QED BY <2>1, <2>2, SendRawTyped DEF admin_query
<1>2. st \in Statements /\ st.exec = LastExec + 1
  <2>1. NewStmt \in Statements /\ LastExec + 1 \in 0..MaxExec
    BY <1>1, StmtTypes, ResultsAssumption DEF Executions
  <2> QED BY <2>1 DEF Statements
<1>3. Idle /\ batch' = batch /\ stmt' = [stmt EXCEPT ![Admin] = st]
  BY DEF admin_query, MaySend
<1> HIDE DEF st
<1>4. /\ stmt' \in [AllStmts -> Statements]
      /\ stmt'[Admin] = st /\ \A t \in AllStmts \ {Admin} : stmt'[t] = stmt[t]
  BY <1>0, <1>2, <1>3, StmtSet DEF Types
<1>5. StmtTyped'
  BY <1>0, <1>2, <1>4, LastNext DEF Types, StmtTyped
<1>6. ReadTyped'
  <2>1. call' \in Reads /\ call'.s = Admin /\ call'.op = op
    BY <1>0, CallTypes DEF admin_query, Ops, Read, NoCall
  <2>2. stmt'[Admin].exec \in Executions
    BY <1>1, <1>2, <1>4
  <2> QED BY <1>0, <1>3, <1>5, <2>1, <2>2, ReadStarts
<1>7. GotTyped'
  BY DEF Types, GotTyped, admin_query
<1>8. Untouched'
  <2>1. stmt'[Admin].exec # 0
    BY <1>1, <1>2, <1>4 DEF Executions
  <2> QED BY <1>4, <2>1 DEF Types, Untouched, admin_query
<1> QED BY <1>1, <1>5, <1>6, <1>7, <1>8 DEF Types

\* The application goes on with a statement it has executed: it starts a read ...
LEMMA GoesOnReading ==
  ASSUME Types, Idle, NEW s \in Stmts, stmt[s].exec # 0,
         UNCHANGED <<up, serverVars, line, batch, raised, broken>>,
         NEW x \in Statements, stmt' = [stmt EXCEPT ![s] = x], x.exec = stmt[s].exec,
         call' \in Reads, call'.s = s, call'.op \in Ops \ {"query", "query_cb"},
         res' \in [AllStmts -> Results], \A t \in AllStmts \ {s} : res'[t] = res[t],
         got' \in [Executions -> Seq(Rows)]
  PROVE  Types'
<1>0. s \in AllStmts
  BY DEF AllStmts
<1>1. /\ StmtTyped' /\ stmt'[s].exec = stmt[s].exec
      /\ \A t \in AllStmts \ {s} : stmt'[t] = stmt[t]
  BY <1>0, StmtRead, StmtSet DEF Types
<1>2. stmt'[s].exec \in Executions
  BY <1>0, <1>1, LastIs, ResultsAssumption DEF Types, Executions
<1>3. ReadTyped'
  BY <1>0, <1>1, <1>2, ReadStarts
<1>4. ServerTyped' /\ LineTyped'
  BY DEF Types, ServerTyped, LineTyped, serverVars
<1>5. GotTyped'
  BY DEF Types, GotTyped
<1>6. Untouched'
  BY <1>1 DEF Types, Untouched
<1> QED BY <1>1, <1>3, <1>4, <1>5, <1>6 DEF Types

\* ... or takes what is here.
LEMMA TakesWhatIsHere ==
  ASSUME Types, Idle, NEW s \in Stmts, stmt[s].exec # 0,
         UNCHANGED <<up, serverVars, line, batch, raised, broken, stmt, call>>,
         res' \in [AllStmts -> Results], \A t \in AllStmts \ {s} : res'[t] = res[t],
         got' \in [Executions -> Seq(Rows)]
  PROVE  Types'
<1>1. StmtTyped' /\ \A t \in AllStmts : stmt'[t] = stmt[t]
  BY StmtSame
<1>2. ReadTyped'
  BY DEF Types, ReadTyped, Idle, Reader
<1>4. ServerTyped' /\ LineTyped'
  BY DEF Types, ServerTyped, LineTyped, serverVars
<1>5. GotTyped'
  BY DEF Types, GotTyped
<1>6. Untouched'
  BY <1>1 DEF Types, Untouched
<1> QED BY <1>1, <1>2, <1>4, <1>5, <1>6 DEF Types

LEMMA FurtherReadTypes ==
  ASSUME Types, NEW s \in Stmts,
         getNextResult(s) \/ getNextResult_callbacks(s) \/ nextResult(s)
  PROVE  Types'
<1>0. s \in AllStmts /\ stmt[s] \in Statements
  BY DEF AllStmts, Types, StmtTyped
<1>1. /\ Idle /\ stmt[s].exec # 0
      /\ UNCHANGED <<up, serverVars, line, batch, got, raised, broken>>
  BY <1>0 DEF Types, Untouched, getNextResult, getNextResult_callbacks, nextResult, Readable
<1>2. res \in [AllStmts -> Results] /\ got' \in [Executions -> Seq(Rows)]
  BY <1>1 DEF Types, GotTyped
<1>3. CASE getNextResult(s) \/ nextResult(s)
  <2>1. PICK to \in {"stmt", "result"} : get_result(s, stmt[s], to)
    BY <1>3 DEF getNextResult, nextResult
  <2>2. PICK x \in Statements : stmt' = [stmt EXCEPT ![s] = x] /\ x.exec = stmt[s].exec
    BY <1>0, <2>1, GetResultTypes
  <2>3. call' \in Reads /\ call'.s = s /\ call'.op \in Ops \ {"query", "query_cb"}
    BY <1>0, <2>1, GetResultTypes DEF Ops
  <2>4. res' = res
    BY <1>3 DEF getNextResult, nextResult
  <2> QED BY <1>1, <1>2, <2>2, <2>3, <2>4, GoesOnReading
<1>4. CASE getNextResult_callbacks(s)
  <2> DEFINE x == init_read(stmt[s])
  <2>1. x \in Statements /\ x.exec = stmt[s].exec
    BY <1>0, StmtTypes DEF init_read, Statements
  <2>2. stmt' = [stmt EXCEPT ![s] = x]
    BY <1>4 DEF getNextResult_callbacks
  <2>3. call' \in Reads /\ call'.s = s /\ call'.op \in Ops \ {"query", "query_cb"}
    BY <1>0, <1>4, CallTypes DEF getNextResult_callbacks, Ops, Read, NoCall
  <2>4. res' \in [AllStmts -> Results] /\ \A t \in AllStmts \ {s} : res'[t] = res[t]
    BY <1>0, <1>4, CallTypes, ResSet DEF Types, getNextResult_callbacks
  <2> HIDE DEF x
  <2> QED BY <1>1, <1>2, <2>1, <2>2, <2>3, <2>4, GoesOnReading
<1> QED BY <1>3, <1>4

\* The next rows of a forward only result are read.
LEMMA PrefetchingTypes ==
  ASSUME Types, NEW s \in Stmts, NEW op \in {"next", "iterNext"}, NEW use \in {"one", "iter"},
         Prefetching(s, op, use), Idle, stmt[s].exec # 0,
         UNCHANGED <<up, serverVars, line, batch, raised, broken>>,
         got' \in [Executions -> Seq(Rows)]
  PROVE  Types'
<1>0. s \in AllStmts /\ stmt[s] \in Statements /\ res[s] \in Results
  BY DEF AllStmts, Types, StmtTyped, GotTyped
<1> DEFINE x == [stmt[s] EXCEPT !.prefetch_counter = Prefetch]
<1>1. x \in Statements /\ x.exec = stmt[s].exec
  BY <1>0, StmtTypes DEF Statements
<1>2. stmt' = [stmt EXCEPT ![s] = x]
  BY DEF Prefetching
<1> HIDE DEF x
<1>3. Emptied(res[s], use) \in Results
  BY <1>0, EmptySeq DEF Emptied, Results
<1>4. res' \in [AllStmts -> Results] /\ \A t \in AllStmts \ {s} : res'[t] = res[t]
  BY <1>0, <1>3, ResSet DEF Types, Prefetching
<1> DEFINE c == Read(op, s, "result")
<1>5. c \in Reads /\ c.s = s /\ c.op = op
  BY <1>0, CallTypes DEF Ops, Read, NoCall
<1>6. call' = [c EXCEPT !.rowset = TRUE]
  BY DEF Prefetching
<1> HIDE DEF c
<1>7. call' \in Reads /\ call'.s = s /\ call'.op = op
  BY <1>5, <1>6 DEF Reads
<1> QED BY <1>1, <1>2, <1>4, <1>7, GoesOnReading DEF Ops

\* The cursor moves, or only the way of consuming is noted.
LEMMA CursorTypes ==
  ASSUME Types, NEW s \in Stmts, NEW n \in Nat, NEW use \in {"one", "iter", "over"},
         res' = [res EXCEPT ![s] = [res[s] EXCEPT !.row_cursor = n, !.use = use]],
         Idle, stmt[s].exec # 0,
         UNCHANGED <<up, serverVars, line, batch, raised, broken, stmt, call>>,
         got' \in [Executions -> Seq(Rows)]
  PROVE  Types'
<1>0. s \in AllStmts /\ res[s] \in Results
  BY DEF AllStmts, Types, GotTyped
<1> DEFINE x == [res[s] EXCEPT !.row_cursor = n, !.use = use]
<1>1. x \in Results
  BY <1>0 DEF Results
<1> HIDE DEF x
<1>2. res' \in [AllStmts -> Results] /\ \A t \in AllStmts \ {s} : res'[t] = res[t]
  BY <1>0, <1>1, ResSet DEF Types, x
<1> QED BY <1>2, TakesWhatIsHere

LEMMA FetchTypes ==
  ASSUME Types, NEW s \in Stmts,
         fetchOne(s) \/ fetchAll(s) \/ iterator_rewind(s) \/ iterator_next(s)
  PROVE  Types'
<1>0. s \in AllStmts /\ res[s] \in Results
  BY DEF AllStmts, Types, GotTyped
<1>1. /\ Idle /\ stmt[s].exec # 0
      /\ UNCHANGED <<up, serverVars, line, batch, raised, broken>>
  BY <1>0 DEF Types, Untouched, fetchOne, fetchAll, iterator_rewind, iterator_next, Usable, readVars
<1>2. /\ res \in [AllStmts -> Results] /\ got \in [Executions -> Seq(Rows)]
      /\ res[s].rows \in Seq(Rows) /\ res[s].row_cursor \in Nat /\ res[s].row_cursor + 1 \in Nat
      /\ Len(res[s].rows) \in Nat
  BY <1>0 DEF Types, GotTyped, Results
<1>3. ASSUME HasCurrent(s) PROVE <<Current(s)>> \in Seq(Rows)
  <2>1. res[s].row_cursor + 1 \in 1..Len(res[s].rows)
    BY <1>2, <1>3 DEF HasCurrent
  <2>2. Current(s) \in Rows
    BY <1>2, <2>1, ElementOfSeq DEF Current
  <2> QED BY <2>2
<1>4. CASE fetchOne(s)
  <2>1. got' \in [Executions -> Seq(Rows)]
    BY <1>3, <1>4, GiveTyped DEF fetchOne, Types
  <2>2. CASE Prefetching(s, "next", "one")
    BY <1>1, <2>1, <2>2, PrefetchingTypes
  <2>3. CASE /\ res' = [res EXCEPT ![s].row_cursor = @ + 1, ![s].use = "one"]
             /\ UNCHANGED <<stmt, call>>
    <3>1. res' = [res EXCEPT ![s] = [res[s] EXCEPT !.row_cursor = res[s].row_cursor + 1,
                                                   !.use = "one"]]
      BY <2>3
    <3> QED BY <1>1, <1>2, <2>1, <2>3, <3>1, CursorTypes
  <2> QED BY <1>4, <2>2, <2>3 DEF fetchOne
<1>5. CASE iterator_rewind(s)
  <2>1. got' \in [Executions -> Seq(Rows)]
    BY <1>3, <1>5, GiveTyped DEF iterator_rewind, Types
  <2> DEFINE x == [res[s] EXCEPT !.use = "iter"]
  <2>2. x \in Results
    BY <1>0 DEF Results
  <2>3. res' = [res EXCEPT ![s] = x]
    BY <1>5 DEF iterator_rewind
  <2> HIDE DEF x
  <2>4. res' \in [AllStmts -> Results] /\ \A t \in AllStmts \ {s} : res'[t] = res[t]
    BY <1>0, <2>2, <2>3, ResSet DEF Types
  <2> QED BY <1>1, <1>5, <2>1, <2>4, TakesWhatIsHere DEF iterator_rewind, readVars
<1>6. CASE iterator_next(s)
  <2>1. CASE Prefetching(s, "iterNext", "iter") /\ UNCHANGED got
    BY <1>1, <1>2, <2>1, PrefetchingTypes
  <2>2. CASE ~Prefetches(s) /\ UNCHANGED <<stmt, call>>
    <3> DEFINE i == res[s].row_cursor + 2
               more == i <= Len(res[s].rows)
               rows == IF more THEN <<res[s].rows[i]>> ELSE << >>
               use == IF more THEN "iter" ELSE "over"
    <3>1. Give(s, rows)
      BY <1>6, <2>2 DEF iterator_next, Prefetching, Read, NoCall, Idle, Usable
    <3>2. res' = [res EXCEPT ![s].row_cursor = @ + 1, ![s].use = use]
      BY <1>6, <2>2 DEF iterator_next
    <3>3. rows \in Seq(Rows)
      <4>1. CASE more
        <5>1. i \in 1..Len(res[s].rows)
          BY <1>2, <4>1
        <5>2. res[s].rows[i] \in Rows
          BY <1>2, <5>1, ElementOfSeq
        <5> QED BY <4>1, <5>2
      <4>2. CASE ~more
        BY <4>2, EmptySeq
      <4> QED BY <4>1, <4>2
    <3>4. use \in {"one", "iter", "over"}
      OBVIOUS
    <3> HIDE DEF rows, use
    <3>5. got' \in [Executions -> Seq(Rows)]
      BY <3>1, <3>3, GiveTyped DEF Types
    <3>6. res' = [res EXCEPT ![s] = [res[s] EXCEPT !.row_cursor = res[s].row_cursor + 1,
                                                   !.use = use]]
      BY <3>2
    <3> QED BY <1>1, <1>2, <2>2, <3>4, <3>5, <3>6, CursorTypes
  <2> QED BY <1>6, <2>1, <2>2 DEF iterator_next
<1>7. CASE fetchAll(s)
  <2>1. CASE /\ Give(s, res[s].rows) /\ res' = [res EXCEPT ![s].use = "over"]
             /\ UNCHANGED <<stmt, call>>
    <3> DEFINE x == [res[s] EXCEPT !.use = "over"]
    <3>1. got' \in [Executions -> Seq(Rows)]
      BY <1>2, <2>1, GiveTyped DEF Types
    <3>2. x \in Results
      BY <1>0 DEF Results
    <3>3. res' = [res EXCEPT ![s] = x]
      BY <2>1
    <3> HIDE DEF x
    <3>4. res' \in [AllStmts -> Results] /\ \A t \in AllStmts \ {s} : res'[t] = res[t]
      BY <1>0, <3>2, <3>3, ResSet DEF Types
    <3> QED BY <1>1, <2>1, <3>1, <3>4, TakesWhatIsHere
  <2>2. CASE /\ call' = [Read("fetchAll", s, "result") EXCEPT !.rowset = TRUE,
                           !.rows = res[s].rows]
             /\ UNCHANGED <<stmt, got>>
             /\ res' = res \/ res' = [res EXCEPT ![s].use = "past"]
    <3> DEFINE c == Read("fetchAll", s, "result")
    <3>1. c \in Reads /\ c.s = s /\ c.op = "fetchAll"
      BY <1>0, CallTypes DEF Ops, Read, NoCall
    <3>2. call' = [c EXCEPT !.rowset = TRUE, !.rows = res[s].rows]
      BY <2>2
    <3> HIDE DEF c
    <3>3. call' \in Reads /\ call'.s = s /\ call'.op = "fetchAll"
      BY <1>2, <3>1, <3>2 DEF Reads
    <3>4. stmt' = [stmt EXCEPT ![s] = stmt[s]] /\ stmt[s] \in Statements
      BY <1>0, <2>2 DEF Types, StmtTyped
    <3> DEFINE x == [res[s] EXCEPT !.use = "past"]
    <3>5. x \in Results
      BY <1>0 DEF Results
    <3>6. res' = res \/ res' = [res EXCEPT ![s] = x]
      BY <2>2
    <3> HIDE DEF x
    <3>7. res' \in [AllStmts -> Results] /\ \A t \in AllStmts \ {s} : res'[t] = res[t]
      BY <1>0, <1>2, <3>5, <3>6, ResSet DEF Types
    <3> QED BY <1>1, <1>2, <2>2, <3>3, <3>4, <3>7, GoesOnReading DEF Ops
  <2> QED BY <1>7, <2>1, <2>2 DEF fetchAll
<1> QED BY <1>4, <1>5, <1>6, <1>7

LEMMA InitTypes ==
  ASSUME Init
  PROVE  Types
<1>1. ServerTyped
  BY ResultsAssumption, EmptySeq DEF Init, ServerTyped
<1>2. LineTyped
  BY EmptySeq DEF Init, LineTyped
<1>3. /\ stmt = [s \in AllStmts |-> NewStmt] /\ NewStmt.exec = 0 /\ ~NewStmt.send_query_status
      /\ Admin \in AllStmts /\ res = [s \in AllStmts |-> NoResult]
  BY DEF Init, NewStmt, AllStmts
<1>4. StmtTyped
  BY <1>3, StmtTypes DEF StmtTyped, HasLast
<1>5. ReadTyped
  <2>1. call = NoCall /\ NoCall.op = "none" /\ batch = << >>
    BY DEF Init, NoCall
  <2> QED BY <2>1, CallTypes DEF ReadTyped, Idle
<1>6. GotTyped
  BY <1>3, CallTypes, EmptySeq DEF Init, GotTyped
<1>7. Untouched
  <2>1. NoResult.kind = "none" /\ ~NoResult.rowset
    BY DEF NoResult
  <2> QED BY <1>3, <2>1 DEF Untouched
<1> QED BY <1>1, <1>2, <1>4, <1>5, <1>6, <1>7 DEF Types

\* A step of any kind.
LEMMA NextTypes ==
  ASSUME Types, [Next]_vars
  PROVE  Types'
<1>1. CASE Server \/ ConnectionLost
  BY <1>1, ServerTypes
<1>2. CASE receive
  BY <1>2, receiveTypes
<1>3. CASE Process
  BY <1>3, ProcessTypes
<1>4. CASE Return
  BY <1>4, ReturnTypes
<1>5. CASE Application
  BY <1>5, executeTypes, admin_queryTypes, FurtherReadTypes, FetchTypes DEF Application
<1>6. CASE UNCHANGED vars
  BY <1>6 DEF vars, serverVars, readVars, Types, ServerTyped, LineTyped, StmtTyped, HasLast,
              ReadTyped, Idle, Reader, GotTyped, Untouched
<1> QED BY <1>1, <1>2, <1>3, <1>4, <1>5, <1>6 DEF Next

\* The fields of statements, results and the read in progress keep their types, whatever
\* the application calls: the counter of a prefetch that wraps around stays a size_t, and a
\* row that is read is a row the server may have sent.
THEOREM TypeCorrect == Spec => []TypeOK
<1>1. Types => TypeOK
  <2>1. ASSUME Types PROVE todo \in Seq([e : Executions, sets : Nat])
    <3> DEFINE A == [e : Executions, sets : 0..MaxSets]
               B == [e : Executions, sets : Nat]
    <3>1. A \subseteq B /\ todo \in Seq(A)
      BY <2>1, ResultsAssumption DEF Types, ServerTyped
    <3> HIDE DEF A, B
    <3>2. todo \in Seq(B)
      BY <3>1
    <3> QED BY <3>2 DEF B
  <2>2. ASSUME Types PROVE line \in Seq(Messages) /\ batch \in Seq(Messages)
    <3>1. Sent \subseteq Messages /\ line \in Seq(Sent) /\ batch \in Seq(Sent)
      BY <2>2 DEF Sent, Types, LineTyped
    <3> QED BY <3>1
  <2> QED BY <2>1, <2>2 DEF Types, ServerTyped, StmtTyped, ReadTyped, GotTyped, TypeOK
<1> QED BY <1>1, InitTypes, NextTypes, PTL DEF Spec

-----------------------------------------------------------------------------
(***************************************************************************)
(* Paths of messages.                                                      *)
(***************************************************************************)
\* Which phase sends what.
LEMMA SendsAndLeads ==
  /\ Sends("start") = {"META", "NOTICE", "ERROR"}
  /\ Sends("rows") = {"ROW", "MORE", "DONE", "ERROR"}
  /\ Sends("done") = {"NOTICE"} /\ Sends("noticed") = {"OK"} /\ Sends("end") = {}
  /\ Leads("META") = "rows" /\ Leads("ROW") = "rows" /\ Leads("MORE") = "start"
  /\ Leads("DONE") = "done" /\ Leads("NOTICE") = "noticed"
  /\ Leads("OK") = "end" /\ Leads("ERROR") = "end"
  /\ \A t : Leads(t) \in Phases
BY DEF Sends, Leads, Phases

LEMMA EmptyIs ==
  ASSUME NEW S, NEW q \in Seq(S)
  PROVE  q = << >> <=> Len(q) = 0
OBVIOUS

LEMMA EmptyPath ==
  ASSUME NEW p
  PROVE  Path(p, << >>, p) /\ \A q : Path(p, << >>, q) => p = q
BY EmptySeq DEF Path

\* The end of a path grows ...
LEMMA PathGrows ==
  ASSUME NEW p, NEW q, NEW ms \in Seq(Sent), NEW m \in Sent, Path(p, ms, q), m.type \in Sends(q)
  PROVE  Path(p, Append(ms, m), Leads(m.type))
<1> DEFINE ns == Append(ms, m)
<1>1. /\ ns \in Seq(Sent) /\ Len(ns) = Len(ms) + 1 /\ ns[Len(ms) + 1] = m /\ ns # << >>
      /\ \A k \in 1..Len(ms) : ns[k] = ms[k]
  BY AppendElements
<1>2. Len(ms) \in Nat
  OBVIOUS
<1> HIDE DEF ns
<1>3. ns[1].type \in Sends(p)
  <2>1. CASE ms = << >>
    <3>1. p = q /\ ns[1] = m
      BY <1>1, <2>1 DEF Path
    <3> QED BY <3>1
  <2>2. CASE ms # << >>
    <3>1. Len(ms) > 0
      BY <2>2
    <3>2. ns[1] = ms[1]
      BY <1>1, <1>2, <3>1
    <3> QED BY <2>2, <3>2 DEF Path
  <2> QED BY <2>1, <2>2
<1>4. ASSUME NEW i \in 1..(Len(ns) - 1) PROVE ns[i + 1].type \in Sends(Leads(ns[i].type))
  <2>1. i \in 1..Len(ms) /\ ns[i] = ms[i]
    BY <1>1, <1>2
  <2>2. CASE i = Len(ms)
    <3>1. ms # << >> /\ Leads(ms[Len(ms)].type) = q
      BY <2>1, <2>2 DEF Path
    <3> QED BY <1>1, <2>1, <2>2, <3>1
  <2>3. CASE i # Len(ms)
    <3>1. i \in 1..(Len(ms) - 1) /\ i + 1 \in 1..Len(ms)
      BY <1>2, <2>1, <2>3
    <3>2. ns[i + 1] = ms[i + 1]
      BY <1>1, <3>1
    <3> QED BY <2>1, <3>1, <3>2 DEF Path
  <2> QED BY <2>2, <2>3
<1>5. Leads(ns[Len(ns)].type) = Leads(m.type)
  BY <1>1
<1>6. Path(p, ns, Leads(m.type))
  BY <1>1, <1>3, <1>4, <1>5 DEF Path
<1> QED BY <1>6 DEF ns

\* ... its beginning is walked, ...
LEMMA PathWalked ==
  ASSUME NEW p, NEW q, NEW ms \in Seq(Sent), Path(p, ms, q), ms # << >>
  PROVE  ms[1].type \in Sends(p) /\ Path(Leads(ms[1].type), Tail(ms), q)
<1> DEFINE ns == Tail(ms)
<1>1. /\ ns \in Seq(Sent) /\ Len(ns) = Len(ms) - 1 /\ Len(ms) \in Nat /\ Len(ms) > 0
      /\ \A k \in 1..(Len(ms) - 1) : ns[k] = ms[k + 1]
  BY TailElements
<1>2. ms[1].type \in Sends(p) /\ Leads(ms[Len(ms)].type) = q
  BY DEF Path
<1>3. \A i \in 1..(Len(ms) - 1) : ms[i + 1].type \in Sends(Leads(ms[i].type))
  BY DEF Path
<1> HIDE DEF ns
<1>4. ns = << >> <=> Len(ms) = 1
  BY <1>1, EmptyIs
<1>5. CASE Len(ms) = 1
  <2>1. ns = << >> /\ q = Leads(ms[1].type)
    BY <1>2, <1>4, <1>5
  <2>2. Path(q, ns, q)
    BY <2>1, EmptyPath
  <2> QED BY <1>2, <2>1, <2>2 DEF ns
<1>6. CASE Len(ms) # 1
  <2>1. ns # << >> /\ 1 \in 1..(Len(ms) - 1) /\ Len(ns) \in 1..(Len(ms) - 1)
    BY <1>1, <1>4, <1>6
  <2>2. ns[1] = ms[2] /\ ns[Len(ns)] = ms[Len(ms)]
    BY <1>1, <2>1
  <2>3. ns[1].type \in Sends(Leads(ms[1].type)) /\ Leads(ns[Len(ns)].type) = q
    BY <1>2, <1>3, <2>1, <2>2
  <2>4. ASSUME NEW i \in 1..(Len(ns) - 1) PROVE ns[i + 1].type \in Sends(Leads(ns[i].type))
    <3>1. i \in 1..(Len(ms) - 1) /\ i + 1 \in 1..(Len(ms) - 1)
      BY <1>1
    <3>2. ns[i] = ms[i + 1] /\ ns[i + 1] = ms[(i + 1) + 1]
      BY <1>1, <3>1
    <3> QED BY <1>3, <3>1, <3>2
  <2>5. Path(Leads(ms[1].type), ns, q)
    BY <2>1, <2>3, <2>4 DEF Path
  <2> QED BY <1>2, <2>5 DEF ns
<1> QED BY <1>5, <1>6

\* ... and a frame is a part of it.
LEMMA PathCut ==
  ASSUME NEW p, NEW r, NEW ms \in Seq(Sent), Path(p, ms, r), NEW k \in 1..Len(ms)
  PROVE  /\ Path(p, SubSeq(ms, 1, k), Leads(ms[k].type))
         /\ Path(Leads(ms[k].type), SubSeq(ms, k + 1, Len(ms)), r)
<1> DEFINE as == SubSeq(ms, 1, k)
           bs == SubSeq(ms, k + 1, Len(ms))
           q == Leads(ms[k].type)
<1>0. k \in 0..Len(ms) /\ Len(ms) \in Nat /\ k \in Nat /\ k > 0 /\ k <= Len(ms) /\ ms # << >>
  OBVIOUS
<1>1. /\ as \in Seq(Sent) /\ Len(as) = k
      /\ \A i \in 1..k : as[i] = ms[i]
      /\ bs \in Seq(Sent) /\ Len(bs) = Len(ms) - k
      /\ \A i \in 1..(Len(ms) - k) : bs[i] = ms[k + i]
  BY <1>0, CutAt
<1>2. \A i \in 1..(Len(ms) - 1) : ms[i + 1].type \in Sends(Leads(ms[i].type))
  BY DEF Path
<1>3. ms[1].type \in Sends(p) /\ Leads(ms[Len(ms)].type) = r
  BY <1>0 DEF Path
<1> HIDE DEF as, bs, q
<1>4. as # << >> /\ (bs = << >> <=> k = Len(ms))
  <2>1. (as = << >> <=> Len(as) = 0) /\ (bs = << >> <=> Len(bs) = 0)
    BY <1>1, EmptyIs
  <2>2. Len(as) # 0 /\ (Len(bs) = 0 <=> k = Len(ms))
    BY <1>0, <1>1
  <2> QED BY <2>1, <2>2
<1>5. Path(p, as, q)
  <2>1. as[1] = ms[1] /\ as[Len(as)] = ms[k]
    <3>1. 1 \in 1..k /\ k \in 1..k
      BY <1>0
    <3> QED BY <1>1, <3>1
  <2>2. ASSUME NEW i \in 1..(Len(as) - 1) PROVE as[i + 1].type \in Sends(Leads(as[i].type))
    <3>1. i \in 1..k /\ i + 1 \in 1..k /\ i \in 1..(Len(ms) - 1)
      BY <1>0, <1>1
    <3>2. as[i] = ms[i] /\ as[i + 1] = ms[i + 1]
      BY <1>1, <3>1
    <3> QED BY <1>2, <3>1, <3>2
  <2> QED BY <1>3, <1>4, <2>1, <2>2 DEF Path, q
<1>6. CASE k = Len(ms)
  <2>1. bs = << >> /\ q = r
    BY <1>3, <1>4, <1>6 DEF q
  <2>2. Path(q, bs, r)
    BY <2>1, EmptyPath
  <2> QED BY <1>5, <2>2 DEF as, bs, q
<1>7. CASE k # Len(ms)
  <2>1. /\ bs # << >> /\ 1 \in 1..(Len(ms) - k) /\ Len(bs) \in 1..(Len(ms) - k)
        /\ k \in 1..(Len(ms) - 1) /\ k + Len(bs) = Len(ms)
    BY <1>0, <1>1, <1>4, <1>7
  <2>2. bs[1] = ms[k + 1] /\ bs[Len(bs)] = ms[Len(ms)]
    BY <1>1, <2>1
  <2>3. bs[1].type \in Sends(q) /\ Leads(bs[Len(bs)].type) = r
    BY <1>2, <1>3, <2>1, <2>2 DEF q
  <2>4. ASSUME NEW i \in 1..(Len(bs) - 1) PROVE bs[i + 1].type \in Sends(Leads(bs[i].type))
    <3>1. /\ i \in 1..(Len(ms) - k) /\ i + 1 \in 1..(Len(ms) - k) /\ k + i \in 1..(Len(ms) - 1)
          /\ k + (i + 1) = (k + i) + 1
      BY <1>0, <1>1
    <3>2. bs[i] = ms[k + i] /\ bs[i + 1] = ms[(k + i) + 1]
      BY <1>1, <3>1
    <3> QED BY <1>2, <3>1, <3>2
  <2>5. Path(q, bs, r)
    BY <2>1, <2>3, <2>4 DEF Path
  <2> QED BY <1>5, <2>5 DEF as, bs, q
<1> QED BY <1>6, <1>7

\* Nothing comes behind the end.
LEMMA PathFromEnd ==
  ASSUME NEW ms, NEW q, Path("end", ms, q)
  PROVE  ms = << >> /\ q = "end"
BY SendsAndLeads DEF Path

-----------------------------------------------------------------------------
(***************************************************************************)
(* The server and the line.                                                *)
(***************************************************************************)
LEMMA LineFacts ==
  ASSUME Types
  PROVE  /\ line \in Seq(Sent) /\ batch \in Seq(Sent)
         /\ todo \in Seq([e : Executions, sets : 0..MaxSets])
         /\ phase \in Phases \ {"end"} /\ ServerAt \in Phases
         /\ (ServerAt = "end" <=> todo = << >>)
BY DEF Types, LineTyped, ServerTyped, ServerAt, Phases

\* What reading is does not depend on the server.
LEMMA SameReader ==
  ASSUME UNCHANGED <<stmt, call, raised>>
  PROVE  /\ Idle' <=> Idle
         /\ Reader' = Reader /\ LastExec' = LastExec
         /\ \A p : (Reading(p)' <=> Reading(p)) /\ (Resting(p)' <=> Resting(p))
BY DEF Idle, Reader, LastExec, Reading, Resting, InSet, AtStart, NoMore

\* A message the phase allows makes the path longer.
LEMMA SendStream ==
  ASSUME Types, Stream, NEW m \in Sent, Send(m), m.type \in Sends(ServerAt),
         ServerAt' = Leads(m.type)
  PROVE  Stream'
<1>1. SUFFICES ASSUME up
               PROVE  \E p, q \in Phases :
                        /\ IF Idle THEN Resting(p) ELSE Reading(p)
                        /\ Path(p, batch, q) /\ Path(q, line', ServerAt')
  BY SameReader DEF Stream, Send, readVars
<1>2. PICK p, q \in Phases : /\ IF Idle THEN Resting(p) ELSE Reading(p)
                             /\ Path(p, batch, q) /\ Path(q, line, ServerAt)
  BY <1>1 DEF Stream
<1>3. Path(q, line', ServerAt')
  BY <1>2, LineFacts, PathGrows DEF Send
<1> QED BY <1>2, <1>3

\* The rest of the invariant does not speak of the server.
LEMMA SendKeeps ==
  ASSUME IInv, NEW m \in Sent, Send(m)
  PROVE  /\ OneReader' /\ OthersDone' /\ OneForwardResult' /\ ResultsPromise' /\ ~broken'
<1>1. UNCHANGED <<up, stmt, res, call, raised, broken>>
  BY DEF Send, readVars
<1> QED BY <1>1, SameReader DEF IInv, OneReader, OthersDone, OneForwardResult, ResultsPromise,
                              Idle, Reader, NoMore

LEMMA OneAnswer ==
  ASSUME Types, Tidy, todo # << >>
  PROVE  Tail(todo) = << >> /\ Head(todo) = todo[1]
<1> DEFINE S == [e : Executions, sets : 0..MaxSets]
<1>1. todo \in Seq(S) /\ Len(todo) <= 1
  BY LineFacts DEF Tidy
<1> HIDE DEF S
<1>2. Tail(todo) \in Seq(S) /\ Len(Tail(todo)) = Len(todo) - 1 /\ Len(todo) \in Nat /\ Len(todo) > 0
      /\ Head(todo) = todo[1]
  BY <1>1, TailElements
<1>3. Len(Tail(todo)) = 0
  BY <1>1, <1>2
<1> QED BY <1>2, <1>3, EmptyIs

\* A message that goes on with the answer.
LEMMA AnswerGoesOn ==
  ASSUME IInv, Types', NEW m \in Sent, Send(m), Answering, todo' = todo,
         m.type \in Sends(phase), phase' = Leads(m.type),
         call.op = "query" => m.type = "NOTICE" /\ pos' = pos
  PROVE  IInv'
<1>0. todo # << >> /\ UNCHANGED <<up, call, batch, stmt>>
  BY DEF Answering, Send, readVars
<1>1. ServerAt = phase /\ ServerAt' = phase'
  BY <1>0 DEF ServerAt
<1>2. Stream'
  BY <1>1, SendStream DEF IInv
<1>3. Tidy'
  BY <1>0 DEF IInv, Tidy, Answering
<1>4. QueryHasNoSets'
  <2> SUFFICES ASSUME call.op = "query"
               PROVE  /\ phase' \in {"start", "noticed"} /\ pos'.set = 0
                      /\ \A i \in 1..Len(line') : line'[i].type \in {"NOTICE", "OK", "ERROR"}
    BY <1>0 DEF IInv, QueryHasNoSets, Reader, NoMore
  <2>1. phase' = "noticed" /\ pos'.set = 0
    BY SendsAndLeads DEF IInv, QueryHasNoSets
  <2>2. /\ line \in Seq(Sent) /\ line' = Append(line, m)
        /\ \A i \in 1..Len(line) : line[i].type \in {"NOTICE", "OK", "ERROR"}
    BY LineFacts DEF IInv, QueryHasNoSets, Send
  <2> QED BY <2>1, <2>2, AppendElements
<1> QED BY <1>2, <1>3, <1>4, SendKeeps DEF IInv

\* A message that ends it.
LEMMA AnswerIsOver ==
  ASSUME IInv, Types', NEW m \in Sent, Send(m), Answering, AnswerEnds,
         m.type \in Sends(phase), m.type \in {"OK", "ERROR"}
  PROVE  IInv'
<1>0. todo # << >> /\ up /\ UNCHANGED <<up, call, batch, stmt>>
  BY DEF Answering, Send, readVars
<1>1. todo' = << >> /\ phase' = "start" /\ pos'.set = 0
  BY <1>0, OneAnswer DEF IInv, AnswerEnds
<1>2. ServerAt = phase /\ ServerAt' = Leads(m.type)
  BY <1>0, <1>1, SendsAndLeads DEF ServerAt
<1>3. Stream'
  BY <1>2, SendStream DEF IInv
<1>4. Tidy'
  BY <1>0, <1>1 DEF IInv, Tidy
<1>5. QueryHasNoSets'
  <2> SUFFICES ASSUME call.op = "query"
               PROVE  \A i \in 1..Len(line') : line'[i].type \in {"NOTICE", "OK", "ERROR"}
    BY <1>0, <1>1 DEF IInv, QueryHasNoSets, Reader, NoMore
  <2>1. /\ line \in Seq(Sent) /\ line' = Append(line, m)
        /\ \A i \in 1..Len(line) : line[i].type \in {"NOTICE", "OK", "ERROR"}
    BY LineFacts DEF IInv, QueryHasNoSets, Send
  <2> QED BY <2>1, AppendElements
<1> QED BY <1>3, <1>4, <1>5, SendKeeps DEF IInv

LEMMA ServerKeeps ==
  ASSUME IInv, Server
  PROVE  IInv'
<1>0. Types'
  BY ServerTypes DEF IInv
<1>1. \A t \in MessageTypes \ {"ROW"} : Message(t) \in Sent /\ Message(t).type = t
  BY MessageSent DEF Message
<1>2. CASE ServerMeta
  <2>1. call.op # "query"
    <3>1. todo # << >> /\ pos.set < Head(todo).sets
      BY <1>2 DEF ServerMeta, Answering
    <3> QED BY <3>1, OneAnswer DEF IInv, QueryHasNoSets
  <2> QED BY <1>0, <1>1, <1>2, <2>1, AnswerGoesOn, SendsAndLeads DEF ServerMeta, MessageTypes
<1>3. CASE ServerRow
  <2> DEFINE r == Row(Head(todo).e, pos.set, pos.n + 1)
             m == [type |-> "ROW", row |-> r]
  <2>1. Send(m) /\ Answering /\ phase = "rows" /\ phase' = phase /\ todo' = todo
    BY <1>3 DEF ServerRow
  <2>2. m.type = "ROW"
    OBVIOUS
  <2>3. m \in Sent
    <3>1. todo # << >> /\ budget > 0 /\ Head(todo) = todo[1]
      BY <1>3, OneAnswer DEF ServerRow, Answering, IInv
    <3> DEFINE S == [e : Executions, sets : 0..MaxSets]
    <3>2. todo \in Seq(S)
      BY LineFacts DEF IInv
    <3> HIDE DEF S
    <3>3. Head(todo) \in S
      BY <3>1, <3>2, TailElements
    <3>4. Head(todo).e \in Executions
      BY <3>3 DEF S
    <3>5. pos.set \in 1..MaxSets /\ pos.n + 1 \in 1..MaxRows
      BY <2>1, <3>1, ResultsAssumption DEF IInv, Types, ServerTyped
    <3> QED BY <3>4, <3>5 DEF Row, Rows, Sent, Messages, MessageTypes
  <2>4. call.op # "query"
    BY <2>1 DEF IInv, QueryHasNoSets
  <2> HIDE DEF m
  <2> QED BY <1>0, <2>1, <2>2, <2>3, <2>4, AnswerGoesOn, SendsAndLeads
<1>4. CASE ServerSetDone
  <2>1. call.op # "query"
    BY <1>4 DEF ServerSetDone, IInv, QueryHasNoSets
  <2> QED BY <1>0, <1>1, <1>4, <2>1, AnswerGoesOn, SendsAndLeads DEF ServerSetDone, MessageTypes
<1>5. CASE ServerNotice
  BY <1>0, <1>1, <1>5, AnswerGoesOn, SendsAndLeads DEF ServerNotice, MessageTypes
<1>6. CASE ServerOk
  BY <1>0, <1>1, <1>6, AnswerIsOver, SendsAndLeads DEF ServerOk, MessageTypes
<1>7. CASE ServerError
  BY <1>0, <1>1, <1>7, AnswerIsOver, SendsAndLeads DEF ServerError, MessageTypes
<1> QED BY <1>2, <1>3, <1>4, <1>5, <1>6, <1>7 DEF Server

LEMMA ConnectionLostKeeps ==
  ASSUME IInv, ConnectionLost
  PROVE  IInv'
<1>0. Types'
  BY ServerTypes DEF IInv
<1>1. ~up' /\ line' = << >> /\ todo' = << >> /\ batch' = << >> /\ phase' = "start" /\ pos'.set = 0
      /\ UNCHANGED <<stmt, res, call, raised, broken>>
  BY DEF ConnectionLost, Waiting, readVars
<1>2. Len(todo') = 0 /\ Len(batch') = 0 /\ Len(line') = 0
  BY <1>1, EmptySeq
<1>3. Stream' /\ OthersDone' /\ ResultsPromise'
  BY <1>1 DEF Stream, OthersDone, ResultsPromise
<1>4. Tidy'
  BY <1>1, <1>2 DEF Tidy
<1>5. OneReader' /\ OneForwardResult' /\ ~broken'
  BY <1>1, SameReader DEF IInv, OneReader, OneForwardResult, Idle, Reader
<1>6. QueryHasNoSets'
  BY <1>1, <1>2 DEF IInv, QueryHasNoSets, Reader, NoMore
<1> QED BY <1>0, <1>3, <1>4, <1>5, <1>6 DEF IInv

LEMMA receiveKeeps ==
  ASSUME IInv, receive
  PROVE  IInv'
<1>0. Types'
  BY receiveTypes DEF IInv
<1>1. /\ ~Idle /\ batch = << >> /\ call.ret = "AGAIN"
      /\ UNCHANGED <<up, serverVars, stmt, res, got, raised, broken>>
  BY DEF receive, Waiting
<1>2. ASSUME NEW k \in 1..Len(line), IsFrame(SubSeq(line, 1, k)), batch' = SubSeq(line, 1, k),
             line' = SubSeq(line, k + 1, Len(line)), call' = call
      PROVE  IInv'
  <2>0. line \in Seq(Sent) /\ k \in 0..Len(line) /\ Len(line) \in Nat
    BY LineFacts DEF IInv
  <2>1. /\ Len(batch') = k /\ \A i \in 1..k : batch'[i] = line[i]
        /\ Len(line') = Len(line) - k /\ \A i \in 1..(Len(line) - k) : line'[i] = line[k + i]
    BY <1>2, <2>0, CutAt
  <2>2. UNCHANGED <<ServerAt, Idle, Reader>>
    BY <1>1, <1>2 DEF ServerAt, serverVars, Idle, Reader
  <2>3. Stream'
    <3> SUFFICES ASSUME up
                 PROVE  \E p, q \in Phases :
                          Reading(p) /\ Path(p, batch', q) /\ Path(q, line', ServerAt)
      BY <1>1, <1>2, <2>2, SameReader DEF Stream
    <3>1. PICK p, q \in Phases :
            Reading(p) /\ Path(p, batch, q) /\ Path(q, line, ServerAt)
      BY <1>1 DEF IInv, Stream
    <3>2. p = q
      BY <1>1, <3>1, EmptyPath
    <3>3. /\ Path(p, batch', Leads(line[k].type))
          /\ Path(Leads(line[k].type), line', ServerAt)
      BY <1>2, <2>0, <3>1, <3>2, PathCut
    <3> QED BY <3>1, <3>3, SendsAndLeads
  <2>4. Tidy'
    <3>1. \A i \in 1..Len(batch') : batch'[i].type = batch'[1].type
      BY <1>2 DEF IsFrame, combine_mixed_messages
    <3>2. up
      BY <1>2 DEF IInv, Tidy
    <3> QED BY <1>1, <1>2, <3>1, <3>2 DEF IInv, Tidy, serverVars
  <2>5. OneReader' /\ OthersDone' /\ OneForwardResult' /\ ResultsPromise' /\ ~broken'
    BY <1>1, <1>2, SameReader DEF IInv, OneReader, OthersDone, OneForwardResult, ResultsPromise,
                                  Idle, Reader, NoMore
  <2>6. QueryHasNoSets'
    <3> SUFFICES ASSUME call.op = "query"
                 PROVE  /\ \A i \in 1..Len(line') : line'[i].type \in {"NOTICE", "OK", "ERROR"}
                        /\ \A i \in 1..Len(batch') : batch'[i].type \in {"NOTICE", "OK", "ERROR"}
      BY <1>1, <1>2, <2>2 DEF IInv, QueryHasNoSets, serverVars, NoMore
    <3>1. \A i \in 1..Len(line) : line[i].type \in {"NOTICE", "OK", "ERROR"}
      BY DEF IInv, QueryHasNoSets
    <3>2. /\ \A i \in 1..(Len(line) - k) : k + i \in 1..Len(line)
          /\ \A i \in 1..k : i \in 1..Len(line)
      BY <2>0
    <3> QED BY <2>1, <3>1, <3>2
  <2> QED BY <1>0, <2>3, <2>4, <2>5, <2>6 DEF IInv
<1>3. ASSUME ~up, call' = [call EXCEPT !.ret = "FAIL"], UNCHANGED <<batch, line>>
      PROVE  IInv'
  <2>1. call'.op = call.op /\ call'.s = call.s
    BY <1>3, RetTyped DEF IInv
  <2>2. UNCHANGED <<Idle, Reader, LastExec>>
    BY <1>1, <2>1 DEF Idle, Reader, LastExec
  <2>3. Stream' /\ OthersDone' /\ ResultsPromise'
    BY <1>1, <1>3 DEF Stream, OthersDone, ResultsPromise
  <2>4. Tidy' /\ OneReader' /\ OneForwardResult' /\ ~broken'
    BY <1>1, <1>3, <2>1, <2>2 DEF IInv, Tidy, OneReader, OneForwardResult, serverVars
  <2>5. QueryHasNoSets'
    BY <1>1, <1>3, <2>1, <2>2 DEF IInv, QueryHasNoSets, NoMore, serverVars
  <2> QED BY <1>0, <2>3, <2>4, <2>5 DEF IInv
<1> QED BY <1>1, <1>2, <1>3 DEF receive
-----------------------------------------------------------------------------
(***************************************************************************)
(* A message is processed.                                                 *)
(***************************************************************************)
\* The next message and the flags of the reader fit together.
LEMMA MessageFits ==
  ASSUME IInv, batch # << >>
  PROVE  \E p \in Phases :
           /\ Reading(p) /\ batch[1].type \in Sends(p)
           /\ \E q \in Phases :
                Path(Leads(batch[1].type), Tail(batch), q) /\ Path(q, line, ServerAt)
           /\ p = "start" => NoMore(Reader) /\ Reader.field_count = 0
           /\ p = "rows" => InSet(Reader)
           /\ p \in {"done", "noticed"} => NoMore(Reader)
           /\ Reader.exec \notin raised
<1>0. up /\ ~Idle /\ batch \in Seq(Sent)
  BY LineFacts DEF IInv, Tidy, Types, ReadTyped
<1>1. PICK p, q \in Phases : Reading(p) /\ Path(p, batch, q) /\ Path(q, line, ServerAt)
  BY <1>0 DEF IInv, Stream
<1>2. batch[1].type \in Sends(p) /\ Path(Leads(batch[1].type), Tail(batch), q)
  BY <1>0, <1>1, PathWalked
<1>3. call.ret # "AGAIN" => batch[1].type = "ROW"
  BY DEF IInv, Tidy
<1>4. call.ret \in {"AGAIN", "PASS", "FAIL"}
  BY ReaderIs DEF IInv, Reads
<1>5. p # "end"
  BY <1>2, SendsAndLeads
<1>6. call.ret # "FAIL"
  BY <1>1, <1>5 DEF Reading
<1>7. call.ret = "PASS" => p = "rows" /\ InSet(Reader)
  BY <1>1, <1>2, <1>3, <1>5, SendsAndLeads DEF Reading
<1>8. call.ret = "AGAIN" => /\ p = "start" => NoMore(Reader) /\ Reader.field_count = 0
                            /\ p = "rows" => InSet(Reader)
                            /\ p \in {"done", "noticed"} => NoMore(Reader)
  BY <1>1 DEF Reading
<1> QED BY <1>1, <1>2, <1>4, <1>6, <1>7, <1>8 DEF Reading

\* A message changes the reader and nobody else.
LEMMA MessageKeeps ==
  ASSUME IInv, Types', batch # << >>, Processed, call'.op = call.op, call'.s = call.s,
         NEW q \in Phases, Path(Leads(batch[1].type), Tail(batch), q), Path(q, line, ServerAt),
         NEW x \in Statements, stmt' = [stmt EXCEPT ![call.s] = x],
         x.exec = Reader.exec, x.partial_read_started = Reader.partial_read_started,
         NEW r \in Phases, r = Leads(batch[1].type), Reading(r)',
         raised' \subseteq raised \cup {Reader.exec}, raised \subseteq raised',
         ~broken', call.op = "query" => NoMore(x)
  PROVE  IInv'
<1>0. /\ up /\ ~Idle /\ batch \in Seq(Sent) /\ call.s \in AllStmts
      /\ UNCHANGED <<up, todo, phase, pos, line, res, Idle, ServerAt>> /\ batch' = Tail(batch)
  BY LineFacts, ReaderIs DEF IInv, Tidy, Types, ReadTyped, Processed, serverVars, Idle, ServerAt
<1>1. /\ stmt'[call.s] = x /\ \A t \in AllStmts \ {call.s} : stmt'[t] = stmt[t]
      /\ LastExec' = LastExec /\ \A t \in AllStmts : stmt'[t].exec = stmt[t].exec
  BY <1>0, StmtSet, StmtRead DEF IInv, Types, Reader
<1>2. Reader' = x /\ Reader.exec = LastExec /\ Reader.exec # 0
  BY <1>0, <1>1 DEF Reader, IInv, OneReader, Types, ReadTyped, Executions
<1>3. Stream'
  BY <1>0 DEF Stream
<1>4. /\ \A i \in 1..Len(batch) : batch[i].type = batch[1].type
      /\ Len(batch') = Len(batch) - 1 /\ Len(batch) \in Nat /\ batch' \in Seq(Sent)
      /\ \A i \in 1..(Len(batch) - 1) : batch'[i] = batch[i + 1]
  BY <1>0, TailElements DEF IInv, Tidy
<1>5. Tidy'
  <2>1. ASSUME NEW i \in 1..Len(batch') PROVE batch'[i].type = batch[1].type
    <3>1. i \in 1..(Len(batch) - 1) /\ i + 1 \in 1..Len(batch)
      BY <1>4
    <3> QED BY <1>4, <3>1
  <2>2. \A i \in 1..Len(batch') : batch'[i].type = batch'[1].type
    <3>1. \A i \in 1..Len(batch') : 1 \in 1..Len(batch')
      BY <1>4
    <3> QED BY <2>1, <3>1
  <2>3. ASSUME batch' # << >> PROVE batch'[1].type = "ROW"
    <3>1. 1 \in 1..Len(batch')
      BY <1>4, <2>3, EmptyIs
    <3>2. batch'[1].type \in Sends(Leads(batch[1].type)) /\ batch'[1].type = batch[1].type
      BY <1>0, <2>1, <2>3, <3>1 DEF Path
    <3>3. batch[1] \in Sent
      BY <1>0, TailElements
    <3>4. batch[1].type \in MessageTypes
      BY <3>3 DEF Sent, Messages
    <3> QED BY <3>2, <3>4, SendsAndLeads DEF MessageTypes
  <2> QED BY <1>0, <2>2, <2>3 DEF IInv, Tidy
<1>6. OneReader'
  <2>1. \A s, t \in AllStmts : stmt'[s].exec = stmt'[t].exec /\ stmt'[s].exec # 0 => s = t
    BY <1>1 DEF IInv, OneReader
  <2>2. \A e \in raised' : e <= LastExec'
    <3>1. LastExec <= LastExec
      BY LastIs, ResultsAssumption DEF IInv, Types
    <3> QED BY <1>1, <1>2, <3>1 DEF IInv, OneReader
  <2> QED BY <1>0, <1>1, <1>2, <2>1, <2>2 DEF OneReader
<1>7. OthersDone'
  <2> SUFFICES ASSUME NEW s \in AllStmts, stmt'[s].exec # LastExec' \/ stmt'[s].exec = 0
               PROVE  stmt'[s].exec \in raised' \/ (~stmt'[s].unread /\ NoMore(stmt'[s]))
    BY DEF OthersDone
  <2>1. s # call.s /\ stmt'[s] = stmt[s]
    BY <1>1, <1>2
  <2> QED BY <1>0, <1>1, <2>1 DEF IInv, OthersDone
<1>8. OneForwardResult'
  <2>1. \A s \in AllStmts : stmt'[s].partial_read_started = stmt[s].partial_read_started
    BY <1>1 DEF Reader
  <2> QED BY <1>0, <1>2, <2>1 DEF IInv, OneForwardResult
<1>9. ResultsPromise'
  BY <1>0, <1>1 DEF IInv, ResultsPromise
<1>10. QueryHasNoSets'
  <2> SUFFICES ASSUME call.op = "query"
               PROVE  \A i \in 1..Len(batch') : batch'[i].type \in {"NOTICE", "OK", "ERROR"}
    BY <1>0, <1>2 DEF IInv, QueryHasNoSets
  <2>1. \A i \in 1..(Len(batch) - 1) : i + 1 \in 1..Len(batch)
    BY <1>4
  <2> QED BY <1>4, <2>1 DEF IInv, QueryHasNoSets
<1> QED BY <1>3, <1>5, <1>6, <1>7, <1>8, <1>9, <1>10 DEF IInv

LEMMA ProcessKeeps ==
  ASSUME IInv, Process
  PROVE  IInv'
<1> DEFINE t == batch[1].type
<1>0. call.s \in AllStmts /\ Reader \in Statements /\ call \in Reads /\ Types'
  BY ReaderIs, ProcessTypes DEF IInv
<1>1. batch # << >> /\ Processed
  BY DEF Process, Processing, on_COLUMN_META, on_RSET_ROW, on_RSET_FETCH_DONE,
         on_RSET_FETCH_DONE_MORE_RSETS, on_STMT_EXECUTE_OK, on_ERROR, on_NOTICE
<1>2. PICK p \in Phases :
        /\ Reading(p) /\ t \in Sends(p)
        /\ \E q \in Phases : Path(Leads(t), Tail(batch), q) /\ Path(q, line, ServerAt)
        /\ p = "start" => NoMore(Reader) /\ Reader.field_count = 0
        /\ p = "rows" => InSet(Reader)
        /\ p \in {"done", "noticed"} => NoMore(Reader)
        /\ Reader.exec \notin raised
  BY <1>1, MessageFits
<1>3. ~Reader.unread /\ Head(batch) = batch[1] /\ ~broken
  BY <1>1, <1>2, LineFacts, TailElements DEF Reading, IInv
<1>4. call.op = "query" => t \in {"NOTICE", "OK", "ERROR"} /\ NoMore(Reader)
  <2>1. 1 \in 1..Len(batch)
    BY <1>1, LineFacts, TailElements DEF IInv
  <2> QED BY <2>1 DEF IInv, QueryHasNoSets
<1>5. \A u \in Phases : u = "start" \/ u = "rows" \/ u = "done" \/ u = "noticed" \/ u = "end"
  BY DEF Phases
<1>6. ASSUME NEW ret \in {"AGAIN", "PASS", "FAIL"}, call'.ret = ret, call'.op = call.op,
             call'.s = call.s, NEW x \in Statements, stmt' = [stmt EXCEPT ![call.s] = x],
             x.exec = Reader.exec, x.partial_read_started = Reader.partial_read_started,
             x.unread = Reader.unread,
             raised' = IF ret = "FAIL" THEN raised \cup {Reader.exec} ELSE raised,
             ret = "AGAIN" => \/ Leads(t) = "rows" /\ InSet(x)
                              \/ Leads(t) \in {"done", "noticed"} /\ NoMore(x),
             ret = "PASS" => \/ Leads(t) = "end" /\ NoMore(x)
                             \/ Leads(t) = "start" /\ AtStart(x)
                             \/ Leads(t) = "rows" /\ InSet(x) /\ x.partial_read_started,
             ret = "FAIL" => Leads(t) = "end",
             ~broken', call.op = "query" => NoMore(x)
      PROVE  IInv'
  <2>1. Reader' = x
    BY <1>0, <1>6, StmtSet DEF IInv, Types, Reader
  <2>2. PICK r \in Phases : r = Leads(t)
    BY SendsAndLeads
  <2>4. Reading(r)'
    BY <1>2, <1>3, <1>6, <2>1, <2>2 DEF Reading
  <2>3. raised' \subseteq raised \cup {Reader.exec} /\ raised \subseteq raised'
    BY <1>6
  <2> QED BY <1>0, <1>1, <1>2, <1>6, <2>2, <2>3, <2>4, MessageKeeps
<1> HIDE DEF t
<1>7. CASE on_COLUMN_META
  <2> DEFINE x == [Reader EXCEPT !.has_more_results = TRUE, !.has_more_rows_in_set = TRUE,
                                 !.field_count = Reader.field_count + 1]
  <2>1. t = "META" /\ p = "start" /\ Leads(t) = "rows"
    BY <1>2, <1>3, <1>5, <1>7, SendsAndLeads DEF on_COLUMN_META, Processing, t
  <2>2. x \in Statements /\ x.exec = Reader.exec /\ x.unread = Reader.unread
        /\ x.partial_read_started = Reader.partial_read_started
        /\ x.has_more_results /\ x.has_more_rows_in_set /\ x.field_count = Reader.field_count + 1
    <3>1. Reader.field_count + 1 \in Nat
      BY <1>0 DEF Statements
    <3> QED BY <1>0, <3>1 DEF Statements
  <2>3. stmt' = [stmt EXCEPT ![call.s] = x]
    BY <1>7 DEF on_COLUMN_META, Reader
  <2>4. /\ call'.ret = "AGAIN" /\ call'.op = call.op /\ call'.s = call.s
        /\ raised' = raised /\ ~broken'
    BY <1>0, <1>3, <1>7 DEF on_COLUMN_META, Reads
  <2> HIDE DEF x
  <2>5. InSet(x)
    BY <1>2, <2>1, <2>2 DEF InSet
  <2> QED BY <1>4, <1>6, <2>1, <2>2, <2>3, <2>4, <2>5
<1>8. CASE on_RSET_ROW
  <2>1. t = "ROW" /\ p = "rows" /\ Leads(t) = "rows" /\ InSet(Reader)
    BY <1>2, <1>3, <1>5, <1>8, SendsAndLeads DEF on_RSET_ROW, Processing, t
  <2>2. /\ stmt' = [stmt EXCEPT ![call.s] = [Reader EXCEPT !.has_more_results = TRUE,
              !.prefetch_counter = IF fwd_prefetch_count # 0 THEN prefetched
                                   ELSE Reader.prefetch_counter]]
        /\ handler_on_row_field(Head(batch).row)
        /\ broken' = (broken \/ Reader.field_count > 1) /\ raised' = raised
    BY <1>8, <2>1 DEF on_RSET_ROW, InSet
  <2> DEFINE c == IF fwd_prefetch_count # 0 THEN prefetched ELSE Reader.prefetch_counter
             x == [Reader EXCEPT !.has_more_results = TRUE, !.prefetch_counter = c]
  <2>3. c \in 0..(SizeModulus - 1)
    <3>1. Reader.prefetch_counter \in 0..(SizeModulus - 1)
      BY <1>0 DEF Statements
    <3>2. \A k \in 0..(SizeModulus - 1) : (k - 1) % SizeModulus \in 0..(SizeModulus - 1)
      BY ResultsAssumption
    <3> QED BY <3>1, <3>2 DEF prefetched
  <2>4. stmt' = [stmt EXCEPT ![call.s] = x]
    BY <2>2
  <2> HIDE DEF c
  <2>5. x \in Statements /\ x.exec = Reader.exec /\ x.unread = Reader.unread
        /\ x.partial_read_started = Reader.partial_read_started
        /\ x.has_more_results /\ x.has_more_rows_in_set = Reader.has_more_rows_in_set
        /\ x.field_count = Reader.field_count
    BY <1>0, <2>3 DEF Statements
  <2> HIDE DEF x
  <2>6. InSet(x) /\ ~broken'
    <3>1. InSet(x) /\ ~(Reader.field_count > 1)
      BY <2>1, <2>5 DEF InSet
    <3> QED BY <1>3, <2>2, <3>1, Zenon
  <2>7. /\ call'.op = call.op /\ call'.s = call.s /\ call'.ret \in {"AGAIN", "PASS"}
        /\ call'.ret = "PASS" => call.op \in {"fwd", "next", "fetchAll", "iterNext"}
    <3>1. CASE Callback
      BY <1>0, <2>2, <3>1 DEF handler_on_row_field, Reads
    <3>2. CASE ~Callback
      <4>1. PICK ret \in {"AGAIN", "PASS"} :
              /\ call' = [call EXCEPT !.rowset = TRUE, !.rows = Append(@, Head(batch).row),
                                      !.ret = ret]
              /\ ret = "PASS" => fwd_prefetch_count # 0
        BY <2>2, <3>2 DEF handler_on_row_field
      <4>2. fwd_prefetch_count # 0 => call.op \in {"fwd", "next", "fetchAll", "iterNext"}
        BY DEF fwd_prefetch_count
      <4> QED BY <1>0, <4>1, <4>2 DEF Reads
    <3> QED BY <3>1, <3>2
  <2>8. call'.ret = "PASS" => x.partial_read_started
    BY <2>5, <2>7 DEF IInv, OneForwardResult
  <2> QED BY <1>4, <1>6, <2>1, <2>2, <2>4, <2>5, <2>6, <2>7, <2>8
<1>9. CASE on_RSET_FETCH_DONE
  <2> DEFINE x == [Reader EXCEPT !.has_more_results = FALSE, !.has_more_rows_in_set = FALSE]
  <2>1. t = "DONE" /\ Leads(t) = "done"
    BY <1>3, <1>9, SendsAndLeads DEF on_RSET_FETCH_DONE, Processing, t
  <2>2. x \in Statements /\ x.exec = Reader.exec /\ x.unread = Reader.unread
        /\ x.partial_read_started = Reader.partial_read_started /\ NoMore(x)
    BY <1>0 DEF Statements, NoMore
  <2>3. stmt' = [stmt EXCEPT ![call.s] = x]
    BY <1>9 DEF on_RSET_FETCH_DONE, Reader
  <2>4. /\ call'.ret = "AGAIN" /\ call'.op = call.op /\ call'.s = call.s
        /\ raised' = raised /\ ~broken'
    BY <1>0, <1>3, <1>9 DEF on_RSET_FETCH_DONE, Reads
  <2> HIDE DEF x
  <2> QED BY <1>6, <2>1, <2>2, <2>3, <2>4
<1>10. CASE on_RSET_FETCH_DONE_MORE_RSETS
  <2> DEFINE x == [Reader EXCEPT !.has_more_results = TRUE, !.has_more_rows_in_set = FALSE]
  <2>1. t = "MORE" /\ Leads(t) = "start"
    BY <1>3, <1>10, SendsAndLeads DEF on_RSET_FETCH_DONE_MORE_RSETS, Processing, t
  <2>2. x \in Statements /\ x.exec = Reader.exec /\ x.unread = Reader.unread
        /\ x.partial_read_started = Reader.partial_read_started /\ AtStart(x)
    BY <1>0 DEF Statements, AtStart
  <2>3. stmt' = [stmt EXCEPT ![call.s] = x]
    BY <1>10 DEF on_RSET_FETCH_DONE_MORE_RSETS, Reader
  <2>4. call'.ret = "PASS" /\ call'.op = call.op /\ call'.s = call.s /\ raised' = raised /\ ~broken'
    BY <1>0, <1>3, <1>10 DEF on_RSET_FETCH_DONE_MORE_RSETS, Reads
  <2> HIDE DEF x
  <2> QED BY <1>4, <1>6, <2>1, <2>2, <2>3, <2>4
<1>11. CASE on_STMT_EXECUTE_OK
  <2> DEFINE x == [Reader EXCEPT !.has_more_results = FALSE]
  <2>1. t = "OK" /\ Leads(t) = "end" /\ p = "noticed"
    BY <1>2, <1>3, <1>5, <1>11, SendsAndLeads DEF on_STMT_EXECUTE_OK, Processing, t
  <2>2. x \in Statements /\ x.exec = Reader.exec /\ x.unread = Reader.unread
        /\ x.partial_read_started = Reader.partial_read_started
        /\ ~x.has_more_results /\ x.has_more_rows_in_set = Reader.has_more_rows_in_set
    BY <1>0 DEF Statements
  <2>3. stmt' = [stmt EXCEPT ![call.s] = x]
    BY <1>11 DEF on_STMT_EXECUTE_OK, Reader
  <2>4. call'.ret = "PASS" /\ call'.op = call.op /\ call'.s = call.s /\ raised' = raised /\ ~broken'
    BY <1>0, <1>3, <1>11 DEF on_STMT_EXECUTE_OK, Reads
  <2> HIDE DEF x
  <2>5. NoMore(x)
    BY <1>2, <2>1, <2>2 DEF NoMore
  <2> QED BY <1>6, <2>1, <2>2, <2>3, <2>4, <2>5
<1>12. CASE on_ERROR
  <2>1. t = "ERROR" /\ Leads(t) = "end"
    BY <1>3, <1>12, SendsAndLeads DEF on_ERROR, Processing, t
  <2>2. stmt' = [stmt EXCEPT ![call.s] = Reader]
    BY <1>12 DEF on_ERROR, Reader, IInv, Types, StmtTyped
  <2>3. call'.ret = "FAIL" /\ call'.op = call.op /\ call'.s = call.s /\ ~broken'
        /\ raised' = raised \cup {Reader.exec}
    BY <1>0, <1>3, <1>12 DEF on_ERROR, Reads
  <2> QED BY <1>0, <1>4, <1>6, <2>1, <2>2, <2>3
<1>13. CASE on_NOTICE
  <2>1. t = "NOTICE" /\ Leads(t) = "noticed" /\ NoMore(Reader)
    BY <1>2, <1>3, <1>5, <1>13, SendsAndLeads DEF on_NOTICE, Processing, t
  <2>2. stmt' = [stmt EXCEPT ![call.s] = Reader]
    BY <1>13 DEF on_NOTICE, Reader, IInv, Types, StmtTyped
  <2>3. /\ call'.ret = "AGAIN" /\ call'.op = call.op /\ call'.s = call.s
        /\ ~broken' /\ raised' = raised
    BY <1>0, <1>3, <1>13 DEF on_NOTICE, Reads
  <2> QED BY <1>0, <1>6, <2>1, <2>2, <2>3
<1> QED BY <1>7, <1>8, <1>9, <1>10, <1>11, <1>12, <1>13 DEF Process
-----------------------------------------------------------------------------
(***************************************************************************)
(* A call returns.                                                         *)
(***************************************************************************)
\* What a read left behind is what the application finds.
LEMMA ReadingRests ==
  ASSUME IInv, up, ~Idle, NEW p, Reading(p), call.ret \in {"PASS", "FAIL"},
         StmtTyped', \A t \in AllStmts : stmt'[t].exec = stmt[t].exec,
         NEW x, stmt'[call.s] = x, x.unread = Reader.unread, x.field_count = Reader.field_count,
         x.has_more_results = Reader.has_more_results,
         x.has_more_rows_in_set = Reader.has_more_rows_in_set,
         x.partial_read_started = Reader.partial_read_started,
         raised \subseteq raised', call.ret = "PASS" => raised' = raised
  PROVE  Resting(p)'
<1>1. LastExec' = LastExec /\ call.s \in AllStmts /\ Reader.exec = LastExec /\ LastExec # 0
  BY LastKept, ReaderIs DEF IInv, Types, StmtTyped, OneReader, ReadTyped, Executions
<1>2. call.ret = "PASS" => Reader.exec \notin raised'
  BY DEF Reading
<1>3. call.ret = "FAIL" => p = "end" /\ Reader.exec \in raised'
  BY DEF Reading
<1>4. LastExec \in {0} \cup raised' => p = "end"
  BY <1>1, <1>2, <1>3
<1>5. ASSUME NEW s \in AllStmts, stmt'[s].exec = LastExec, LastExec \notin {0} \cup raised'
      PROVE  s = call.s /\ call.ret = "PASS"
  <2>1. stmt[s].exec = LastExec /\ stmt[call.s].exec = LastExec
    BY <1>1, <1>5 DEF Reader
  <2> QED BY <1>1, <1>3, <1>5, <2>1 DEF IInv, OneReader
<1>6. call.ret = "PASS" =>
        /\ ~x.unread
        /\ \/ p = "end" /\ NoMore(x)
           \/ p = "start" /\ AtStart(x)
           \/ p = "rows" /\ InSet(x) /\ x.partial_read_started
  BY DEF Reading, NoMore, AtStart, InSet
<1> QED BY <1>1, <1>4, <1>5, <1>6 DEF Resting

LEMMA SettledKeeps ==
  ASSUME IInv, Types', ~Idle, batch = << >>, call.ret \in {"PASS", "FAIL"}, Settled,
         \A t \in AllStmts \ {call.s} : stmt'[t] = stmt[t] /\ res'[t] = res[t],
         NEW x, stmt'[call.s] = x, x.exec = Reader.exec, x.unread = Reader.unread,
         x.field_count = Reader.field_count, x.has_more_results = Reader.has_more_results,
         x.has_more_rows_in_set = Reader.has_more_rows_in_set,
         x.partial_read_started = Reader.partial_read_started,
         raised \subseteq raised', raised' \subseteq raised \cup {Reader.exec},
         call.ret = "PASS" => raised' = raised,
         res'[call.s].kind = "fwd" => x.partial_read_started,
         call.s = Admin => res'[call.s].kind = "none",
         res'[call.s].kind = "buffered" /\ res'[call.s].has_more_results =>
           x.has_more_results \/ x.exec \in raised',
         ~broken'
  PROVE  IInv'
<1>0. /\ call.s \in AllStmts /\ Idle' /\ call' = NoCall /\ Admin \in AllStmts
      /\ UNCHANGED <<up, todo, phase, pos, line, batch, ServerAt>>
  BY ReaderIs DEF IInv, Settled, serverVars, ServerAt, Idle, NoCall, AllStmts
<1>1. \A t \in AllStmts : stmt'[t].exec = stmt[t].exec
  BY DEF Reader
<1>2. StmtTyped' /\ LastExec' = LastExec
  BY <1>1, LastKept DEF IInv, Types, StmtTyped
<1>3. Stream'
  <2> SUFFICES ASSUME up
               PROVE  \E p, q \in Phases :
                        Resting(p)' /\ Path(p, batch, q) /\ Path(q, line, ServerAt)
    BY <1>0 DEF Stream
  <2>1. PICK p, q \in Phases : Reading(p) /\ Path(p, batch, q) /\ Path(q, line, ServerAt)
    BY DEF IInv, Stream
  <2>2. Resting(p)'
    BY <1>1, <1>2, <2>1, ReadingRests
  <2> QED BY <2>1, <2>2
<1>4. Tidy'
  BY <1>0 DEF IInv, Tidy
<1>5. OneReader'
  <2>1. \A s, t \in AllStmts : stmt'[s].exec = stmt'[t].exec /\ stmt'[s].exec # 0 => s = t
    BY <1>1 DEF IInv, OneReader
  <2>2. Reader.exec <= LastExec
    BY <1>0, LastIs DEF IInv, Types, Reader
  <2> QED BY <1>0, <1>2, <2>1, <2>2 DEF IInv, OneReader
<1>6. OthersDone'
  <2> SUFFICES ASSUME up, NEW s \in AllStmts, stmt'[s].exec # LastExec' \/ stmt'[s].exec = 0
               PROVE  stmt'[s].exec \in raised' \/ (~stmt'[s].unread /\ NoMore(stmt'[s]))
    BY <1>0 DEF OthersDone
  <2>1. s # call.s /\ stmt'[s] = stmt[s]
    BY <1>1, <1>2 DEF IInv, OneReader, Types, ReadTyped, Reader, Executions
  <2> QED BY <1>1, <1>2, <2>1 DEF IInv, OthersDone
<1>7. OneForwardResult'
  <2>1. ASSUME NEW s \in AllStmts, res'[s].kind = "fwd" PROVE stmt'[s].partial_read_started
    BY <2>1 DEF IInv, OneForwardResult
  <2>2. res'[Admin].kind = "none" /\ ~stmt'[Admin].partial_read_started
    BY <1>0 DEF IInv, OneForwardResult, Reader
  <2> QED BY <1>0, <2>1, <2>2 DEF OneForwardResult, NoCall
<1>8. ResultsPromise'
  BY <1>0 DEF IInv, ResultsPromise
<1>9. QueryHasNoSets'
  BY <1>0 DEF QueryHasNoSets, NoCall
<1> QED BY <1>3, <1>4, <1>5, <1>6, <1>7, <1>8, <1>9 DEF IInv

\* A read starts, of the last statement executed.
LEMMA ReadStartKeeps ==
  ASSUME IInv, Types', NEW s \in AllStmts, Idle \/ call.s = s, batch = << >>,
         UNCHANGED <<up, todo, phase, pos, line, batch, raised, broken>>,
         stmt[s].exec # 0, up => stmt[s].exec = LastExec,
         \A t \in AllStmts \ {s} : stmt'[t] = stmt[t] /\ res'[t] = res[t],
         NEW x, stmt'[s] = x, x.exec = stmt[s].exec,
         up => \E p \in Phases : Reading(p)' /\ Path(p, line, ServerAt),
         call'.s = s, call'.op \in Ops \ {"query"},
         res'[s].kind = "fwd" => x.partial_read_started,
         s = Admin => call'.op = "query_cb" /\ ~x.partial_read_started /\ res'[s].kind = "none",
         call'.op = "fwd" => res'[s].kind # "fwd",
         call'.op \in {"next", "fetchAll", "iterNext"} => res'[s].kind = "fwd",
         call'.op = "callback" => res'[s].kind = "none",
         call'.op \in {"fwd", "next", "fetchAll", "iterNext"} => x.partial_read_started
  PROVE  IInv'
<1>0. ~Idle' /\ Reader' = x /\ Admin \in AllStmts /\ ServerAt' = ServerAt
  BY DEF Idle, Ops, Reader, AllStmts, ServerAt
<1>1. \A t \in AllStmts : stmt'[t].exec = stmt[t].exec
  OBVIOUS
<1>2. LastExec' = LastExec
  BY <1>1, LastKept DEF IInv, Types, StmtTyped
<1>3. Stream'
  <2> SUFFICES ASSUME up
               PROVE  \E p, q \in Phases :
                        Reading(p)' /\ Path(p, << >>, q) /\ Path(q, line, ServerAt)
    BY <1>0 DEF Stream
  <2> QED BY EmptyPath
<1>4. Tidy'
  BY DEF IInv, Tidy
<1>5. OneReader'
  BY <1>0, <1>1, <1>2 DEF IInv, OneReader
<1>6. OthersDone'
  <2> SUFFICES ASSUME up, NEW t \in AllStmts, stmt'[t].exec # LastExec' \/ stmt'[t].exec = 0
               PROVE  stmt'[t].exec \in raised' \/ (~stmt'[t].unread /\ NoMore(stmt'[t]))
    BY DEF OthersDone
  <2>1. t # s /\ stmt'[t] = stmt[t]
    BY <1>1, <1>2
  <2> QED BY <1>1, <1>2, <2>1 DEF IInv, OthersDone
<1>7. OneForwardResult'
  <2>1. ASSUME NEW t \in AllStmts, res'[t].kind = "fwd" PROVE stmt'[t].partial_read_started
    BY <2>1 DEF IInv, OneForwardResult
  <2>2. res'[Admin].kind = "none" /\ ~stmt'[Admin].partial_read_started
    BY <1>0 DEF IInv, OneForwardResult
  <2> QED BY <1>0, <2>1, <2>2 DEF OneForwardResult
<1>8. ResultsPromise'
  BY <1>0 DEF IInv, ResultsPromise
<1>9. QueryHasNoSets'
  BY DEF QueryHasNoSets
<1> QED BY <1>3, <1>4, <1>5, <1>6, <1>7, <1>8, <1>9 DEF IInv
\* RAISE_EXCEPTION_FETCH_FAIL.
LEMMA FetchFailedKeeps ==
  ASSUME IInv, Types', ~Idle, batch = << >>, call.ret = "FAIL", Settled, FetchFailed,
         call.s # Admin, broken' = broken
  PROVE  IInv'
<1>0. call.s \in AllStmts /\ Reader \in Statements /\ res[call.s] \in Results
  BY ReaderIs DEF IInv, Types, GotTyped
<1>1. raised' = raised \cup {Reader.exec}
  BY DEF FetchFailed
<1>2. \A t \in AllStmts \ {call.s} : stmt'[t] = stmt[t] /\ res'[t] = res[t]
  BY FetchFailedTypes DEF IInv
<1>3. PICK x : /\ stmt'[call.s] = x /\ x.exec = Reader.exec /\ x.unread = Reader.unread
               /\ x.field_count = Reader.field_count /\ x.has_more_results = Reader.has_more_results
               /\ x.has_more_rows_in_set = Reader.has_more_rows_in_set
               /\ x.partial_read_started = Reader.partial_read_started
  <2>1. CASE stmt' = [stmt EXCEPT ![call.s].send_query_status = FALSE]
    <3>1. stmt'[call.s] = [Reader EXCEPT !.send_query_status = FALSE]
      BY <1>0, <2>1 DEF IInv, Types, StmtTyped, Reader
    <3> QED BY <1>0, <3>1 DEF Statements
  <2>2. CASE stmt' = stmt
    BY <2>2 DEF Reader
  <2> QED BY <2>1, <2>2 DEF FetchFailed
<1>4. res'[call.s].kind = res[call.s].kind
  <2>1. CASE res' = [res EXCEPT ![call.s].send_query_status = FALSE]
    <3>1. res'[call.s] = [res[call.s] EXCEPT !.send_query_status = FALSE]
      BY <1>0, <2>1 DEF IInv, Types, GotTyped
    <3> QED BY <1>0, <3>1 DEF Results
  <2> QED BY <2>1 DEF FetchFailed
<1>5. res'[call.s].kind = "fwd" => x.partial_read_started
  BY <1>0, <1>3, <1>4 DEF IInv, OneForwardResult, Reader
<1> QED BY <1>1, <1>2, <1>3, <1>5, SettledKeeps DEF IInv

\* The result is replaced, the statement stays as it is.
LEMMA ResultKeeps ==
  ASSUME IInv, Types', ~Idle, batch = << >>, call.ret \in {"PASS", "FAIL"}, Settled,
         UNCHANGED <<stmt, raised>>, ~broken', call.s # Admin,
         NEW r \in Results, res' = [res EXCEPT ![call.s] = r],
         r.kind = "fwd" => Reader.partial_read_started,
         r.kind = "buffered" /\ r.has_more_results => Reader.has_more_results
  PROVE  IInv'
<1>0. call.s \in AllStmts
  BY ReaderIs DEF IInv
<1>1. res'[call.s] = r /\ \A t \in AllStmts \ {call.s} : res'[t] = res[t]
  BY <1>0, ResSet DEF IInv, Types
<1>2. stmt'[call.s] = Reader /\ \A t \in AllStmts \ {call.s} : stmt'[t] = stmt[t]
  BY DEF Reader
<1> QED BY <1>1, <1>2, SettledKeeps

LEMMA ReturnKeeps ==
  ASSUME IInv, Return
  PROVE  IInv'
<1>0. call.s \in AllStmts /\ Reader \in Statements /\ call \in Reads /\ Types'
  BY ReaderIs, ReturnTypes DEF IInv
<1>1. ~Idle /\ batch = << >> /\ call.ret \in {"PASS", "FAIL"}
  BY <1>0 DEF Return, Returned, buffered_result, fwd_result, prefetch_done, iterator_prefetched,
         fetchAll_done, callbacks_done, query_done, query_cb_done, Reads
<1>2. /\ res[call.s] \in Results /\ call.rows \in Seq(Rows)
      /\ res \in [AllStmts -> Results] /\ stmt \in [AllStmts -> Statements]
  BY <1>0 DEF Reads, IInv, Types, GotTyped, StmtTyped
<1>3. ~broken /\ (call.op \notin {"query", "query_cb"} => call.s # Admin)
  BY <1>1 DEF IInv, OneForwardResult
<1>4. \A k \in {"buffered", "fwd"} : /\ Result(k) \in Results /\ Result(k).kind = k
                                     /\ Result(k).has_more_results = Reader.has_more_results
  <2>1. \A k \in {"buffered", "fwd"} : Result(k) \in Results
    BY ResultTyped DEF IInv
  <2> QED BY <2>1 DEF Result, NoResult
<1>5. CASE buffered_result
  <2>1. CASE res' = [res EXCEPT ![call.s] = Result("buffered")] /\ UNCHANGED <<stmt, raised>>
    BY <1>0, <1>1, <1>3, <1>4, <1>5, <2>1, ResultKeeps DEF buffered_result, Returned
  <2>2. CASE ~Passed /\ FetchFailed
    BY <1>0, <1>1, <1>3, <1>5, <2>2, FetchFailedKeeps DEF buffered_result, Returned, Passed
  <2> QED BY <1>5, <2>1, <2>2 DEF buffered_result
<1>6. CASE fwd_result
  <2>0. call.op = "fwd" /\ Settled
    BY <1>6 DEF fwd_result, Returned
  <2>1. CASE /\ res' = [res EXCEPT ![call.s] =
                  [Result("fwd") EXCEPT !.row_cursor = res[call.s].row_cursor]]
             /\ broken' = (broken \/ res[call.s].kind = "fwd")
             /\ UNCHANGED <<stmt, raised>>
    <3> DEFINE x == [Result("fwd") EXCEPT !.row_cursor = res[call.s].row_cursor]
    <3>1. x \in Results /\ x.kind = "fwd"
      BY <1>2, <1>4 DEF Results
    <3>2. ~broken'
      BY <1>3, <2>0, <2>1 DEF IInv, OneForwardResult
    <3>3. Reader.partial_read_started
      BY <2>0 DEF IInv, OneForwardResult
    <3>4. res' = [res EXCEPT ![call.s] = x]
      BY <2>1
    <3> HIDE DEF x
    <3> QED BY <1>0, <1>1, <1>3, <2>0, <2>1, <3>1, <3>2, <3>3, <3>4, ResultKeeps
  <2>2. CASE ~Passed /\ FetchFailed /\ UNCHANGED broken
    BY <1>0, <1>1, <1>3, <2>0, <2>2, FetchFailedKeeps DEF Passed
  <2> QED BY <1>6, <2>1, <2>2 DEF fwd_result
<1>7. ASSUME call.op \in {"next", "iterNext", "fetchAll"}, Settled,
             UNCHANGED <<stmt, raised, broken>>,
             NEW x \in Results, res' = [res EXCEPT ![call.s] = x], x.kind = res[call.s].kind
      PROVE  IInv'
  <2>1. x.kind = "fwd" /\ Reader.partial_read_started
    BY <1>7 DEF IInv, OneForwardResult
  <2> QED BY <1>0, <1>1, <1>3, <1>7, <2>1, ResultKeeps
<1>8. CASE prefetch_done
  <2> DEFINE x == [res[call.s] EXCEPT !.rows = call.rows]
  <2>1. x \in Results /\ x.kind = res[call.s].kind
    BY <1>2 DEF Results
  <2>2. res' = [res EXCEPT ![call.s] = x]
    BY <1>8 DEF prefetch_done
  <2> HIDE DEF x
  <2> QED BY <1>7, <1>8, <2>1, <2>2 DEF prefetch_done, Returned
<1>9. CASE iterator_prefetched
  <2>1. PICK use \in {"iter", "over"} :
          res' = [res EXCEPT ![call.s].rows = call.rows, ![call.s].use = use]
    BY <1>9 DEF iterator_prefetched
  <2> DEFINE x == [res[call.s] EXCEPT !.rows = call.rows, !.use = use]
  <2>2. x \in Results /\ x.kind = res[call.s].kind
    BY <1>2 DEF Results
  <2>3. res' = [res EXCEPT ![call.s] = x]
    BY <2>1
  <2> HIDE DEF x
  <2> QED BY <1>7, <1>9, <2>2, <2>3 DEF iterator_prefetched, Returned
<1>10. CASE fetchAll_done
  <2>1. PICK x \in Results : res' = [res EXCEPT ![call.s] = x] /\ x.kind = res[call.s].kind
    <3>1. CASE res' = [res EXCEPT ![call.s] = Emptied(@, "over")]
      <4>1. Emptied(res[call.s], "over") \in Results
            /\ Emptied(res[call.s], "over").kind = res[call.s].kind
        BY <1>2, EmptySeq DEF Emptied, Results
      <4> QED BY <3>1, <4>1
    <3>2. CASE res' = [res EXCEPT ![call.s].rows = call.rows]
      <4> DEFINE x == [res[call.s] EXCEPT !.rows = call.rows]
      <4>1. x \in Results /\ x.kind = res[call.s].kind
        BY <1>2 DEF Results
      <4>2. res' = [res EXCEPT ![call.s] = x]
        BY <3>2
      <4> HIDE DEF x
      <4> QED BY <4>1, <4>2
    <3> QED BY <1>10, <3>1, <3>2 DEF fetchAll_done
  <2> QED BY <1>7, <1>10, <2>1 DEF fetchAll_done, Returned
<1>11. CASE callbacks_done
  <2> DEFINE b == Passed /\ Reader.has_more_results
             x == [Reader EXCEPT !.in_execution = b]
  <2>1. /\ x.exec = Reader.exec /\ x.unread = Reader.unread
        /\ x.field_count = Reader.field_count /\ x.has_more_results = Reader.has_more_results
        /\ x.has_more_rows_in_set = Reader.has_more_rows_in_set
        /\ x.partial_read_started = Reader.partial_read_started
    BY <1>0 DEF Statements
  <2>2. stmt' = [stmt EXCEPT ![call.s] = x] /\ UNCHANGED <<res, raised, broken>> /\ Settled
    BY <1>11 DEF callbacks_done, Reader
  <2>3. stmt'[call.s] = x /\ \A t \in AllStmts \ {call.s} : stmt'[t] = stmt[t]
    BY <1>0, <1>2, <2>2
  <2> HIDE DEF x
  <2>4. res[call.s].kind = "none"
    BY <1>11 DEF callbacks_done, Returned, IInv, OneForwardResult
  <2> QED BY <1>0, <1>1, <1>3, <2>1, <2>2, <2>3, <2>4, SettledKeeps
<1>12. ASSUME Settled, UNCHANGED <<stmt, res, raised, broken>>, call.op \in {"query", "query_cb"}
       PROVE  IInv'
  <2>1. call.s = Admin /\ res[call.s].kind = "none"
    BY <1>12 DEF IInv, Types, ReadTyped, OneForwardResult
  <2>2. stmt'[call.s] = Reader
    BY <1>12 DEF Reader
  <2> QED BY <1>0, <1>1, <1>3, <1>12, <2>1, <2>2, SettledKeeps
<1>13. CASE query_done
  <2>1. call.op = "query" /\ ~Reader.has_more_results
    BY <1>13 DEF query_done, Returned, IInv, QueryHasNoSets, NoMore
  <2> QED BY <1>12, <1>13, <2>1 DEF query_done
<1>14. CASE query_cb_done
  <2>0. call.op = "query_cb" /\ call.s = Admin /\ UNCHANGED <<res, raised, broken>>
    BY <1>14 DEF query_cb_done, Returned, IInv, Types, ReadTyped
  <2>1. CASE Settled /\ UNCHANGED stmt
    BY <1>12, <2>0, <2>1
  <2>2. CASE Passed /\ Reader.has_more_results /\ Again("query_cb")
    <3> DEFINE x == init_read(Reader)
    <3>1. /\ x.exec = Reader.exec /\ NoMore(x) /\ ~x.unread /\ x.field_count = 0
          /\ x.partial_read_started = Reader.partial_read_started
      BY <1>0 DEF init_read, Statements, NoMore
    <3>2. stmt'[call.s] = x /\ \A t \in AllStmts \ {call.s} : stmt'[t] = stmt[t]
      BY <1>0, <1>2, <2>0, <2>2 DEF Again, Reader
    <3>3. /\ call'.s = Admin /\ call'.op = "query_cb" /\ call'.ret = "AGAIN"
          /\ UNCHANGED <<up, todo, phase, pos, line, batch>>
      BY <2>2 DEF Again, Read, NoCall, serverVars
    <3> HIDE DEF x
    <3>4. ~Reader.partial_read_started /\ res[Admin].kind = "none"
      BY <2>0 DEF IInv, OneForwardResult, Reader
    <3>5. ASSUME up PROVE \E p \in Phases : Reading(p)' /\ Path(p, line, ServerAt)
      <4>1. PICK p, q \in Phases : Reading(p) /\ Path(p, batch, q) /\ Path(q, line, ServerAt)
        BY <1>1, <3>5 DEF IInv, Stream
      <4>2. p = "start" /\ p = q
        BY <1>1, <2>2, <3>4, <4>1, EmptyPath DEF Reading, Passed, NoMore
      <4>3. Reader' = x /\ Reader.exec \notin raised
        BY <2>0, <2>2, <3>2, <3>3, <4>1 DEF Reader, Reading, Passed
      <4>4. Reading(p)'
        BY <2>0, <3>1, <3>3, <4>2, <4>3 DEF Reading
      <4> QED BY <4>1, <4>2, <4>4
    <3>6. stmt[Admin].exec # 0 /\ (up => stmt[Admin].exec = LastExec) /\ Admin \in AllStmts
      BY <1>0, <1>1, <2>0 DEF IInv, Types, ReadTyped, OneReader, Reader, Executions
    <3> QED BY <1>0, <1>1, <2>0, <3>1, <3>2, <3>3, <3>4, <3>5, <3>6, ReadStartKeeps DEF Ops, Reader
  <2> QED BY <1>14, <2>1, <2>2 DEF query_cb_done
<1> QED BY <1>5, <1>6, <1>8, <1>9, <1>10, <1>11, <1>13, <1>14 DEF Return
-----------------------------------------------------------------------------
(***************************************************************************)
(* The application sends a statement.                                      *)
(***************************************************************************)
\* A patient application sends when the line is empty.
LEMMA NothingLeft ==
  ASSUME Careful, IInv, MaySend, up
  PROVE  /\ line = << >> /\ todo = << >> /\ phase = "start" /\ pos.set = 0
         /\ \A s \in AllStmts : stmt[s].exec \in raised \/ (~stmt[s].unread /\ NoMore(stmt[s]))
<1>0. Idle /\ batch = << >> /\ \A s \in AllStmts : ReadToEnd(s)
  BY DEF Careful, MaySend, IInv, Types, ReadTyped
<1>1. PICK p, q \in Phases : Resting(p) /\ Path(p, batch, q) /\ Path(q, line, ServerAt)
  BY <1>0 DEF IInv, Stream
<1>2. PICK s \in AllStmts : stmt[s].exec = LastExec
  BY LastIs DEF IInv, Types
<1>3. \A t \in AllStmts : stmt[t].exec = LastExec /\ LastExec \notin {0} \cup raised =>
        p = "end" /\ ~stmt[t].unread /\ NoMore(stmt[t])
  BY <1>0, <1>1 DEF Resting, ReadToEnd, AtStart, InSet
<1>4. p = "end"
  BY <1>1, <1>2, <1>3 DEF Resting
<1>5. q = "end"
  BY <1>0, <1>1, <1>4, EmptyPath
<1>6. line = << >> /\ ServerAt = "end"
  BY <1>1, <1>5, PathFromEnd
<1>7. todo = << >>
  BY <1>6, LineFacts DEF IInv
<1>8. \A t \in AllStmts : stmt[t].exec \in raised \/ (~stmt[t].unread /\ NoMore(stmt[t]))
  BY <1>3 DEF IInv, OthersDone
<1> QED BY <1>6, <1>7, <1>8 DEF IInv, Tidy

LEMMA SentKeeps ==
  ASSUME Careful, IInv, Types', MaySend, NEW s \in AllStmts, NEW sets, send_raw_message(sets),
         UNCHANGED <<up, phase, pos, line, batch, raised, broken>>,
         \A t \in AllStmts \ {s} : stmt'[t] = stmt[t] /\ res'[t] = res[t],
         NEW x, stmt'[s] = x, x.exec = LastExec + 1, res'[s].kind = "none", NoMore(x),
         \/ call' = call /\ x.unread /\ s # Admin
         \/ /\ ~x.unread /\ x.field_count = 0 /\ call'.s = s /\ call'.ret = "AGAIN"
            /\ call'.op \in {"buffered", "fwd", "query", "query_cb"},
         call'.op = "fwd" => x.partial_read_started,
         s = Admin => ~x.partial_read_started /\ call'.op \in {"query", "query_cb"},
         call'.op = "query" => sets = 0
  PROVE  IInv'
<1>0. Idle /\ batch = << >> /\ LastExec \in Nat /\ ~broken' /\ Admin \in AllStmts
  BY LastIs, ResultsAssumption DEF IInv, MaySend, Types, ReadTyped, AllStmts
<1>1. LastExec' = LastExec + 1
  BY LastNext DEF IInv, Types, StmtTyped
<1>2. \A t \in AllStmts : stmt[t].exec <= LastExec /\ stmt[t].exec \in Nat
  BY LastIs, ResultsAssumption DEF IInv, Types
<1>3. \A t \in AllStmts : stmt'[t].exec = LastExec' => t = s
  BY <1>0, <1>1, <1>2
<1>4. LastExec' \notin raised' /\ LastExec' # 0 /\ \A e \in raised' : e <= LastExec'
  <2>1. \A e \in raised : e \in Nat /\ e <= LastExec
    BY ResultsAssumption DEF IInv, OneReader, Types, GotTyped, Executions
  <2> QED BY <1>0, <1>1, <2>1
<1>5. ~Idle' => call'.s = s /\ Reader' = x /\ call'.ret = "AGAIN" /\ ~x.unread /\ x.field_count = 0
  BY <1>0 DEF Idle, Reader
<1>6. Idle' => x.unread /\ call' = call
  BY <1>0 DEF Idle
<1>7. ASSUME up
      PROVE  /\ line' = << >> /\ ServerAt' = "start" /\ todo' # << >>
             /\ Len(todo') = 1 /\ todo'[1].sets = sets /\ phase' = "start" /\ pos'.set = 0
  <2>1. line = << >> /\ todo = << >> /\ phase = "start" /\ pos.set = 0
    BY <1>7, NothingLeft
  <2>2. todo' = <<[e |-> LastExec + 1, sets |-> sets]>>
    BY <1>7, <2>1 DEF send_raw_message
  <2> QED BY <2>1, <2>2 DEF ServerAt
<1>8. ASSUME ~up PROVE line' = << >> /\ todo' = << >> /\ phase' = "start" /\ pos'.set = 0
                       /\ Len(todo') = 0
  <2>1. line = << >> /\ todo = << >> /\ phase = "start" /\ pos.set = 0
    BY <1>8 DEF IInv, Tidy
  <2> QED BY <1>8, <2>1 DEF send_raw_message
<1>9. Stream'
  <2> SUFFICES ASSUME up
               PROVE  \E p, q \in Phases :
                        /\ IF Idle' THEN Resting(p)' ELSE Reading(p)'
                        /\ Path(p, << >>, q) /\ Path(q, << >>, "start")
    BY <1>0, <1>7 DEF Stream
  <2> DEFINE p == "start"
  <2>1. p \in Phases /\ Path(p, << >>, p)
    BY EmptyPath DEF Phases
  <2>2. ASSUME Idle' PROVE Resting(p)'
    BY <1>3, <1>4, <1>6, <2>2 DEF Resting
  <2>3. ASSUME ~Idle' PROVE Reading(p)'
    <3>1. Reader'.exec \notin raised'
      BY <1>1, <1>4, <1>5, <2>3
    <3> QED BY <1>5, <2>3, <3>1 DEF Reading
  <2> QED BY <2>1, <2>2, <2>3
<1>10. Tidy'
  <2>1. Len(batch') = 0 /\ batch' = << >>
    BY <1>0
  <2>2. CASE up
    <3>1. todo' # << >> /\ Len(todo') = 1 /\ up' /\ phase' = "start"
      BY <1>7, <2>2
    <3>2. Len(todo') <= 1
      BY <3>1
    <3> QED BY <2>1, <3>1, <3>2 DEF Tidy
  <2>3. CASE ~up
    BY <1>8, <2>1, <2>3 DEF Tidy
  <2> QED BY <2>2, <2>3
<1>11. OneReader'
  <2>1. ASSUME NEW a \in AllStmts, NEW b \in AllStmts,
               stmt'[a].exec = stmt'[b].exec, stmt'[a].exec # 0
        PROVE  a = b
    <3>1. CASE a = s \/ b = s
      BY <1>1, <1>3, <2>1, <3>1
    <3>2. CASE a # s /\ b # s
      BY <2>1, <3>2 DEF IInv, OneReader
    <3> QED BY <3>1, <3>2
  <2> QED BY <1>1, <1>4, <1>5, <2>1 DEF OneReader
<1>12. OthersDone'
  <2> SUFFICES ASSUME up, NEW t \in AllStmts, stmt'[t].exec # LastExec' \/ stmt'[t].exec = 0
               PROVE  stmt'[t].exec \in raised' \/ (~stmt'[t].unread /\ NoMore(stmt'[t]))
    BY DEF OthersDone
  <2>1. t # s /\ stmt'[t] = stmt[t]
    BY <1>0, <1>1, <1>4
  <2> QED BY <2>1, NothingLeft
<1>13. OneForwardResult'
  <2>1. ASSUME NEW t \in AllStmts, res'[t].kind = "fwd" PROVE stmt'[t].partial_read_started
    BY <2>1 DEF IInv, OneForwardResult
  <2>2. res'[Admin].kind = "none" /\ ~stmt'[Admin].partial_read_started
    BY <1>0 DEF IInv, OneForwardResult
  <2>3. CASE Idle'
    BY <2>1, <2>2, <2>3 DEF OneForwardResult, Idle
  <2>4. CASE ~Idle'
    <3>1. call'.op \in {"buffered", "fwd", "query", "query_cb"}
      BY <1>0, <2>4 DEF Idle
    <3> QED BY <1>5, <2>1, <2>2, <2>4, <3>1 DEF OneForwardResult
  <2> QED BY <2>3, <2>4
<1>14. ResultsPromise'
  BY <1>0 DEF IInv, ResultsPromise
<1>15. QueryHasNoSets'
  <2> SUFFICES ASSUME call'.op = "query" PROVE QueryHasNoSets'
    BY DEF QueryHasNoSets
  <2>1. ~Idle' /\ Reader' = x /\ sets = 0 /\ Len(batch') = 0 /\ Len(line') = 0
    BY <1>0, <1>5, <1>7, <1>8 DEF Idle
  <2>2. todo' # << >> => todo'[1].sets = 0
    BY <1>7, <1>8, <2>1
  <2>3. phase' = "start" /\ pos'.set = 0
    BY <1>7, <1>8
  <2> QED BY <2>1, <2>2, <2>3 DEF QueryHasNoSets
<1> QED BY <1>0, <1>9, <1>10, <1>11, <1>12, <1>13, <1>14, <1>15 DEF IInv

\* getResult and its kin on a statement whose rows were not read in parts.
LEMMA GetResultStarts ==
  ASSUME Types, NEW s \in AllStmts, NEW st \in Statements, NEW to \in {"stmt", "result"},
         get_result(s, st, to), ~st.partial_read_started
  PROVE  \E x \in Statements :
           /\ stmt' = [stmt EXCEPT ![s] = x] /\ x.exec = st.exec
           /\ ~x.unread /\ NoMore(x) /\ x.field_count = 0
           /\ call'.s = s /\ call'.ret = "AGAIN" /\ call'.op \in {"buffered", "fwd"}
           /\ call'.op = "fwd" => x.partial_read_started
           /\ x.flags = st.flags /\ call'.rows = << >>
           /\ (call'.op = "buffered" <=> "BUFFERED" \in st.flags)
<1> DEFINE y == init_read(st)
<1>1. /\ y \in Statements /\ y.exec = st.exec /\ ~y.unread /\ NoMore(y) /\ y.field_count = 0
      /\ y.flags = st.flags
  BY StmtTypes DEF init_read, Statements, NoMore
<1>2. \A op \in {"buffered", "fwd"} :
        /\ Read(op, s, to).s = s /\ Read(op, s, to).op = op /\ Read(op, s, to).ret = "AGAIN"
        /\ Read(op, s, to).rows = << >>
  BY DEF Read, NoCall
<1>3. CASE "BUFFERED" \in st.flags /\ get_buffered_result(s, st, to)
  BY <1>1, <1>2, <1>3 DEF get_buffered_result
<1>4. CASE "BUFFERED" \notin st.flags /\ get_fwd_result(s, st, to)
  <2> DEFINE x == [y EXCEPT !.partial_read_started = TRUE, !.prefetch_counter = Prefetch]
  <2>1. stmt' = [stmt EXCEPT ![s] = x] /\ call' = Read("fwd", s, to)
    BY <1>4 DEF get_fwd_result
  <2> HIDE DEF y
  <2>2. x \in Statements /\ x.exec = y.exec /\ x.unread = y.unread
        /\ x.field_count = y.field_count /\ x.partial_read_started /\ x.flags = y.flags
        /\ x.has_more_results = y.has_more_results
        /\ x.has_more_rows_in_set = y.has_more_rows_in_set
    BY <1>1, StmtTypes DEF Statements
  <2> HIDE DEF x
  <2>3. NoMore(x)
    BY <1>1, <2>2 DEF NoMore
  <2> QED BY <1>1, <1>2, <1>4, <2>1, <2>2, <2>3
<1> QED BY <1>3, <1>4 DEF get_result

LEMMA executeKeeps ==
  ASSUME Careful, IInv, NEW s \in Stmts, NEW flags \in Flags, execute(s, flags)
  PROVE  IInv'
<1> DEFINE st == [NewStmt EXCEPT !.exec = LastExec + 1, !.flags = flags,
                    !.send_query_status = TRUE, !.unread = "ASYNC" \in flags]
<1>0. s \in AllStmts /\ s # Admin /\ Types' /\ MaySend
  BY executeTypes, ResultsAssumption DEF AllStmts, IInv, execute
<1>1. /\ UNCHANGED <<up, phase, pos, line, batch, raised, broken>>
      /\ res' = [res EXCEPT ![s] = NoResult]
      /\ \E sets : send_raw_message(sets)
  BY DEF execute
<1>2. res'[s].kind = "none" /\ \A t \in AllStmts \ {s} : res'[t] = res[t]
  BY <1>0, <1>1 DEF IInv, Types, GotTyped, NoResult
<1>3. LastExec + 1 \in 0..MaxExec
  BY <1>0, LastIs, ResultsAssumption DEF IInv, Types, MaySend
<1>4. /\ st \in Statements /\ st.exec = LastExec + 1 /\ NoMore(st)
      /\ ~st.partial_read_started /\ (st.unread <=> "ASYNC" \in flags)
  <2>1. NewStmt \in Statements /\ ("ASYNC" \in flags) \in BOOLEAN
    BY StmtTypes
  <2>2. /\ ~NewStmt.partial_read_started /\ ~NewStmt.has_more_results
        /\ ~NewStmt.has_more_rows_in_set
    BY DEF NewStmt
  <2> HIDE DEF NewStmt
  <2> QED BY <1>3, <2>1, <2>2 DEF Statements, NoMore
<1>5. \/ "ASYNC" \in flags /\ stmt' = [stmt EXCEPT ![s] = st] /\ UNCHANGED call
      \/ get_result(s, st, "stmt")
  BY DEF execute
<1>6. call.op = "none"
  BY <1>0 DEF MaySend, Idle
<1> HIDE DEF st
<1>7. CASE "ASYNC" \in flags /\ stmt' = [stmt EXCEPT ![s] = st] /\ UNCHANGED call
  <2>1. stmt'[s] = st /\ \A t \in AllStmts \ {s} : stmt'[t] = stmt[t]
    BY <1>0, <1>4, <1>7, StmtSet DEF IInv, Types
  <2> QED BY <1>0, <1>1, <1>2, <1>4, <1>6, <1>7, <2>1, SentKeeps
<1>8. CASE get_result(s, st, "stmt")
  <2>1. PICK x \in Statements :
           /\ stmt' = [stmt EXCEPT ![s] = x] /\ x.exec = st.exec
           /\ ~x.unread /\ NoMore(x) /\ x.field_count = 0
           /\ call'.s = s /\ call'.ret = "AGAIN" /\ call'.op \in {"buffered", "fwd"}
           /\ call'.op = "fwd" => x.partial_read_started
    BY <1>0, <1>4, <1>8, GetResultStarts DEF IInv
  <2>2. stmt'[s] = x /\ \A t \in AllStmts \ {s} : stmt'[t] = stmt[t]
    BY <1>0, <2>1, StmtSet DEF IInv, Types
  <2> QED BY <1>0, <1>1, <1>2, <1>4, <2>1, <2>2, SentKeeps
<1> QED BY <1>5, <1>7, <1>8

LEMMA admin_queryKeeps ==
  ASSUME Careful, IInv, NEW op \in {"query", "query_cb"}, admin_query(op)
  PROVE  IInv'
<1> DEFINE st == [NewStmt EXCEPT !.exec = LastExec + 1, !.send_query_status = TRUE]
<1>0. Admin \in AllStmts /\ Types' /\ MaySend
  BY admin_queryTypes DEF AllStmts, IInv, admin_query
<1>1. /\ UNCHANGED <<up, phase, pos, line, batch, raised, broken, res>>
      /\ stmt' = [stmt EXCEPT ![Admin] = st] /\ call' = Read(op, Admin, "stmt")
  BY DEF admin_query
<1>2. PICK sets : send_raw_message(sets) /\ (op = "query" => sets = 0)
  BY DEF admin_query
<1>3. LastExec + 1 \in 0..MaxExec
  BY <1>0, LastIs, ResultsAssumption DEF IInv, Types, MaySend
<1>4. /\ st \in Statements /\ st.exec = LastExec + 1 /\ NoMore(st)
      /\ ~st.partial_read_started /\ ~st.unread /\ st.field_count = 0
  <2>1. NewStmt \in Statements
    BY StmtTypes
  <2>2. /\ ~NewStmt.partial_read_started /\ ~NewStmt.has_more_results /\ ~NewStmt.unread
        /\ ~NewStmt.has_more_rows_in_set /\ NewStmt.field_count = 0
    BY DEF NewStmt
  <2> HIDE DEF NewStmt
  <2> QED BY <1>3, <2>1, <2>2 DEF Statements, NoMore
<1> HIDE DEF st
<1>5. stmt'[Admin] = st /\ \A t \in AllStmts \ {Admin} : stmt'[t] = stmt[t]
  BY <1>0, <1>1, <1>4, StmtSet DEF IInv, Types
<1>6. call'.s = Admin /\ call'.ret = "AGAIN" /\ call'.op = op
  BY <1>1 DEF Read, NoCall
<1>7. res'[Admin].kind = "none"
  BY <1>1 DEF IInv, OneForwardResult
<1> QED BY <1>0, <1>1, <1>2, <1>4, <1>5, <1>6, <1>7, SentKeeps
-----------------------------------------------------------------------------
(***************************************************************************)
(* The application reads on.                                               *)
(***************************************************************************)
\* Whoever has something left to read is the last one executed, and its flags
\* tell where the line is.
LEMMA LeftToRead ==
  ASSUME IInv, up, Idle, NEW s \in AllStmts, stmt[s].exec \notin raised,
         stmt[s].unread \/ stmt[s].has_more_results \/ stmt[s].has_more_rows_in_set
  PROVE  /\ stmt[s].exec = LastExec /\ LastExec # 0
         /\ \E p \in Phases :
              /\ Path(p, line, ServerAt)
              /\ IF stmt[s].unread THEN p = "start" /\ NoMore(stmt[s])
                 ELSE \/ p = "start" /\ AtStart(stmt[s])
                      \/ p = "rows" /\ InSet(stmt[s]) /\ stmt[s].partial_read_started
<1>1. stmt[s].exec = LastExec /\ LastExec # 0
  BY DEF IInv, OthersDone, NoMore
<1>2. PICK p, q \in Phases : Resting(p) /\ Path(p, batch, q) /\ Path(q, line, ServerAt)
  BY DEF IInv, Stream
<1>3. batch = << >>
  BY DEF IInv, Types, ReadTyped
<1>4. p = q
  BY <1>2, <1>3, EmptyPath
<1>5. IF stmt[s].unread THEN p = "start" /\ NoMore(stmt[s])
      ELSE \/ p = "end" /\ NoMore(stmt[s])
           \/ p = "start" /\ AtStart(stmt[s])
           \/ p = "rows" /\ InSet(stmt[s]) /\ stmt[s].partial_read_started
  BY <1>1, <1>2 DEF Resting
<1>6. IF stmt[s].unread THEN p = "start" /\ NoMore(stmt[s])
      ELSE \/ p = "start" /\ AtStart(stmt[s])
           \/ p = "rows" /\ InSet(stmt[s]) /\ stmt[s].partial_read_started
  BY <1>5 DEF NoMore
<1> QED BY <1>1, <1>2, <1>4, <1>6

LEMMA FurtherReadKeeps ==
  ASSUME Careful, IInv, NEW s \in Stmts,
         getNextResult(s) \/ getNextResult_callbacks(s) \/ nextResult(s)
  PROVE  IInv'
<1>0. /\ s \in AllStmts /\ s # Admin /\ stmt[s] \in Statements /\ Types'
      /\ stmt \in [AllStmts -> Statements] /\ res \in [AllStmts -> Results]
  BY FurtherReadTypes, ResultsAssumption DEF AllStmts, IInv, Types, StmtTyped, GotTyped
<1>1. /\ Idle /\ stmt[s].exec # 0 /\ stmt[s].exec \notin raised /\ ~stmt[s].partial_read_started
      /\ UNCHANGED <<up, todo, phase, pos, line, batch, raised, broken>>
  BY <1>0 DEF IInv, Types, Untouched, getNextResult, getNextResult_callbacks, nextResult, Readable,
              SecondRead, Careful, serverVars
<1>2. batch = << >> /\ res[s].kind # "fwd"
  BY <1>0, <1>1 DEF IInv, Types, ReadTyped, OneForwardResult
<1>3. up => stmt[s].unread \/ stmt[s].has_more_results
  <2>1. CASE getNextResult(s) \/ getNextResult_callbacks(s)
    BY <2>1 DEF getNextResult, getNextResult_callbacks, Readable
  <2>2. CASE nextResult(s)
    <3>1. res[s].kind = "buffered" /\ res[s].has_more_results
      BY <1>0, <1>2, <2>2 DEF nextResult, Results
    <3> QED BY <1>0, <1>1, <3>1 DEF IInv, ResultsPromise
  <2> QED BY <2>1, <2>2
<1>4. up => /\ stmt[s].exec = LastExec
            /\ \E p \in Phases : p = "start" /\ Path(p, line, ServerAt)
  BY <1>0, <1>1, <1>3, LeftToRead
<1>5. ASSUME NEW x \in Statements, stmt' = [stmt EXCEPT ![s] = x], x.exec = stmt[s].exec,
             ~x.unread, NoMore(x), x.field_count = 0, call'.s = s, call'.ret = "AGAIN",
             call'.op \in {"buffered", "fwd", "callback"},
             call'.op = "fwd" => x.partial_read_started,
             \A t \in AllStmts \ {s} : res'[t] = res[t], res'[s].kind # "fwd",
             call'.op = "callback" => res'[s].kind = "none"
      PROVE  IInv'
  <2>1. stmt'[s] = x /\ \A t \in AllStmts \ {s} : stmt'[t] = stmt[t]
    BY <1>0, <1>5, StmtSet DEF IInv, Types
  <2>2. Reader' = x
    BY <1>5, <2>1 DEF Reader
  <2>3. ASSUME NEW p, p = "start" PROVE Reading(p)'
    BY <1>1, <1>5, <2>2, <2>3 DEF Reading
  <2>4. up => \E p \in Phases : Reading(p)' /\ Path(p, line, ServerAt)
    BY <1>4, <2>3
  <2> QED BY <1>0, <1>1, <1>2, <1>4, <1>5, <2>1, <2>4, ReadStartKeeps DEF Ops
<1>6. CASE getNextResult(s) \/ nextResult(s)
  <2>1. PICK to \in {"stmt", "result"} : get_result(s, stmt[s], to)
    BY <1>6 DEF getNextResult, nextResult
  <2>2. res' = res
    BY <1>6 DEF getNextResult, nextResult
  <2>3. PICK x \in Statements :
           /\ stmt' = [stmt EXCEPT ![s] = x] /\ x.exec = stmt[s].exec
           /\ ~x.unread /\ NoMore(x) /\ x.field_count = 0
           /\ call'.s = s /\ call'.ret = "AGAIN" /\ call'.op \in {"buffered", "fwd"}
           /\ call'.op = "fwd" => x.partial_read_started
    BY <1>0, <1>1, <2>1, GetResultStarts DEF IInv
  <2> QED BY <1>2, <1>5, <2>2, <2>3
<1>7. CASE getNextResult_callbacks(s)
  <2> DEFINE x == init_read(stmt[s])
  <2>1. /\ x \in Statements /\ x.exec = stmt[s].exec /\ NoMore(x) /\ ~x.unread /\ x.field_count = 0
    BY <1>0, StmtTypes DEF init_read, Statements, NoMore
  <2>2. stmt' = [stmt EXCEPT ![s] = x]
    BY <1>7 DEF getNextResult_callbacks
  <2>3. call'.s = s /\ call'.ret = "AGAIN" /\ call'.op = "callback"
    BY <1>7 DEF getNextResult_callbacks, Read, NoCall
  <2>4. res'[s].kind = "none" /\ \A t \in AllStmts \ {s} : res'[t] = res[t]
    BY <1>0, <1>7 DEF getNextResult_callbacks, NoResult
  <2> HIDE DEF x
  <2> QED BY <1>5, <2>1, <2>2, <2>3, <2>4
<1> QED BY <1>6, <1>7

\* The rows of a forward only result are read on.
LEMMA RowsReadOn ==
  ASSUME IInv, Types', NEW s \in Stmts, Idle, stmt[s].exec # 0, stmt[s].exec \notin raised,
         stmt[s].has_more_rows_in_set, res[s].kind = "fwd",
         UNCHANGED <<up, todo, phase, pos, line, batch, raised, broken>>,
         NEW x \in Statements, stmt' = [stmt EXCEPT ![s] = x],
         x.exec = stmt[s].exec, x.unread = stmt[s].unread, x.field_count = stmt[s].field_count,
         x.has_more_results = stmt[s].has_more_results,
         x.has_more_rows_in_set = stmt[s].has_more_rows_in_set,
         x.partial_read_started = stmt[s].partial_read_started,
         call'.s = s, call'.ret = "AGAIN", call'.op \in {"next", "fetchAll", "iterNext"},
         res'[s].kind = "fwd", \A t \in AllStmts \ {s} : res'[t] = res[t]
  PROVE  IInv'
<1>0. s \in AllStmts /\ s # Admin /\ stmt[s] \in Statements /\ batch = << >>
  BY ResultsAssumption DEF AllStmts, IInv, Types, StmtTyped, ReadTyped
<1>3. stmt'[s] = x /\ \A t \in AllStmts \ {s} : stmt'[t] = stmt[t]
  <2>1. StmtTyped
    BY DEF IInv, Types
  <2> QED BY <1>0, <2>1, StmtSet
<1>4. x.partial_read_started
  BY <1>0 DEF IInv, OneForwardResult
<1>5. ASSUME up
      PROVE  stmt[s].exec = LastExec /\ \E p \in Phases : Reading(p)' /\ Path(p, line, ServerAt)
  <2>1. /\ stmt[s].exec = LastExec
        /\ \E p \in Phases :
              /\ Path(p, line, ServerAt)
              /\ IF stmt[s].unread THEN p = "start" /\ NoMore(stmt[s])
                 ELSE \/ p = "start" /\ AtStart(stmt[s])
                      \/ p = "rows" /\ InSet(stmt[s]) /\ stmt[s].partial_read_started
    BY <1>0, <1>5, LeftToRead
  <2>2. PICK p \in Phases :
          Path(p, line, ServerAt) /\ p = "rows" /\ InSet(stmt[s]) /\ ~stmt[s].unread
    BY <2>1 DEF NoMore, AtStart
  <2>3. Reader' = x /\ InSet(x) /\ ~x.unread
    BY <1>3, <2>2 DEF Reader, InSet
  <2>4. Reading(p)'
    BY <2>2, <2>3 DEF Reading
  <2> QED BY <2>1, <2>2, <2>4
<1> QED BY <1>0, <1>3, <1>4, <1>5, ReadStartKeeps DEF Ops

\* Taking a row that is here changes the place in the result.
LEMMA TakeKeeps ==
  ASSUME IInv, Types', NEW s \in Stmts,
         UNCHANGED <<up, todo, phase, pos, line, batch, raised, broken, stmt, call>>,
         res'[s].kind = res[s].kind, res'[s].has_more_results = res[s].has_more_results,
         \A t \in AllStmts \ {s} : res'[t] = res[t]
  PROVE  IInv'
<1>0. s # Admin /\ Admin \in AllStmts /\ ServerAt' = ServerAt /\ call.s \in AllStmts
  BY ResultsAssumption, ReaderIs DEF AllStmts, ServerAt, IInv
<1>1. \A t \in AllStmts : /\ res'[t].kind = res[t].kind
                          /\ res'[t].has_more_results = res[t].has_more_results
  OBVIOUS
<1>2. Stream' /\ Tidy' /\ OneReader' /\ OthersDone'
  BY <1>0, SameReader DEF IInv, Stream, Tidy, OneReader, OthersDone, NoMore
<1>3. OneForwardResult' /\ ResultsPromise'
  BY <1>0, <1>1, SameReader DEF IInv, OneForwardResult, ResultsPromise
<1>4. QueryHasNoSets'
  BY SameReader DEF IInv, QueryHasNoSets, NoMore
<1> QED BY <1>2, <1>3, <1>4 DEF IInv

LEMMA FetchKeeps ==
  ASSUME Careful, IInv, NEW s \in Stmts,
         fetchOne(s) \/ fetchAll(s) \/ iterator_rewind(s) \/ iterator_next(s)
  PROVE  IInv'
<1>0. /\ s \in AllStmts /\ res[s] \in Results /\ Types' /\ stmt[s] \in Statements
      /\ stmt \in [AllStmts -> Statements] /\ res \in [AllStmts -> Results]
  BY FetchTypes DEF AllStmts, IInv, Types, StmtTyped, GotTyped
<1>1. /\ Idle /\ stmt[s].exec # 0 /\ stmt[s].exec \notin raised
      /\ UNCHANGED <<up, todo, phase, pos, line, batch, raised, broken>>
  BY <1>0 DEF IInv, Types, Untouched, fetchOne, fetchAll, iterator_rewind, iterator_next, Usable,
              readVars, serverVars
<1>2. ASSUME NEW op \in {"next", "iterNext"}, NEW use, Prefetches(s), Prefetching(s, op, use)
      PROVE  IInv'
  <2>1. stmt[s].has_more_rows_in_set /\ res[s].kind = "fwd"
    BY <1>2 DEF Prefetches
  <2> DEFINE x == [stmt[s] EXCEPT !.prefetch_counter = Prefetch]
  <2>2. stmt' = [stmt EXCEPT ![s] = x]
    BY <1>2 DEF Prefetching
  <2>5. /\ x \in Statements /\ x.exec = stmt[s].exec /\ x.unread = stmt[s].unread
        /\ x.field_count = stmt[s].field_count /\ x.has_more_results = stmt[s].has_more_results
        /\ x.has_more_rows_in_set = stmt[s].has_more_rows_in_set
        /\ x.partial_read_started = stmt[s].partial_read_started
    BY <1>0, StmtTypes DEF Statements
  <2> HIDE DEF x
  <2>3. call'.s = s /\ call'.ret = "AGAIN" /\ call'.op = op
    BY <1>2 DEF Prefetching, Read, NoCall
  <2>4. res'[s].kind = "fwd" /\ \A t \in AllStmts \ {s} : res'[t] = res[t]
    <3>1. res'[s] = Emptied(res[s], use) /\ \A t \in AllStmts \ {s} : res'[t] = res[t]
      BY <1>0, <1>2 DEF Prefetching
    <3> QED BY <1>0, <2>1, <3>1 DEF Emptied, Results
  <2> QED BY <1>0, <1>1, <2>1, <2>2, <2>3, <2>4, <2>5, RowsReadOn
<1>3. ASSUME UNCHANGED <<stmt, call>>, NEW x, res' = [res EXCEPT ![s] = x],
             x.kind = res[s].kind, x.has_more_results = res[s].has_more_results
      PROVE  IInv'
  <2>1. res'[s] = x /\ \A t \in AllStmts \ {s} : res'[t] = res[t]
    BY <1>0, <1>3
  <2> QED BY <1>0, <1>1, <1>3, <2>1, TakeKeeps
<1>4. CASE fetchOne(s)
  <2>1. CASE /\ res' = [res EXCEPT ![s].row_cursor = @ + 1, ![s].use = "one"]
             /\ UNCHANGED <<stmt, call>>
    <3> DEFINE x == [res[s] EXCEPT !.row_cursor = res[s].row_cursor + 1, !.use = "one"]
    <3>1. x.kind = res[s].kind /\ x.has_more_results = res[s].has_more_results
      BY <1>0 DEF Results
    <3>2. res' = [res EXCEPT ![s] = x]
      BY <2>1
    <3> HIDE DEF x
    <3> QED BY <1>3, <2>1, <3>1, <3>2
  <2> QED BY <1>2, <1>4, <2>1 DEF fetchOne
<1>5. CASE iterator_rewind(s)
  <2> DEFINE x == [res[s] EXCEPT !.use = "iter"]
  <2>1. x.kind = res[s].kind /\ x.has_more_results = res[s].has_more_results
    BY <1>0 DEF Results
  <2>2. res' = [res EXCEPT ![s] = x] /\ UNCHANGED <<stmt, call>>
    BY <1>5 DEF iterator_rewind, readVars
  <2> HIDE DEF x
  <2> QED BY <1>3, <2>1, <2>2
<1>6. CASE iterator_next(s)
  <2>1. CASE ~Prefetches(s) /\ UNCHANGED <<stmt, call>>
    <3>1. PICK use : res' = [res EXCEPT ![s].row_cursor = @ + 1, ![s].use = use]
      BY <1>6, <2>1 DEF iterator_next
    <3> DEFINE x == [res[s] EXCEPT !.row_cursor = res[s].row_cursor + 1, !.use = use]
    <3>2. x.kind = res[s].kind /\ x.has_more_results = res[s].has_more_results
      BY <1>0 DEF Results
    <3>3. res' = [res EXCEPT ![s] = x]
      BY <3>1
    <3> HIDE DEF x
    <3> QED BY <1>3, <2>1, <3>2, <3>3
  <2> QED BY <1>2, <1>6, <2>1 DEF iterator_next
<1>7. CASE fetchAll(s)
  <2>1. CASE res' = [res EXCEPT ![s].use = "over"] /\ UNCHANGED <<stmt, call>>
    <3> DEFINE x == [res[s] EXCEPT !.use = "over"]
    <3>1. x.kind = res[s].kind /\ x.has_more_results = res[s].has_more_results
      BY <1>0 DEF Results
    <3>2. res' = [res EXCEPT ![s] = x]
      BY <2>1
    <3> HIDE DEF x
    <3> QED BY <1>3, <2>1, <3>1, <3>2
  <2>2. CASE /\ res[s].kind = "fwd"
             /\ stmt[s].has_more_rows_in_set
             /\ call' = [Read("fetchAll", s, "result") EXCEPT !.rowset = TRUE,
                           !.rows = res[s].rows]
             /\ UNCHANGED <<stmt, res, got>>
    <3>1. stmt[s].has_more_rows_in_set
      BY <2>2
    <3>3. stmt' = [stmt EXCEPT ![s] = stmt[s]]
      BY <1>0, <2>2
    <3>4. call'.s = s /\ call'.ret = "AGAIN" /\ call'.op = "fetchAll"
      BY <2>2 DEF Read, NoCall
    <3> QED BY <1>0, <1>1, <2>2, <3>1, <3>3, <3>4, RowsReadOn
  <2> QED BY <1>7, <2>1, <2>2 DEF fetchAll, Careful
<1> QED BY <1>4, <1>5, <1>6, <1>7

-----------------------------------------------------------------------------
LEMMA InitKeeps ==
  ASSUME Init
  PROVE  IInv
<1>0. Types /\ Admin \in AllStmts
  BY InitTypes DEF AllStmts
<1>1. /\ \A s \in AllStmts : /\ stmt[s].exec = 0 /\ ~stmt[s].unread /\ NoMore(stmt[s])
                             /\ ~stmt[s].partial_read_started /\ res[s].kind = "none"
      /\ Idle /\ call.op = "none" /\ raised = {} /\ ~broken
      /\ up /\ line = << >> /\ batch = << >> /\ todo = << >> /\ phase = "start" /\ pos.set = 0
  BY DEF Init, NewStmt, NoResult, NoCall, Idle, NoMore
<1>2. LastExec = 0
  BY <1>0, <1>1, LastIs DEF Types
<1>3. Len(todo) = 0 /\ Len(batch) = 0 /\ Len(line) = 0
  BY <1>1
<1>4. Stream
  <2>1. "end" \in Phases /\ Path("end", << >>, "end") /\ ServerAt = "end"
    BY <1>1, EmptyPath DEF Phases, ServerAt
  <2>2. Resting("end")
    BY <1>2 DEF Resting
  <2> QED BY <1>1, <2>1, <2>2 DEF Stream
<1>5. Tidy
  BY <1>1, <1>3 DEF Tidy
<1>6. OneReader /\ OthersDone /\ OneForwardResult /\ ResultsPromise /\ QueryHasNoSets
  BY <1>0, <1>1 DEF OneReader, OthersDone, OneForwardResult, ResultsPromise, QueryHasNoSets
<1> QED BY <1>0, <1>1, <1>4, <1>5, <1>6 DEF IInv

LEMMA StutterKeeps ==
  ASSUME IInv, UNCHANGED vars
  PROVE  IInv'
<1>1. UNCHANGED <<up, todo, phase, pos, line, batch, raised, broken, stmt, call, res, ServerAt>>
  BY DEF vars, serverVars, readVars, ServerAt
<1>2. Types'
  BY NextTypes DEF IInv
<1>3. Stream' /\ Tidy' /\ OneReader' /\ OthersDone'
  BY <1>1, SameReader DEF IInv, Stream, Tidy, OneReader, OthersDone, NoMore
<1>4. OneForwardResult' /\ ResultsPromise' /\ QueryHasNoSets' /\ ~broken'
  BY <1>1, SameReader DEF IInv, OneForwardResult, ResultsPromise, QueryHasNoSets, NoMore
<1> QED BY <1>2, <1>3, <1>4 DEF IInv

LEMMA Invariance ==
  ASSUME Careful
  PROVE  Spec => []IInv
<1>1. Init => IInv
  BY InitKeeps
<1>2. IInv /\ [Next]_vars => IInv'
  <2> SUFFICES ASSUME IInv, [Next]_vars PROVE IInv'
    OBVIOUS
  <2>1. CASE Server \/ ConnectionLost
    BY <2>1, ServerKeeps, ConnectionLostKeeps
  <2>2. CASE receive
    BY <2>2, receiveKeeps
  <2>3. CASE Process
    BY <2>3, ProcessKeeps
  <2>4. CASE Return
    BY <2>4, ReturnKeeps
  <2>5. CASE Application
    BY <2>5, executeKeeps, admin_queryKeeps, FurtherReadKeeps, FetchKeeps DEF Application
  <2>6. CASE UNCHANGED vars
    BY <2>6, StutterKeeps
  <2> QED BY <2>1, <2>2, <2>3, <2>4, <2>5, <2>6 DEF Next
<1> QED BY <1>1, <1>2, PTL DEF Spec

\* When the application is careful, nothing undefined is reached at all, and so by no
\* read that begins with a result of its own: rows are unpacked with the one column
\* that on_COLUMN_META counted since init_read, and no result is returned twice.
THEOREM NothingUndefinedHolds ==
  ASSUME Careful
  PROVE  Spec => []~broken /\ UndefinedOnlyReadingPast
<1>1. IInv => ~broken
  BY DEF IInv
<1>2. Spec => []~broken
  BY <1>1, Invariance, PTL
<1>3. ~broken' => [broken' /\ ~broken => ReadsPast]_vars
  OBVIOUS
<1> QED BY <1>2, <1>3, PTL DEF UndefinedOnlyReadingPast

\* Between the calls of a careful application has_more_results tells whether a part of the
\* last answer is still on the line, however the messages were grouped into frames.
THEOREM FlagTellsTheLineHolds ==
  ASSUME Careful
  PROVE  Spec => []FlagTellsTheLine
<1>1. IInv => FlagTellsTheLine
  <2> SUFFICES ASSUME IInv, NEW s \in AllStmts, Idle, up, stmt[s].exec = LastExec, LastExec # 0,
                      ~stmt[s].unread, LastExec \notin raised
               PROVE  stmt[s].has_more_results <=> (line # << >> \/ todo # << >>)
    BY DEF FlagTellsTheLine
  <2>1. PICK p, q \in Phases : Resting(p) /\ Path(p, batch, q) /\ Path(q, line, ServerAt)
    BY DEF IInv, Stream
  <2>2. batch = << >>
    BY DEF IInv, Types, ReadTyped
  <2>3. p = q
    BY <2>1, <2>2, EmptyPath
  <2>4. \/ p = "end" /\ NoMore(stmt[s])
        \/ p = "start" /\ AtStart(stmt[s])
        \/ p = "rows" /\ InSet(stmt[s])
    BY <2>1 DEF Resting
  <2>5. CASE p = "end"
    <3>1. line = << >> /\ ServerAt = "end" /\ ~stmt[s].has_more_results
      BY <2>1, <2>3, <2>4, <2>5, PathFromEnd DEF NoMore
    <3> QED BY <3>1, LineFacts DEF IInv
  <2>6. CASE p # "end"
    <3>1. stmt[s].has_more_results
      BY <2>4, <2>6 DEF AtStart, InSet
    <3>2. ASSUME line = << >> PROVE todo # << >>
      BY <2>1, <2>3, <2>6, <3>2, LineFacts, EmptyPath DEF IInv
    <3> QED BY <3>1, <3>2
  <2> QED BY <2>5, <2>6
<1> QED BY <1>1, Invariance, PTL
-----------------------------------------------------------------------------
(***************************************************************************)
(* Rows.                                                                   *)
(***************************************************************************)
LastRow(q) == q[Len(q)]
Produced(e) == {produced[e][j] : j \in 1..Len(produced[e])}
\* Consecutive rows of one result set of execution e.
Run(rows, e) == \A i \in 1..Len(rows) : rows[i] = Row(e, rows[1].set, rows[1].n + i - 1)
\* The row r may be given when q has been.
CanFollow(q, r) ==
  /\ q = << >> => r.n = 1
  /\ q # << >> => Delivery!Follows(LastRow(q), r)
\* The rows of an answer with one result set.
Numbered(q, e) == \A i \in 1..Len(q) : q[i] = Row(e, 1, i)

\* A place in an answer: a result set and the number of rows before this place.
Places == [set : Nat, n : Nat]
PlaceOf(r) == [set |-> r.set, n |-> r.n]
RowAt(e, a) == Row(e, a.set, a.n)
Moves(a, m) ==
  CASE m.type = "META" -> [set |-> a.set + 1, n |-> 0]
    [] m.type = "ROW" -> [set |-> a.set, n |-> a.n + 1]
    [] OTHER -> a

\* The message m leads to place a of the answer to e: its row is the one before
\* a and belongs to P, and a set ends at places of E only.
Fits(e, m, a, P, E) ==
  /\ m.type = "ROW" => m.row = RowAt(e, a) /\ m.row \in P
  /\ m.type \in {"MORE", "DONE"} => a \in E

\* The messages ms lead from place a to place b of the answer to e.
Walk(e, a, ms, b, P, E) ==
  \E at \in [0..Len(ms) -> Places] :
    /\ at[0] = a /\ at[Len(ms)] = b
    /\ \A i \in 1..Len(ms) : at[i] = Moves(at[i - 1], ms[i]) /\ Fits(e, ms[i], at[i], P, E)

\* The places at which a result set of e ends: the server does not come back to
\* the set, and has sent no row behind the place.
Ends(e) ==
  {c \in Places :
     /\ todo # << >> /\ todo[1].e = e => c.set < pos.set \/ (c.set = pos.set /\ phase # "rows")
     /\ \A r \in Produced(e) : r.set = c.set => r.n <= c.n}

(***************************************************************************)
(* The inductive invariant.  The server is behind the rows it has sent; it *)
(* answers the last execution, and the ones to come are untouched.         *)
(***************************************************************************)
ServerRows ==
  /\ todo # << >> => /\ todo[1].e = LastExec
                     /\ \A r \in Produced(todo[1].e) :
                          r.set < pos.set \/ (r.set = pos.set /\ r.n <= pos.n)
  /\ \A e \in Executions : e > LastExec => produced[e] = << >> /\ got[e] = << >>

\* A statement that is not read with BUFFERED has one result set.
SingleSet ==
  \A s \in Stmts, e \in Executions : stmt[s].exec = e /\ "BUFFERED" \notin stmt[s].flags =>
    /\ Numbered(produced[e], e) /\ Numbered(got[e], e)
    /\ todo # << >> /\ todo[1].e = e =>
         /\ todo[1].sets <= 1 /\ pos.set <= 1
         /\ pos.set = 0 => produced[e] = << >>
         /\ pos.set = 1 => Len(produced[e]) = pos.n

\* What was given is in order and was produced.
GotRows ==
  \A e \in Executions :
    Delivery!InOrder(got[e]) /\ \A i \in 1..Len(got[e]) : got[e][i] \in Produced(e)

(***************************************************************************)
(* Where rows wait for the application.  In what follows r is a result, st *)
(* its statement, c a read, e the execution, q the rows of e that were     *)
(* given, P the rows that were sent, and E the places where sets end.      *)
(***************************************************************************)
\* The rows of a result, and which of them were given.
ResultRows(r, e, q, P, E) ==
  /\ Run(r.rows, e) /\ \A i \in 1..Len(r.rows) : r.rows[i] \in P
  /\ r.use # "none" => r.rowset
  /\ r.use = "none" => r.row_cursor = 0
  /\ r.use \in {"none", "one"} /\ r.row_cursor = 0 /\ r.rows # << >> => CanFollow(q, r.rows[1])
  /\ r.use \in {"one", "iter"} => q # << >>
  /\ r.use = "one" /\ r.row_cursor # 0 =>
       r.row_cursor <= Len(r.rows) /\ LastRow(q) = r.rows[r.row_cursor]
  /\ r.use = "iter" /\ r.rows # << >> =>
       r.row_cursor < Len(r.rows) /\ LastRow(q) = r.rows[r.row_cursor + 1]
  /\ r.kind = "buffered" /\ r.rows # << >> => r.rows[1].n = 1 /\ PlaceOf(LastRow(r.rows)) \in E

\* A result that nobody reads for: a forward only one without more rows ends
\* where its set ends.
ForwardEnds(r, st, q, E) ==
  /\ r.use = "iter" => r.rows # << >>
  /\ ~st.has_more_rows_in_set /\ r.rows # << >> /\ r.use # "over" =>
       PlaceOf(LastRow(r.rows)) \in E
  /\ ~st.has_more_rows_in_set /\ r.rows = << >> /\ r.use = "one" => PlaceOf(LastRow(q)) \in E

\* The rows of a read in progress.
CallRows(c, st, r, q, P, E) ==
  /\ Run(c.rows, st.exec) /\ \A i \in 1..Len(c.rows) : c.rows[i] \in P
  /\ c.rows # << >> => CanFollow(q, c.rows[1])
  /\ c.op \in {"callback", "query", "query_cb"} => c.rows = << >> /\ r.kind = "none"
  /\ c.op = "fwd" => r.kind = "none" /\ "BUFFERED" \notin st.flags
  /\ c.op = "buffered" => /\ "BUFFERED" \in st.flags
                          /\ c.rows # << >> => c.rows[1].n = 1
  /\ c.op \in {"next", "iterNext"} =>
       r.rows = << >> /\ r.row_cursor = 0 /\ q # << >> /\ r.rowset
  /\ c.op = "next" => r.use = "one"
  /\ c.op = "iterNext" => r.use = "iter"
  /\ c.op = "fetchAll" => r.use = "none" /\ r.rowset
  /\ c.ret = "PASS" /\ st.has_more_rows_in_set => c.rows # << >> /\ c.op # "buffered"
  /\ ~st.has_more_rows_in_set =>
       /\ c.rows # << >> => PlaceOf(LastRow(c.rows)) \in E
       /\ c.rows = << >> /\ c.op = "next" => PlaceOf(LastRow(q)) \in E

ResultsRows ==
  \A s \in AllStmts :
    /\ res[s].kind = "none" =>
         res[s].rows = << >> /\ res[s].row_cursor = 0 /\ res[s].use = "none"
    /\ res[s].kind = "buffered" => "BUFFERED" \in stmt[s].flags
    /\ res[s].kind = "fwd" => "BUFFERED" \notin stmt[s].flags
    /\ \A e \in Executions : stmt[s].exec = e /\ res[s].kind # "none" =>
         ResultRows(res[s], e, got[e], Produced(e), Ends(e))

RestingRows ==
  \A s \in AllStmts, e \in Executions :
    (Idle \/ call.s # s) /\ stmt[s].exec = e /\ res[s].kind = "fwd" =>
      ForwardEnds(res[s], stmt[s], got[e], Ends(e))

ReadRows ==
  \A e \in Executions : ~Idle /\ Reader.exec = e =>
    CallRows(call, Reader, res[call.s], got[e], Produced(e), Ends(e))

(***************************************************************************)
(* The reader of the last statement is at place a of the answer.           *)
(***************************************************************************)
\* Nothing here is of a later set.
Near(a, r, q) ==
  /\ q # << >> => LastRow(q).set <= a.set
  /\ \A i \in 1..Len(r.rows) : r.rows[i].set <= a.set

\* The next row joins the rows of the read, ...
AtCall(a, c, st, q) ==
  /\ \A i \in 1..Len(c.rows) : c.rows[i].set <= a.set
  /\ st.field_count = 0 => c.rows = << >> /\ c.op \notin {"next", "iterNext"}
  /\ st.has_more_rows_in_set =>
       /\ c.rows # << >> => LastRow(c.rows) = RowAt(st.exec, a)
       /\ c.rows = << >> /\ c.op \in {"next", "iterNext"} => PlaceOf(LastRow(q)) = a
       /\ c.rows = << >> /\ c.op \notin {"next", "iterNext"} =>
            CanFollow(q, Row(st.exec, a.set, a.n + 1))
       /\ c.rows = << >> /\ c.op = "buffered" => a.n = 0

\* ... or those of the forward only result.
AtRest(a, r, st) ==
  st.has_more_rows_in_set /\ r.kind = "fwd" /\ r.use # "over" =>
    r.rows # << >> /\ LastRow(r.rows) = RowAt(st.exec, a)

\* From place a the messages bs in the frame and ls on the line lead to the
\* place ps of the server, if it has something to do.
Way(e, a, bs, ls, P, E, td, ps) ==
  \E b, c \in Places :
    Walk(e, a, bs, b, P, E) /\ Walk(e, b, ls, c, P, E) /\ (td # << >> => c = ps)

Placed ==
  \A e \in Executions \ raised : up /\ LastExec = e =>
    \E a \in Places :
      /\ Way(e, a, batch, line, Produced(e), Ends(e), todo, pos)
      /\ \A s \in AllStmts : stmt[s].exec = e =>
           /\ Near(a, res[s], got[e])
           /\ Idle => AtRest(a, res[s], stmt[s])
           /\ ~Idle => AtCall(a, call, stmt[s], got[e])

RInv == /\ IInv /\ ServerRows /\ SingleSet /\ GotRows /\ ResultsRows /\ RestingRows
        /\ ReadRows /\ Placed
-----------------------------------------------------------------------------
(***************************************************************************)
(* Walks.                                                                  *)
(***************************************************************************)
LEMMA MovesTo ==
  ASSUME NEW a \in Places, NEW m
  PROVE  /\ Moves(a, m) \in Places /\ a.set \in Nat /\ a.n \in Nat
         /\ m.type = "META" => Moves(a, m).set = a.set + 1 /\ Moves(a, m).n = 0
         /\ m.type = "ROW" => Moves(a, m).set = a.set /\ Moves(a, m).n = a.n + 1
         /\ m.type \notin {"META", "ROW"} => Moves(a, m) = a
BY DEF Moves, Places

LEMMA WalkNowhere ==
  ASSUME NEW e, NEW a \in Places, NEW P, NEW E
  PROVE  Walk(e, a, << >>, a, P, E) /\ \A b : Walk(e, a, << >>, b, P, E) => a = b
<1>1. Len(<< >>) = 0
  OBVIOUS
<1>2. [i \in 0..0 |-> a] \in [0..0 -> Places] /\ [i \in 0..0 |-> a][0] = a
  OBVIOUS
<1>3. \A i \in 1..0 : FALSE
  OBVIOUS
<1>4. Walk(e, a, << >>, a, P, E)
  BY <1>1, <1>2, <1>3, Zenon DEF Walk
<1>5. ASSUME NEW b, Walk(e, a, << >>, b, P, E)
      PROVE  a = b
  BY <1>1, <1>5, Zenon DEF Walk
<1> QED
  BY <1>4, <1>5

\* A message at the end.
LEMMA WalkGrows ==
  ASSUME NEW e, NEW a, NEW b \in Places, NEW P, NEW E, NEW ms \in Seq(Sent), NEW m \in Sent,
         Walk(e, a, ms, b, P, E), Fits(e, m, Moves(b, m), P, E)
  PROVE  Walk(e, a, Append(ms, m), Moves(b, m), P, E)
<1> DEFINE n == Len(ms)
           ns == Append(ms, m)
<1>1. /\ n \in Nat /\ Len(ns) = n + 1 /\ ns[n + 1] = m
      /\ \A k \in 1..n : ns[k] = ms[k]
  BY AppendElements, LenProperties
<1>2. PICK at \in [0..n -> Places] :
        /\ at[0] = a /\ at[n] = b
        /\ \A i \in 1..n : at[i] = Moves(at[i - 1], ms[i]) /\ Fits(e, ms[i], at[i], P, E)
  BY DEF Walk
<1>3. Moves(b, m) \in Places
  BY MovesTo
<1> DEFINE on == [i \in 0..(n + 1) |-> IF i = n + 1 THEN Moves(b, m) ELSE at[i]]
<1> HIDE DEF n, ns
<1>4. on \in [0..(n + 1) -> Places] /\ on[0] = a /\ on[n + 1] = Moves(b, m)
  <2>1. on \in [0..(n + 1) -> Places]
    <3> SUFFICES ASSUME NEW i \in 0..(n + 1), i # n + 1 PROVE at[i] \in Places
      BY <1>3
    <3>1. i \in 0..n
      BY <1>1
    <3> QED
      BY <3>1
  <2>2. 0 \in 0..(n + 1) /\ 0 # n + 1 /\ n + 1 \in 0..(n + 1)
    BY <1>1
  <2> QED
    BY <1>2, <2>1, <2>2
<1>5. ASSUME NEW i \in 1..(n + 1)
      PROVE  on[i] = Moves(on[i - 1], ns[i]) /\ Fits(e, ns[i], on[i], P, E)
  <2>1. CASE i = n + 1
    <3>1. on[i - 1] = b /\ on[i] = Moves(b, m)
      <4>1. n \in 0..(n + 1) /\ n # n + 1 /\ i - 1 = n /\ n + 1 \in 0..(n + 1)
        BY <1>1, <2>1
      <4>2. on[n] = at[n] /\ on[n + 1] = Moves(b, m)
        BY <4>1
      <4> QED
        BY <1>2, <2>1, <4>1, <4>2
    <3> QED
      BY <1>1, <2>1, <3>1, Zenon
  <2>2. CASE i # n + 1
    <3>1. i \in 1..n /\ i \in 0..(n + 1) /\ i - 1 \in 0..(n + 1) /\ i - 1 # n + 1
      BY <1>1, <2>2
    <3>2. on[i] = at[i] /\ on[i - 1] = at[i - 1] /\ ns[i] = ms[i]
      BY <1>1, <2>2, <3>1
    <3> HIDE DEF on
    <3> QED
      BY <1>2, <3>1, <3>2, Zenon
  <2> QED
    BY <2>1, <2>2
<1> HIDE DEF on
<1> QED
  BY <1>1, <1>4, <1>5, Zenon DEF Walk, ns

\* The places of a walk over n messages, and k messages behind the first j.
Trail(e, at, ms, n, P, E) ==
  /\ n \in Nat /\ at \in [0..n -> Places]
  /\ \A i \in 1..n : at[i] = Moves(at[i - 1], ms[i]) /\ Fits(e, ms[i], at[i], P, E)
Piece(ns, ms, j, k, n) ==
  /\ j \in 0..n /\ k \in Nat /\ j + k <= n /\ Len(ns) = k
  /\ \A i \in 1..k : ns[i] = ms[j + i]

\* A part of a walk is a walk.
LEMMA WalkPart ==
  ASSUME NEW e, NEW at, NEW ms, NEW n, NEW P, NEW E, Trail(e, at, ms, n, P, E),
         NEW ns, NEW j, NEW k, Piece(ns, ms, j, k, n)
  PROVE  Walk(e, at[j], ns, at[j + k], P, E)
<1>0. /\ n \in Nat /\ at \in [0..n -> Places] /\ j \in 0..n /\ k \in Nat /\ j + k <= n /\ Len(ns) = k
      /\ \A i \in 1..n : at[i] = Moves(at[i - 1], ms[i]) /\ Fits(e, ms[i], at[i], P, E)
      /\ \A i \in 1..k : ns[i] = ms[j + i]
  BY DEF Trail, Piece
<1> DEFINE on == [i \in 0..k |-> at[j + i]]
<1>1. \A i \in 0..k : j + i \in 0..n
  BY <1>0
<1>2. on \in [0..k -> Places]
  BY <1>0, <1>1
<1>3. on[0] = at[j] /\ on[k] = at[j + k]
  <2>1. 0 \in 0..k /\ k \in 0..k /\ j + 0 = j
    BY <1>0
  <2>2. on[0] = at[j + 0] /\ on[k] = at[j + k]
    BY <2>1
  <2> QED
    BY <2>1, <2>2
<1>4. ASSUME NEW i \in 1..k
      PROVE  on[i] = Moves(on[i - 1], ns[i]) /\ Fits(e, ns[i], on[i], P, E)
  <2>1. /\ i \in 0..k /\ i - 1 \in 0..k /\ j + i \in 1..n
        /\ j + (i - 1) = j + i - 1
    BY <1>0
  <2>2. PICK x \in 1..n : x = j + i
    BY <2>1
  <2>3. at[x] = Moves(at[x - 1], ms[x]) /\ Fits(e, ms[x], at[x], P, E)
    BY <1>0
  <2>4. on[i] = at[x]
    BY <2>1, <2>2
  <2>5. on[i - 1] = at[x - 1]
    <3>1. on[i - 1] = at[j + (i - 1)]
      BY <2>1
    <3>2. j + (i - 1) = x - 1
      BY <1>0, <2>2
    <3> HIDE DEF on
    <3> QED
      BY <3>1, <3>2, Zenon
  <2> HIDE DEF on
  <2>6. ns[i] = ms[x]
    BY <1>0, <2>2
  <2> QED
    BY <2>3, <2>4, <2>5, <2>6, Zenon
<1> HIDE DEF on
<1> QED
  BY <1>0, <1>2, <1>3, <1>4, Zenon DEF Walk

\* The first message of a walk, and the walk behind it.
LEMMA WalkStarts ==
  ASSUME NEW e, NEW a, NEW b, NEW P, NEW E, NEW ms \in Seq(Sent), ms # << >>,
         Walk(e, a, ms, b, P, E)
  PROVE  /\ Fits(e, ms[1], Moves(a, ms[1]), P, E)
         /\ Walk(e, Moves(a, ms[1]), Tail(ms), b, P, E)
<1> DEFINE n == Len(ms)
<1>1. /\ n \in Nat /\ n > 0 /\ Len(Tail(ms)) = n - 1
      /\ \A k \in 1..(n - 1) : Tail(ms)[k] = ms[k + 1]
  BY TailElements
<1>2. PICK at \in [0..n -> Places] :
        /\ at[0] = a /\ at[n] = b
        /\ \A i \in 1..n : at[i] = Moves(at[i - 1], ms[i]) /\ Fits(e, ms[i], at[i], P, E)
  BY DEF Walk
<1> HIDE DEF n
<1>3. at[1] = Moves(a, ms[1]) /\ Fits(e, ms[1], at[1], P, E)
  <2>1. 1 \in 1..n /\ 1 - 1 = 0
    BY <1>1
  <2> QED
    BY <1>2, <2>1
<1>4. Walk(e, at[1], Tail(ms), at[1 + (n - 1)], P, E)
  <2>1. n - 1 \in Nat /\ 1 \in 0..n /\ 1 + (n - 1) <= n /\ \A i \in 1..(n - 1) : i + 1 = 1 + i
    BY <1>1
  <2>2. \A i \in 1..(n - 1) : Tail(ms)[i] = ms[1 + i]
    BY <1>1, <2>1
  <2>3. Trail(e, at, ms, n, P, E) /\ Piece(Tail(ms), ms, 1, n - 1, n)
    BY <1>1, <1>2, <2>1, <2>2 DEF Trail, Piece
  <2> QED
    BY <2>3, WalkPart, Zenon
<1>5. 1 + (n - 1) = n
  BY <1>1
<1> QED
  BY <1>2, <1>3, <1>4, <1>5

LEMMA WalkCut ==
  ASSUME NEW e, NEW a, NEW b, NEW P, NEW E, NEW ms \in Seq(Sent), NEW k \in 1..Len(ms),
         Walk(e, a, ms, b, P, E)
  PROVE  \E c \in Places : /\ Walk(e, a, SubSeq(ms, 1, k), c, P, E)
                           /\ Walk(e, c, SubSeq(ms, k + 1, Len(ms)), b, P, E)
<1> DEFINE n == Len(ms)
           xs == SubSeq(ms, 1, k)
           ys == SubSeq(ms, k + 1, n)
<1>1. /\ n \in Nat /\ k \in Nat /\ k <= n /\ k \in 0..n
      /\ Len(xs) = k /\ \A i \in 1..k : xs[i] = ms[i]
      /\ Len(ys) = n - k /\ \A i \in 1..(n - k) : ys[i] = ms[k + i]
  <2>1. n \in Nat /\ k \in Nat /\ k <= n /\ k \in 0..n
    BY LenProperties
  <2> QED
    BY <2>1, CutAt
<1>2. PICK at \in [0..n -> Places] :
        /\ at[0] = a /\ at[n] = b
        /\ \A i \in 1..n : at[i] = Moves(at[i - 1], ms[i]) /\ Fits(e, ms[i], at[i], P, E)
  BY DEF Walk
<1> HIDE DEF n, xs, ys
<1>3. Walk(e, at[0], xs, at[0 + k], P, E)
  <2>1. 0 \in 0..n /\ 0 + k <= n /\ \A i \in 1..k : 0 + i = i
    BY <1>1
  <2>2. \A i \in 1..k : xs[i] = ms[0 + i]
    BY <1>1, <2>1
  <2>3. Trail(e, at, ms, n, P, E) /\ Piece(xs, ms, 0, k, n)
    BY <1>1, <1>2, <2>1, <2>2 DEF Trail, Piece
  <2> QED
    BY <2>3, WalkPart, Zenon
<1>4. Walk(e, at[k], ys, at[k + (n - k)], P, E)
  <2>1. n - k \in Nat /\ k + (n - k) <= n
    BY <1>1
  <2>2. Trail(e, at, ms, n, P, E) /\ Piece(ys, ms, k, n - k, n)
    BY <1>1, <1>2, <2>1 DEF Trail, Piece
  <2> QED
    BY <2>2, WalkPart, Zenon
<1>5. 0 + k = k /\ k + (n - k) = n /\ at[k] \in Places
  <2>1. 0 + k = k /\ k + (n - k) = n /\ k \in 0..n
    BY <1>1
  <2>2. at[k] \in Places
    BY <1>2, <2>1, Zenon
  <2> QED
    BY <2>1, <2>2
<1> QED
  BY <1>2, <1>3, <1>4, <1>5 DEF n, xs, ys

\* More rows may have been sent and more sets may have ended meanwhile.
LEMMA WalkWidens ==
  ASSUME NEW e, NEW a, NEW b, NEW P, NEW E, NEW ms, Walk(e, a, ms, b, P, E),
         NEW Q, NEW F, P \subseteq Q, E \subseteq F
  PROVE  Walk(e, a, ms, b, Q, F)
<1>1. \A m, p : Fits(e, m, p, P, E) => Fits(e, m, p, Q, F)
  BY DEF Fits
<1> QED
  BY <1>1, Zenon DEF Walk

-----------------------------------------------------------------------------
(***************************************************************************)
(* Rows one after the other.                                               *)
(***************************************************************************)
\* The sequence p is q with rows behind it.
Extends(p, q, rows) ==
  /\ p \in Seq(Rows) /\ Len(p) = Len(q) + Len(rows)
  /\ \A i \in 1..Len(q) : p[i] = q[i]
  /\ \A i \in 1..Len(rows) : p[Len(q) + i] = rows[i]

LEMMA ConcatExtends ==
  ASSUME NEW q \in Seq(Rows), NEW rows \in Seq(Rows)
  PROVE  Extends(q \o rows, q, rows) /\ Len(q) \in Nat /\ Len(rows) \in Nat
<1>1. Len(q) \in Nat /\ Len(rows) \in Nat /\ q \o rows \in Seq(Rows)
      /\ Len(q \o rows) = Len(q) + Len(rows)
  BY ConcatProperties, LenProperties
<1>2. \A i \in 1..(Len(q) + Len(rows)) :
        (q \o rows)[i] = IF i <= Len(q) THEN q[i] ELSE rows[i - Len(q)]
  BY <1>1, ConcatProperties
<1>3. ASSUME NEW i \in 1..Len(q) PROVE (q \o rows)[i] = q[i]
  BY <1>1, <1>2
<1>4. ASSUME NEW i \in 1..Len(rows) PROVE (q \o rows)[Len(q) + i] = rows[i]
  <2>1. Len(q) + i \in 1..(Len(q) + Len(rows)) /\ ~(Len(q) + i <= Len(q)) /\ Len(q) + i - Len(q) = i
    BY <1>1
  <2> QED
    BY <1>2, <2>1
<1> QED
  BY <1>1, <1>3, <1>4, Zenon DEF Extends

LEMMA AppendExtends ==
  ASSUME NEW q \in Seq(Rows), NEW r \in Rows
  PROVE  Extends(Append(q, r), q, << r >>)
<1>1. /\ Append(q, r) \in Seq(Rows) /\ Len(Append(q, r)) = Len(q) + 1
      /\ Append(q, r)[Len(q) + 1] = r
      /\ \A k \in 1..Len(q) : Append(q, r)[k] = q[k]
  BY AppendElements
<1>2. Len(<< r >>) = 1 /\ << r >>[1] = r
  OBVIOUS
<1>3. \A i \in 1..1 : i = 1
  OBVIOUS
<1> QED
  BY <1>1, <1>2, <1>3 DEF Extends

LEMMA ExtendsByNothing ==
  ASSUME NEW q \in Seq(Rows)
  PROVE  Extends(q, q, << >>)
<1>1. Len(<< >>) = 0 /\ Len(q) \in Nat
  BY LenProperties
<1>2. Len(q) = Len(q) + 0 /\ \A i \in 1..0 : FALSE
  BY <1>1
<1> QED
  BY <1>1, <1>2 DEF Extends

\* A row in its parts.
LEMMA RowParts ==
  /\ \A e, set, n : Row(e, set, n).e = e /\ Row(e, set, n).set = set /\ Row(e, set, n).n = n
  /\ \A r \in Rows : /\ r = Row(r.e, r.set, r.n) /\ r.set \in Nat /\ r.n \in Nat /\ r.n > 0
                     /\ r.set > 0 /\ PlaceOf(r) \in Places /\ RowAt(r.e, PlaceOf(r)) = r
BY ResultsAssumption DEF Row, Rows, PlaceOf, Places, RowAt

\* The last row given.
LEMMA ExtendsEnds ==
  ASSUME NEW q \in Seq(Rows), NEW rows \in Seq(Rows), NEW p, Extends(p, q, rows)
  PROVE  /\ rows # << >> => p # << >> /\ LastRow(p) = LastRow(rows)
         /\ rows = << >> => p = q
<1> DEFINE m == Len(q)
           n == Len(rows)
<1>1. m \in Nat /\ n \in Nat /\ (q = << >> <=> m = 0) /\ (rows = << >> <=> n = 0)
  BY LenProperties, EmptyIs
<1>2. /\ p \in Seq(Rows) /\ Len(p) = m + n /\ \A i \in 1..m : p[i] = q[i]
      /\ \A i \in 1..n : p[m + i] = rows[i]
  BY DEF Extends
<1>3. p = << >> <=> m + n = 0
  BY <1>2, EmptyIs
<1> HIDE DEF m, n
<1>4. ASSUME n # 0
       PROVE  p # << >> /\ LastRow(p) = LastRow(rows)
  <2>1. n \in 1..n /\ m + n # 0
    BY <1>1, <1>4
  <2> QED
    BY <1>2, <1>3, <2>1 DEF LastRow, n
<1>5. ASSUME n = 0
       PROVE  p = q
  <2>1. Len(p) = Len(q) /\ \A i \in 1..Len(p) : p[i] = q[i]
    BY <1>1, <1>2, <1>5 DEF m
  <2> QED
    BY <1>2, <2>1, SeqEqual
<1> QED
  BY <1>1, <1>4, <1>5

\* Rows that may follow are given.
LEMMA FollowOn ==
  ASSUME NEW e, NEW q \in Seq(Rows), NEW rows \in Seq(Rows), NEW p, Extends(p, q, rows),
         Run(rows, e), rows # << >> => CanFollow(q, rows[1])
  PROVE  /\ Delivery!InOrder(q) => Delivery!InOrder(p)
         /\ \A P : /\ \A i \in 1..Len(q) : q[i] \in P
                   /\ \A i \in 1..Len(rows) : rows[i] \in P
                   => \A i \in 1..Len(p) : p[i] \in P
         /\ Numbered(q, e) /\ (\A i \in 1..Len(rows) : rows[i].set = 1) => Numbered(p, e)
<1> DEFINE m == Len(q)
           n == Len(rows)
<1>1. m \in Nat /\ n \in Nat /\ (q = << >> <=> m = 0) /\ (rows = << >> <=> n = 0)
  BY LenProperties, EmptyIs
<1>2. /\ p \in Seq(Rows) /\ Len(p) = m + n /\ \A i \in 1..m : p[i] = q[i]
      /\ \A i \in 1..n : p[m + i] = rows[i]
  BY DEF Extends
<1>3. p = << >> <=> m + n = 0
  BY <1>2, EmptyIs
<1>4. /\ \A i \in 1..m : q[i] \in Rows
      /\ \A i \in 1..n : rows[i] \in Rows
  BY ElementOfSeq
<1> HIDE DEF m, n
<1>5. \A i \in 1..(m + n) : i \in 1..m \/ (i - m \in 1..n /\ i = m + (i - m))
  BY <1>1
<1>6. \A i \in 1..n : /\ rows[i] = Row(e, rows[1].set, rows[1].n + i - 1)
                      /\ rows[i].set = rows[1].set /\ rows[i].n = rows[1].n + i - 1
  BY RowParts DEF Run, n
<1>7. ASSUME n # 0
      PROVE  /\ 1 \in 1..n /\ rows[1] \in Rows /\ rows[1].n \in Nat /\ rows[1].set \in Nat
             /\ m = 0 => rows[1].n = 1
             /\ m # 0 => Delivery!Follows(q[m], rows[1])
  <2>1. 1 \in 1..n
    BY <1>1, <1>7
  <2>2. CanFollow(q, rows[1])
    BY <1>1, <1>7
  <2>3. rows[1] \in Rows
    BY <1>4, <2>1
  <2> QED
    BY <1>1, <2>1, <2>2, <2>3, RowParts DEF CanFollow, LastRow, m
<1>8. ASSUME Delivery!InOrder(q)
      PROVE  Delivery!InOrder(p)
  <2>1. p # << >> => p[1].n = 1
    <3>1. CASE m = 0 /\ n # 0
      <4>1. p[m + 1] = rows[1] /\ m + 1 = 1
        BY <1>2, <1>7, <3>1
      <4> QED
        BY <1>7, <3>1, <4>1
    <3>2. CASE m # 0
      <4>1. 1 \in 1..m
        BY <1>1, <3>2
      <4> QED
        BY <1>1, <1>2, <1>8, <3>2, <4>1 DEF Delivery!InOrder
    <3> QED
      BY <1>1, <1>3, <3>1, <3>2
  <2>2. ASSUME NEW i \in 1..(m + n - 1)
        PROVE  Delivery!Follows(p[i], p[i + 1])
    <3>1. CASE i < m
      <4>1. i \in 1..m /\ i + 1 \in 1..m /\ i \in 1..(m - 1)
        BY <1>1, <3>1
      <4>2. Delivery!Follows(q[i], q[i + 1])
        BY <1>8, <4>1 DEF Delivery!InOrder, m
      <4> QED
        BY <1>2, <4>1, <4>2
    <3>2. CASE i = m
      <4>1. m # 0 /\ n # 0 /\ m \in 1..m
        BY <1>1, <3>2
      <4>2. p[m] = q[m] /\ p[m + 1] = rows[1]
        BY <1>2, <1>7, <4>1
      <4> QED
        BY <1>7, <3>2, <4>1, <4>2
    <3>3. CASE i > m
      <4>1. i - m \in 1..n /\ i - m + 1 \in 1..n /\ m + (i - m) = i /\ m + (i - m + 1) = i + 1 /\ n # 0
        BY <1>1, <3>3
      <4> DEFINE k == i - m
      <4>2. p[i] = rows[k] /\ p[i + 1] = rows[k + 1]
        <5>1. p[m + k] = rows[k] /\ p[m + (k + 1)] = rows[k + 1]
          BY <1>2, <4>1
        <5> QED
          BY <4>1, <5>1
      <4>3. k \in 1..n /\ k + 1 \in 1..n
        BY <4>1
      <4> HIDE DEF k
      <4>4. /\ rows[k].set = rows[1].set /\ rows[k].n = rows[1].n + k - 1
            /\ rows[k + 1].set = rows[1].set /\ rows[k + 1].n = rows[1].n + (k + 1) - 1
        BY <1>6, <4>3
      <4>5. rows[1].n + (k + 1) - 1 = rows[1].n + k - 1 + 1
        <5>1. rows[1].n \in Nat /\ k \in Nat
          BY <1>7, <4>1, <4>3
        <5>2. \A x, y \in Nat : x + (y + 1) - 1 = x + y - 1 + 1
          OBVIOUS
        <5> QED
          BY <5>1, <5>2, Zenon
      <4>6. rows[k + 1].set = rows[k].set /\ rows[k + 1].n = rows[k].n + 1
        BY <4>4, <4>5, Zenon
      <4> QED
        BY <4>2, <4>6 DEF Delivery!Follows
    <3> QED
      BY <1>1, <3>1, <3>2, <3>3
  <2>3. \A i \in 1..(Len(p) - 1) : Delivery!Follows(p[i], p[i + 1])
    <3> SUFFICES ASSUME NEW i \in 1..(Len(p) - 1) PROVE Delivery!Follows(p[i], p[i + 1])
      OBVIOUS
    <3>1. i \in 1..(m + n - 1)
      BY <1>1, <1>2
    <3> QED
      BY <2>2, <3>1
  <2> QED
    BY <2>1, <2>3, Zenon DEF Delivery!InOrder
<1>9. ASSUME NEW P, \A i \in 1..m : q[i] \in P, \A i \in 1..n : rows[i] \in P
      PROVE  \A i \in 1..Len(p) : p[i] \in P
  <2> SUFFICES ASSUME NEW i \in 1..(m + n) PROVE p[i] \in P
    BY <1>2
  <2>1. CASE i \in 1..m
    BY <1>2, <1>9, <2>1
  <2>2. CASE i - m \in 1..n /\ i = m + (i - m)
    BY <1>2, <1>9, <2>2
  <2> QED
    BY <1>5, <2>1, <2>2
<1>12. ASSUME Numbered(q, e), \A i \in 1..n : rows[i].set = 1
       PROVE  Numbered(p, e)
  <2> SUFFICES ASSUME NEW i \in 1..(m + n) PROVE p[i] = Row(e, 1, i)
    BY <1>2 DEF Numbered
  <2>1. CASE i \in 1..m
    BY <1>2, <1>12, <2>1 DEF Numbered, m
  <2>2. CASE i - m \in 1..n /\ i = m + (i - m)
    <3> DEFINE k == i - m
    <3>1. n # 0 /\ k \in 1..n /\ p[i] = rows[k]
      BY <1>1, <1>2, <2>2
    <3>2. rows[1].n = m + 1
      <4>1. CASE m = 0
        BY <1>7, <3>1, <4>1
      <4>2. CASE m # 0
        <5>1. m \in 1..m
          BY <1>1, <4>2
        <5>2. q[m].set = 1 /\ q[m].n = m
          BY <1>12, <5>1, RowParts DEF Numbered, m
        <5>3. rows[1].set = 1
          BY <1>7, <1>12, <3>1
        <5> QED
          BY <1>1, <1>7, <3>1, <4>2, <5>2, <5>3 DEF Delivery!Follows
      <4> QED
        BY <4>1, <4>2
    <3>3. m + 1 + k - 1 = i
      BY <1>1, <2>2
    <3>4. rows[k] = Row(e, rows[1].set, rows[1].n + k - 1) /\ rows[1].set = 1
      BY <1>6, <1>7, <1>12, <3>1
    <3> HIDE DEF k
    <3> QED
      BY <3>1, <3>2, <3>3, <3>4
  <2> QED
    BY <1>5, <2>1, <2>2
<1> QED
  BY <1>1, <1>8, <1>9, <1>12 DEF m, n

\* The rows of a run of e in P are given behind q.
Given(p, q, rows, e, P) ==
  /\ rows \in Seq(Rows) /\ Extends(p, q, rows) /\ Run(rows, e)
  /\ \A i \in 1..Len(rows) : rows[i] \in P
  /\ rows # << >> => CanFollow(q, rows[1])

LEMMA GivenRows ==
  ASSUME NEW e, NEW q \in Seq(Rows), NEW rows, NEW p, NEW P, Given(p, q, rows, e, P),
         Delivery!InOrder(q), \A i \in 1..Len(q) : q[i] \in P
  PROVE  /\ Delivery!InOrder(p) /\ \A i \in 1..Len(p) : p[i] \in P
         /\ Numbered(q, e) /\ (\A y \in P : y.set = 1) => Numbered(p, e)
<1>1. /\ rows \in Seq(Rows) /\ Extends(p, q, rows) /\ Run(rows, e)
      /\ \A i \in 1..Len(rows) : rows[i] \in P
      /\ rows # << >> => CanFollow(q, rows[1])
  BY DEF Given
<1> QED
  BY <1>1, FollowOn

\* Rows that follow each other are read.
LEMMA RunGrows ==
  ASSUME NEW e, NEW rows \in Seq(Rows), NEW r \in Rows, Run(rows, e), r.e = e,
         rows # << >> => LastRow(rows).set = r.set /\ LastRow(rows).n + 1 = r.n
  PROVE  /\ Append(rows, r) \in Seq(Rows) /\ Run(Append(rows, r), e)
         /\ Append(rows, r) # << >> /\ LastRow(Append(rows, r)) = r
         /\ rows = << >> => Append(rows, r)[1] = r
         /\ rows # << >> => Append(rows, r)[1] = rows[1]
         /\ \A P : (\A i \in 1..Len(rows) : rows[i] \in P) /\ r \in P =>
              \A i \in 1..Len(Append(rows, r)) : Append(rows, r)[i] \in P
<1> DEFINE n == Len(rows)
           more == Append(rows, r)
<1>1. n \in Nat /\ (rows = << >> <=> n = 0)
  BY LenProperties, EmptyIs
<1>2. /\ more \in Seq(Rows) /\ Len(more) = n + 1 /\ more[n + 1] = r /\ more # << >>
      /\ \A k \in 1..n : more[k] = rows[k]
  BY AppendElements
<1>3. \A i \in 1..n : rows[i] = Row(e, rows[1].set, rows[1].n + i - 1)
  BY DEF Run
<1>4. n # 0 => n \in 1..n /\ 1 \in 1..n /\ rows[1] \in Rows /\ LastRow(rows) = rows[n]
  BY <1>1, ElementOfSeq DEF LastRow
<1> HIDE DEF n, more
<1>5. \A i \in 1..(n + 1) : i \in 1..n \/ i = n + 1
  BY <1>1
<1>6. n = 0 => more[1] = r
  BY <1>1, <1>2
<1>7. n # 0 => more[1] = rows[1]
  BY <1>2, <1>4
<1>8. r = Row(e, r.set, r.n) /\ r.n \in Nat
  BY RowParts
<1>9. Run(more, e)
  <2> SUFFICES ASSUME NEW i \in 1..(n + 1)
               PROVE  more[i] = Row(e, more[1].set, more[1].n + i - 1)
    BY <1>2 DEF Run
  <2>1. CASE n = 0
    <3>1. i = 1 /\ more[i] = r /\ r.n + 1 - 1 = r.n
      BY <1>1, <1>2, <1>8, <2>1
    <3> QED
      BY <1>6, <1>8, <2>1, <3>1
  <2>2. CASE n # 0 /\ i \in 1..n
    BY <1>2, <1>3, <1>7, <2>2
  <2>3. CASE n # 0 /\ i = n + 1
    <3>1. rows[n].set = rows[1].set /\ rows[n].n = rows[1].n + n - 1 /\ rows[1].n \in Nat
      BY <1>3, <1>4, <2>3, RowParts
    <3>2. r.set = rows[1].set /\ r.n = rows[1].n + n - 1 + 1
      BY <1>1, <1>4, <2>3, <3>1
    <3>3. rows[1].n + n - 1 + 1 = rows[1].n + (n + 1) - 1
      BY <1>1, <3>1
    <3>4. more[i] = Row(e, rows[1].set, rows[1].n + i - 1)
      BY <1>2, <1>8, <2>3, <3>2, <3>3
    <3> QED
      BY <1>7, <2>3, <3>4
  <2> QED
    BY <1>5, <2>1, <2>2, <2>3
<1>10. LastRow(more) = r
  BY <1>2 DEF LastRow
<1>11. \A P : (\A i \in 1..n : rows[i] \in P) /\ r \in P => \A i \in 1..(n + 1) : more[i] \in P
  BY <1>2, <1>5
<1> QED
  BY <1>1, <1>2, <1>6, <1>7, <1>9, <1>10, <1>11 DEF n, more

LEMMA NoRows ==
  ASSUME NEW e
  PROVE  Len(<< >>) = 0 /\ Run(<< >>, e) /\ << >> \in Seq(Rows) /\ \A i \in 1..Len(<< >>) : FALSE
BY DEF Run

LEMMA OneRow ==
  ASSUME NEW e, NEW r \in Rows, r.e = e
  PROVE  /\ << r >> \in Seq(Rows) /\ Run(<< r >>, e) /\ << r >> # << >> /\ LastRow(<< r >>) = r
         /\ Len(<< r >>) = 1 /\ << r >>[1] = r /\ \A i \in 1..Len(<< r >>) : << r >>[i] = r
<1>1. Len(<< r >>) = 1 /\ << r >>[1] = r /\ << r >> \in Seq(Rows)
  OBVIOUS
<1>2. \A i \in 1..1 : i = 1
  OBVIOUS
<1>3. r = Row(e, r.set, r.n) /\ r.n + 1 - 1 = r.n
  BY RowParts
<1> QED
  BY <1>1, <1>2, <1>3 DEF Run, LastRow

\* The rows of one run belong to one set.
LEMMA RunOfOneSet ==
  ASSUME NEW e, NEW rows \in Seq(Rows), Run(rows, e), rows # << >>
  PROVE  /\ Len(rows) \in Nat /\ Len(rows) > 0 /\ rows[1] \in Rows /\ LastRow(rows) \in Rows
         /\ 1 \in 1..Len(rows) /\ Len(rows) \in 1..Len(rows)
         /\ \A i \in 1..Len(rows) :
              /\ rows[i] \in Rows /\ rows[i].e = e /\ rows[i].set = rows[1].set
              /\ rows[i].n = rows[1].n + i - 1 /\ rows[i].set = LastRow(rows).set
<1>1. Len(rows) \in Nat /\ Len(rows) # 0
  BY LenProperties, EmptyIs
<1>2. 1 \in 1..Len(rows) /\ Len(rows) \in 1..Len(rows) /\ Len(rows) > 0
  BY <1>1
<1>3. \A i \in 1..Len(rows) :
        /\ rows[i] \in Rows /\ rows[i].e = e /\ rows[i].set = rows[1].set
        /\ rows[i].n = rows[1].n + i - 1
  BY ElementOfSeq, RowParts DEF Run
<1> QED
  BY <1>1, <1>2, <1>3, Zenon DEF LastRow

-----------------------------------------------------------------------------
(***************************************************************************)
(* What the invariant says of a step.                                      *)
(***************************************************************************)
\* The server may have gone on meanwhile.
LEMMA RowsWiden ==
  ASSUME NEW r, NEW e, NEW q, NEW st, NEW c, NEW P, NEW E, NEW Q, NEW F,
         P \subseteq Q, E \subseteq F
  PROVE  /\ ResultRows(r, e, q, P, E) => ResultRows(r, e, q, Q, F)
         /\ ForwardEnds(r, st, q, E) => ForwardEnds(r, st, q, F)
         /\ CallRows(c, st, r, q, P, E) => CallRows(c, st, r, q, Q, F)
<1>1. ResultRows(r, e, q, P, E) => ResultRows(r, e, q, Q, F)
  BY Zenon DEF ResultRows
<1>2. ForwardEnds(r, st, q, E) => ForwardEnds(r, st, q, F)
  BY Zenon DEF ForwardEnds
<1>3. CallRows(c, st, r, q, P, E) => CallRows(c, st, r, q, Q, F)
  BY Zenon DEF CallRows
<1> QED
  BY <1>1, <1>2, <1>3

LEMMA SameServer ==
  ASSUME UNCHANGED serverVars
  PROVE  /\ todo' = todo /\ phase' = phase /\ pos' = pos /\ produced' = produced
         /\ \A e : Produced(e)' = Produced(e) /\ Ends(e)' = Ends(e)
BY DEF serverVars, Produced, Ends

LEMMA Executed ==
  ASSUME IInv
  PROVE  /\ LastExec \in Nat
         /\ \A s \in AllStmts : stmt[s].exec <= LastExec
         /\ \A e \in Executions : e \in Nat /\ e > 0 /\ got[e] \in Seq(Rows) /\ produced[e] \in Seq(Rows)
         /\ \A s, t \in AllStmts, e \in Executions : stmt[s].exec = e /\ stmt[t].exec = e => s = t
<1>1. Types /\ OneReader
  BY DEF IInv
<1>2. LastExec \in 0..MaxExec /\ \A s \in AllStmts : stmt[s].exec <= LastExec
  BY <1>1, LastIs DEF Types
<1>3. MaxExec \in Nat
  BY ResultsAssumption
<1>4. \A e \in Executions : e \in Nat /\ e > 0
  BY <1>3 DEF Executions
<1>5. \A e \in Executions : got[e] \in Seq(Rows) /\ produced[e] \in Seq(Rows)
  BY <1>1 DEF Types, GotTyped, ServerTyped
<1>6. \A s, t \in AllStmts, e \in Executions : stmt[s].exec = e /\ stmt[t].exec = e => s = t
  <2>1. \A e \in Executions : e # 0
    BY <1>4
  <2> QED
    BY <1>1, <2>1, Zenon DEF OneReader
<1> QED
  BY <1>2, <1>3, <1>4, <1>5, <1>6

\* A result that is not there has no rows.
Absent(r) == r.kind = "none" => r.rows = << >> /\ r.row_cursor = 0 /\ r.use = "none"
\* The flags of a statement tell the kind of its result.
KindFits(r, st) ==
  /\ r.kind = "buffered" => "BUFFERED" \in st.flags
  /\ r.kind = "fwd" => "BUFFERED" \notin st.flags

\* A step of the reader or of the application: it is about one statement s and
\* one execution e, of which it gives rows.
LEMMA RowsStep ==
  ASSUME RInv, IInv', UNCHANGED up, UNCHANGED serverVars, NEW s \in AllStmts, NEW e \in Executions,
         stmt[s].exec = e, stmt'[s].exec = e, stmt'[s].flags = stmt[s].flags,
         \A t \in AllStmts \ {s} : stmt'[t] = stmt[t] /\ res'[t] = res[t],
         Idle \/ call.s = s, Idle' \/ call'.s = s, raised \subseteq raised',
         \A f \in Executions \ {e} : got'[f] = got[f],
         NEW rows, Given(got'[e], got[e], rows, e, Produced(e)),
         NEW r, r = res'[s], NEW st, st = stmt'[s], NEW c, c = call', NEW q, q = got'[e],
         Absent(r), KindFits(r, st),
         r.kind # "none" => ResultRows(r, e, q, Produced(e), Ends(e)),
         Idle' /\ r.kind = "fwd" => ForwardEnds(r, st, q, Ends(e)),
         ~Idle' => CallRows(c, st, r, q, Produced(e), Ends(e)),
         up /\ LastExec # e => line' = line /\ batch' = batch /\ Idle /\ Idle',
         up /\ LastExec = e /\ e \notin raised' =>
           \E a \in Places :
             /\ Way(e, a, batch', line', Produced(e), Ends(e), todo, pos)
             /\ Near(a, r, q)
             /\ Idle' => AtRest(a, r, st)
             /\ ~Idle' => AtCall(a, c, st, q)
  PROVE  RInv'
<1>1. /\ todo' = todo /\ pos' = pos /\ produced' = produced
      /\ \A f : Produced(f)' = Produced(f) /\ Ends(f)' = Ends(f)
  BY SameServer
<1>2. /\ IInv /\ ServerRows /\ SingleSet /\ GotRows /\ ResultsRows /\ RestingRows /\ ReadRows /\ Placed
      /\ \A f \in Executions : f \in Nat /\ f > 0 /\ got[f] \in Seq(Rows) /\ produced[f] \in Seq(Rows)
      /\ \A t, u \in AllStmts, f \in Executions : stmt[t].exec = f /\ stmt[u].exec = f => t = u
      /\ LastExec \in Nat /\ e <= LastExec
  BY Executed DEF RInv
<1>3. /\ \A t \in AllStmts : stmt'[t].exec = stmt[t].exec /\ stmt'[t].flags = stmt[t].flags
      /\ \A t \in AllStmts, f \in Executions : t # s /\ stmt[t].exec = f => f # e /\ got'[f] = got[f]
      /\ \A t \in AllStmts : t # s => stmt'[t] = stmt[t] /\ res'[t] = res[t]
  BY <1>2
<1>4. LastExec' = LastExec
  <2>1. StmtTyped /\ stmt' \in [AllStmts -> Statements]
    BY <1>2 DEF IInv, Types, StmtTyped
  <2> QED
    BY <1>3, <2>1, LastKept
<1>5. /\ Delivery!InOrder(q) /\ \A i \in 1..Len(q) : q[i] \in Produced(e)
      /\ Numbered(got[e], e) /\ (\A y \in Produced(e) : y.set = 1) => Numbered(q, e)
  <2>1. Delivery!InOrder(got[e]) /\ \A i \in 1..Len(got[e]) : got[e][i] \in Produced(e)
    BY <1>2 DEF GotRows
  <2>2. got[e] \in Seq(Rows)
    BY <1>2
  <2>3. PICK g : g = got[e]
    OBVIOUS
  <2>4. PICK P : P = Produced(e)
    OBVIOUS
  <2>5. /\ g \in Seq(Rows) /\ Given(q, g, rows, e, P) /\ Delivery!InOrder(g)
        /\ \A i \in 1..Len(g) : g[i] \in P
    BY <2>1, <2>2, <2>3, <2>4
  <2>6. /\ Delivery!InOrder(q) /\ \A i \in 1..Len(q) : q[i] \in P
        /\ Numbered(g, e) /\ (\A y \in P : y.set = 1) => Numbered(q, e)
    BY <2>5, GivenRows, ZenonT(40)
  <2> QED
    BY <2>3, <2>4, <2>6, Zenon
<1>6. ServerRows'
  <2>1. \A f \in Executions : f > LastExec => got'[f] = got[f]
    BY <1>2
  <2>2. (\A f \in Executions : f > LastExec => produced[f] = << >> /\ got[f] = << >>)'
    BY <1>1, <1>2, <1>4, <2>1 DEF ServerRows
  <2>3. ASSUME todo' # << >>
        PROVE  /\ todo'[1].e = LastExec'
               /\ (\A x \in Produced(todo[1].e) : x.set < pos.set \/ (x.set = pos.set /\ x.n <= pos.n))'
    <3>1. /\ todo # << >> /\ todo[1].e = LastExec
          /\ \A x \in Produced(todo[1].e) : x.set < pos.set \/ (x.set = pos.set /\ x.n <= pos.n)
      BY <1>1, <1>2, <2>3 DEF ServerRows
    <3>2. Produced(todo[1].e)' = Produced(todo[1].e)
      BY <1>1 DEF Produced
    <3> QED
      BY <1>1, <1>4, <3>1, <3>2
  <2> QED
    BY <2>2, <2>3 DEF ServerRows
<1>7. SingleSet'
  <2> SUFFICES ASSUME NEW t \in Stmts, NEW f \in Executions, stmt'[t].exec = f,
                      "BUFFERED" \notin stmt'[t].flags
               PROVE  (/\ Numbered(produced[f], f) /\ Numbered(got[f], f)
                       /\ todo # << >> /\ todo[1].e = f =>
                            /\ todo[1].sets <= 1 /\ pos.set <= 1
                            /\ pos.set = 0 => produced[f] = << >>
                            /\ pos.set = 1 => Len(produced[f]) = pos.n)'
    BY DEF SingleSet
  <2>1. t \in AllStmts /\ stmt[t].exec = f /\ "BUFFERED" \notin stmt[t].flags
    BY <1>3 DEF AllStmts
  <2>2. /\ Numbered(produced[f], f) /\ Numbered(got[f], f)
        /\ todo # << >> /\ todo[1].e = f =>
             /\ todo[1].sets <= 1 /\ pos.set <= 1
             /\ pos.set = 0 => produced[f] = << >>
             /\ pos.set = 1 => Len(produced[f]) = pos.n
    BY <1>2, <2>1 DEF SingleSet
  <2>3. Numbered(got'[f], f)
    <3>1. CASE f = e
      <4>1. \A x \in Produced(e) : x.set = 1
        BY <2>2, <3>1, RowParts DEF Numbered, Produced
      <4> QED
        BY <1>5, <2>2, <3>1, <4>1
    <3>2. CASE f # e
      BY <2>2, <3>2
    <3> QED
      BY <3>1, <3>2
  <2> QED
    BY <1>1, <2>2, <2>3 DEF Numbered
<1>8. GotRows'
  <2> SUFFICES ASSUME NEW f \in Executions
               PROVE  (Delivery!InOrder(got[f]) /\ \A i \in 1..Len(got[f]) : got[f][i] \in Produced(f))'
    BY DEF GotRows
  <2>1. \A x : x = got'[f] =>
          (Delivery!InOrder(x) /\ \A i \in 1..Len(x) : x[i] \in Produced(f))
    BY <1>2, <1>5, Zenon DEF GotRows
  <2> QED
    BY <1>1, <2>1 DEF Delivery!InOrder, Delivery!Follows
<1>9. ResultsRows'
  <2> SUFFICES ASSUME NEW t \in AllStmts
               PROVE  /\ Absent(res'[t]) /\ KindFits(res'[t], stmt'[t])
                      /\ \A f \in Executions : stmt'[t].exec = f /\ res'[t].kind # "none" =>
                           ResultRows(res'[t], f, got'[f], Produced(f), Ends(f))
    BY <1>1, Zenon DEF ResultsRows, Absent, KindFits
  <2>1. CASE t = s
    BY <1>2, <2>1, Zenon
  <2>2. CASE t # s
    <3>1. res'[t] = res[t] /\ stmt'[t] = stmt[t]
      BY <1>3, <2>2
    <3>2. Absent(res[t]) /\ KindFits(res[t], stmt[t])
      BY <1>2, Zenon DEF ResultsRows, Absent, KindFits
    <3>3. ASSUME NEW f \in Executions, stmt[t].exec = f, res[t].kind # "none"
          PROVE  ResultRows(res[t], f, got'[f], Produced(f), Ends(f))
      <4>1. got'[f] = got[f]
        BY <1>3, <2>2, <3>3
      <4>2. ResultRows(res[t], f, got[f], Produced(f), Ends(f))
        BY <1>2, <3>3, Zenon DEF ResultsRows
      <4> QED
        BY <4>1, <4>2
    <3> QED
      BY <3>1, <3>2, <3>3, Zenon
  <2> QED
    BY <2>1, <2>2
<1>10. RestingRows'
  <2> SUFFICES ASSUME NEW t \in AllStmts, NEW f \in Executions,
                      (Idle \/ call.s # t)' /\ stmt'[t].exec = f /\ res'[t].kind = "fwd"
               PROVE  ForwardEnds(res'[t], stmt'[t], got'[f], Ends(f))
    BY <1>1, Zenon DEF RestingRows
  <2>1. CASE t = s
    BY <2>1, Zenon
  <2>2. CASE t # s
    BY <1>2, <1>3, <2>2, ZenonT(40) DEF RestingRows
  <2> QED
    BY <2>1, <2>2
<1>11. ReadRows'
  <2> SUFFICES ASSUME NEW f \in Executions, ~Idle', stmt'[call'.s].exec = f
               PROVE  CallRows(call', stmt'[call'.s], res'[call'.s], got'[f], Produced(f), Ends(f))
    BY <1>1, Zenon DEF ReadRows, Reader
  <2>1. call'.s = s /\ f = e
    OBVIOUS
  <2> QED
    BY <2>1, Zenon
<1>12. Placed'
  <2> SUFFICES ASSUME NEW f \in Executions \ raised', up', LastExec' = f
               PROVE  \E a \in Places :
                        /\ Way(f, a, batch', line', Produced(f), Ends(f), todo, pos)
                        /\ \A t \in AllStmts : stmt'[t].exec = f =>
                             /\ Near(a, res'[t], got'[f])
                             /\ Idle' => AtRest(a, res'[t], stmt'[t])
                             /\ ~Idle' => AtCall(a, call', stmt'[t], got'[f])
    BY <1>1, Zenon DEF Placed
  <2>1. CASE f = e
    <3>1. PICK a \in Places :
             /\ Way(e, a, batch', line', Produced(e), Ends(e), todo, pos)
             /\ Near(a, r, q)
             /\ Idle' => AtRest(a, r, st)
             /\ ~Idle' => AtCall(a, c, st, q)
      BY <1>4, <2>1
    <3>2. \A t \in AllStmts : stmt'[t].exec = e => t = s
      BY <1>2, <1>3
    <3> QED
      BY <2>1, <3>1, <3>2, Zenon
  <2>2. CASE f # e
    <3>1. line' = line /\ batch' = batch /\ Idle /\ Idle' /\ f \in Executions \ raised
      BY <1>4, <2>2
    <3>2. PICK a \in Places :
             /\ Way(f, a, batch, line, Produced(f), Ends(f), todo, pos)
             /\ \A t \in AllStmts : stmt[t].exec = f =>
                  Near(a, res[t], got[f]) /\ (Idle => AtRest(a, res[t], stmt[t]))
      BY <1>2, <1>4, <3>1, ZenonT(40) DEF Placed
    <3>3. ASSUME NEW t \in AllStmts, stmt'[t].exec = f
          PROVE  /\ Near(a, res'[t], got'[f])
                 /\ Idle' => AtRest(a, res'[t], stmt'[t])
                 /\ ~Idle' => AtCall(a, call', stmt'[t], got'[f])
      <4>1. t # s
        BY <2>2, <3>3
      <4>2. stmt[t].exec = f /\ res'[t] = res[t] /\ stmt'[t] = stmt[t] /\ got'[f] = got[f]
        BY <1>3, <3>3, <4>1
      <4> QED
        BY <3>1, <3>2, <4>2, Zenon
    <3> QED
      BY <3>1, <3>2, <3>3, Zenon
  <2> QED
    BY <2>1, <2>2
<1> QED
  BY <1>6, <1>7, <1>8, <1>9, <1>10, <1>11, <1>12 DEF RInv

-----------------------------------------------------------------------------
(***************************************************************************)
(* A message is processed.                                                 *)
(***************************************************************************)
\* The rows of a read and its place.
At(a, c, st, r, q, P, E) == CallRows(c, st, r, q, P, E) /\ Near(a, r, q) /\ AtCall(a, c, st, q)

LEMMA LastIn ==
  ASSUME NEW q \in Seq(Rows), q # << >>
  PROVE  LastRow(q) \in Rows /\ LastRow(q).set \in Nat /\ LastRow(q).n \in Nat
<1>1. Len(q) \in Nat /\ Len(q) # 0
  BY LenProperties, EmptyIs
<1>2. Len(q) \in 1..Len(q)
  BY <1>1
<1> QED
  BY <1>2, ElementOfSeq, RowParts DEF LastRow

LEMMA PlaceOfRow ==
  ASSUME NEW e, NEW a \in Places
  PROVE  /\ PlaceOf(RowAt(e, a)) = a /\ RowAt(e, a).set = a.set /\ RowAt(e, a).n = a.n
         /\ RowAt(e, a).e = e
BY DEF PlaceOf, RowAt, Places, Row

\* A message leads the read c from place a to place b; d and x are the read and
\* the statement then, in the middle of a result set.
ReadsOn(e, a, b, c, st, r, q, P, E, d, x) ==
  /\ a \in Places /\ b \in Places /\ q \in Seq(Rows) /\ r.rows \in Seq(Rows)
  /\ At(a, c, st, r, q, P, E) /\ st.exec = e /\ d.op = c.op
  /\ x.exec = st.exec /\ x.flags = st.flags /\ x.has_more_rows_in_set /\ x.field_count = 1

\* The metadata of a result set come.
LEMMA MetaRows ==
  ASSUME NEW e, NEW a, NEW b, NEW c, NEW st, NEW r, NEW q, NEW P, NEW E, NEW d, NEW x,
         ReadsOn(e, a, b, c, st, r, q, P, E, d, x), b.set = a.set + 1, b.n = 0,
         st.field_count = 0, d.rows = c.rows, d.ret = "AGAIN"
  PROVE  At(b, d, x, r, q, P, E)
<1> USE DEF ReadsOn
<1>1. CallRows(c, st, r, q, P, E) /\ Near(a, r, q) /\ AtCall(a, c, st, q)
  BY DEF At
<1>2. c.rows = << >> /\ c.op \notin {"next", "iterNext"}
  BY <1>1 DEF AtCall
<1>3. CallRows(d, x, r, q, P, E)
  BY <1>1, Zenon DEF CallRows
<1>4. a.set \in Nat /\ a.n \in Nat /\ b.set \in Nat
  BY DEF Places
<1>5. \A k \in Nat : k <= a.set => k <= b.set /\ b.set > k
  BY <1>4
<1>6. Near(b, r, q)
  <2>1. q # << >> => LastRow(q).set <= b.set
    BY <1>1, <1>5, LastIn DEF Near
  <2>2. \A i \in 1..Len(r.rows) : r.rows[i].set <= b.set
    BY <1>1, <1>5, ElementOfSeq, RowParts DEF Near
  <2> QED
    BY <2>1, <2>2 DEF Near
<1>7. CanFollow(q, Row(x.exec, b.set, b.n + 1))
  <2>1. b.n + 1 = 1
    OBVIOUS
  <2>2. q # << >> => b.set > LastRow(q).set
    BY <1>1, <1>5, LastIn DEF Near
  <2>3. Row(x.exec, b.set, b.n + 1).set = b.set /\ Row(x.exec, b.set, b.n + 1).n = 1
    BY <2>1, RowParts
  <2> QED
    BY <2>2, <2>3, Zenon DEF CanFollow, Delivery!Follows
<1>8. AtCall(b, d, x, q)
  <2>1. \A i \in 1..Len(d.rows) : d.rows[i].set <= b.set
    BY <1>2
  <2>2. x.field_count # 0
    OBVIOUS
  <2> QED
    BY <1>2, <1>7, <2>1, <2>2, Zenon DEF AtCall
<1> QED
  BY <1>3, <1>6, <1>8 DEF At

\* A row is handed to a callback.
LEMMA CallbackRows ==
  ASSUME NEW e, NEW a, NEW b, NEW c, NEW st, NEW r, NEW q, NEW P, NEW E, NEW d, NEW x,
         ReadsOn(e, a, b, c, st, r, q, P, E, d, x), b.set = a.set, b.n = a.n + 1,
         st.has_more_rows_in_set, d.rows = c.rows, d.ret = "AGAIN",
         c.op \in {"callback", "query_cb"}, r.rows = << >>,
         NEW row \in Rows, row = RowAt(e, b), NEW p, Extends(p, q, << row >>)
  PROVE  At(b, d, x, r, p, P, E) /\ CanFollow(q, row) /\ Run(<< row >>, e)
<1> USE DEF ReadsOn
<1>1. CallRows(c, st, r, q, P, E) /\ Near(a, r, q) /\ AtCall(a, c, st, q)
  BY DEF At
<1>2. c.rows = << >> /\ r.kind = "none"
  BY <1>1 DEF CallRows
<1>3. CanFollow(q, row)
  <2>1. CanFollow(q, Row(st.exec, a.set, a.n + 1))
    BY <1>1, <1>2 DEF AtCall
  <2> QED
    BY <2>1 DEF RowAt
<1>4. row.e = e /\ row.set = b.set /\ row.n = b.n
  BY PlaceOfRow
<1>5. /\ << row >> \in Seq(Rows) /\ Run(<< row >>, e) /\ << row >> # << >>
      /\ LastRow(<< row >>) = row /\ << row >>[1] = row
  BY <1>4, OneRow
<1>6. p # << >> /\ LastRow(p) = row
  <2> DEFINE rows == << row >>
  <2>1. /\ rows \in Seq(Rows) /\ Run(rows, e) /\ rows # << >> /\ LastRow(rows) = row
        /\ CanFollow(q, rows[1]) /\ Extends(p, q, rows)
    BY <1>3, <1>5, Zenon
  <2> HIDE DEF rows
  <2> QED
    BY <2>1, ExtendsEnds
<1>7. CallRows(d, x, r, p, P, E)
  BY <1>1, <1>2, Zenon DEF CallRows
<1>8. \A i \in 1..Len(<< >>) : FALSE
  BY NoRows
<1>9. b.set <= b.set /\ b.set \in Nat /\ b.n \in Nat
  BY DEF Places
<1>10. Near(b, r, p)
  BY <1>4, <1>6, <1>8, <1>9 DEF Near
<1>11. CanFollow(p, Row(x.exec, b.set, b.n + 1))
  <2>1. Row(x.exec, b.set, b.n + 1).set = row.set /\ Row(x.exec, b.set, b.n + 1).n = row.n + 1
    BY <1>4, RowParts
  <2> QED
    BY <1>6, <2>1 DEF CanFollow, Delivery!Follows
<1>12. AtCall(b, d, x, p)
  <2>1. x.field_count # 0
    OBVIOUS
  <2> QED
    BY <1>2, <1>8, <1>11, <2>1, Zenon DEF AtCall
<1> QED
  BY <1>3, <1>5, <1>7, <1>10, <1>12 DEF At

\* A row is kept.
LEMMA CollectRows ==
  ASSUME NEW e, NEW a, NEW b, NEW c, NEW st, NEW r, NEW q, NEW P, NEW E, NEW d, NEW x,
         ReadsOn(e, a, b, c, st, r, q, P, E, d, x), b.set = a.set, b.n = a.n + 1,
         st.has_more_rows_in_set,
         c.op \notin {"callback", "query_cb", "query"}, c.rows \in Seq(Rows),
         NEW row \in Rows, row = RowAt(e, b), row \in P,
         d.rows = Append(c.rows, row), d.ret = "PASS" => c.op # "buffered"
  PROVE  At(b, d, x, r, q, P, E)
<1> USE DEF ReadsOn
<1>1. CallRows(c, st, r, q, P, E) /\ Near(a, r, q) /\ AtCall(a, c, st, q)
  BY DEF At
<1>2. row.e = e /\ row.set = b.set /\ row.n = b.n /\ a.set \in Nat /\ a.n \in Nat
  BY PlaceOfRow DEF Places
<1>3. c.rows # << >> => LastRow(c.rows).set = row.set /\ LastRow(c.rows).n + 1 = row.n
  <2>1. c.rows # << >> => LastRow(c.rows) = RowAt(e, a)
    BY <1>1 DEF AtCall
  <2> QED
    BY <1>2, <2>1, PlaceOfRow
<1>4. Run(c.rows, e)
  BY <1>1 DEF CallRows
<1>5. /\ d.rows \in Seq(Rows) /\ Run(d.rows, e) /\ d.rows # << >> /\ LastRow(d.rows) = row
      /\ c.rows = << >> => d.rows[1] = row
      /\ c.rows # << >> => d.rows[1] = c.rows[1]
      /\ \A Q : (\A i \in 1..Len(c.rows) : c.rows[i] \in Q) /\ row \in Q =>
           \A i \in 1..Len(d.rows) : d.rows[i] \in Q
  BY <1>2, <1>3, <1>4, RunGrows
<1>6. CanFollow(q, d.rows[1])
  <2>1. CASE c.rows # << >>
    BY <1>1, <1>5, <2>1 DEF CallRows
  <2>2. CASE c.rows = << >> /\ c.op \notin {"next", "iterNext"}
    <3>1. CanFollow(q, Row(st.exec, a.set, a.n + 1))
      BY <1>1, <2>2 DEF AtCall
    <3> QED
      BY <1>5, <2>2, <3>1 DEF RowAt
  <2>3. CASE c.rows = << >> /\ c.op \in {"next", "iterNext"}
    <3>1. q # << >> /\ PlaceOf(LastRow(q)) = a
      BY <1>1, <2>3 DEF AtCall, CallRows
    <3>2. LastRow(q).set = a.set /\ LastRow(q).n = a.n
      BY <3>1 DEF PlaceOf
    <3> QED
      BY <1>2, <1>5, <2>3, <3>1, <3>2 DEF CanFollow, Delivery!Follows
  <2> QED
    BY <2>1, <2>2, <2>3
<1>7. c.op = "buffered" => d.rows[1].n = 1
  <2>1. CASE c.rows # << >>
    BY <1>1, <1>5, <2>1 DEF CallRows
  <2>2. CASE c.rows = << >>
    BY <1>1, <1>2, <1>5, <2>2 DEF AtCall
  <2> QED
    BY <2>1, <2>2
<1>8. \A i \in 1..Len(d.rows) : d.rows[i] \in P
  BY <1>1, <1>5 DEF CallRows
<1>9. CallRows(d, x, r, q, P, E)
  BY <1>1, <1>5, <1>6, <1>7, <1>8, Zenon DEF CallRows
<1>10. Near(b, r, q)
  BY <1>1 DEF Near
<1>11. AtCall(b, d, x, q)
  <2>1. \A i \in 1..Len(d.rows) : d.rows[i].set <= b.set
    <3> DEFINE Q == {y \in Rows : y.set <= b.set}
    <3>1. \A i \in 1..Len(c.rows) : c.rows[i] \in Q
      BY <1>1, ElementOfSeq DEF AtCall
    <3>2. row \in Q
      BY <1>2
    <3>3. \A i \in 1..Len(d.rows) : d.rows[i] \in Q
      <4> HIDE DEF Q
      <4> QED
        BY <1>5, <3>1, <3>2
    <3> QED
      BY <3>3
  <2>2. x.field_count # 0
    OBVIOUS
  <2> QED
    BY <1>5, <2>1, <2>2, Zenon DEF AtCall
<1> QED
  BY <1>9, <1>10, <1>11 DEF At

\* A set ends here.
LEMMA SetEndRows ==
  ASSUME NEW a \in Places, NEW c, NEW st, NEW r, NEW q, NEW P, NEW E, At(a, c, st, r, q, P, E),
         st.has_more_rows_in_set, a \in E,
         NEW d, d.op = c.op, d.rows = c.rows,
         NEW x, x.exec = st.exec, x.flags = st.flags, ~x.has_more_rows_in_set,
         x.field_count = st.field_count
  PROVE  At(a, d, x, r, q, P, E)
<1>1. CallRows(c, st, r, q, P, E) /\ Near(a, r, q) /\ AtCall(a, c, st, q)
  BY DEF At
<1>2. c.rows # << >> => PlaceOf(LastRow(c.rows)) \in E
  BY <1>1, PlaceOfRow DEF AtCall
<1>3. c.rows = << >> /\ c.op = "next" => PlaceOf(LastRow(q)) \in E
  BY <1>1 DEF AtCall
<1>4. CallRows(d, x, r, q, P, E)
  BY <1>1, <1>2, <1>3, Zenon DEF CallRows
<1>5. AtCall(a, d, x, q)
  BY <1>1, Zenon DEF AtCall
<1> QED
  BY <1>1, <1>4, <1>5 DEF At

\* The flags do not change.
LEMMA OtherRows ==
  ASSUME NEW a, NEW c, NEW st, NEW r, NEW q, NEW P, NEW E, CallRows(c, st, r, q, P, E),
         NEW d, d.op = c.op, d.rows = c.rows, d.ret = "PASS" => ~st.has_more_rows_in_set,
         NEW x, x.exec = st.exec, x.flags = st.flags, x.field_count = st.field_count,
         x.has_more_rows_in_set = st.has_more_rows_in_set
  PROVE  /\ CallRows(d, x, r, q, P, E)
         /\ At(a, c, st, r, q, P, E) => At(a, d, x, r, q, P, E)
<1>1. CallRows(d, x, r, q, P, E)
  BY Zenon DEF CallRows
<1>2. AtCall(a, c, st, q) => AtCall(a, d, x, q)
  BY Zenon DEF AtCall
<1> QED
  BY <1>1, <1>2, Zenon DEF At

\* What the invariant says of the next message.
LEMMA NextMessage ==
  ASSUME RInv, batch # << >>
  PROVE  LET e == Reader.exec
             m == batch[1]
         IN  /\ call.s \in AllStmts /\ e \in Executions /\ up /\ e = LastExec /\ ~Idle
             /\ m \in Sent /\ Head(batch) = m
             /\ CallRows(call, Reader, res[call.s], got[e], Produced(e), Ends(e))
             /\ \E a \in Places :
                  /\ At(a, call, Reader, res[call.s], got[e], Produced(e), Ends(e))
                  /\ Moves(a, m) \in Places
                  /\ Fits(e, m, Moves(a, m), Produced(e), Ends(e))
                  /\ Way(e, Moves(a, m), Tail(batch), line, Produced(e), Ends(e), todo, pos)
<1> DEFINE e == Reader.exec
           m == batch[1]
<1>1. IInv /\ ReadRows /\ Placed
  BY DEF RInv
<1>2. call.s \in AllStmts /\ e \in Executions /\ ~Idle /\ batch \in Seq(Sent)
  BY <1>1, ReaderIs DEF IInv, Types, ReadTyped, LineTyped
<1>3. up /\ e = LastExec
  BY <1>1, <1>2 DEF IInv, Tidy, OneReader
<1>4. m \in Sent /\ Head(batch) = m
  BY <1>2, TailElements
<1>5. e \notin raised
  BY <1>1, MessageFits
<1>6. CallRows(call, Reader, res[call.s], got[e], Produced(e), Ends(e))
  BY <1>1, <1>2, Zenon DEF ReadRows
<1>7. PICK a \in Places :
        /\ Way(e, a, batch, line, Produced(e), Ends(e), todo, pos)
        /\ \A s \in AllStmts : stmt[s].exec = e =>
             /\ Near(a, res[s], got[e])
             /\ ~Idle => AtCall(a, call, stmt[s], got[e])
  BY <1>1, <1>2, <1>3, <1>5, Zenon DEF Placed
<1>8. At(a, call, Reader, res[call.s], got[e], Produced(e), Ends(e))
  BY <1>2, <1>6, <1>7, Zenon DEF At, Reader
<1>9. Moves(a, m) \in Places
  BY MovesTo
<1>10. /\ Fits(e, m, Moves(a, m), Produced(e), Ends(e))
       /\ Way(e, Moves(a, m), Tail(batch), line, Produced(e), Ends(e), todo, pos)
  <2>1. PICK b, c \in Places :
          /\ Walk(e, a, batch, b, Produced(e), Ends(e))
          /\ Walk(e, b, line, c, Produced(e), Ends(e)) /\ (todo # << >> => c = pos)
    BY <1>7 DEF Way
  <2>2. /\ Fits(e, m, Moves(a, m), Produced(e), Ends(e))
        /\ Walk(e, Moves(a, m), Tail(batch), b, Produced(e), Ends(e))
    BY <1>2, <2>1, WalkStarts
  <2> QED
    BY <2>1, <2>2, Zenon DEF Way
<1> QED
  BY <1>2, <1>3, <1>4, <1>6, <1>8, <1>9, <1>10

\* A message is processed; at most a row is given.
LEMMA MessageRows ==
  ASSUME RInv, IInv', batch # << >>, Processed, NEW s, s = call.s, NEW e, e = Reader.exec,
         call'.op = call.op, call'.s = call.s,
         NEW x \in Statements, stmt' = [stmt EXCEPT ![call.s] = x],
         x.exec = Reader.exec, x.flags = Reader.flags, raised \subseteq raised',
         \A f \in Executions \ {e} : got'[f] = got[f],
         NEW rows, Given(got'[e], got[e], rows, e, Produced(e)),
         rows # << >> => res[s].kind = "none",
         CallRows(call', x, res[s], got'[e], Produced(e), Ends(e)),
         e \notin raised' => \E a \in Places :
             /\ Way(e, a, Tail(batch), line, Produced(e), Ends(e), todo, pos)
             /\ Near(a, res[s], got'[e]) /\ AtCall(a, call', x, got'[e])
  PROVE  RInv'
<1>1. s \in AllStmts /\ e \in Executions /\ up /\ e = LastExec /\ ~Idle
  BY NextMessage
<1>2. /\ batch' = Tail(batch) /\ up' = up /\ line' = line /\ res' = res
      /\ UNCHANGED up /\ UNCHANGED serverVars
  BY DEF Processed
<1>3. /\ stmt'[s] = x /\ \A t \in AllStmts \ {s} : stmt'[t] = stmt[t] /\ res'[t] = res[t]
  BY <1>1, <1>2, StmtSet DEF RInv, IInv, Types
<1>4. stmt[s].exec = e /\ x.flags = stmt[s].flags /\ x.exec = e
  BY DEF Reader
<1>5. ~Idle' /\ call'.s = s
  BY <1>1 DEF Idle
<1>6. Absent(res[s]) /\ KindFits(res[s], x)
  BY <1>1, <1>4, Zenon DEF RInv, ResultsRows, Absent, KindFits
<1>7. res[s].kind # "none" => ResultRows(res[s], e, got'[e], Produced(e), Ends(e))
  <2>1. got[e] \in Seq(Rows)
    BY <1>1, Executed DEF RInv
  <2>2. rows = << >> => got'[e] = got[e]
    BY <2>1, ExtendsEnds DEF Given
  <2>3. res[s].kind # "none" => ResultRows(res[s], e, got[e], Produced(e), Ends(e))
    BY <1>1, <1>4, Zenon DEF RInv, ResultsRows
  <2> QED
    BY <2>2, <2>3
<1> DEFINE r == res'[s]
           c == call'
           q == got'[e]
<1>8. r = res[s]
  BY <1>2
<1>9. /\ Absent(r) /\ KindFits(r, x)
      /\ r.kind # "none" => ResultRows(r, e, q, Produced(e), Ends(e))
      /\ Idle' /\ r.kind = "fwd" => ForwardEnds(r, x, q, Ends(e))
      /\ ~Idle' => CallRows(c, x, r, q, Produced(e), Ends(e))
  BY <1>5, <1>6, <1>7, <1>8, Zenon
<1>10. up /\ LastExec = e /\ e \notin raised' =>
           \E a \in Places :
             /\ Way(e, a, batch', line', Produced(e), Ends(e), todo, pos)
             /\ Near(a, r, q)
             /\ Idle' => AtRest(a, r, x)
             /\ ~Idle' => AtCall(a, c, x, q)
  BY <1>2, <1>5, <1>8, Zenon
<1> HIDE DEF r, c, q
<1> QED
  BY <1>1, <1>2, <1>3, <1>4, <1>5, <1>9, <1>10, RowsStep DEF r, c, q

LEMMA ProcessRows ==
  ASSUME RInv, Process
  PROVE  RInv'
<1> DEFINE e == Reader.exec
           m == batch[1]
           s == call.s
           P == Produced(e)
           E == Ends(e)
<1>1. IInv /\ IInv'
  BY ProcessKeeps DEF RInv
<1>2. batch # << >> /\ Processed
  BY DEF Process, Processing, on_COLUMN_META, on_RSET_ROW, on_RSET_FETCH_DONE,
         on_RSET_FETCH_DONE_MORE_RSETS, on_STMT_EXECUTE_OK, on_ERROR, on_NOTICE
<1>3. /\ s \in AllStmts /\ e \in Executions /\ m \in Sent /\ Head(batch) = m
      /\ CallRows(call, Reader, res[s], got[e], P, E)
  BY <1>2, NextMessage
<1>4. PICK a \in Places :
        /\ At(a, call, Reader, res[s], got[e], P, E)
        /\ Moves(a, m) \in Places /\ Fits(e, m, Moves(a, m), P, E)
        /\ Way(e, Moves(a, m), Tail(batch), line, P, E, todo, pos)
  BY <1>2, NextMessage
<1>5. PICK p \in Phases :
        /\ m.type \in Sends(p)
        /\ p = "start" => NoMore(Reader) /\ Reader.field_count = 0
        /\ p = "rows" => InSet(Reader)
        /\ p \in {"done", "noticed"} => NoMore(Reader)
  BY <1>1, <1>2, MessageFits
<1>6. /\ Reader \in Statements /\ call \in Reads /\ Reader = stmt[s] /\ got[e] \in Seq(Rows)
      /\ res[s].rows \in Seq(Rows) /\ call.rows \in Seq(Rows)
  <2>1. Types
    BY <1>1 DEF IInv
  <2> QED
    BY <1>1, <1>3, <2>1, ReaderIs, Executed DEF Reader, Types, GotTyped, Results, Reads
<1>7. p = "start" \/ p = "rows" \/ p = "done" \/ p = "noticed" \/ p = "end"
  BY DEF Phases
<1>8. /\ m.type = "META" => p = "start"
      /\ m.type \in {"ROW", "MORE", "DONE"} => p = "rows"
      /\ m.type \in {"OK", "NOTICE"} => NoMore(Reader)
  BY <1>5, <1>7, SendsAndLeads
<1> DEFINE b == Moves(a, m)
<1>9. /\ b \in Places
      /\ m.type = "META" => b.set = a.set + 1 /\ b.n = 0
      /\ m.type = "ROW" => b.set = a.set /\ b.n = a.n + 1
      /\ m.type \notin {"META", "ROW"} => b = a
  BY <1>4, MovesTo
<1>10. Extends(got[e], got[e], << >>) /\ Given(got[e], got[e], << >>, e, P)
  BY <1>6, ExtendsByNothing, NoRows DEF Given
<1> HIDE DEF b, P, E, m
<1>11. ASSUME call'.op = call.op, call'.s = call.s, UNCHANGED got,
              NEW x \in Statements, stmt' = [stmt EXCEPT ![s] = x],
              x.exec = e, x.flags = Reader.flags, raised \subseteq raised',
              CallRows(call', x, res[s], got[e], P, E),
              e \notin raised' => At(b, call', x, res[s], got[e], P, E)
       PROVE  RInv'
  <2>1. e \notin raised' => \E y \in Places :
             /\ Way(e, y, Tail(batch), line, P, E, todo, pos)
             /\ Near(y, res[s], got'[e]) /\ AtCall(y, call', x, got'[e])
    BY <1>4, <1>9, <1>11 DEF At, b
  <2> DEFINE rows == << >>
  <2>2. Given(got'[e], got[e], rows, e, P) /\ rows = << >>
    BY <1>10, <1>11
  <2> HIDE DEF rows
  <2> QED
    BY <1>1, <1>2, <1>11, <2>1, <2>2, MessageRows DEF P, E
<1>12. CASE on_COLUMN_META
  <2> DEFINE x == [Reader EXCEPT !.has_more_results = TRUE, !.has_more_rows_in_set = TRUE,
                                 !.field_count = Reader.field_count + 1]
  <2>1. m.type = "META" /\ p = "start" /\ Reader.field_count = 0
    BY <1>3, <1>5, <1>8, <1>12 DEF on_COLUMN_META, Processing
  <2>2. x \in Statements /\ x.exec = e /\ x.flags = Reader.flags
        /\ x.has_more_rows_in_set /\ x.field_count = 1
    <3>1. Reader.field_count + 1 \in Nat /\ Reader.field_count + 1 = 1
      BY <2>1
    <3> QED
      BY <1>6, <3>1 DEF Statements
  <2>3. stmt' = [stmt EXCEPT ![s] = x] /\ UNCHANGED <<got, raised>>
    BY <1>12 DEF on_COLUMN_META, Reader
  <2>4. call'.ret = "AGAIN" /\ call'.op = call.op /\ call'.s = call.s /\ call'.rows = call.rows
    BY <1>6, <1>12 DEF on_COLUMN_META, Reads
  <2> HIDE DEF x
  <2>5. ReadsOn(e, a, b, call, Reader, res[s], got[e], P, E, call', x)
    BY <1>4, <1>6, <1>9, <2>2, <2>4 DEF ReadsOn
  <2>6. At(b, call', x, res[s], got[e], P, E)
    BY <1>9, <2>1, <2>4, <2>5, MetaRows
  <2> QED
    BY <1>11, <2>2, <2>3, <2>4, <2>6 DEF At
<1>13. CASE on_RSET_ROW
  <2>1. m.type = "ROW" /\ p = "rows" /\ InSet(Reader)
    BY <1>3, <1>5, <1>8, <1>13 DEF on_RSET_ROW, Processing
  <2>2. /\ stmt' = [stmt EXCEPT ![s] = [Reader EXCEPT !.has_more_results = TRUE,
              !.prefetch_counter = IF fwd_prefetch_count # 0 THEN prefetched
                                   ELSE Reader.prefetch_counter]]
        /\ handler_on_row_field(m.row) /\ raised' = raised
    BY <1>3, <1>13, <2>1 DEF on_RSET_ROW, InSet
  <2> DEFINE k == IF fwd_prefetch_count # 0 THEN prefetched ELSE Reader.prefetch_counter
             x == [Reader EXCEPT !.has_more_results = TRUE, !.prefetch_counter = k]
  <2>3. k \in 0..(SizeModulus - 1)
    <3>1. Reader.prefetch_counter \in 0..(SizeModulus - 1)
      BY <1>6 DEF Statements
    <3>2. \A j \in 0..(SizeModulus - 1) : (j - 1) % SizeModulus \in 0..(SizeModulus - 1)
      BY ResultsAssumption
    <3> QED
      BY <3>1, <3>2 DEF prefetched
  <2>4. stmt' = [stmt EXCEPT ![s] = x]
    BY <2>2
  <2> HIDE DEF k
  <2>5. x \in Statements /\ x.exec = e /\ x.flags = Reader.flags
        /\ x.has_more_rows_in_set /\ x.field_count = 1
    BY <1>6, <2>1, <2>3 DEF Statements, InSet
  <2> HIDE DEF x
  <2>6. m.row \in Rows /\ m.row = RowAt(e, b) /\ m.row \in P
    BY <1>3, <1>4, <2>1 DEF Sent, Fits, b
  <2>7. Reader.has_more_rows_in_set /\ Reader.field_count = 1
    BY <2>1 DEF InSet
  <2>8. CASE Callback
    <3>1. /\ got' = [got EXCEPT ![e] = Append(@, m.row)]
          /\ call' = [call EXCEPT !.ret = "AGAIN"]
      BY <2>2, <2>8 DEF handler_on_row_field
    <3>2. got'[e] = Append(got[e], m.row) /\ \A f \in Executions \ {e} : got'[f] = got[f]
      BY <1>1, <1>3, <3>1 DEF IInv, Types, GotTyped
    <3>3. Extends(got'[e], got[e], << m.row >>)
      BY <1>6, <2>6, <3>2, AppendExtends
    <3>4. call'.ret = "AGAIN" /\ call'.op = call.op /\ call'.s = call.s /\ call'.rows = call.rows
      BY <1>6, <3>1 DEF Reads
    <3>5. call.op \in {"callback", "query_cb"} /\ res[s].kind = "none" /\ res[s].rows = << >>
      <4>1. call.op \in {"callback", "query_cb"}
        BY <2>8 DEF Callback
      <4>2. res[s].kind = "none"
        BY <1>3, <4>1 DEF CallRows
      <4> QED
        BY <1>3, <4>1, <4>2 DEF RInv, ResultsRows
    <3>6. /\ At(b, call', x, res[s], got'[e], P, E) /\ CanFollow(got[e], m.row)
          /\ Run(<< m.row >>, e)
      <4>1. ReadsOn(e, a, b, call, Reader, res[s], got[e], P, E, call', x)
        BY <1>4, <1>6, <1>9, <2>5, <3>4 DEF ReadsOn
      <4> QED
        BY <1>9, <2>1, <2>6, <2>7, <3>3, <3>4, <3>5, <4>1, CallbackRows
    <3> DEFINE rows == << m.row >>
    <3>7. Given(got'[e], got[e], rows, e, P)
      <4>1. rows \in Seq(Rows) /\ Len(rows) = 1 /\ rows[1] = m.row /\ \A i \in 1..1 : i = 1
        BY <2>6
      <4> QED
        BY <2>6, <3>3, <3>6, <4>1, Zenon DEF Given
    <3> HIDE DEF rows
    <3>8. CallRows(call', x, res[s], got'[e], P, E) /\ \E y \in Places :
             /\ Way(e, y, Tail(batch), line, P, E, todo, pos)
             /\ Near(y, res[s], got'[e]) /\ AtCall(y, call', x, got'[e])
      BY <1>4, <1>9, <3>6 DEF At, b
    <3> QED
      BY <1>1, <1>2, <2>2, <2>4, <2>5, <3>2, <3>4, <3>5, <3>7, <3>8, MessageRows DEF P, E
  <2>9. CASE ~Callback
    <3>1. PICK ret \in {"AGAIN", "PASS"} :
            /\ call' = [call EXCEPT !.rowset = TRUE, !.rows = Append(@, m.row), !.ret = ret]
            /\ ret = "PASS" => fwd_prefetch_count # 0
            /\ UNCHANGED got
      BY <2>2, <2>9 DEF handler_on_row_field
    <3>2. fwd_prefetch_count # 0 => call.op # "buffered"
      BY DEF fwd_prefetch_count
    <3>3. /\ call'.ret = ret /\ call'.op = call.op /\ call'.s = call.s
          /\ call'.rows = Append(call.rows, m.row)
      BY <1>6, <3>1 DEF Reads
    <3>4. call.op \notin {"callback", "query_cb", "query"}
      <4>1. 1 \in 1..Len(batch)
        BY <1>1, <1>2, LineFacts, TailElements DEF IInv
      <4>2. call.op # "query"
        BY <1>1, <2>1, <4>1 DEF IInv, QueryHasNoSets, m
      <4> QED
        BY <2>9, <4>2 DEF Callback
    <3>5. At(b, call', x, res[s], got[e], P, E)
      <4>1. ReadsOn(e, a, b, call, Reader, res[s], got[e], P, E, call', x)
        BY <1>4, <1>6, <1>9, <2>5, <3>3 DEF ReadsOn
      <4>2. /\ b.set = a.set /\ b.n = a.n + 1 /\ call.rows \in Seq(Rows)
            /\ (call'.ret = "PASS" => call.op # "buffered")
        BY <1>6, <1>9, <2>1, <3>1, <3>2, <3>3
      <4> QED
        BY <2>6, <2>7, <3>3, <3>4, <4>1, <4>2, CollectRows, Zenon
    <3> QED
      BY <1>11, <2>2, <2>4, <2>5, <3>1, <3>3, <3>5 DEF At
  <2> QED
    BY <2>8, <2>9
<1>14. CASE on_RSET_FETCH_DONE \/ on_RSET_FETCH_DONE_MORE_RSETS
  <2>1. m.type \in {"DONE", "MORE"} /\ InSet(Reader)
    BY <1>3, <1>5, <1>8, <1>14
       DEF on_RSET_FETCH_DONE, on_RSET_FETCH_DONE_MORE_RSETS, Processing
  <2>2. PICK more \in BOOLEAN, ret \in {"AGAIN", "PASS"} :
          /\ stmt' = [stmt EXCEPT ![call.s] = [Reader EXCEPT !.has_more_results = more,
                                                             !.has_more_rows_in_set = FALSE]]
          /\ call' = [call EXCEPT !.ret = ret] /\ UNCHANGED <<got, raised>>
    BY <1>14 DEF on_RSET_FETCH_DONE, on_RSET_FETCH_DONE_MORE_RSETS
  <2> DEFINE x == [Reader EXCEPT !.has_more_results = more, !.has_more_rows_in_set = FALSE]
  <2>3. x \in Statements /\ x.exec = e /\ x.flags = Reader.flags
        /\ ~x.has_more_rows_in_set /\ x.field_count = Reader.field_count
    BY <1>6 DEF Statements
  <2>4. call'.ret = ret /\ call'.op = call.op /\ call'.s = call.s /\ call'.rows = call.rows
    BY <1>6, <2>2 DEF Reads
  <2>5. stmt' = [stmt EXCEPT ![s] = x]
    BY <2>2
  <2> HIDE DEF x
  <2>6. b = a /\ a \in E
    BY <1>4, <1>9, <2>1 DEF Fits, b
  <2>7. At(a, call', x, res[s], got[e], P, E)
    BY <1>4, <2>1, <2>3, <2>4, <2>6, SetEndRows DEF InSet
  <2> QED
    BY <1>11, <2>2, <2>3, <2>4, <2>5, <2>6, <2>7 DEF At
<1>15. CASE on_STMT_EXECUTE_OK \/ on_NOTICE
  <2>1. m.type \in {"OK", "NOTICE"} /\ ~Reader.has_more_rows_in_set /\ b = a
    BY <1>3, <1>8, <1>9, <1>15 DEF on_STMT_EXECUTE_OK, on_NOTICE, Processing, NoMore
  <2>2. PICK more \in BOOLEAN, ret \in {"AGAIN", "PASS"} :
          /\ stmt' = [stmt EXCEPT ![s] = [Reader EXCEPT !.has_more_results = more]]
          /\ call' = [call EXCEPT !.ret = ret] /\ UNCHANGED <<got, raised>>
    <3>1. CASE on_STMT_EXECUTE_OK
      BY <3>1 DEF on_STMT_EXECUTE_OK, Reader
    <3>2. CASE on_NOTICE
      <4>1. Reader.has_more_results \in BOOLEAN
            /\ Reader = [Reader EXCEPT !.has_more_results = Reader.has_more_results]
        BY <1>6 DEF Statements
      <4>2. stmt' = [stmt EXCEPT ![s] = Reader]
        BY <1>1, <1>3, <3>2 DEF on_NOTICE, Reader, IInv, Types, StmtTyped
      <4> QED
        BY <3>2, <4>1, <4>2 DEF on_NOTICE
    <3> QED
      BY <1>15, <3>1, <3>2
  <2> DEFINE x == [Reader EXCEPT !.has_more_results = more]
  <2>3. x \in Statements /\ x.exec = e /\ x.flags = Reader.flags
        /\ x.has_more_rows_in_set = Reader.has_more_rows_in_set
        /\ x.field_count = Reader.field_count
    BY <1>6 DEF Statements
  <2>4. call'.ret = ret /\ call'.op = call.op /\ call'.s = call.s /\ call'.rows = call.rows
    BY <1>6, <2>2 DEF Reads
  <2>5. stmt' = [stmt EXCEPT ![s] = x]
    BY <2>2
  <2> HIDE DEF x
  <2>6. At(a, call', x, res[s], got[e], P, E) /\ CallRows(call', x, res[s], got[e], P, E)
    BY <1>3, <1>4, <2>1, <2>3, <2>4, OtherRows
  <2> QED
    BY <1>11, <2>1, <2>2, <2>3, <2>4, <2>5, <2>6
<1>16. CASE on_ERROR
  <2>1. stmt' = [stmt EXCEPT ![s] = Reader]
    BY <1>1, <1>3, <1>16 DEF on_ERROR, Reader, IInv, Types, StmtTyped
  <2>2. /\ call'.ret = "FAIL" /\ call'.op = call.op /\ call'.s = call.s /\ call'.rows = call.rows
        /\ raised' = raised \cup {e} /\ UNCHANGED got
    BY <1>6, <1>16 DEF on_ERROR, Reads
  <2>3. CallRows(call', Reader, res[s], got[e], P, E)
    BY <1>3, <2>2, OtherRows
  <2>4. raised \subseteq raised' /\ e \in raised'
    BY <2>2
  <2> QED
    BY <1>6, <1>11, <2>1, <2>2, <2>3, <2>4
<1> QED
  BY <1>12, <1>13, <1>14, <1>15, <1>16 DEF Process

-----------------------------------------------------------------------------
(***************************************************************************)
(* A frame is received, and a call returns.                                *)
(***************************************************************************)
\* What the read c of the execution e finds.
Finds(e, c, st, r, q, P, E) ==
  /\ CallRows(c, st, r, q, P, E) /\ Absent(r) /\ KindFits(r, st) /\ st.exec = e
  /\ r.kind # "none" => ResultRows(r, e, q, P, E)
  /\ q \in Seq(Rows) /\ c.rows \in Seq(Rows) /\ r.rows \in Seq(Rows)

LEMMA ReadingAt ==
  ASSUME RInv, ~Idle
  PROVE  LET e == Reader.exec
             s == call.s
         IN  /\ s \in AllStmts /\ e \in Executions /\ Reader = stmt[s] /\ (up => LastExec = e)
             /\ Reader \in Statements /\ res[s] \in Results
             /\ Finds(e, call, Reader, res[s], got[e], Produced(e), Ends(e))
             /\ up /\ e \notin raised => \E a \in Places :
                  /\ At(a, call, Reader, res[s], got[e], Produced(e), Ends(e))
                  /\ Way(e, a, batch, line, Produced(e), Ends(e), todo, pos)
<1> DEFINE e == Reader.exec
           s == call.s
<1>1. IInv /\ Types /\ ReadRows /\ Placed /\ ResultsRows
  BY DEF RInv, IInv
<1>2. /\ s \in AllStmts /\ e \in Executions /\ Reader = stmt[s] /\ (up => LastExec = e)
      /\ Reader \in Statements /\ call \in Reads
  BY <1>1, ReaderIs DEF IInv, Types, ReadTyped, OneReader, Reader
<1>3. got[e] \in Seq(Rows) /\ res[s] \in Results
  BY <1>1, <1>2 DEF Types, GotTyped
<1>4. CallRows(call, Reader, res[s], got[e], Produced(e), Ends(e))
  BY <1>1, <1>2, Zenon DEF ReadRows
<1>5. Finds(e, call, Reader, res[s], got[e], Produced(e), Ends(e))
  <2>1. Absent(res[s]) /\ KindFits(res[s], Reader)
    BY <1>1, <1>2, Zenon DEF ResultsRows, Absent, KindFits
  <2>2. res[s].kind # "none" => ResultRows(res[s], e, got[e], Produced(e), Ends(e))
    BY <1>1, <1>2, Zenon DEF ResultsRows
  <2>3. call.rows \in Seq(Rows) /\ res[s].rows \in Seq(Rows)
    BY <1>2, <1>3 DEF Reads, Results
  <2> QED
    BY <1>3, <1>4, <2>1, <2>2, <2>3, Zenon DEF Finds
<1>6. ASSUME up, e \notin raised
      PROVE  \E a \in Places :
                  /\ At(a, call, Reader, res[s], got[e], Produced(e), Ends(e))
                  /\ Way(e, a, batch, line, Produced(e), Ends(e), todo, pos)
  <2>1. PICK a \in Places :
          /\ Way(e, a, batch, line, Produced(e), Ends(e), todo, pos)
          /\ \A t \in AllStmts : stmt[t].exec = e =>
               /\ Near(a, res[t], got[e])
               /\ ~Idle => AtCall(a, call, stmt[t], got[e])
    BY <1>1, <1>2, <1>6, Zenon DEF Placed
  <2> QED
    BY <1>2, <1>4, <2>1, Zenon DEF At
<1> QED
  BY <1>2, <1>3, <1>5, <1>6

LEMMA receiveRows ==
  ASSUME RInv, receive
  PROVE  RInv'
<1> DEFINE e == Reader.exec
           s == call.s
           P == Produced(e)
           E == Ends(e)
<1>1. IInv /\ IInv'
  BY receiveKeeps DEF RInv
<1>2. /\ ~Idle /\ batch = << >> /\ UNCHANGED up /\ UNCHANGED serverVars
      /\ UNCHANGED <<stmt, res, got, raised>>
  BY DEF receive, Waiting
<1>3. /\ s \in AllStmts /\ e \in Executions /\ Reader = stmt[s] /\ (up => LastExec = e)
      /\ Finds(e, call, Reader, res[s], got[e], P, E)
  BY <1>2, ReadingAt
<1>4. Given(got[e], got[e], << >>, e, P)
  BY <1>3, ExtendsByNothing, NoRows DEF Given, Finds
<1>5. ASSUME call'.op = call.op, call'.s = call.s,
             CallRows(call', Reader, res[s], got[e], P, E),
             up /\ e \notin raised => \E a \in Places :
               /\ At(a, call', Reader, res[s], got[e], P, E)
               /\ Way(e, a, batch', line', P, E, todo, pos)
      PROVE  RInv'
  <2>1. ~Idle'
    BY <1>2, <1>5 DEF Idle
  <2> DEFINE rows == << >>
             r == res'[s]
             x == stmt'[s]
             c == call'
             q == got'[e]
  <2>2. r = res[s] /\ x = stmt[s] /\ q = got[e]
    BY <1>2
  <2>3. /\ Absent(r) /\ KindFits(r, x) /\ (r.kind # "none" => ResultRows(r, e, q, P, E))
        /\ (~Idle' => CallRows(c, x, r, q, P, E)) /\ Given(got'[e], got[e], rows, e, P)
    BY <1>2, <1>3, <1>4, <1>5, <2>2, Zenon DEF Finds
  <2>4. up /\ LastExec = e /\ e \notin raised' => \E a \in Places :
          /\ Way(e, a, batch', line', P, E, todo, pos) /\ Near(a, r, q)
          /\ Idle' => AtRest(a, r, x)
          /\ ~Idle' => AtCall(a, c, x, q)
    BY <1>2, <1>3, <1>5, <2>1, <2>2, Zenon DEF At
  <2>5. Idle' /\ r.kind = "fwd" => ForwardEnds(r, x, q, E)
    BY <2>1
  <2>6. /\ stmt[s].exec = e /\ stmt'[s].exec = e /\ stmt'[s].flags = stmt[s].flags
        /\ (\A t \in AllStmts \ {s} : stmt'[t] = stmt[t] /\ res'[t] = res[t])
        /\ raised \subseteq raised' /\ (\A f \in Executions \ {e} : got'[f] = got[f])
    BY <1>2, <1>3
  <2> HIDE DEF rows, r, x, c, q
  <2> QED
    BY <1>1, <1>2, <1>3, <1>5, <2>1, <2>3, <2>4, <2>5, <2>6, RowsStep DEF r, x, c, q, P, E
<1>6. ASSUME NEW k \in 1..Len(line), batch' = SubSeq(line, 1, k),
             line' = SubSeq(line, k + 1, Len(line)), call' = call
      PROVE  RInv'
  <2>1. line \in Seq(Sent)
    BY <1>1, LineFacts DEF IInv
  <2>2. ASSUME up, e \notin raised
        PROVE  \E a \in Places :
                 /\ At(a, call', Reader, res[s], got[e], P, E)
                 /\ Way(e, a, batch', line', P, E, todo, pos)
    <3>1. PICK a \in Places : /\ At(a, call, Reader, res[s], got[e], P, E)
                              /\ Way(e, a, batch, line, P, E, todo, pos)
      BY <1>2, <2>2, ReadingAt
    <3>2. PICK b, c \in Places :
            Walk(e, a, batch, b, P, E) /\ Walk(e, b, line, c, P, E) /\ (todo # << >> => c = pos)
      BY <3>1 DEF Way
    <3>3. a = b
      BY <1>2, <3>2, WalkNowhere
    <3>4. PICK d \in Places : Walk(e, a, batch', d, P, E) /\ Walk(e, d, line', c, P, E)
      BY <1>6, <2>1, <3>2, <3>3, WalkCut
    <3> QED
      BY <1>6, <3>1, <3>2, <3>4, Zenon DEF Way
  <2> QED
    BY <1>3, <1>5, <1>6, <2>2 DEF Finds
<1>7. ASSUME ~up, call' = [call EXCEPT !.ret = "FAIL"]
      PROVE  RInv'
  <2>1. call'.op = call.op /\ call'.s = call.s /\ call'.ret = "FAIL" /\ call'.rows = call.rows
    BY <1>1, <1>7, ReaderIs DEF IInv, Reads
  <2>2. CallRows(call', Reader, res[s], got[e], P, E)
    BY <1>3, <2>1, OtherRows DEF Finds
  <2> QED
    BY <1>5, <1>7, <2>1, <2>2
<1> QED
  BY <1>6, <1>7 DEF receive

\* What is left when nobody reads.
Settles(r, x, e, q, P, E) ==
  /\ Absent(r) /\ KindFits(r, x)
  /\ r.kind # "none" => ResultRows(r, e, q, P, E)
  /\ r.kind = "fwd" => ForwardEnds(r, x, q, E)

LEMMA SettledRows ==
  ASSUME RInv, IInv', ~Idle, batch = << >>, Settled, NEW s, s = call.s, NEW e, e = Reader.exec,
         \A t \in AllStmts \ {s} : stmt'[t] = stmt[t] /\ res'[t] = res[t],
         stmt'[s].exec = e, stmt'[s].flags = Reader.flags, raised \subseteq raised',
         \A f \in Executions \ {e} : got'[f] = got[f],
         NEW rows, Given(got'[e], got[e], rows, e, Produced(e)),
         NEW r, r = res'[s], NEW x, x = stmt'[s], NEW q, q = got'[e],
         Settles(r, x, e, q, Produced(e), Ends(e)),
         \A a \in Places : up /\ e \notin raised'
                           /\ At(a, call, Reader, res[s], got[e], Produced(e), Ends(e)) =>
           Near(a, r, q) /\ AtRest(a, r, x)
  PROVE  RInv'
<1>1. /\ s \in AllStmts /\ e \in Executions /\ Reader = stmt[s] /\ (up => LastExec = e)
      /\ up /\ e \notin raised => \E a \in Places :
           /\ At(a, call, Reader, res[s], got[e], Produced(e), Ends(e))
           /\ Way(e, a, batch, line, Produced(e), Ends(e), todo, pos)
  BY ReadingAt
<1>2. Idle' /\ UNCHANGED up /\ UNCHANGED serverVars /\ UNCHANGED <<line, batch>>
  BY DEF Settled, Idle, NoCall
<1>3. stmt[s].exec = e /\ stmt'[s].flags = stmt[s].flags
  BY <1>1
<1>4. up /\ LastExec = e /\ e \notin raised' => \E a \in Places :
          /\ Way(e, a, batch', line', Produced(e), Ends(e), todo, pos) /\ Near(a, r, q)
          /\ Idle' => AtRest(a, r, x)
          /\ ~Idle' => AtCall(a, call', x, q)
  BY <1>1, <1>2, Zenon
<1>5. /\ Absent(r) /\ KindFits(r, x)
      /\ r.kind # "none" => ResultRows(r, e, q, Produced(e), Ends(e))
      /\ Idle' /\ r.kind = "fwd" => ForwardEnds(r, x, q, Ends(e))
      /\ ~Idle' => CallRows(call', x, r, q, Produced(e), Ends(e))
  BY <1>2, Zenon DEF Settles
<1>6. up /\ LastExec # e => line' = line /\ batch' = batch /\ Idle /\ Idle'
  BY <1>1
<1> DEFINE c == call'
<1> HIDE DEF c
<1> QED
  BY <1>1, <1>2, <1>3, <1>4, <1>5, <1>6, RowsStep DEF c

\* get_buffered_result and get_fwd_result hand out a result.
LEMMA MakesResult ==
  ASSUME NEW e, NEW c, NEW st, NEW r, NEW q, NEW P, NEW E, Finds(e, c, st, r, q, P, E),
         c.op \in {"buffered", "fwd"}, c.ret = "PASS",
         NEW y, y.kind = c.op, y.rows = c.rows, y.row_cursor = 0, y.use = "none"
  PROVE  /\ Settles(y, st, e, q, P, E)
         /\ \A a : At(a, c, st, r, q, P, E) => Near(a, y, q) /\ AtRest(a, y, st)
<1>1. CallRows(c, st, r, q, P, E) /\ st.exec = e
  BY DEF Finds
<1>2. Absent(y) /\ KindFits(y, st)
  BY <1>1 DEF CallRows, Absent, KindFits
<1>3. c.op = "buffered" /\ c.rows # << >> => c.rows[1].n = 1 /\ PlaceOf(LastRow(c.rows)) \in E
  BY <1>1 DEF CallRows
<1>4. Run(c.rows, e) /\ (\A i \in 1..Len(c.rows) : c.rows[i] \in P)
      /\ (c.rows # << >> => CanFollow(q, c.rows[1]))
  BY <1>1 DEF CallRows
<1>5. ResultRows(y, e, q, P, E)
  BY <1>3, <1>4, Zenon DEF ResultRows
<1>6. ForwardEnds(y, st, q, E)
  BY <1>1, Zenon DEF ForwardEnds, CallRows
<1>7. ASSUME NEW a, At(a, c, st, r, q, P, E)
      PROVE  Near(a, y, q) /\ AtRest(a, y, st)
  <2>1. Near(a, r, q) /\ AtCall(a, c, st, q)
    BY <1>7 DEF At
  <2>2. Near(a, y, q)
    BY <2>1, Zenon DEF Near, AtCall
  <2>3. st.has_more_rows_in_set => c.rows # << >>
    BY <1>1 DEF CallRows
  <2>4. AtRest(a, y, st)
    BY <2>1, <2>3, Zenon DEF AtRest, AtCall
  <2> QED
    BY <2>2, <2>4
<1> QED
  BY <1>2, <1>5, <1>6, <1>7 DEF Settles

\* A forward only result gets the rows of the read.
LEMMA GetsRows ==
  ASSUME NEW e, NEW c, NEW st, NEW r, NEW q, NEW P, NEW E, Finds(e, c, st, r, q, P, E),
         c.op \in {"next", "fetchAll"}, r.kind = "fwd",
         NEW y, y.kind = r.kind, y.rows = c.rows, y.row_cursor = r.row_cursor, y.use = r.use,
         y.rowset = r.rowset
  PROVE  /\ Settles(y, st, e, q, P, E)
         /\ \A a : At(a, c, st, r, q, P, E) /\ c.ret = "PASS" => Near(a, y, q) /\ AtRest(a, y, st)
<1>1. CallRows(c, st, r, q, P, E) /\ st.exec = e /\ KindFits(r, st) /\ ResultRows(r, e, q, P, E)
  BY DEF Finds
<1>2. Absent(y) /\ KindFits(y, st)
  BY <1>1 DEF Absent, KindFits
<1>3. /\ Run(c.rows, e) /\ (\A i \in 1..Len(c.rows) : c.rows[i] \in P)
      /\ (c.rows # << >> => CanFollow(q, c.rows[1]))
      /\ r.rowset /\ r.row_cursor = 0 /\ r.use \in {"one", "none"}
      /\ (r.use = "one" => q # << >> /\ c.op = "next")
  BY <1>1 DEF CallRows, ResultRows
<1>4. ResultRows(y, e, q, P, E)
  BY <1>3, Zenon DEF ResultRows
<1>5. ForwardEnds(y, st, q, E)
  BY <1>1, <1>3, Zenon DEF ForwardEnds, CallRows
<1>6. ASSUME NEW a, At(a, c, st, r, q, P, E), c.ret = "PASS"
      PROVE  Near(a, y, q) /\ AtRest(a, y, st)
  <2>1. Near(a, r, q) /\ AtCall(a, c, st, q)
    BY <1>6 DEF At
  <2>2. Near(a, y, q)
    BY <2>1, Zenon DEF Near, AtCall
  <2>3. st.has_more_rows_in_set => c.rows # << >>
    BY <1>1, <1>6 DEF CallRows
  <2>4. AtRest(a, y, st)
    BY <2>1, <2>3, Zenon DEF AtRest, AtCall
  <2> QED
    BY <2>2, <2>4
<1> QED
  BY <1>2, <1>4, <1>5, <1>6 DEF Settles

\* The iterator gives the first of the rows, if there is one.
LEMMA IteratesOn ==
  ASSUME NEW e, NEW c, NEW st, NEW r, NEW q, NEW P, NEW E, Finds(e, c, st, r, q, P, E),
         c.op = "iterNext", r.kind = "fwd", NEW rows, NEW p, Extends(p, q, rows),
         NEW y, y.kind = r.kind, y.rows = c.rows, y.row_cursor = r.row_cursor,
         y.rowset = r.rowset,
         \/ y.use = "iter" /\ c.rows # << >> /\ c.ret = "PASS" /\ rows = << c.rows[1] >>
         \/ y.use = "over" /\ rows = << >>
  PROVE  /\ Given(p, q, rows, e, P) /\ Settles(y, st, e, p, P, E)
         /\ \A a : At(a, c, st, r, q, P, E) => Near(a, y, p) /\ AtRest(a, y, st)
<1>1. /\ CallRows(c, st, r, q, P, E) /\ st.exec = e /\ KindFits(r, st) /\ q \in Seq(Rows)
      /\ c.rows \in Seq(Rows)
  BY DEF Finds
<1>2. Absent(y) /\ KindFits(y, st)
  BY <1>1 DEF Absent, KindFits
<1>3. /\ Run(c.rows, e) /\ (\A i \in 1..Len(c.rows) : c.rows[i] \in P)
      /\ (c.rows # << >> => CanFollow(q, c.rows[1]))
      /\ r.rowset /\ r.row_cursor = 0
  BY <1>1 DEF CallRows
<1>4. CASE y.use = "iter" /\ c.rows # << >> /\ c.ret = "PASS" /\ rows = << c.rows[1] >>
  <2>1. c.rows[1] \in Rows /\ c.rows[1].e = e /\ 1 \in 1..Len(c.rows) /\ Len(c.rows) > 0
        /\ Len(c.rows) \in Nat
    BY <1>1, <1>3, <1>4, RunOfOneSet
  <2>2. /\ rows \in Seq(Rows) /\ Run(rows, e) /\ rows # << >> /\ LastRow(rows) = c.rows[1]
        /\ rows[1] = c.rows[1] /\ \A i \in 1..Len(rows) : rows[i] = c.rows[1]
    BY <1>4, <2>1, OneRow
  <2>3. Given(p, q, rows, e, P)
    BY <1>3, <1>4, <2>1, <2>2, Zenon DEF Given
  <2>4. p # << >> /\ LastRow(p) = c.rows[1]
    BY <1>1, <2>2, ExtendsEnds
  <2>5. y.row_cursor < Len(y.rows) /\ y.rows[y.row_cursor + 1] = c.rows[1]
    BY <1>3, <2>1
  <2>6. ResultRows(y, e, p, P, E)
    BY <1>3, <1>4, <2>4, <2>5, Zenon DEF ResultRows
  <2>7. ForwardEnds(y, st, p, E)
    BY <1>1, <1>4, Zenon DEF ForwardEnds, CallRows
  <2>8. ASSUME NEW a, At(a, c, st, r, q, P, E)
        PROVE  Near(a, y, p) /\ AtRest(a, y, st)
    <3>1. Near(a, r, q) /\ AtCall(a, c, st, q)
      BY <2>8 DEF At
    <3>2. Near(a, y, p)
      BY <2>1, <2>4, <3>1, Zenon DEF Near, AtCall
    <3>3. AtRest(a, y, st)
      BY <1>4, <3>1, Zenon DEF AtRest, AtCall
    <3> QED
      BY <3>2, <3>3
  <2> QED
    BY <1>2, <2>3, <2>6, <2>7, <2>8 DEF Settles
<1>5. CASE y.use = "over" /\ rows = << >>
  <2>1. Given(p, q, rows, e, P) /\ p = q
    BY <1>1, <1>5, ExtendsEnds, NoRows DEF Given
  <2>2. ResultRows(y, e, p, P, E)
    BY <1>3, <1>5, Zenon DEF ResultRows
  <2>3. ForwardEnds(y, st, p, E)
    <3>1. y.use # "iter" /\ y.use # "one" /\ y.use = "over"
      BY <1>5
    <3> QED
      BY <3>1, Zenon DEF ForwardEnds
  <2>4. ASSUME NEW a, At(a, c, st, r, q, P, E)
        PROVE  Near(a, y, p) /\ AtRest(a, y, st)
    BY <1>5, <2>1, <2>4, Zenon DEF At, Near, AtCall, AtRest
  <2> QED
    BY <1>2, <2>1, <2>2, <2>3, <2>4 DEF Settles
<1> QED
  BY <1>4, <1>5

\* fetchAll gives all rows of the read.
LEMMA GivesAll ==
  ASSUME NEW e, NEW c, NEW st, NEW r, NEW q, NEW P, NEW E, Finds(e, c, st, r, q, P, E),
         c.op = "fetchAll", r.kind = "fwd", NEW p, Extends(p, q, c.rows),
         NEW y, y.kind = r.kind, y.rows = << >>, y.row_cursor = 0, y.use = "over",
         y.rowset = r.rowset
  PROVE  /\ Given(p, q, c.rows, e, P) /\ Settles(y, st, e, p, P, E)
         /\ \A a : At(a, c, st, r, q, P, E) => Near(a, y, p) /\ AtRest(a, y, st)
<1>1. /\ CallRows(c, st, r, q, P, E) /\ st.exec = e /\ KindFits(r, st) /\ q \in Seq(Rows)
      /\ c.rows \in Seq(Rows)
  BY DEF Finds
<1>2. Absent(y) /\ KindFits(y, st)
  BY <1>1 DEF Absent, KindFits
<1>3. /\ Run(c.rows, e) /\ (\A i \in 1..Len(c.rows) : c.rows[i] \in P)
      /\ (c.rows # << >> => CanFollow(q, c.rows[1])) /\ r.rowset
  BY <1>1 DEF CallRows
<1>4. Given(p, q, c.rows, e, P)
  BY <1>1, <1>3, Zenon DEF Given
<1>5. y.use # "none" /\ y.use # "iter" /\ y.use # "one" /\ y.kind # "buffered"
  OBVIOUS
<1>6. ResultRows(y, e, p, P, E) /\ ForwardEnds(y, st, p, E)
  BY <1>3, <1>5, NoRows, Zenon DEF ResultRows, ForwardEnds
<1>7. ASSUME NEW a, At(a, c, st, r, q, P, E)
      PROVE  Near(a, y, p) /\ AtRest(a, y, st)
  <2>1. Near(a, r, q) /\ AtCall(a, c, st, q)
    BY <1>7 DEF At
  <2>2. p # << >> => LastRow(p).set <= a.set
    <3>1. CASE c.rows = << >>
      <4>1. p = q
        BY <1>1, <3>1, ExtendsEnds, Zenon
      <4> QED
        BY <2>1, <4>1 DEF Near
    <3>2. CASE c.rows # << >>
      <4>1. LastRow(p) = c.rows[Len(c.rows)] /\ Len(c.rows) \in 1..Len(c.rows)
        BY <1>1, <1>3, <3>2, ExtendsEnds, RunOfOneSet DEF LastRow
      <4> QED
        BY <2>1, <4>1 DEF AtCall
    <3> QED
      BY <3>1, <3>2
  <2>3. Near(a, y, p) /\ AtRest(a, y, st)
    BY <2>2, NoRows, Zenon DEF Near, AtRest
  <2> QED
    BY <2>3
<1> QED
  BY <1>2, <1>4, <1>6, <1>7 DEF Settles

\* The result is the one that was there.
LEMMA ResultStays ==
  ASSUME NEW e, NEW c, NEW st, NEW r, NEW q, NEW P, NEW E, Finds(e, c, st, r, q, P, E),
         r.kind # "fwd", NEW y, y.kind = r.kind, y.rows = r.rows, y.row_cursor = r.row_cursor,
         y.use = r.use, y.rowset = r.rowset, NEW x, x.flags = st.flags
  PROVE  /\ Settles(y, x, e, q, P, E)
         /\ \A a : At(a, c, st, r, q, P, E) => Near(a, y, q) /\ AtRest(a, y, x)
<1>1. Absent(r) /\ KindFits(r, st) /\ (r.kind # "none" => ResultRows(r, e, q, P, E))
  BY DEF Finds
<1>2. Absent(y) /\ KindFits(y, x)
  BY <1>1 DEF Absent, KindFits
<1>3. r.kind # "none" => ResultRows(y, e, q, P, E)
  BY <1>1, Zenon DEF ResultRows
<1>4. \A a : At(a, c, st, r, q, P, E) => Near(a, y, q) /\ AtRest(a, y, x)
  BY Zenon DEF At, Near, AtRest
<1> QED
  BY <1>2, <1>3, <1>4, Zenon DEF Settles

LEMMA FetchFailedRows ==
  ASSUME RInv, IInv', ~Idle, batch = << >>, Settled, FetchFailed, call.op \in {"buffered", "fwd"},
         UNCHANGED got
  PROVE  RInv'
<1> DEFINE e == Reader.exec
           s == call.s
           P == Produced(e)
           E == Ends(e)
<1>1. /\ s \in AllStmts /\ e \in Executions /\ Reader = stmt[s]
      /\ Reader \in Statements /\ res[s] \in Results
      /\ Finds(e, call, Reader, res[s], got[e], P, E)
  BY ReadingAt
<1>2. res \in [AllStmts -> Results] /\ stmt \in [AllStmts -> Statements]
  BY DEF RInv, IInv, Types, GotTyped, StmtTyped
<1>3. res[s].kind # "fwd"
  BY <1>1 DEF Finds, CallRows, KindFits
<1>4. Given(got[e], got[e], << >>, e, P)
  BY <1>1, ExtendsByNothing, NoRows DEF Given, Finds
<1>5. raised \subseteq raised' /\ e \in raised'
  BY DEF FetchFailed
<1> DEFINE r == res'[s]
           x == stmt'[s]
           q == got'[e]
           rows == << >>
<1>6. /\ \A t \in AllStmts \ {s} : stmt'[t] = stmt[t] /\ res'[t] = res[t]
      /\ x.exec = e /\ x.flags = Reader.flags
      /\ r.kind = res[s].kind /\ r.rows = res[s].rows /\ r.row_cursor = res[s].row_cursor
      /\ r.use = res[s].use /\ r.rowset = res[s].rowset
  <2>1. CASE stmt' = [stmt EXCEPT ![s].send_query_status = FALSE] /\ UNCHANGED res
    BY <1>1, <1>2, <2>1 DEF Statements
  <2>2. CASE res' = [res EXCEPT ![s].send_query_status = FALSE] /\ UNCHANGED stmt
    BY <1>1, <1>2, <2>2 DEF Results
  <2> QED
    BY <2>1, <2>2 DEF FetchFailed
<1>7. q = got[e] /\ Given(q, got[e], rows, e, P)
  BY <1>4
<1> HIDE DEF r, x, q, rows
<1>8. Settles(r, x, e, q, P, E)
  BY <1>1, <1>3, <1>6, <1>7, ResultStays
<1>9. /\ \A f \in Executions \ {e} : got'[f] = got[f]
      /\ Given(got'[e], got[e], rows, e, P)
  BY <1>7 DEF q
<1> QED
  BY <1>5, <1>6, <1>8, <1>9, SettledRows DEF r, x, q, P, E

LEMMA ReturnRows ==
  ASSUME RInv, Return
  PROVE  RInv'
<1> DEFINE e == Reader.exec
           s == call.s
           P == Produced(e)
           E == Ends(e)
<1>0. IInv /\ IInv'
  BY ReturnKeeps DEF RInv
<1>1. ~Idle /\ batch = << >> /\ call.ret \in {"PASS", "FAIL"}
  <2>1. call \in Reads
    BY <1>0, ReaderIs DEF IInv
  <2> QED
    BY <2>1 DEF Return, Returned, buffered_result, fwd_result, prefetch_done, iterator_prefetched,
         fetchAll_done, callbacks_done, query_done, query_cb_done, Reads
<1>2. /\ s \in AllStmts /\ e \in Executions /\ Reader = stmt[s]
      /\ Reader \in Statements /\ res[s] \in Results
      /\ Finds(e, call, Reader, res[s], got[e], P, E)
  BY <1>1, ReadingAt
<1>3. /\ res \in [AllStmts -> Results] /\ stmt \in [AllStmts -> Statements]
      /\ got \in [Executions -> Seq(Rows)]
  BY <1>0 DEF IInv, Types, GotTyped, StmtTyped
<1>4. got[e] \in Seq(Rows) /\ call.rows \in Seq(Rows)
  BY <1>2 DEF Finds
<1>5. Given(got[e], got[e], << >>, e, P)
  BY <1>4, ExtendsByNothing, NoRows DEF Given
<1>6. up /\ e \notin raised => call.ret = "PASS"
  <2>1. up => \E p : Reading(p)
    BY <1>0, <1>1 DEF IInv, Stream
  <2> QED
    BY <1>1, <2>1 DEF Reading
<1> HIDE DEF P, E
<1>7. ASSUME Settled, UNCHANGED <<stmt, raised>>, NEW y, res' = [res EXCEPT ![s] = y],
             NEW p, p = got'[e], NEW rows, Given(p, got[e], rows, e, P),
             \A f \in Executions \ {e} : got'[f] = got[f],
             Settles(y, Reader, e, p, P, E),
             \A a \in Places :
               At(a, call, Reader, res[s], got[e], P, E) /\ call.ret = "PASS" =>
                 Near(a, y, p) /\ AtRest(a, y, Reader)
      PROVE  RInv'
  <2>1. res'[s] = y /\ \A t \in AllStmts \ {s} : stmt'[t] = stmt[t] /\ res'[t] = res[t]
    BY <1>2, <1>3, <1>7
  <2>2. stmt'[s] = Reader /\ stmt'[s].exec = e /\ stmt'[s].flags = Reader.flags
        /\ raised \subseteq raised'
    BY <1>2, <1>7
  <2>3. \A a \in Places : up /\ e \notin raised'
                           /\ At(a, call, Reader, res[s], got[e], P, E) =>
           Near(a, y, p) /\ AtRest(a, y, Reader)
    BY <1>6, <1>7
  <2> DEFINE x == Reader
  <2>4. x = stmt'[s] /\ Settles(y, x, e, p, P, E)
        /\ \A a \in Places : up /\ e \notin raised'
                           /\ At(a, call, Reader, res[s], got[e], P, E) =>
           Near(a, y, p) /\ AtRest(a, y, x)
    BY <1>7, <2>2, <2>3
  <2> HIDE DEF x
  <2> QED
    BY <1>0, <1>1, <1>7, <2>1, <2>2, <2>4, SettledRows DEF P, E
<1>8. CASE buffered_result
  <2>0. call.op = "buffered" /\ Settled /\ UNCHANGED got
    BY <1>8 DEF buffered_result, Returned
  <2>1. CASE Passed /\ res' = [res EXCEPT ![s] = Result("buffered")] /\ UNCHANGED <<stmt, raised>>
    <3> DEFINE y == Result("buffered")
               p == got'[e]
               rows == << >>
    <3>1. y.kind = "buffered" /\ y.rows = call.rows /\ y.row_cursor = 0 /\ y.use = "none"
      BY DEF Result, NoResult
    <3>2. p = got[e] /\ Given(p, got[e], rows, e, P)
          /\ \A f \in Executions \ {e} : got'[f] = got[f]
      BY <1>5, <2>0
    <3> HIDE DEF y, p, rows
    <3>3. /\ Settles(y, Reader, e, p, P, E)
          /\ \A a : At(a, call, Reader, res[s], got[e], P, E) => Near(a, y, p) /\ AtRest(a, y, Reader)
      BY <1>2, <2>0, <2>1, <3>1, <3>2, MakesResult DEF Passed
    <3> QED
      BY <1>7, <2>0, <2>1, <3>2, <3>3 DEF y, p
  <2>2. CASE ~Passed /\ FetchFailed
    BY <1>0, <1>1, <2>0, <2>2, FetchFailedRows
  <2> QED
    BY <1>8, <2>1, <2>2 DEF buffered_result
<1>9. CASE fwd_result
  <2>0. call.op = "fwd" /\ Settled /\ UNCHANGED got
    BY <1>9 DEF fwd_result, Returned
  <2>1. CASE /\ Passed
             /\ res' = [res EXCEPT ![s] = [Result("fwd") EXCEPT !.row_cursor = res[s].row_cursor]]
             /\ UNCHANGED <<stmt, raised>>
    <3> DEFINE y == [Result("fwd") EXCEPT !.row_cursor = res[s].row_cursor]
               p == got'[e]
               rows == << >>
    <3>1. res[s].row_cursor = 0
      BY <1>2, <2>0 DEF Finds, CallRows, Absent
    <3>2. y.kind = "fwd" /\ y.rows = call.rows /\ y.row_cursor = 0 /\ y.use = "none"
      BY <3>1 DEF Result, NoResult
    <3>3. p = got[e] /\ Given(p, got[e], rows, e, P)
          /\ \A f \in Executions \ {e} : got'[f] = got[f]
      BY <1>5, <2>0
    <3>4. res' = [res EXCEPT ![s] = y]
      BY <2>1
    <3> HIDE DEF y, p, rows
    <3>5. /\ Settles(y, Reader, e, p, P, E)
          /\ \A a : At(a, call, Reader, res[s], got[e], P, E) => Near(a, y, p) /\ AtRest(a, y, Reader)
      BY <1>2, <2>0, <2>1, <3>2, <3>3, MakesResult DEF Passed
    <3> QED
      BY <1>7, <2>0, <2>1, <3>3, <3>4, <3>5 DEF p
  <2>2. CASE ~Passed /\ FetchFailed
    BY <1>0, <1>1, <2>0, <2>2, FetchFailedRows
  <2> QED
    BY <1>9, <2>1, <2>2 DEF fwd_result
<1>10. ASSUME call.op \in {"next", "fetchAll"}, Settled, UNCHANGED <<stmt, raised, got>>,
              res' = [res EXCEPT ![s].rows = call.rows]
       PROVE  RInv'
  <2> DEFINE y == [res[s] EXCEPT !.rows = call.rows]
             p == got'[e]
             rows == << >>
  <2>1. res[s].kind = "fwd"
    BY <1>0, <1>10 DEF IInv, OneForwardResult
  <2>2. /\ y.kind = res[s].kind /\ y.rows = call.rows /\ y.row_cursor = res[s].row_cursor
        /\ y.use = res[s].use /\ y.rowset = res[s].rowset
    BY <1>2 DEF Results
  <2>3. p = got[e] /\ Given(p, got[e], rows, e, P)
        /\ \A f \in Executions \ {e} : got'[f] = got[f]
    BY <1>5, <1>10
  <2>4. res' = [res EXCEPT ![s] = y]
    BY <1>10
  <2> HIDE DEF y, p, rows
  <2>5. /\ Settles(y, Reader, e, p, P, E)
        /\ \A a : At(a, call, Reader, res[s], got[e], P, E) /\ call.ret = "PASS" =>
             Near(a, y, p) /\ AtRest(a, y, Reader)
    BY <1>2, <1>10, <2>1, <2>2, <2>3, GetsRows
  <2> QED
    BY <1>7, <1>10, <2>3, <2>4, <2>5 DEF p
<1>11. CASE prefetch_done
  BY <1>10, <1>11 DEF prefetch_done, Returned
<1>12. CASE iterator_prefetched
  <2> DEFINE more == Passed /\ call.rows # << >>
             use == IF more THEN "iter" ELSE "over"
             rows == IF more THEN << Head(call.rows) >> ELSE << >>
             y == [res[s] EXCEPT !.rows = call.rows, !.use = use]
             p == got'[e]
  <2>1. call.op = "iterNext" /\ Settled /\ UNCHANGED <<stmt, raised>> /\ Give(s, rows)
    BY <1>12 DEF iterator_prefetched, Returned
  <2>2. res[s].kind = "fwd"
    BY <1>0, <2>1 DEF IInv, OneForwardResult
  <2>3. res' = [res EXCEPT ![s] = y]
    BY <1>12 DEF iterator_prefetched
  <2>4. /\ y.kind = res[s].kind /\ y.rows = call.rows /\ y.row_cursor = res[s].row_cursor
        /\ y.use = use /\ y.rowset = res[s].rowset
    BY <1>2 DEF Results
  <2>5. call.rows # << >> => Head(call.rows) = call.rows[1] /\ call.rows[1] \in Rows
    BY <1>4, TailElements
  <2>6. \/ use = "iter" /\ call.rows # << >> /\ call.ret = "PASS" /\ rows = << call.rows[1] >>
        \/ use = "over" /\ rows = << >>
    BY <2>5 DEF Passed
  <2>7. rows \in Seq(Rows)
    <3>1. CASE rows = << call.rows[1] >> /\ call.rows # << >>
      BY <2>5, <3>1
    <3>2. CASE rows = << >>
      BY <3>2, NoRows
    <3> QED
      BY <2>6, <3>1, <3>2
  <2>8. p = got[e] \o rows /\ \A f \in Executions \ {e} : got'[f] = got[f]
    BY <1>2, <1>3, <2>1 DEF Give
  <2> HIDE DEF rows, y, p, use
  <2>9. Extends(p, got[e], rows)
    BY <1>4, <2>7, <2>8, ConcatExtends
  <2>10. \/ y.use = "iter" /\ call.rows # << >> /\ call.ret = "PASS" /\ rows = << call.rows[1] >>
         \/ y.use = "over" /\ rows = << >>
    BY <2>4, <2>6
  <2>11. /\ Given(p, got[e], rows, e, P) /\ Settles(y, Reader, e, p, P, E)
         /\ \A a : At(a, call, Reader, res[s], got[e], P, E) =>
              Near(a, y, p) /\ AtRest(a, y, Reader)
    BY <1>2, <2>1, <2>2, <2>4, <2>9, <2>10, IteratesOn
  <2> QED
    BY <1>7, <2>1, <2>3, <2>8, <2>11 DEF p
<1>13. CASE fetchAll_done
  <2>0. call.op = "fetchAll" /\ Settled /\ UNCHANGED <<stmt, raised>>
    BY <1>13 DEF fetchAll_done, Returned
  <2>1. CASE Give(s, call.rows) /\ res' = [res EXCEPT ![s] = Emptied(@, "over")]
    <3> DEFINE y == Emptied(res[s], "over")
               p == got'[e]
               rows == call.rows
    <3>1. res[s].kind = "fwd"
      BY <1>0, <2>0 DEF IInv, OneForwardResult
    <3>2. res' = [res EXCEPT ![s] = y]
      BY <2>1
    <3>3. /\ y.kind = res[s].kind /\ y.rows = << >> /\ y.row_cursor = 0 /\ y.use = "over"
          /\ y.rowset = res[s].rowset
      BY <1>2 DEF Emptied, Results
    <3>4. p = got[e] \o rows /\ \A f \in Executions \ {e} : got'[f] = got[f]
      BY <1>2, <1>3, <2>1 DEF Give
    <3>5. rows = call.rows
      OBVIOUS
    <3> HIDE DEF y, p, rows
    <3>6. Extends(p, got[e], rows)
      BY <1>4, <3>4, <3>5, ConcatExtends
    <3>7. /\ Given(p, got[e], rows, e, P) /\ Settles(y, Reader, e, p, P, E)
          /\ \A a : At(a, call, Reader, res[s], got[e], P, E) =>
               Near(a, y, p) /\ AtRest(a, y, Reader)
      BY <1>2, <2>0, <3>1, <3>3, <3>5, <3>6, GivesAll
    <3> QED
      BY <1>7, <2>0, <3>2, <3>4, <3>7 DEF p
  <2>2. CASE res' = [res EXCEPT ![s].rows = call.rows] /\ UNCHANGED got
    BY <1>10, <2>0, <2>2
  <2> QED
    BY <1>13, <2>1, <2>2 DEF fetchAll_done
<1>14. ASSUME Settled, UNCHANGED <<res, raised, got>>, call.op \in {"callback", "query", "query_cb"},
              NEW x \in Statements, stmt'[s] = x, x.exec = e, x.flags = Reader.flags,
              \A t \in AllStmts \ {s} : stmt'[t] = stmt[t]
       PROVE  RInv'
  <2> DEFINE y == res'[s]
             p == got'[e]
             rows == << >>
  <2>1. res[s].kind = "none" /\ y = res[s]
    BY <1>2, <1>14 DEF Finds, CallRows
  <2>2. p = got[e] /\ Given(p, got[e], rows, e, P)
        /\ \A f \in Executions \ {e} : got'[f] = got[f]
    BY <1>5, <1>14
  <2>3. raised \subseteq raised' /\ \A t \in AllStmts \ {s} : stmt'[t] = stmt[t] /\ res'[t] = res[t]
    BY <1>14
  <2> HIDE DEF y, p, rows
  <2>4. /\ Settles(y, x, e, p, P, E)
        /\ \A a : At(a, call, Reader, res[s], got[e], P, E) => Near(a, y, p) /\ AtRest(a, y, x)
    BY <1>2, <1>14, <2>1, <2>2, ResultStays
  <2> QED
    BY <1>0, <1>1, <1>14, <2>2, <2>3, <2>4, SettledRows DEF y, p, P, E
<1>15. CASE callbacks_done
  <2> DEFINE b == Passed /\ Reader.has_more_results
             x == [Reader EXCEPT !.in_execution = b]
  <2>1. b \in BOOLEAN
    OBVIOUS
  <2> HIDE DEF b
  <2>2. x \in Statements /\ x.exec = e /\ x.flags = Reader.flags
    BY <1>2, <2>1 DEF Statements
  <2>3. stmt' = [stmt EXCEPT ![s] = x] /\ UNCHANGED <<res, got, raised>> /\ Settled
        /\ call.op = "callback"
    BY <1>15 DEF callbacks_done, Reader, Returned, b
  <2>4. stmt'[s] = x /\ \A t \in AllStmts \ {s} : stmt'[t] = stmt[t]
    BY <1>2, <1>3, <2>3
  <2> HIDE DEF x
  <2> QED
    BY <1>14, <2>2, <2>3, <2>4
<1>16. ASSUME Settled, UNCHANGED <<stmt, res, raised, got>>, call.op \in {"query", "query_cb"}
       PROVE  RInv'
  BY <1>2, <1>14, <1>16
<1>17. CASE query_done
  <2>1. call.op = "query" /\ ~Reader.has_more_results
    BY <1>0, <1>17 DEF query_done, Returned, IInv, QueryHasNoSets, NoMore
  <2> QED
    BY <1>16, <1>17, <2>1 DEF query_done
<1>18. CASE query_cb_done
  <2>0. call.op = "query_cb" /\ s = Admin /\ UNCHANGED <<res, raised, got>>
    BY <1>0, <1>18 DEF query_cb_done, Returned, IInv, Types, ReadTyped
  <2>1. CASE Settled /\ UNCHANGED stmt
    BY <1>16, <2>0, <2>1
  <2>2. CASE Again("query_cb")
    <3> DEFINE x == stmt'[s]
               r == res'[s]
               c == call'
               q == got'[e]
               rows == << >>
    <3>1. x = init_read(Reader) /\ \A t \in AllStmts \ {s} : stmt'[t] = stmt[t] /\ res'[t] = res[t]
      BY <1>2, <1>3, <2>0, <2>2 DEF Again
    <3>2. x.exec = e /\ x.flags = Reader.flags /\ ~x.has_more_rows_in_set /\ x.field_count = 0
      BY <1>2, <3>1 DEF init_read, Statements
    <3>3. c.op = "query_cb" /\ c.s = s /\ c.rows = << >> /\ c.ret = "AGAIN" /\ ~Idle'
      BY <2>0, <2>2 DEF Again, Read, NoCall, Idle
    <3>4. UNCHANGED up /\ UNCHANGED serverVars /\ UNCHANGED line /\ UNCHANGED batch
      BY <2>2 DEF Again
    <3>5. r = res[s] /\ q = got[e] /\ Given(got'[e], got[e], rows, e, P)
          /\ (\A f \in Executions \ {e} : got'[f] = got[f]) /\ raised' = raised
      BY <1>5, <2>0
    <3>6. stmt[s].exec = e /\ stmt'[s].exec = e /\ stmt'[s].flags = stmt[s].flags
      BY <1>2, <3>2
    <3> HIDE DEF x, r, c, q, rows
    <3>7. /\ Absent(r) /\ KindFits(r, x) /\ r.kind = "none"
          /\ CallRows(c, x, r, q, P, E)
      <4>1. Absent(r) /\ KindFits(r, Reader) /\ CallRows(call, Reader, r, q, P, E)
        BY <1>2, <3>5 DEF Finds
      <4>2. r.kind = "none"
        BY <2>0, <4>1 DEF CallRows
      <4>3. Absent(r) /\ KindFits(r, x)
        BY <3>2, <4>1 DEF KindFits
      <4>4. Run(c.rows, x.exec) /\ \A i \in 1..Len(c.rows) : c.rows[i] \in P
        BY <3>3, NoRows
      <4>5. CallRows(c, x, r, q, P, E)
        BY <3>2, <3>3, <4>2, <4>4 DEF CallRows
      <4> QED
        BY <4>2, <4>3, <4>5
    <3>8. ASSUME up, e \notin raised'
          PROVE  \E a \in Places :
                   /\ Way(e, a, batch', line', P, E, todo, pos) /\ Near(a, r, q)
                   /\ AtCall(a, c, x, q)
      <4>1. PICK a \in Places : /\ At(a, call, Reader, res[s], got[e], P, E)
                                /\ Way(e, a, batch, line, P, E, todo, pos)
        BY <1>1, <3>5, <3>8, ReadingAt DEF P, E
      <4>2. Near(a, r, q)
        BY <3>5, <4>1 DEF At
      <4>3. AtCall(a, c, x, q)
        BY <3>2, <3>3, NoRows DEF AtCall
      <4> QED
        BY <3>4, <4>1, <4>2, <4>3
    <3>9. up => LastExec = e
      BY <1>1, ReadingAt
    <3>10. /\ up /\ LastExec = e /\ e \notin raised' => \E a \in Places :
               /\ Way(e, a, batch', line', P, E, todo, pos) /\ Near(a, r, q)
               /\ Idle' => AtRest(a, r, x)
               /\ ~Idle' => AtCall(a, c, x, q)
           /\ r.kind # "none" => ResultRows(r, e, q, P, E)
           /\ Idle' /\ r.kind = "fwd" => ForwardEnds(r, x, q, E)
           /\ ~Idle' => CallRows(c, x, r, q, P, E)
           /\ raised \subseteq raised' /\ (Idle' \/ call'.s = s)
      BY <3>3, <3>5, <3>7, <3>8, Zenon DEF c
    <3> QED
      BY <1>0, <1>2, <3>1, <3>4, <3>5, <3>6, <3>7, <3>9, <3>10, RowsStep DEF x, r, c, q, P, E
  <2> QED
    BY <1>18, <2>1, <2>2 DEF query_cb_done
<1> QED
  BY <1>8, <1>9, <1>11, <1>12, <1>13, <1>15, <1>17, <1>18 DEF Return

-----------------------------------------------------------------------------
(***************************************************************************)
(* The application reads and fetches.                                      *)
(***************************************************************************)
LEMMA RestingAt ==
  ASSUME RInv, Idle, NEW s \in AllStmts, NEW e \in Executions, stmt[s].exec = e
  PROVE  /\ Settles(res[s], stmt[s], e, got[e], Produced(e), Ends(e))
         /\ stmt[s] \in Statements /\ res[s] \in Results
         /\ got[e] \in Seq(Rows) /\ res[s].rows \in Seq(Rows) /\ res[s].row_cursor \in Nat
         /\ up /\ LastExec = e /\ e \notin raised => \E a \in Places :
              /\ Way(e, a, batch, line, Produced(e), Ends(e), todo, pos)
              /\ Near(a, res[s], got[e]) /\ AtRest(a, res[s], stmt[s])
<1>1. IInv /\ Types /\ RestingRows /\ Placed /\ ResultsRows
  BY DEF RInv, IInv
<1>2. got[e] \in Seq(Rows) /\ res[s] \in Results /\ stmt[s] \in Statements
  BY <1>1 DEF Types, GotTyped, StmtTyped
<1>3. res[s].rows \in Seq(Rows) /\ res[s].row_cursor \in Nat
  BY <1>2 DEF Results
<1>4. Absent(res[s]) /\ KindFits(res[s], stmt[s])
  BY <1>1, Zenon DEF ResultsRows, Absent, KindFits
<1>5. res[s].kind # "none" => ResultRows(res[s], e, got[e], Produced(e), Ends(e))
  BY <1>1, Zenon DEF ResultsRows
<1>6. res[s].kind = "fwd" => ForwardEnds(res[s], stmt[s], got[e], Ends(e))
  BY <1>1, Zenon DEF RestingRows
<1>7. ASSUME up, LastExec = e, e \notin raised
      PROVE  \E a \in Places :
              /\ Way(e, a, batch, line, Produced(e), Ends(e), todo, pos)
              /\ Near(a, res[s], got[e]) /\ AtRest(a, res[s], stmt[s])
  BY <1>1, <1>7, Zenon DEF Placed
<1> QED
  BY <1>2, <1>3, <1>4, <1>5, <1>6, <1>7 DEF Settles

\* Rows are taken from the result, or a read is started.
LEMMA TakeRows ==
  ASSUME RInv, IInv', Idle, NEW s \in AllStmts, NEW e \in Executions, stmt[s].exec = e,
         UNCHANGED up, UNCHANGED serverVars, UNCHANGED line, UNCHANGED batch, UNCHANGED raised,
         \A t \in AllStmts \ {s} : stmt'[t] = stmt[t] /\ res'[t] = res[t],
         stmt'[s].exec = e, stmt'[s].flags = stmt[s].flags, Idle' \/ call'.s = s,
         \A f \in Executions \ {e} : got'[f] = got[f],
         NEW rows, Given(got'[e], got[e], rows, e, Produced(e)),
         NEW r, r = res'[s], NEW x, x = stmt'[s], NEW q, q = got'[e], NEW c, c = call',
         Absent(r), KindFits(r, x), r.kind # "none" => ResultRows(r, e, q, Produced(e), Ends(e)),
         Idle' /\ r.kind = "fwd" => ForwardEnds(r, x, q, Ends(e)),
         ~Idle' => CallRows(c, x, r, q, Produced(e), Ends(e)),
         \A a \in Places :
           up /\ e \notin raised /\ Near(a, res[s], got[e]) /\ AtRest(a, res[s], stmt[s]) =>
             /\ Near(a, r, q)
             /\ Idle' => AtRest(a, r, x)
             /\ ~Idle' => AtCall(a, c, x, q)
  PROVE  RInv'
<1>1. up /\ LastExec = e /\ e \notin raised => \E a \in Places :
        /\ Way(e, a, batch, line, Produced(e), Ends(e), todo, pos)
        /\ Near(a, res[s], got[e]) /\ AtRest(a, res[s], stmt[s])
  BY RestingAt
<1>2. up /\ LastExec = e /\ e \notin raised' => \E a \in Places :
        /\ Way(e, a, batch', line', Produced(e), Ends(e), todo, pos)
        /\ Near(a, r, q)
        /\ Idle' => AtRest(a, r, x)
        /\ ~Idle' => AtCall(a, c, x, q)
  BY <1>1, Zenon
<1>3. up /\ LastExec # e => Idle'
  <2>1. StmtTyped /\ stmt' \in [AllStmts -> Statements]
    BY DEF RInv, IInv, Types, StmtTyped
  <2>2. \A t \in AllStmts : stmt'[t].exec = stmt[t].exec
    OBVIOUS
  <2>3. LastExec' = LastExec
    BY <2>1, <2>2, LastKept
  <2>4. up' /\ ~Idle' => stmt'[call'.s].exec = LastExec'
    BY DEF IInv, OneReader, Reader
  <2> QED
    BY <2>3, <2>4
<1>4. raised \subseteq raised' /\ (up /\ LastExec # e => line' = line /\ batch' = batch /\ Idle /\ Idle')
  BY <1>3
<1> QED
  BY <1>2, <1>4, RowsStep

\* A read is started behind a result set.
Starts(c, x, r) ==
  /\ ~x.has_more_rows_in_set /\ c.rows = << >> /\ c.ret = "AGAIN"
  /\ c.op \in {"buffered", "fwd", "callback", "query", "query_cb"}
  /\ c.op = "buffered" => "BUFFERED" \in x.flags
  /\ c.op = "fwd" => "BUFFERED" \notin x.flags
  /\ c.op # "buffered" => r.kind = "none"

LEMMA StartRows ==
  ASSUME NEW c, NEW x, NEW r, Starts(c, x, r), NEW q, NEW P, NEW E
  PROVE  CallRows(c, x, r, q, P, E) /\ \A a : AtCall(a, c, x, q)
<1>1. Run(c.rows, x.exec) /\ \A i \in 1..Len(c.rows) : FALSE
  BY NoRows DEF Starts
<1>2. CallRows(c, x, r, q, P, E)
  BY <1>1 DEF CallRows, Starts
<1>3. \A a : AtCall(a, c, x, q)
  BY <1>1 DEF AtCall, Starts
<1> QED
  BY <1>2, <1>3

LEMMA FurtherReadRows ==
  ASSUME Careful, RInv, NEW s \in Stmts,
         getNextResult(s) \/ getNextResult_callbacks(s) \/ nextResult(s)
  PROVE  RInv'
<1>0. IInv /\ IInv' /\ Types
  BY FurtherReadKeeps DEF RInv, IInv
<1>1. /\ s \in AllStmts /\ stmt[s] \in Statements
      /\ stmt \in [AllStmts -> Statements] /\ res \in [AllStmts -> Results]
  BY <1>0 DEF AllStmts, Types, StmtTyped, GotTyped
<1>2. /\ Idle /\ stmt[s].exec # 0 /\ ~stmt[s].partial_read_started
      /\ UNCHANGED up /\ UNCHANGED serverVars /\ UNCHANGED line /\ UNCHANGED batch
      /\ UNCHANGED raised /\ UNCHANGED got
  BY <1>0, <1>1 DEF Types, Untouched, getNextResult, getNextResult_callbacks, nextResult,
                    Readable, SecondRead, Careful
<1> DEFINE e == stmt[s].exec
           P == Produced(e)
           E == Ends(e)
<1>3. e \in Executions /\ res[s].kind # "fwd"
  BY <1>0, <1>1, <1>2, ResultsAssumption DEF Statements, Executions, IInv, OneForwardResult
<1>4. /\ Settles(res[s], stmt[s], e, got[e], P, E) /\ got[e] \in Seq(Rows)
  BY <1>1, <1>2, <1>3, RestingAt
<1>5. Given(got[e], got[e], << >>, e, P)
  BY <1>4, ExtendsByNothing, NoRows DEF Given
<1> HIDE DEF P, E
<1>6. ASSUME NEW x \in Statements, stmt' = [stmt EXCEPT ![s] = x], x.exec = e,
             x.flags = stmt[s].flags, ~x.has_more_rows_in_set,
             call'.s = s, call'.ret = "AGAIN", call'.rows = << >>,
             call'.op \in {"buffered", "fwd", "callback"},
             call'.op = "buffered" => "BUFFERED" \in x.flags,
             call'.op = "fwd" => "BUFFERED" \notin x.flags,
             NEW y, res' = [res EXCEPT ![s] = y],
             y = res[s] \/ (y = NoResult /\ call'.op = "callback")
      PROVE  RInv'
  <2> DEFINE q == got'[e]
             c == call'
             rows == << >>
  <2>1. /\ stmt'[s] = x /\ res'[s] = y
        /\ \A t \in AllStmts \ {s} : stmt'[t] = stmt[t] /\ res'[t] = res[t]
    BY <1>1, <1>6
  <2>2. q = got[e] /\ Given(got'[e], got[e], rows, e, P)
        /\ \A f \in Executions \ {e} : got'[f] = got[f]
    BY <1>2, <1>5
  <2>3. ~Idle'
    BY <1>6 DEF Idle
  <2>4. y.kind # "fwd" /\ (c.op # "buffered" => y.kind = "none") /\ Absent(y) /\ KindFits(y, x)
        /\ (y.kind # "none" => ResultRows(y, e, q, P, E))
    <3>1. CASE y = res[s] /\ c.op # "callback"
      <4>1. y.kind \in {"none", "buffered", "fwd"}
        BY <1>1, <3>1 DEF Results
      <4> QED
        BY <1>3, <1>4, <1>6, <2>2, <3>1, <4>1 DEF Settles, Absent, KindFits
    <3>2. CASE y = NoResult
      BY <3>2 DEF NoResult, Absent, KindFits
    <3>3. CASE y = res[s] /\ c.op = "callback"
      <4>1. res'[s].kind = "none"
        BY <1>0, <1>6, <3>3 DEF IInv, OneForwardResult
      <4> QED
        BY <1>4, <2>1, <3>3, <4>1 DEF Settles, Absent, KindFits
    <3> QED
      BY <1>6, <3>1, <3>2, <3>3
  <2>5. CallRows(c, x, y, q, P, E) /\ \A a : AtCall(a, c, x, q)
    <3>1. Starts(c, x, y)
      BY <1>6, <2>4 DEF Starts
    <3> HIDE DEF c, q
    <3> QED
      BY <3>1, StartRows
  <2>6. \A a \in Places : Near(a, res[s], got[e]) => Near(a, y, q)
    <3>1. \A i \in 1..Len(NoResult.rows) : FALSE
      BY NoRows DEF NoResult
    <3> QED
      BY <1>6, <2>2, <3>1, Zenon DEF Near
  <2> HIDE DEF q, c, rows
  <2> QED
    BY <1>0, <1>1, <1>2, <1>3, <1>6, <2>1, <2>2, <2>3, <2>4, <2>5, <2>6, TakeRows DEF q, c, P, E
<1>7. CASE getNextResult(s) \/ nextResult(s)
  <2>1. PICK to \in {"stmt", "result"} : get_result(s, stmt[s], to)
    BY <1>7 DEF getNextResult, nextResult
  <2>2. res' = [res EXCEPT ![s] = res[s]]
    BY <1>1, <1>7 DEF getNextResult, nextResult
  <2>3. PICK x \in Statements :
           /\ stmt' = [stmt EXCEPT ![s] = x] /\ x.exec = stmt[s].exec /\ NoMore(x)
           /\ call'.s = s /\ call'.ret = "AGAIN" /\ call'.op \in {"buffered", "fwd"}
           /\ x.flags = stmt[s].flags /\ call'.rows = << >>
           /\ (call'.op = "buffered" <=> "BUFFERED" \in stmt[s].flags)
    BY <1>0, <1>1, <1>2, <2>1, GetResultStarts
  <2> QED
    BY <1>6, <2>2, <2>3 DEF NoMore
<1>8. CASE getNextResult_callbacks(s)
  <2> DEFINE x == init_read(stmt[s])
  <2>1. x \in Statements /\ x.exec = stmt[s].exec /\ x.flags = stmt[s].flags
        /\ ~x.has_more_rows_in_set
    BY <1>1, StmtTypes DEF init_read, Statements
  <2>2. stmt' = [stmt EXCEPT ![s] = x] /\ res' = [res EXCEPT ![s] = NoResult]
    BY <1>8 DEF getNextResult_callbacks
  <2>3. call'.s = s /\ call'.ret = "AGAIN" /\ call'.op = "callback" /\ call'.rows = << >>
    BY <1>8 DEF getNextResult_callbacks, Read, NoCall
  <2> HIDE DEF x
  <2> QED
    BY <1>6, <2>1, <2>2, <2>3
<1> QED
  BY <1>7, <1>8

\* A result that the application may fetch from.
Has(e, st, r, q, P, E) ==
  /\ Settles(r, st, e, q, P, E) /\ r.kind # "none" /\ r.rowset /\ st.exec = e
  /\ q \in Seq(Rows) /\ r.rows \in Seq(Rows) /\ r.row_cursor \in Nat

LEMMA RowIn ==
  ASSUME NEW e, NEW st, NEW r, NEW q, NEW P, NEW E, Has(e, st, r, q, P, E),
         NEW k \in Nat, k < Len(r.rows)
  PROVE  /\ k + 1 \in 1..Len(r.rows) /\ r.rows # << >> /\ Len(r.rows) \in Nat
         /\ r.rows[k + 1] \in Rows /\ r.rows[k + 1].e = e /\ r.rows[k + 1] \in P
         /\ k # 0 => Delivery!Follows(r.rows[k], r.rows[k + 1])
         /\ k + 1 = Len(r.rows) => r.rows[k + 1] = LastRow(r.rows)
<1>1. ResultRows(r, e, q, P, E) /\ r.rows \in Seq(Rows)
  BY DEF Has, Settles
<1>2. Len(r.rows) \in Nat /\ r.rows # << >>
  <2>1. Len(r.rows) \in Nat
    BY <1>1, LenProperties
  <2>2. Len(r.rows) # 0
    BY <2>1
  <2> QED
    BY <1>1, <2>1, <2>2, EmptyIs
<1>3. Run(r.rows, e) /\ \A i \in 1..Len(r.rows) : r.rows[i] \in P
  BY <1>1 DEF ResultRows
<1>4. k + 1 \in 1..Len(r.rows)
  BY <1>2
<1>5. \A i \in 1..Len(r.rows) :
              /\ r.rows[i] \in Rows /\ r.rows[i].e = e /\ r.rows[i].set = r.rows[1].set
              /\ r.rows[i].n = r.rows[1].n + i - 1
  BY <1>1, <1>2, <1>3, RunOfOneSet
<1>6. ASSUME k # 0 PROVE Delivery!Follows(r.rows[k], r.rows[k + 1])
  <2>1. k \in 1..Len(r.rows) /\ 1 \in 1..Len(r.rows)
    BY <1>2, <1>6
  <2>2. r.rows[1].n \in Nat
    BY <1>5, <2>1, RowParts
  <2>3. /\ r.rows[k].set = r.rows[1].set /\ r.rows[k].n = r.rows[1].n + k - 1
        /\ r.rows[k + 1].set = r.rows[1].set /\ r.rows[k + 1].n = r.rows[1].n + (k + 1) - 1
    BY <1>4, <1>5, <2>1
  <2>4. \A x, y \in Nat : x + (y + 1) - 1 = x + y - 1 + 1
    OBVIOUS
  <2>5. r.rows[k + 1].set = r.rows[k].set /\ r.rows[k + 1].n = r.rows[k].n + 1
    BY <2>2, <2>3, <2>4, Zenon
  <2> QED
    BY <2>5 DEF Delivery!Follows
<1>7. k + 1 = Len(r.rows) => r.rows[k + 1] = LastRow(r.rows)
  BY DEF LastRow
<1> QED
  BY <1>2, <1>3, <1>4, <1>5, <1>6, <1>7

\* The row under the cursor may be given.
LEMMA CurrentFollows ==
  ASSUME NEW e, NEW st, NEW r, NEW q, NEW P, NEW E, Has(e, st, r, q, P, E),
         r.row_cursor < Len(r.rows), r.use \in {"none", "one"}
  PROVE  CanFollow(q, r.rows[r.row_cursor + 1])
<1>1. ResultRows(r, e, q, P, E) /\ r.row_cursor \in Nat
  BY DEF Has, Settles
<1> DEFINE k == r.row_cursor
<1>2. r.rows # << >> /\ (k # 0 => Delivery!Follows(r.rows[k], r.rows[k + 1]))
  BY <1>1, RowIn
<1>3. CASE k = 0
  <2>1. CanFollow(q, r.rows[1])
    BY <1>1, <1>2, <1>3 DEF ResultRows
  <2> QED
    BY <1>3, <2>1
<1>4. CASE k # 0
  <2>1. r.use = "one" /\ q # << >> /\ LastRow(q) = r.rows[k]
    BY <1>1, <1>4 DEF ResultRows
  <2> QED
    BY <1>2, <1>4, <2>1 DEF CanFollow
<1> QED
  BY <1>3, <1>4

LEMMA NextFollows ==
  ASSUME NEW e, NEW st, NEW r, NEW q, NEW P, NEW E, Has(e, st, r, q, P, E), r.use = "iter",
         NEW k \in Nat, k = r.row_cursor + 1, k < Len(r.rows)
  PROVE  CanFollow(q, r.rows[k + 1])
<1>1. ResultRows(r, e, q, P, E) /\ r.row_cursor \in Nat
  BY DEF Has, Settles
<1>2. r.rows # << >> /\ Delivery!Follows(r.rows[k], r.rows[k + 1])
  <2>1. k # 0
    BY <1>1
  <2> QED
    BY <2>1, RowIn
<1>3. q # << >> /\ LastRow(q) = r.rows[k]
  BY <1>1, <1>2 DEF ResultRows
<1> QED
  BY <1>2, <1>3 DEF CanFollow

\* A row that is here is given.
LEMMA TakesOne ==
  ASSUME NEW e, NEW st, NEW r, NEW q, NEW P, NEW E, Has(e, st, r, q, P, E), r.use # "over",
         NEW k \in Nat, k < Len(r.rows), CanFollow(q, r.rows[k + 1]),
         NEW rows, rows = << r.rows[k + 1] >>, NEW p, Extends(p, q, rows)
  PROVE  /\ Given(p, q, rows, e, P) /\ p # << >> /\ LastRow(p) = r.rows[k + 1]
         /\ \A y : /\ y.kind = r.kind /\ y.rowset = r.rowset /\ y.rows = r.rows
                   /\ \/ y.use = "one" /\ y.row_cursor = k + 1
                      \/ y.use = "iter" /\ y.row_cursor = k
                   => /\ Settles(y, st, e, p, P, E)
                      /\ \A a : Near(a, r, q) /\ AtRest(a, r, st) => Near(a, y, p) /\ AtRest(a, y, st)
<1>1. /\ Absent(r) /\ KindFits(r, st) /\ ResultRows(r, e, q, P, E) /\ r.rows \in Seq(Rows)
      /\ (r.kind = "fwd" => ForwardEnds(r, st, q, E)) /\ q \in Seq(Rows) /\ r.rowset /\ r.kind # "none"
  BY DEF Has, Settles
<1> DEFINE row == r.rows[k + 1]
<1>2. /\ k + 1 \in 1..Len(r.rows) /\ r.rows # << >> /\ Len(r.rows) \in Nat
      /\ row \in Rows /\ row.e = e /\ row \in P
  BY RowIn
<1>3. /\ rows \in Seq(Rows) /\ Run(rows, e) /\ rows # << >> /\ LastRow(rows) = row
      /\ rows[1] = row /\ \A i \in 1..Len(rows) : rows[i] = row
  BY <1>2, OneRow
<1>4. Given(p, q, rows, e, P)
  BY <1>2, <1>3, Zenon DEF Given
<1>5. p # << >> /\ LastRow(p) = row
  <2>1. PICK z : z = rows
    OBVIOUS
  <2>2. z \in Seq(Rows) /\ Extends(p, q, z) /\ z # << >> /\ q \in Seq(Rows) /\ LastRow(z) = row
    BY <1>1, <1>3, <2>1, Zenon
  <2> HIDE DEF row
  <2> QED
    BY <2>2, ExtendsEnds, Zenon
<1>6. ASSUME NEW y, y.kind = r.kind, y.rowset = r.rowset, y.rows = r.rows,
             \/ y.use = "one" /\ y.row_cursor = k + 1
             \/ y.use = "iter" /\ y.row_cursor = k
      PROVE  /\ Settles(y, st, e, p, P, E)
             /\ \A a : Near(a, r, q) /\ AtRest(a, r, st) => Near(a, y, p) /\ AtRest(a, y, st)
  <2>1. Absent(y) /\ KindFits(y, st)
    BY <1>1, <1>6 DEF Absent, KindFits
  <2>2. /\ Run(r.rows, e) /\ (\A i \in 1..Len(r.rows) : r.rows[i] \in P)
        /\ (r.kind = "buffered" /\ r.rows # << >> =>
              r.rows[1].n = 1 /\ PlaceOf(LastRow(r.rows)) \in E)
    BY <1>1 DEF ResultRows
  <2>3. k + 1 # 0 /\ k + 1 <= Len(r.rows)
    BY <1>2
  <2>4. ResultRows(y, e, p, P, E)
    <3>1. CASE y.use = "one" /\ y.row_cursor = k + 1
      <4>1. y.use # "none" /\ y.use # "iter"
        BY <3>1
      <4> QED
        BY <1>1, <1>5, <1>6, <2>2, <2>3, <3>1, <4>1, Zenon DEF ResultRows
    <3>2. CASE y.use = "iter" /\ y.row_cursor = k
      <4>1. y.use # "none" /\ y.use # "one"
        BY <3>2
      <4> QED
        BY <1>1, <1>5, <1>6, <2>2, <2>3, <3>2, <4>1, Zenon DEF ResultRows
    <3> QED
      BY <1>6, <3>1, <3>2
  <2>5. r.kind = "fwd" => ForwardEnds(y, st, p, E)
    BY <1>1, <1>2, <1>6, Zenon DEF ForwardEnds
  <2>6. ASSUME NEW a, Near(a, r, q), AtRest(a, r, st)
        PROVE  Near(a, y, p) /\ AtRest(a, y, st)
    <3>1. Near(a, y, p)
      BY <1>2, <1>5, <1>6, <2>6, Zenon DEF Near
    <3>2. AtRest(a, y, st)
      BY <1>6, <2>6, Zenon DEF AtRest
    <3> QED
      BY <3>1, <3>2
  <2> QED
    BY <1>6, <2>1, <2>4, <2>5, <2>6 DEF Settles
<1> QED
  BY <1>4, <1>5, <1>6

\* The rows come to an end, or are all given.
LEMMA TakesAll ==
  ASSUME NEW e, NEW st, NEW r, NEW q, NEW P, NEW E, Has(e, st, r, q, P, E),
         NEW p, NEW y, y.kind = r.kind, y.rowset = r.rowset, y.rows = r.rows, y.use = "over",
         \/ p = q
         \/ r.use = "none" /\ Extends(p, q, r.rows)
  PROVE  /\ Settles(y, st, e, p, P, E) /\ (r.use = "none" /\ Extends(p, q, r.rows) => Given(p, q, r.rows, e, P))
         /\ \A a : Near(a, r, q) => Near(a, y, p) /\ AtRest(a, y, st)
<1>1. /\ Absent(r) /\ KindFits(r, st) /\ ResultRows(r, e, q, P, E) /\ r.rows \in Seq(Rows)
      /\ q \in Seq(Rows) /\ r.rowset /\ r.kind # "none"
  BY DEF Has, Settles
<1>2. Absent(y) /\ KindFits(y, st)
  BY <1>1 DEF Absent, KindFits
<1>3. /\ Run(r.rows, e) /\ (\A i \in 1..Len(r.rows) : r.rows[i] \in P)
      /\ (r.kind = "buffered" /\ r.rows # << >> =>
            r.rows[1].n = 1 /\ PlaceOf(LastRow(r.rows)) \in E)
      /\ (r.use = "none" /\ r.rows # << >> => CanFollow(q, r.rows[1]))
  BY <1>1 DEF ResultRows
<1>4. y.use # "none" /\ y.use # "iter" /\ y.use # "one"
  OBVIOUS
<1>5. ResultRows(y, e, p, P, E) /\ ForwardEnds(y, st, p, E)
  BY <1>1, <1>3, <1>4, Zenon DEF ResultRows, ForwardEnds
<1>6. r.use = "none" /\ Extends(p, q, r.rows) => Given(p, q, r.rows, e, P)
  BY <1>1, <1>3, Zenon DEF Given
<1>7. ASSUME NEW a, Near(a, r, q)
      PROVE  Near(a, y, p) /\ AtRest(a, y, st)
  <2>1. p # << >> => LastRow(p).set <= a.set
    <3>1. CASE p = q
      BY <1>7, <3>1 DEF Near
    <3>2. CASE Extends(p, q, r.rows) /\ r.rows # << >>
      <4>1. LastRow(p) = r.rows[Len(r.rows)] /\ Len(r.rows) \in 1..Len(r.rows)
        BY <1>1, <1>3, <3>2, ExtendsEnds, RunOfOneSet DEF LastRow
      <4> QED
        BY <1>7, <4>1 DEF Near
    <3>3. CASE Extends(p, q, r.rows) /\ r.rows = << >>
      <4>1. p = q
        BY <1>1, <3>3, ExtendsEnds, Zenon
      <4> QED
        BY <1>7, <4>1 DEF Near
    <3> QED
      BY <3>1, <3>2, <3>3
  <2> QED
    BY <1>4, <1>7, <2>1, Zenon DEF Near, AtRest
<1> QED
  BY <1>2, <1>5, <1>6, <1>7 DEF Settles

\* The last row here was given, and the next ones are read.
LEMMA ReadsNext ==
  ASSUME NEW e, NEW st, NEW r, NEW q, NEW P, NEW E, Has(e, st, r, q, P, E),
         r.kind = "fwd", st.has_more_rows_in_set, r.use # "over", r.rows # << >>,
         NEW p, p # << >>, LastRow(p) = LastRow(r.rows),
         NEW y, y.kind = r.kind, y.rowset = r.rowset, y.rows = << >>, y.row_cursor = 0,
         y.use \in {"one", "iter"}, NEW c, c.rows = << >>, c.ret = "AGAIN",
         c.op = IF y.use = "one" THEN "next" ELSE "iterNext",
         NEW x, x.exec = e, x.flags = st.flags, x.has_more_rows_in_set,
         x.field_count = st.field_count
  PROVE  /\ Absent(y) /\ KindFits(y, x) /\ ResultRows(y, e, p, P, E) /\ CallRows(c, x, y, p, P, E)
         /\ \A a \in Places : Near(a, r, q) /\ AtRest(a, r, st) /\ st.field_count # 0 =>
              Near(a, y, p) /\ AtCall(a, c, x, p)
<1>1. /\ KindFits(r, st) /\ ResultRows(r, e, q, P, E) /\ r.rowset /\ st.exec = e
      /\ r.rows \in Seq(Rows)
  BY DEF Has, Settles
<1>2. Absent(y) /\ KindFits(y, x)
  BY <1>1 DEF Absent, KindFits
<1>3. Run(<< >>, e) /\ \A i \in 1..Len(<< >>) : FALSE
  BY NoRows
<1>4. ResultRows(y, e, p, P, E)
  BY <1>1, <1>3 DEF ResultRows
<1>5. CallRows(c, x, y, p, P, E)
  BY <1>1, <1>3 DEF CallRows
<1>6. ASSUME NEW a \in Places, Near(a, r, q), AtRest(a, r, st), st.field_count # 0
      PROVE  Near(a, y, p) /\ AtCall(a, c, x, p)
  <2>1. LastRow(p) = RowAt(e, a)
    BY <1>1, <1>6 DEF AtRest
  <2>2. PlaceOf(LastRow(p)) = a /\ LastRow(p).set = a.set
    BY <2>1, PlaceOfRow
  <2>3. a.set <= a.set
    BY DEF Places
  <2>4. Near(a, y, p)
    BY <1>3, <2>2, <2>3 DEF Near
  <2>5. AtCall(a, c, x, p)
    BY <1>3, <1>6, <2>2 DEF AtCall
  <2> QED
    BY <2>4, <2>5
<1> QED
  BY <1>2, <1>4, <1>5, <1>6

\* fetchAll reads on from the rows that are here.
LEMMA ReadsAll ==
  ASSUME NEW e, NEW st, NEW r, NEW q, NEW P, NEW E, Has(e, st, r, q, P, E),
         r.kind = "fwd", st.has_more_rows_in_set, r.use = "none",
         NEW c, c.rows = r.rows, c.ret = "AGAIN", c.op = "fetchAll"
  PROVE  /\ CallRows(c, st, r, q, P, E)
         /\ \A a \in Places : Near(a, r, q) /\ AtRest(a, r, st) /\ st.field_count # 0 =>
              AtCall(a, c, st, q)
<1>1. ResultRows(r, e, q, P, E) /\ r.rowset /\ st.exec = e
  BY DEF Has, Settles
<1>2. CallRows(c, st, r, q, P, E)
  BY <1>1 DEF CallRows, ResultRows
<1>3. ASSUME NEW a \in Places, Near(a, r, q), AtRest(a, r, st), st.field_count # 0
      PROVE  AtCall(a, c, st, q)
  <2>1. r.rows # << >> /\ LastRow(r.rows) = RowAt(st.exec, a)
    BY <1>3 DEF AtRest
  <2> QED
    BY <1>3, <2>1 DEF AtCall, Near
<1> QED
  BY <1>2, <1>3

LEMMA FetchRows ==
  ASSUME Careful, RInv, NEW s \in Stmts,
         fetchOne(s) \/ fetchAll(s) \/ iterator_rewind(s) \/ iterator_next(s)
  PROVE  RInv'
<1>0. IInv /\ IInv' /\ Types
  BY FetchKeeps DEF RInv, IInv
<1>1. /\ s \in AllStmts /\ stmt[s] \in Statements /\ got \in [Executions -> Seq(Rows)]
      /\ stmt \in [AllStmts -> Statements] /\ res \in [AllStmts -> Results] /\ res[s] \in Results
  BY <1>0 DEF AllStmts, Types, StmtTyped, GotTyped
<1>2. /\ Idle /\ stmt[s].exec # 0 /\ stmt[s].exec \notin raised /\ res[s].rowset
      /\ UNCHANGED up /\ UNCHANGED serverVars /\ UNCHANGED line /\ UNCHANGED batch
      /\ UNCHANGED raised
  BY <1>0, <1>1 DEF Types, Untouched, fetchOne, fetchAll, iterator_rewind, iterator_next, Usable,
                    readVars
<1> DEFINE e == stmt[s].exec
           P == Produced(e)
           E == Ends(e)
           r == res[s]
           st == stmt[s]
           q == got[e]
<1>3. e \in Executions
  BY <1>1, <1>2, ResultsAssumption DEF Statements, Executions
<1>4. Settles(r, st, e, q, P, E) /\ q \in Seq(Rows) /\ r.rows \in Seq(Rows) /\ r.row_cursor \in Nat
  BY <1>1, <1>2, <1>3, RestingAt
<1>5. r.kind # "none"
  <2>1. CASE HasCurrent(s)
    <3>1. r.kind = "none" => r.row_cursor = 0 /\ Len(r.rows) = 0
      BY <1>4, NoRows DEF Settles, Absent
    <3> QED
      BY <2>1, <3>1 DEF HasCurrent
  <2>2. CASE r.use = "iter"
    BY <1>4, <2>2 DEF Settles, Absent
  <2>3. CASE fetchAll(s)
    BY <2>3 DEF fetchAll
  <2> QED
    BY <2>1, <2>2, <2>3 DEF fetchOne, iterator_rewind, iterator_next
<1>6. Has(e, st, r, q, P, E)
  BY <1>2, <1>4, <1>5 DEF Has
<1>7. up /\ st.has_more_rows_in_set => st.field_count # 0
  <2> SUFFICES ASSUME up, st.has_more_rows_in_set PROVE st.field_count # 0
    OBVIOUS
  <2>1. IF stmt[s].unread THEN NoMore(stmt[s]) ELSE AtStart(stmt[s]) \/ InSet(stmt[s])
    BY <1>0, <1>1, <1>2, LeftToRead
  <2> QED
    BY <2>1 DEF NoMore, AtStart, InSet
<1>8. ASSUME UNCHANGED <<stmt, call>>, NEW y, res' = [res EXCEPT ![s] = y], NEW rows, NEW p,
             got' = [got EXCEPT ![e] = p], Given(p, q, rows, e, P), Settles(y, st, e, p, P, E),
             \A a \in Places : Near(a, r, q) /\ AtRest(a, r, st) =>
                                 Near(a, y, p) /\ AtRest(a, y, st)
      PROVE  RInv'
  <2> DEFINE c == call'
             x == stmt'[s]
  <2>1. /\ stmt'[s] = st /\ res'[s] = y /\ got'[e] = p /\ x = st /\ y = res'[s] /\ p = got'[e]
        /\ \A t \in AllStmts \ {s} : stmt'[t] = stmt[t] /\ res'[t] = res[t]
        /\ \A f \in Executions \ {e} : got'[f] = got[f]
    BY <1>1, <1>3, <1>8
  <2>2. Idle'
    BY <1>2, <1>8 DEF Idle
  <2>3. /\ Absent(y) /\ KindFits(y, x) /\ (y.kind # "none" => ResultRows(y, e, p, P, E))
        /\ (Idle' /\ y.kind = "fwd" => ForwardEnds(y, x, p, E))
        /\ (~Idle' => CallRows(c, x, y, p, P, E))
    BY <1>8, <2>1, <2>2, Zenon DEF Settles
  <2>4. \A a \in Places :
           up /\ e \notin raised /\ Near(a, res[s], got[e]) /\ AtRest(a, res[s], stmt[s]) =>
             /\ Near(a, y, p)
             /\ Idle' => AtRest(a, y, x)
             /\ ~Idle' => AtCall(a, c, x, p)
    BY <1>8, <2>1, <2>2, Zenon
  <2>5. stmt[s].exec = e /\ stmt'[s].exec = e /\ stmt'[s].flags = stmt[s].flags
        /\ Given(got'[e], got[e], rows, e, P)
    BY <1>8, <2>1
  <2> HIDE DEF c, x, e, P, E, r, st, q
  <2> QED
    BY <1>0, <1>1, <1>2, <1>3, <2>1, <2>2, <2>3, <2>4, <2>5, TakeRows DEF c, x, P, E
<1>9. ASSUME NEW x, stmt' = [stmt EXCEPT ![s] = x], x.exec = e, x.flags = st.flags,
             NEW y, res' = [res EXCEPT ![s] = y], NEW rows, NEW p,
             got' = [got EXCEPT ![e] = p], Given(p, q, rows, e, P),
             NEW c, c = call', c.s = s, c.op # "none",
             Absent(y), KindFits(y, x), ResultRows(y, e, p, P, E), CallRows(c, x, y, p, P, E),
             \A a \in Places : up /\ Near(a, r, q) /\ AtRest(a, r, st) =>
                                 Near(a, y, p) /\ AtCall(a, c, x, p)
      PROVE  RInv'
  <2>1. /\ stmt'[s] = x /\ res'[s] = y /\ got'[e] = p
        /\ \A t \in AllStmts \ {s} : stmt'[t] = stmt[t] /\ res'[t] = res[t]
        /\ \A f \in Executions \ {e} : got'[f] = got[f]
    BY <1>1, <1>3, <1>9
  <2>2. ~Idle' /\ call'.s = s
    BY <1>9 DEF Idle
  <2>3. \A a \in Places :
           up /\ e \notin raised /\ Near(a, res[s], got[e]) /\ AtRest(a, res[s], stmt[s]) =>
             /\ Near(a, y, p)
             /\ Idle' => AtRest(a, y, x)
             /\ ~Idle' => AtCall(a, c, x, p)
    BY <1>9, <2>2, Zenon
  <2>4. stmt[s].exec = e /\ stmt'[s].exec = e /\ stmt'[s].flags = stmt[s].flags
        /\ Given(got'[e], got[e], rows, e, P)
    BY <1>9, <2>1
  <2> HIDE DEF e, P, E, r, st, q
  <2> QED
    BY <1>0, <1>1, <1>2, <1>3, <1>9, <2>1, <2>2, <2>3, <2>4, TakeRows DEF P, E
<1>10. ASSUME NEW op, NEW use, Prefetches(s), Prefetching(s, op, use), r.use # "over",
              \/ op = "next" /\ use = "one"
              \/ op = "iterNext" /\ use = "iter",
              NEW rows, NEW p, got' = [got EXCEPT ![e] = p], Given(p, q, rows, e, P),
              p # << >>, LastRow(p) = LastRow(r.rows)
       PROVE  RInv'
  <2>1. r.kind = "fwd" /\ st.has_more_rows_in_set /\ r.rows # << >>
    <3>1. Len(r.rows) - r.row_cursor = 1 /\ r.kind = "fwd" /\ st.has_more_rows_in_set
      BY <1>10 DEF Prefetches
    <3>2. Len(r.rows) # 0
      BY <1>4, <3>1, LenProperties
    <3> QED
      BY <1>4, <3>1, <3>2, EmptyIs
  <2> DEFINE x == [st EXCEPT !.prefetch_counter = Prefetch]
             y == Emptied(r, use)
             c == call'
  <2>2. stmt' = [stmt EXCEPT ![s] = x] /\ res' = [res EXCEPT ![s] = y]
    BY <1>10 DEF Prefetching
  <2>3. /\ x.exec = e /\ x.flags = st.flags /\ x.field_count = st.field_count
        /\ x.has_more_rows_in_set = st.has_more_rows_in_set
    BY <1>1 DEF Statements
  <2>4. /\ y.kind = r.kind /\ y.rowset = r.rowset /\ y.rows = << >> /\ y.row_cursor = 0
        /\ y.use = use
    BY <1>1 DEF Emptied, Results
  <2>5. c.s = s /\ c.ret = "AGAIN" /\ c.op = op /\ c.rows = << >>
    BY <1>10 DEF Prefetching, Read, NoCall
  <2>6. c.op # "none" /\ c = call' /\ y.use \in {"one", "iter"}
        /\ c.op = IF y.use = "one" THEN "next" ELSE "iterNext"
    BY <1>10, <2>4, <2>5
  <2> HIDE DEF x, y, c, e, P, E, r, st, q
  <2>10. /\ x.has_more_rows_in_set /\ Has(e, st, r, q, P, E) /\ r.use # "over"
         /\ p # << >> /\ LastRow(p) = LastRow(r.rows)
    BY <1>6, <1>10, <2>1, <2>3
  <2>7. /\ Absent(y) /\ KindFits(y, x) /\ ResultRows(y, e, p, P, E) /\ CallRows(c, x, y, p, P, E)
        /\ \A a \in Places : Near(a, r, q) /\ AtRest(a, r, st) /\ st.field_count # 0 =>
             Near(a, y, p) /\ AtCall(a, c, x, p)
    BY <2>1, <2>3, <2>4, <2>5, <2>6, <2>10, ReadsNext
  <2>8. \A a \in Places : up /\ Near(a, r, q) /\ AtRest(a, r, st) =>
                            Near(a, y, p) /\ AtCall(a, c, x, p)
    BY <1>7, <2>1, <2>7
  <2> QED
    BY <1>9, <1>10, <2>2, <2>3, <2>5, <2>6, <2>7, <2>8
<1>11. ASSUME NEW rows \in Seq(Rows), Give(s, rows)
       PROVE  \E p : got' = [got EXCEPT ![e] = p] /\ Extends(p, q, rows)
  <2>1. got' = [got EXCEPT ![e] = q \o rows]
    BY <1>11 DEF Give
  <2> QED
    BY <1>4, <1>11, <2>1, ConcatExtends
<1>12. ASSUME NEW k \in Nat, k < Len(r.rows)
       PROVE  << r.rows[k + 1] >> \in Seq(Rows)
  <2>1. r.rows[k + 1] \in Rows
    <3> HIDE DEF e, P, E, r, st, q
    <3> QED
      BY <1>6, <1>12, RowIn
  <2> QED
    BY <2>1
\* A row is given, and the cursor is set behind it or on it.
<1>13. ASSUME NEW k \in Nat, k < Len(r.rows), CanFollow(q, r.rows[k + 1]), r.use # "over",
              Give(s, << r.rows[k + 1] >>)
       PROVE  /\ \A y : /\ res' = [res EXCEPT ![s] = y] /\ UNCHANGED <<stmt, call>>
                        /\ y.kind = r.kind /\ y.rowset = r.rowset /\ y.rows = r.rows
                        /\ \/ y.use = "one" /\ y.row_cursor = k + 1
                           \/ y.use = "iter" /\ y.row_cursor = k
                        => RInv'
              /\ k + 1 = Len(r.rows) /\ Prefetches(s) /\ Prefetching(s, "next", "one") => RInv'
  <2>1. PICK rows : rows = << r.rows[k + 1] >> /\ rows \in Seq(Rows) /\ Give(s, rows)
    BY <1>12, <1>13
  <2>2. PICK p : got' = [got EXCEPT ![e] = p] /\ Extends(p, q, rows)
    BY <1>11, <2>1
  <2>3. /\ Given(p, q, rows, e, P) /\ p # << >> /\ LastRow(p) = r.rows[k + 1]
        /\ \A y : /\ y.kind = r.kind /\ y.rowset = r.rowset /\ y.rows = r.rows
                   /\ \/ y.use = "one" /\ y.row_cursor = k + 1
                      \/ y.use = "iter" /\ y.row_cursor = k
                   => /\ Settles(y, st, e, p, P, E)
                      /\ \A a : Near(a, r, q) /\ AtRest(a, r, st) => Near(a, y, p) /\ AtRest(a, y, st)
    <3> HIDE DEF e, P, E, r, st, q
    <3> QED
      BY <1>6, <1>13, <2>1, <2>2, TakesOne
  <2>4. ASSUME NEW y, res' = [res EXCEPT ![s] = y], UNCHANGED <<stmt, call>>,
               y.kind = r.kind, y.rowset = r.rowset, y.rows = r.rows,
               \/ y.use = "one" /\ y.row_cursor = k + 1
               \/ y.use = "iter" /\ y.row_cursor = k
        PROVE  RInv'
    <3>1. /\ Settles(y, st, e, p, P, E)
          /\ \A a \in Places : Near(a, r, q) /\ AtRest(a, r, st) => Near(a, y, p) /\ AtRest(a, y, st)
      BY <2>3, <2>4
    <3> HIDE DEF e, P, E, r, st, q
    <3> QED
      BY <1>8, <2>2, <2>3, <2>4, <3>1
  <2>5. ASSUME k + 1 = Len(r.rows), Prefetches(s), Prefetching(s, "next", "one")
        PROVE  RInv'
    <3>1. LastRow(p) = LastRow(r.rows)
      BY <2>3, <2>5 DEF LastRow
    <3> HIDE DEF e, P, E, r, st, q
    <3> QED
      BY <1>10, <1>13, <2>2, <2>3, <2>5, <3>1
  <2> QED
    BY <2>4, <2>5
<1>14. CASE fetchOne(s)
  <2> DEFINE k == r.row_cursor
  <2>1. k \in Nat /\ k < Len(r.rows) /\ r.use \in {"none", "one"} /\ Give(s, << r.rows[k + 1] >>)
    BY <1>4, <1>14 DEF fetchOne, HasCurrent, Usable, Current
  <2>2. CanFollow(q, r.rows[k + 1])
    <3> HIDE DEF e, P, E, r, st, q
    <3> QED
      BY <1>6, <2>1, CurrentFollows
  <2>3. CASE Prefetches(s) /\ Prefetching(s, "next", "one")
    <3>1. k + 1 = Len(r.rows)
      BY <1>4, <2>3, LenProperties DEF Prefetches
    <3> QED
      BY <1>13, <2>1, <2>2, <2>3, <3>1
  <2>4. CASE /\ res' = [res EXCEPT ![s].row_cursor = @ + 1, ![s].use = "one"]
             /\ UNCHANGED <<stmt, call>>
    <3> DEFINE y == [r EXCEPT !.row_cursor = k + 1, !.use = "one"]
    <3>1. /\ y.kind = r.kind /\ y.rowset = r.rowset /\ y.rows = r.rows /\ y.use = "one"
          /\ y.row_cursor = k + 1
      BY <1>1 DEF Results
    <3>2. res' = [res EXCEPT ![s] = y]
      BY <2>4
    <3> HIDE DEF y
    <3> QED
      BY <1>13, <2>1, <2>2, <2>4, <3>1, <3>2
  <2> QED
    BY <1>14, <2>3, <2>4 DEF fetchOne
<1>15. CASE iterator_rewind(s)
  <2> DEFINE k == r.row_cursor
  <2>1. k \in Nat /\ k < Len(r.rows) /\ r.use = "none" /\ Give(s, << r.rows[k + 1] >>)
    BY <1>4, <1>15 DEF iterator_rewind, HasCurrent, Usable, Current
  <2>2. CanFollow(q, r.rows[k + 1])
    <3> HIDE DEF e, P, E, r, st, q
    <3> QED
      BY <1>6, <2>1, CurrentFollows
  <2> DEFINE y == [r EXCEPT !.use = "iter"]
  <2>3. /\ y.kind = r.kind /\ y.rowset = r.rowset /\ y.rows = r.rows /\ y.use = "iter"
        /\ y.row_cursor = k
    BY <1>1 DEF Results
  <2>4. res' = [res EXCEPT ![s] = y] /\ UNCHANGED <<stmt, call>>
    BY <1>15 DEF iterator_rewind, readVars
  <2> HIDE DEF y
  <2> QED
    BY <1>13, <2>1, <2>2, <2>3, <2>4
<1>16. CASE iterator_next(s)
  <2> DEFINE k == r.row_cursor + 1
             more == k + 1 <= Len(r.rows)
  <2>1. k \in Nat /\ r.row_cursor + 2 = k + 1 /\ r.use = "iter" /\ Len(r.rows) \in Nat
    BY <1>4, <1>16, LenProperties DEF iterator_next
  <2>2. Given(q, q, << >>, e, P) /\ Extends(q, q, << >>)
    BY <1>4, ExtendsByNothing, NoRows DEF Given
  <2>3. CASE Prefetches(s) /\ Prefetching(s, "iterNext", "iter") /\ UNCHANGED got
    <3>1. k = Len(r.rows) /\ r.rows # << >>
      <4>1. k = Len(r.rows) /\ Len(r.rows) # 0
        BY <1>4, <2>1, <2>3 DEF Prefetches
      <4> QED
        BY <1>4, <4>1, EmptyIs
    <3>2. ResultRows(r, e, q, P, E)
      BY <1>4, <1>5 DEF Settles
    <3>3. q # << >> /\ LastRow(q) = LastRow(r.rows)
      BY <2>1, <3>1, <3>2 DEF ResultRows, LastRow
    <3>4. got' = [got EXCEPT ![e] = q] /\ r.use # "over"
      BY <1>1, <2>1, <2>3
    <3> HIDE DEF e, P, E, r, st, q
    <3> QED
      BY <1>10, <2>2, <2>3, <3>3, <3>4
  <2>4. CASE /\ Give(s, IF more THEN << r.rows[k + 1] >> ELSE << >>)
             /\ res' = [res EXCEPT ![s].row_cursor = @ + 1,
                                   ![s].use = IF more THEN "iter" ELSE "over"]
             /\ UNCHANGED <<stmt, call>>
    <3> DEFINE use == IF more THEN "iter" ELSE "over"
               y == [r EXCEPT !.row_cursor = k, !.use = use]
    <3>1. /\ y.kind = r.kind /\ y.rowset = r.rowset /\ y.rows = r.rows /\ y.use = use
          /\ y.row_cursor = k
      BY <1>1 DEF Results
    <3>2. res' = [res EXCEPT ![s] = y]
      BY <2>4
    <3> HIDE DEF y
    <3>3. CASE more
      <4>1. k < Len(r.rows)
        BY <2>1, <3>3
      <4>2. CanFollow(q, r.rows[k + 1])
        <5>1. k = r.row_cursor + 1
          OBVIOUS
        <5> HIDE DEF e, P, E, r, st, q, k
        <5> QED
          BY <1>6, <2>1, <4>1, <5>1, NextFollows
      <4>3. Give(s, << r.rows[k + 1] >>) /\ y.use = "iter" /\ r.use # "over"
        BY <2>1, <2>4, <3>1, <3>3
      <4> HIDE DEF k
      <4> QED
        BY <1>13, <2>1, <2>4, <3>1, <3>2, <4>1, <4>2, <4>3
    <3>4. CASE ~more
      <4>1. Give(s, << >>) /\ y.use = "over"
        BY <2>4, <3>1, <3>4
      <4>2. PICK p : got' = [got EXCEPT ![e] = p] /\ Extends(p, q, << >>)
        BY <1>11, <4>1, NoRows
      <4>3. p = q
        <5> HIDE DEF q
        <5> QED
          BY <1>4, <4>2, NoRows, ExtendsEnds
      <4>4. /\ Settles(y, st, e, q, P, E)
            /\ \A a : Near(a, r, q) => Near(a, y, q) /\ AtRest(a, y, st)
        <5> HIDE DEF e, P, E, r, st, q
        <5> QED
          BY <1>6, <3>1, <4>1, TakesAll
      <4> HIDE DEF e, P, E, r, st, q
      <4> QED
        BY <1>8, <2>2, <2>4, <3>2, <4>2, <4>3, <4>4
    <3> QED
      BY <3>3, <3>4
  <2> QED
    BY <1>16, <2>1, <2>3, <2>4 DEF iterator_next
<1>17. CASE fetchAll(s)
  <2>1. r.use = "none"
    BY <1>17 DEF fetchAll, Usable
  <2>2. CASE Give(s, r.rows) /\ res' = [res EXCEPT ![s].use = "over"] /\ UNCHANGED <<stmt, call>>
    <3> DEFINE y == [r EXCEPT !.use = "over"]
    <3>1. y.kind = r.kind /\ y.rowset = r.rowset /\ y.rows = r.rows /\ y.use = "over"
      BY <1>1 DEF Results
    <3>2. res' = [res EXCEPT ![s] = y]
      BY <2>2
    <3>3. PICK p : got' = [got EXCEPT ![e] = p] /\ Extends(p, q, r.rows)
      BY <1>4, <1>11, <2>2
    <3> HIDE DEF y, e, P, E, r, st, q
    <3>4. /\ Settles(y, st, e, p, P, E) /\ Given(p, q, r.rows, e, P)
          /\ \A a : Near(a, r, q) => Near(a, y, p) /\ AtRest(a, y, st)
      BY <1>6, <2>1, <3>1, <3>3, TakesAll
    <3> QED
      BY <1>8, <2>2, <3>2, <3>3, <3>4
  <2>3. CASE /\ r.kind = "fwd"
             /\ st.has_more_rows_in_set
             /\ call' = [Read("fetchAll", s, "result") EXCEPT !.rowset = TRUE, !.rows = r.rows]
             /\ UNCHANGED <<stmt, res, got>>
    <3> DEFINE c == call'
    <3>1. c.s = s /\ c.ret = "AGAIN" /\ c.op = "fetchAll" /\ c.rows = r.rows /\ c.op # "none"
      BY <2>3 DEF Read, NoCall
    <3>2. st.has_more_rows_in_set /\ r.kind = "fwd"
      BY <2>3
    <3>3. /\ stmt' = [stmt EXCEPT ![s] = st] /\ res' = [res EXCEPT ![s] = r]
          /\ got' = [got EXCEPT ![e] = q] /\ st.exec = e /\ st.flags = st.flags /\ c = call'
      BY <1>1, <2>3
    <3>4. Given(q, q, << >>, e, P)
      BY <1>4, ExtendsByNothing, NoRows DEF Given
    <3> HIDE DEF c, e, P, E, r, st, q
    <3>5. /\ CallRows(c, st, r, q, P, E)
          /\ \A a \in Places : Near(a, r, q) /\ AtRest(a, r, st) /\ st.field_count # 0 =>
               AtCall(a, c, st, q)
      BY <1>6, <2>1, <3>1, <3>2, ReadsAll
    <3>6. Absent(r) /\ KindFits(r, st) /\ ResultRows(r, e, q, P, E)
      BY <1>4, <1>5 DEF Settles
    <3>7. \A a \in Places : up /\ Near(a, r, q) /\ AtRest(a, r, st) =>
                              Near(a, r, q) /\ AtCall(a, c, st, q)
      BY <1>7, <3>2, <3>5
    <3> QED
      BY <1>9, <3>1, <3>3, <3>4, <3>5, <3>6, <3>7
  <2> QED
    BY <1>17, <2>2, <2>3 DEF fetchAll, Careful
<1> QED
  BY <1>14, <1>15, <1>16, <1>17

-----------------------------------------------------------------------------
(***************************************************************************)
(* The server sends, and the connection is lost.                           *)
(***************************************************************************)
LEMMA WayGoesOn ==
  ASSUME NEW e, NEW a, NEW bs, NEW ls \in Seq(Sent), NEW P, NEW E, NEW td, NEW ps,
         Way(e, a, bs, ls, P, E, td, ps), td # << >>,
         NEW m \in Sent, NEW Q, NEW F, P \subseteq Q, E \subseteq F,
         Fits(e, m, Moves(ps, m), Q, F), NEW td2, NEW ps2, td2 # << >> => ps2 = Moves(ps, m)
  PROVE  Way(e, a, bs, Append(ls, m), Q, F, td2, ps2)
<1>1. PICK b, c \in Places :
        Walk(e, a, bs, b, P, E) /\ Walk(e, b, ls, c, P, E) /\ (td # << >> => c = ps)
  BY DEF Way
<1>2. Walk(e, a, bs, b, Q, F) /\ Walk(e, b, ls, c, Q, F) /\ c = ps
  BY <1>1, WalkWidens
<1>3. Walk(e, b, Append(ls, m), Moves(c, m), Q, F) /\ Moves(c, m) \in Places
  BY <1>1, <1>2, WalkGrows, MovesTo
<1> QED
  BY <1>1, <1>2, <1>3, Zenon DEF Way

\* A step of the server does not change what was read and given.
LEMMA ServerStep ==
  ASSUME RInv, IInv', UNCHANGED <<stmt, res, call, batch, got, raised>>,
         \A f \in Executions : Produced(f) \subseteq Produced(f)' /\ Ends(f) \subseteq Ends(f)',
         ServerRows', SingleSet', up' => up,
         \A f \in Executions, a \in Places :
           up' /\ LastExec = f /\ Way(f, a, batch, line, Produced(f), Ends(f), todo, pos) =>
             Way(f, a, batch, line', Produced(f)', Ends(f)', todo', pos')
  PROVE  RInv'
<1>1. /\ GotRows /\ ResultsRows /\ RestingRows /\ ReadRows /\ Placed
      /\ stmt' = stmt /\ res' = res /\ call' = call /\ batch' = batch /\ got' = got /\ raised' = raised
  BY DEF RInv
<1>2. /\ Idle' <=> Idle
      /\ Reader' = Reader /\ LastExec' = LastExec
  BY SameReader
<1>3. \A f \in Executions : \E Q, F : /\ Q = Produced(f)' /\ F = Ends(f)'
                                      /\ Produced(f) \subseteq Q /\ Ends(f) \subseteq F
  OBVIOUS
<1>4. GotRows'
  <2> SUFFICES ASSUME NEW f \in Executions
               PROVE  Delivery!InOrder(got[f]) /\ \A i \in 1..Len(got[f]) : got[f][i] \in Produced(f)'
    BY <1>1 DEF GotRows, Delivery!InOrder, Delivery!Follows
  <2> QED
    BY <1>1, Zenon DEF GotRows
<1>5. ResultsRows'
  <2> SUFFICES ASSUME NEW t \in AllStmts
               PROVE  /\ Absent(res[t]) /\ KindFits(res[t], stmt[t])
                      /\ \A f \in Executions : stmt[t].exec = f /\ res[t].kind # "none" =>
                           ResultRows(res[t], f, got[f], Produced(f)', Ends(f)')
    BY <1>1, Zenon DEF ResultsRows, Absent, KindFits
  <2>1. Absent(res[t]) /\ KindFits(res[t], stmt[t])
    BY <1>1, Zenon DEF ResultsRows, Absent, KindFits
  <2>2. ASSUME NEW f \in Executions, stmt[t].exec = f, res[t].kind # "none"
        PROVE  ResultRows(res[t], f, got[f], Produced(f)', Ends(f)')
    <3>1. ResultRows(res[t], f, got[f], Produced(f), Ends(f))
      BY <1>1, <2>2, Zenon DEF ResultsRows
    <3>2. PICK Q, F : /\ Q = Produced(f)' /\ F = Ends(f)'
                      /\ Produced(f) \subseteq Q /\ Ends(f) \subseteq F
      BY <1>3
    <3>3. ResultRows(res[t], f, got[f], Q, F)
      BY <3>1, <3>2, RowsWiden, Zenon
    <3> QED
      BY <3>2, <3>3, Zenon
  <2> QED
    BY <2>1, <2>2
<1>6. RestingRows'
  <2> SUFFICES ASSUME NEW t \in AllStmts, NEW f \in Executions,
                      Idle \/ call.s # t, stmt[t].exec = f, res[t].kind = "fwd"
               PROVE  ForwardEnds(res[t], stmt[t], got[f], Ends(f)')
    BY <1>1, <1>2, Zenon DEF RestingRows
  <2>1. ForwardEnds(res[t], stmt[t], got[f], Ends(f))
    BY <1>1, Zenon DEF RestingRows
  <2>2. PICK F : F = Ends(f)' /\ Ends(f) \subseteq F
    BY <1>3
  <2>3. ForwardEnds(res[t], stmt[t], got[f], F)
    BY <2>1, <2>2, RowsWiden, Zenon
  <2> QED
    BY <2>2, <2>3, Zenon
<1>7. ReadRows'
  <2> SUFFICES ASSUME NEW f \in Executions, ~Idle, Reader.exec = f
               PROVE  CallRows(call, Reader, res[call.s], got[f], Produced(f)', Ends(f)')
    BY <1>1, <1>2, Zenon DEF ReadRows
  <2>1. CallRows(call, Reader, res[call.s], got[f], Produced(f), Ends(f))
    BY <1>1, Zenon DEF ReadRows
  <2>2. PICK Q, F : /\ Q = Produced(f)' /\ F = Ends(f)'
                    /\ Produced(f) \subseteq Q /\ Ends(f) \subseteq F
    BY <1>3
  <2>3. CallRows(call, Reader, res[call.s], got[f], Q, F)
    BY <2>1, <2>2, RowsWiden, Zenon
  <2> QED
    BY <2>2, <2>3, Zenon
<1>8. Placed'
  <2> SUFFICES ASSUME NEW f \in Executions \ raised, up', LastExec = f
               PROVE  \E a \in Places :
                        /\ Way(f, a, batch, line', Produced(f)', Ends(f)', todo', pos')
                        /\ \A s \in AllStmts : stmt[s].exec = f =>
                             /\ Near(a, res[s], got[f])
                             /\ Idle => AtRest(a, res[s], stmt[s])
                             /\ ~Idle => AtCall(a, call, stmt[s], got[f])
    BY <1>1, <1>2, Zenon DEF Placed
  <2>1. PICK a \in Places :
          /\ Way(f, a, batch, line, Produced(f), Ends(f), todo, pos)
          /\ \A s \in AllStmts : stmt[s].exec = f =>
               /\ Near(a, res[s], got[f])
               /\ Idle => AtRest(a, res[s], stmt[s])
               /\ ~Idle => AtCall(a, call, stmt[s], got[f])
    BY <1>1, Zenon DEF Placed
  <2>2. Way(f, a, batch, line', Produced(f)', Ends(f)', todo', pos')
    BY <2>1, Zenon
  <2> QED
    BY <2>1, <2>2, Zenon
<1> QED
  BY <1>4, <1>5, <1>6, <1>7, <1>8 DEF RInv

\* The server sends a message; the rest is about what it keeps.
LEMMA SentRows ==
  ASSUME RInv, IInv', Answering, NEW m \in Sent, Send(m), NEW e \in Executions, e = LastExec,
         \A f \in Executions : Produced(f) \subseteq Produced(f)' /\ Ends(f) \subseteq Ends(f)',
         ServerRows', SingleSet', NEW Q, Q = Produced(e)', NEW F, F = Ends(e)',
         Fits(e, m, Moves(pos, m), Q, F), todo' # << >> => pos' = Moves(pos, m)
  PROVE  RInv'
<1>1. /\ UNCHANGED <<stmt, res, call, batch, got, raised>> /\ up' = up /\ line' = Append(line, m)
      /\ todo # << >>
  BY DEF Send, readVars, Answering
<1>2. line \in Seq(Sent)
  BY LineFacts DEF RInv, IInv
<1>3. ASSUME NEW f \in Executions, NEW a \in Places, LastExec = f,
             Way(f, a, batch, line, Produced(f), Ends(f), todo, pos)
      PROVE  Way(f, a, batch, line', Produced(f)', Ends(f)', todo', pos')
  <2>1. f = e /\ Produced(e) \subseteq Q /\ Ends(e) \subseteq F
    BY <1>3
  <2>2. PICK td, ps : td = todo' /\ ps = pos'
    OBVIOUS
  <2>3. td # << >> => ps = Moves(pos, m)
    BY <2>2
  <2>4. PICK P, E : P = Produced(e) /\ E = Ends(e)
    OBVIOUS
  <2>5. Way(e, a, batch, line, P, E, todo, pos) /\ P \subseteq Q /\ E \subseteq F
    BY <1>3, <2>1, <2>4
  <2>6. Way(e, a, batch, Append(line, m), Q, F, td, ps)
    BY <1>1, <1>2, <2>3, <2>5, WayGoesOn
  <2> QED
    BY <1>1, <2>1, <2>2, <2>6, Zenon
<1> QED
  BY <1>1, <1>3, ServerStep

LEMMA Answers ==
  ASSUME RInv, Answering, NEW e, e = LastExec
  PROVE  /\ e \in Executions /\ todo # << >> /\ todo[1].e = e /\ Head(todo).e = e /\ Tail(todo) = << >>
         /\ Head(todo) = todo[1] /\ todo[1].sets \in Nat
         /\ pos \in Places /\ pos.set \in Nat /\ pos.n \in Nat /\ (phase = "rows" => pos.set > 0)
         /\ \A x \in Produced(e) : /\ x \in Rows /\ x.set \in Nat /\ x.n \in Nat
                                   /\ x.set < pos.set \/ (x.set = pos.set /\ x.n <= pos.n)
<1>1. Types /\ Tidy /\ ServerRows /\ todo # << >>
  BY DEF RInv, IInv, Answering
<1>2. Tail(todo) = << >> /\ Head(todo) = todo[1]
  BY <1>1, OneAnswer
<1> DEFINE S == [e : Executions, sets : 0..MaxSets]
<1>3. todo \in Seq(S)
  BY <1>1, LineFacts
<1>4. Head(todo) \in S
  <2> HIDE DEF S
  <2> QED
    BY <1>1, <1>3, TailElements
<1>5. todo[1].e \in Executions /\ todo[1].sets \in Nat
  BY <1>2, <1>4, ResultsAssumption
<1>6. /\ todo[1].e = e
      /\ \A x \in Produced(e) : x.set < pos.set \/ (x.set = pos.set /\ x.n <= pos.n)
  BY <1>1 DEF ServerRows
<1>7. pos \in Places /\ pos.set \in Nat /\ pos.n \in Nat /\ (phase = "rows" => pos.set > 0)
  BY <1>1, ResultsAssumption DEF Types, ServerTyped, Places
<1>8. \A x \in Produced(e) : x \in Rows /\ x.set \in Nat /\ x.n \in Nat
  <2>1. produced[e] \in Seq(Rows)
    BY <1>1, <1>5, <1>6 DEF Types, ServerTyped
  <2> QED
    BY <2>1, ElementOfSeq, RowParts DEF Produced
<1> QED
  BY <1>1, <1>2, <1>5, <1>6, <1>7, <1>8

\* A message that is no row.
LEMMA AnswerRows ==
  ASSUME RInv, IInv', Answering, NEW m \in Sent, m.type # "ROW", Send(m), UNCHANGED produced,
         \/ todo' = << >> /\ m.type \notin {"MORE", "DONE"}
         \/ /\ todo' = todo /\ phase # "rows" /\ m.type = "META" /\ phase' = "rows"
            /\ pos' = Moves(pos, m) /\ pos.set < todo[1].sets
         \/ todo' = todo /\ phase' # "rows" /\ m.type # "META" /\ pos' = pos
  PROVE  RInv'
<1>1. PICK e : e = LastExec
  OBVIOUS
<1>2. /\ e \in Executions /\ todo # << >> /\ todo[1].e = e /\ todo[1].sets \in Nat
      /\ pos \in Places /\ pos.set \in Nat /\ pos.n \in Nat
      /\ \A x \in Produced(e) : /\ x \in Rows /\ x.set \in Nat /\ x.n \in Nat
                                /\ x.set < pos.set \/ (x.set = pos.set /\ x.n <= pos.n)
  BY <1>1, Answers
<1>3. /\ UNCHANGED <<stmt, call, raised, got>> /\ LastExec' = LastExec
  BY SameReader DEF Send, readVars
<1>4. \A f : Produced(f)' = Produced(f)
  BY DEF Produced
<1>5. m.type = "META" => Moves(pos, m).set = pos.set + 1 /\ Moves(pos, m).n = 0
  BY <1>2, MovesTo
<1>6. m.type # "META" => Moves(pos, m) = pos
  BY <1>2, MovesTo
<1>7. todo' # << >> => pos' = Moves(pos, m)
  BY <1>6
<1>8. ASSUME NEW f \in Executions
      PROVE  Ends(f) \subseteq Ends(f)'
  <2> SUFFICES ASSUME NEW c \in Ends(f), todo' # << >>, todo'[1].e = f
               PROVE  c.set < pos'.set \/ (c.set = pos'.set /\ phase' # "rows")
    BY <1>4 DEF Ends
  <2>1. c.set \in Nat /\ (c.set < pos.set \/ (c.set = pos.set /\ phase # "rows"))
    BY DEF Ends, Places
  <2>2. CASE m.type = "META"
    <3>1. pos'.set = pos.set + 1
      BY <1>5, <2>2
    <3> QED
      BY <1>2, <2>1, <3>1
  <2>3. CASE m.type # "META"
    BY <2>1, <2>3
  <2> QED
    BY <2>2, <2>3
<1>9. ServerRows'
  <2>1. (\A f \in Executions : f > LastExec => produced[f] = << >> /\ got[f] = << >>)'
    BY <1>3 DEF RInv, ServerRows
  <2>2. ASSUME todo' # << >>
        PROVE  /\ todo'[1].e = LastExec'
               /\ (\A x \in Produced(todo[1].e) : x.set < pos.set \/ (x.set = pos.set /\ x.n <= pos.n))'
    <3>1. todo' = todo /\ todo'[1].e = e
      BY <1>2, <2>2
    <3>2. Produced(todo[1].e)' = Produced(e)
      BY <1>2, <3>1 DEF Produced
    <3>3. ASSUME NEW x \in Produced(e)
          PROVE  x.set < pos'.set \/ (x.set = pos'.set /\ x.n <= pos'.n)
      <4>1. x.set \in Nat /\ x.n \in Nat /\ (x.set < pos.set \/ (x.set = pos.set /\ x.n <= pos.n))
        BY <1>2
      <4>2. CASE m.type = "META"
        <5>1. pos'.set = pos.set + 1
          BY <1>5, <2>2, <4>2
        <5> QED
          BY <1>2, <4>1, <5>1
      <4>3. CASE m.type # "META"
        <5>1. pos' = pos
          BY <2>2, <4>3
        <5> QED
          BY <4>1, <5>1
      <4> QED
        BY <4>2, <4>3
    <3> QED
      BY <1>1, <1>3, <3>1, <3>2, <3>3
  <2> QED
    BY <2>1, <2>2 DEF ServerRows
<1>10. SingleSet'
  <2> SUFFICES ASSUME NEW t \in Stmts, NEW f \in Executions, stmt[t].exec = f,
                      "BUFFERED" \notin stmt[t].flags
               PROVE  /\ Numbered(produced[f], f) /\ Numbered(got[f], f)
                      /\ todo' # << >> /\ todo'[1].e = f =>
                           /\ todo'[1].sets <= 1 /\ pos'.set <= 1
                           /\ pos'.set = 0 => produced[f] = << >>
                           /\ pos'.set = 1 => Len(produced[f]) = pos'.n
    BY <1>3 DEF SingleSet, Numbered
  <2>1. /\ Numbered(produced[f], f) /\ Numbered(got[f], f)
        /\ todo # << >> /\ todo[1].e = f =>
             /\ todo[1].sets <= 1 /\ pos.set <= 1
             /\ pos.set = 0 => produced[f] = << >>
             /\ pos.set = 1 => Len(produced[f]) = pos.n
    BY DEF RInv, SingleSet
  <2>2. ASSUME todo' # << >>, todo'[1].e = f
        PROVE  /\ todo'[1].sets <= 1 /\ pos'.set <= 1
               /\ pos'.set = 0 => produced[f] = << >>
               /\ pos'.set = 1 => Len(produced[f]) = pos'.n
    <3>1. CASE m.type = "META"
      <4>1. pos.set = 0 /\ todo'[1].sets <= 1
        BY <1>2, <2>1, <2>2, <3>1
      <4>2. pos'.set = 1 /\ pos'.n = 0
        BY <1>5, <2>2, <3>1, <4>1
      <4>3. Len(produced[f]) = 0
        BY <2>1, <2>2, <4>1, NoRows
      <4> QED
        BY <4>1, <4>2, <4>3
    <3>2. CASE m.type # "META"
      BY <2>1, <2>2, <3>2
    <3> QED
      BY <3>1, <3>2
  <2> QED
    BY <2>1, <2>2
<1>11. PICK Q, F : Q = Produced(e)' /\ F = Ends(e)'
  OBVIOUS
<1>12. m.type \in {"MORE", "DONE"} => pos \in F
  <2> SUFFICES ASSUME m.type \in {"MORE", "DONE"} PROVE pos \in Ends(e)'
    BY <1>11
  <2>1. phase' # "rows" /\ pos' = pos
    OBVIOUS
  <2>2. \A x \in Produced(e) : x.set = pos.set => x.n <= pos.n
    BY <1>2
  <2> QED
    BY <1>2, <1>4, <2>1, <2>2 DEF Ends
<1>13. Fits(e, m, Moves(pos, m), Q, F)
  BY <1>6, <1>12 DEF Fits
<1>14. \A f \in Executions : Produced(f) \subseteq Produced(f)' /\ Ends(f) \subseteq Ends(f)'
  BY <1>4, <1>8, Zenon
<1> QED
  BY <1>1, <1>2, <1>7, <1>9, <1>10, <1>11, <1>13, <1>14, SentRows

\* A row.
LEMMA ServerRowRows ==
  ASSUME RInv, ServerRow
  PROVE  RInv'
<1>0. IInv /\ IInv' /\ Answering
  BY ServerKeeps DEF RInv, Server, ServerRow
<1>1. PICK e : e = LastExec
  OBVIOUS
<1>2. /\ e \in Executions /\ todo # << >> /\ todo[1].e = e /\ Head(todo).e = e
      /\ pos \in Places /\ pos.set \in Nat /\ pos.n \in Nat /\ pos.set > 0
      /\ \A x \in Produced(e) : /\ x \in Rows /\ x.set \in Nat /\ x.n \in Nat
                                /\ x.set < pos.set \/ (x.set = pos.set /\ x.n <= pos.n)
  BY <1>0, <1>1, Answers DEF ServerRow
<1> DEFINE r == Row(e, pos.set, pos.n + 1)
           m == [type |-> "ROW", row |-> r]
           n == Len(produced[e])
<1>3. /\ Send(m) /\ produced' = [produced EXCEPT ![e] = Append(produced[e], r)]
      /\ pos' = [pos EXCEPT !.n = pos.n + 1] /\ todo' = todo /\ phase' = phase /\ phase = "rows"
  BY <1>2 DEF ServerRow
<1>4. /\ UNCHANGED <<stmt, call, raised, got>> /\ LastExec' = LastExec
  BY <1>3, SameReader DEF Send, readVars
<1>5. /\ produced \in [Executions -> Seq(Rows)] /\ produced[e] \in Seq(Rows)
      /\ produced' \in [Executions -> Seq(Rows)]
  BY <1>0, <1>2 DEF IInv, Types, ServerTyped
<1>6. pos'.set = pos.set /\ pos'.n = pos.n + 1 /\ m.type = "ROW" /\ m.row = r
      /\ r.set = pos.set /\ r.n = pos.n + 1 /\ r.e = e
  BY <1>2, <1>3, RowParts DEF Places
<1>7. m \in Sent /\ r \in Rows
  <2>1. line' \in Seq(Sent) /\ line \in Seq(Sent) /\ line' = Append(line, m)
    BY <1>0, <1>3, LineFacts DEF IInv, Types, LineTyped, Send
  <2>2. pos.set \in 1..MaxSets
    BY <1>0, <1>2, ResultsAssumption DEF IInv, Types, ServerTyped
  <2>3. pos.n + 1 \in 1..MaxRows
    BY <1>0, <1>2, <1>6, ResultsAssumption DEF IInv, Types, ServerTyped
  <2> QED
    BY <1>2, <2>2, <2>3 DEF Row, Rows, Sent, Messages, MessageTypes
<1>8. /\ produced'[e] = Append(produced[e], r) /\ \A f \in Executions \ {e} : produced'[f] = produced[f]
  BY <1>2, <1>3, <1>5
<1>9. /\ n \in Nat /\ Append(produced[e], r) \in Seq(Rows) /\ Len(Append(produced[e], r)) = n + 1
      /\ Append(produced[e], r)[n + 1] = r
      /\ \A k \in 1..n : Append(produced[e], r)[k] = produced[e][k]
  BY <1>5, <1>7, AppendElements, LenProperties
<1> HIDE DEF m, r
<1>10. /\ \A f \in Executions \ {e} : Produced(f)' = Produced(f)
       /\ Produced(e)' = Produced(e) \cup {r}
  <2>1. \A f \in Executions \ {e} : Produced(f)' = Produced(f)
    BY <1>8 DEF Produced
  <2> DEFINE more == Append(produced[e], r)
  <2>2. \A x : (\E j \in 1..(n + 1) : x = more[j]) <=> (x = r \/ \E j \in 1..n : x = produced[e][j])
    <3>1. \A j \in 1..(n + 1) : j \in 1..n \/ j = n + 1
      BY <1>9
    <3>2. (\A j \in 1..n : j \in 1..(n + 1)) /\ n + 1 \in 1..(n + 1)
      BY <1>9
    <3> HIDE DEF n, more
    <3> QED
      BY <1>9, <3>1, <3>2 DEF n, more
  <2>3. Produced(e)' = {more[j] : j \in 1..(n + 1)}
    BY <1>8, <1>9 DEF Produced
  <2>4. Produced(e) = {produced[e][j] : j \in 1..n}
    BY DEF Produced
  <2> HIDE DEF more, n
  <2>5. Produced(e)' = Produced(e) \cup {r}
    BY <2>2, <2>3, <2>4
  <2> QED
    BY <2>1, <2>5
<1>11. ASSUME NEW f \in Executions
      PROVE  Ends(f) \subseteq Ends(f)'
  <2> SUFFICES ASSUME NEW c \in Ends(f) PROVE c \in Ends(f)'
    OBVIOUS
  <2>1. /\ c \in Places /\ c.set \in Nat /\ (\A x \in Produced(f) : x.set = c.set => x.n <= c.n)
        /\ (f = e => c.set < pos.set)
    BY <1>2, <1>3 DEF Ends, Places
  <2>2. CASE f = e
    <3>1. \A x \in Produced(e)' : x.set = c.set => x.n <= c.n
      BY <1>2, <1>6, <1>10, <2>1, <2>2
    <3> QED
      BY <1>3, <1>6, <2>1, <2>2, <3>1 DEF Ends
  <2>3. CASE f # e
    BY <1>2, <1>3, <1>10, <2>1, <2>3 DEF Ends
  <2> QED
    BY <2>2, <2>3
<1>12. ServerRows'
  <2>1. ASSUME NEW f \in Executions, f > LastExec PROVE produced'[f] = << >> /\ got'[f] = << >>
    <3>1. f # e
      BY <1>1, <1>2, <2>1, ResultsAssumption DEF Executions
    <3> QED
      BY <1>4, <1>8, <2>1, <3>1 DEF RInv, ServerRows
  <2>2. Produced(todo[1].e)' = Produced(e)'
    BY <1>2, <1>3 DEF Produced
  <2>3. \A x \in Produced(e)' : x.set < pos'.set \/ (x.set = pos'.set /\ x.n <= pos'.n)
    BY <1>2, <1>6, <1>10
  <2>4. todo'[1].e = LastExec'
    BY <1>1, <1>2, <1>3, <1>4
  <2> QED
    BY <1>4, <2>1, <2>2, <2>3, <2>4 DEF ServerRows
<1>13. SingleSet'
  <2> SUFFICES ASSUME NEW t \in Stmts, NEW f \in Executions, stmt[t].exec = f,
                      "BUFFERED" \notin stmt[t].flags
               PROVE  /\ Numbered(produced'[f], f) /\ Numbered(got[f], f)
                      /\ f = e =>
                           /\ todo[1].sets <= 1 /\ pos.set <= 1
                           /\ pos.set = 0 => produced'[f] = << >>
                           /\ pos.set = 1 => Len(produced'[f]) = pos.n + 1
    BY <1>2, <1>3, <1>4, <1>6 DEF SingleSet, Numbered
  <2>1. /\ Numbered(produced[f], f) /\ Numbered(got[f], f)
        /\ f = e =>
             /\ todo[1].sets <= 1 /\ pos.set <= 1
             /\ pos.set = 1 => Len(produced[f]) = pos.n
    BY <1>2 DEF RInv, SingleSet
  <2>2. CASE f # e
    BY <1>8, <2>1, <2>2
  <2>3. CASE f = e
    <3>1. pos.set = 1 /\ n = pos.n
      BY <1>2, <2>1, <2>3
    <3>2. r = Row(e, 1, n + 1)
      BY <3>1 DEF r
    <3>3. Numbered(produced'[e], e)
      <4> DEFINE more == Append(produced[e], r)
      <4>1. \A i \in 1..(n + 1) : i \in 1..n \/ i = n + 1
        BY <1>9
      <4>2. \A i \in 1..n : produced[e][i] = Row(e, 1, i)
        BY <2>1, <2>3 DEF Numbered
      <4>3. \A i \in 1..(n + 1) : more[i] = Row(e, 1, i)
        <5> HIDE DEF n, more
        <5> QED
          BY <1>9, <3>2, <4>1, <4>2 DEF n, more
      <4>4. \A z : z = more => Numbered(z, e)
        BY <1>9, <4>3 DEF Numbered
      <4> QED
        BY <1>8, <4>4
    <3>4. Len(produced'[e]) = n + 1 /\ pos.set # 0
      BY <1>8, <1>9, <3>1
    <3>5. Len(produced'[e]) = pos.n + 1
      BY <3>1, <3>4, Zenon
    <3> HIDE DEF n
    <3> QED
      BY <2>1, <2>3, <3>3, <3>4, <3>5
  <2> QED
    BY <2>2, <2>3
<1>14. PICK Q, F : Q = Produced(e)' /\ F = Ends(e)'
  OBVIOUS
<1>15. Moves(pos, m) = pos' /\ pos' \in Places
  <2>1. Moves(pos, m) = [set |-> pos.set, n |-> pos.n + 1]
    BY <1>6 DEF Moves
  <2>2. pos' = [set |-> pos.set, n |-> pos.n + 1]
    BY <1>2, <1>3 DEF Places
  <2> QED
    BY <1>2, <2>1, <2>2 DEF Places
<1>16. Fits(e, m, Moves(pos, m), Q, F)
  <2>1. r = RowAt(e, pos') /\ r \in Q
    BY <1>6, <1>10, <1>14 DEF RowAt, r
  <2> QED
    BY <1>6, <1>15, <2>1 DEF Fits
<1>17. \A f \in Executions : Produced(f) \subseteq Produced(f)' /\ Ends(f) \subseteq Ends(f)'
  BY <1>10, <1>11
<1> QED
  BY <1>0, <1>1, <1>2, <1>3, <1>7, <1>12, <1>13, <1>14, <1>15, <1>16, <1>17, SentRows

LEMMA ServerActsRows ==
  ASSUME RInv, Server \/ ConnectionLost
  PROVE  RInv'
<1>0. IInv /\ IInv'
  BY ServerKeeps, ConnectionLostKeeps DEF RInv
<1>1. \A t \in MessageTypes \ {"ROW"} : Message(t) \in Sent /\ Message(t).type = t
  BY MessageSent DEF Message
<1>2. Answering => pos \in Places /\ todo # << >> /\ Tail(todo) = << >> /\ Head(todo) = todo[1]
  BY Answers
<1>3. CASE ServerMeta
  <2> DEFINE m == Message("META")
  <2>1. m \in Sent /\ m.type = "META"
    BY <1>1 DEF MessageTypes
  <2>2. Moves(pos, m) = [set |-> pos.set + 1, n |-> 0]
    BY <2>1 DEF Moves
  <2> HIDE DEF m
  <2>3. Answering /\ Send(m) /\ UNCHANGED produced /\ todo' = todo /\ phase # "rows"
        /\ phase' = "rows" /\ pos' = Moves(pos, m) /\ pos.set < todo[1].sets
    BY <1>2, <1>3, <2>2 DEF ServerMeta, m
  <2> QED
    BY <1>0, <2>1, <2>3, AnswerRows
<1>4. CASE ServerSetDone \/ ServerNotice
  <2>1. PICK t \in {"MORE", "DONE", "NOTICE"} : Send(Message(t)) /\ phase' # "rows"
    BY <1>4 DEF ServerSetDone, ServerNotice
  <2> DEFINE m == Message(t)
  <2>2. m \in Sent /\ m.type \in {"MORE", "DONE", "NOTICE"} /\ Send(m)
    BY <1>1, <2>1 DEF MessageTypes
  <2> HIDE DEF m
  <2>3. Answering /\ UNCHANGED produced /\ todo' = todo /\ phase' # "rows" /\ pos' = pos
    BY <1>4, <2>1 DEF ServerSetDone, ServerNotice
  <2> QED
    BY <1>0, <2>2, <2>3, AnswerRows
<1>5. CASE ServerOk \/ ServerError
  <2>1. PICK t \in {"OK", "ERROR"} : Send(Message(t))
    BY <1>5 DEF ServerOk, ServerError
  <2> DEFINE m == Message(t)
  <2>2. m \in Sent /\ m.type \in {"OK", "ERROR"} /\ Send(m)
    BY <1>1, <2>1 DEF MessageTypes
  <2> HIDE DEF m
  <2>3. Answering /\ UNCHANGED produced /\ todo' = << >>
    BY <1>2, <1>5 DEF ServerOk, ServerError, AnswerEnds
  <2> QED
    BY <1>0, <2>2, <2>3, AnswerRows
<1>6. CASE ConnectionLost
  <2>1. /\ UNCHANGED <<stmt, res, call, batch, got, raised>> /\ UNCHANGED produced
        /\ ~up' /\ todo' = << >>
    BY <1>6 DEF ConnectionLost, readVars
  <2>2. LastExec' = LastExec
    BY <2>1, SameReader
  <2>3. \A f : Produced(f)' = Produced(f)
    BY <2>1 DEF Produced
  <2>4. \A f \in Executions : Produced(f) \subseteq Produced(f)' /\ Ends(f) \subseteq Ends(f)'
    BY <2>1, <2>3 DEF Ends
  <2>5. ServerRows'
    BY <2>1, <2>2 DEF RInv, ServerRows
  <2>6. SingleSet'
    BY <2>1 DEF RInv, SingleSet, Numbered
  <2> QED
    BY <1>0, <2>1, <2>4, <2>5, <2>6, ServerStep
<1> QED
  BY <1>3, <1>4, <1>5, <1>6, ServerRowRows DEF Server

-----------------------------------------------------------------------------
(***************************************************************************)
(* The application sends a statement.                                      *)
(***************************************************************************)
LEMMA SendRows ==
  ASSUME Careful, RInv, IInv', MaySend, NEW s \in AllStmts, NEW sets, send_raw_message(sets),
         UNCHANGED <<up, phase, pos, produced, line, batch, got, raised>>,
         \A t \in AllStmts \ {s} : stmt'[t] = stmt[t] /\ res'[t] = res[t],
         NEW x, stmt'[s] = x, x.exec = LastExec + 1, NEW r, r = res'[s], r.kind = "none", Absent(r),
         s \in Stmts /\ "BUFFERED" \notin x.flags => sets <= 1,
         NEW c, c = call', Idle' \/ (c.s = s /\ Starts(c, x, r))
  PROVE  RInv'
<1>1. /\ IInv /\ Types /\ ServerRows /\ SingleSet /\ GotRows /\ ResultsRows /\ RestingRows /\ Idle
      /\ batch = << >>
  BY DEF RInv, IInv, MaySend, Types, ReadTyped
<1>2. /\ LastExec \in Nat
      /\ \A t \in AllStmts : stmt[t].exec <= LastExec
      /\ \A f \in Executions : f \in Nat
  BY <1>1, Executed
<1>3. PICK e : e = LastExec + 1
  OBVIOUS
<1>4. e \in Executions /\ e \in Nat /\ e > LastExec
  BY <1>2, <1>3, ResultsAssumption DEF MaySend, Executions
<1>5. LastExec' = e
  <2>1. StmtTyped /\ stmt' \in [AllStmts -> Statements]
    BY <1>1 DEF IInv, Types, StmtTyped
  <2> QED
    BY <1>3, <2>1, LastNext
<1>6. todo = << >> /\ pos.set = 0 /\ (up => line = << >>)
  <2>1. CASE up
    BY <1>1, <2>1, NothingLeft
  <2>2. CASE ~up
    BY <1>1, <2>2 DEF IInv, Tidy
  <2> QED
    BY <2>1, <2>2
<1>7. todo' # << >> => up /\ todo'[1].e = e /\ todo'[1].sets = sets
  <2>1. up => todo' = << [e |-> e, sets |-> sets] >>
    BY <1>3, <1>6 DEF send_raw_message
  <2>2. ~up => todo' = << >>
    BY <1>6 DEF send_raw_message
  <2>3. up => todo'[1] = [e |-> e, sets |-> sets]
    BY <2>1
  <2> QED
    BY <2>2, <2>3
<1>8. produced[e] = << >> /\ got[e] = << >> /\ \A f \in Executions : f > e => f > LastExec
  BY <1>1, <1>2, <1>4 DEF ServerRows
<1>9. \A t \in AllStmts : /\ stmt'[t].exec = e => t = s
                          /\ t # s => stmt'[t] = stmt[t] /\ res'[t] = res[t] /\ stmt'[t].exec # e
  BY <1>2, <1>3, <1>4
<1>10. /\ \A f : Produced(f)' = Produced(f)
       /\ \A f \in Executions \ {e} : Ends(f)' = Ends(f)
  <2>1. \A f : Produced(f)' = Produced(f)
    BY DEF Produced
  <2>2. ASSUME NEW f \in Executions \ {e} PROVE Ends(f)' = Ends(f)
    <3>1. ~(todo' # << >> /\ todo'[1].e = f) /\ ~(todo # << >> /\ todo[1].e = f)
      BY <1>6, <1>7
    <3> QED
      BY <2>1, <3>1 DEF Ends
  <2> QED
    BY <2>1, <2>2
<1>11. pos \in Places
  BY <1>1, ResultsAssumption DEF Types, ServerTyped, Places
<1>12. Produced(e) = {}
  BY <1>8, NoRows DEF Produced
<1>13. stmt'[s].exec = e /\ (~Idle' => c.s = s /\ Starts(c, x, r))
  BY <1>3
<1>14. ServerRows'
  <2>1. (\A f \in Executions : f > LastExec => produced[f] = << >> /\ got[f] = << >>)'
    BY <1>1, <1>5, <1>8 DEF ServerRows
  <2>2. ASSUME todo' # << >>
        PROVE  /\ todo'[1].e = LastExec'
               /\ (\A y \in Produced(todo[1].e) : y.set < pos.set \/ (y.set = pos.set /\ y.n <= pos.n))'
    <3>1. Produced(todo[1].e)' = Produced(e)
      BY <1>7, <2>2 DEF Produced
    <3> QED
      BY <1>5, <1>7, <1>12, <2>2, <3>1
  <2> QED
    BY <2>1, <2>2 DEF ServerRows
<1>15. SingleSet'
  <2> SUFFICES ASSUME NEW t \in Stmts, NEW f \in Executions, stmt'[t].exec = f,
                      "BUFFERED" \notin stmt'[t].flags
               PROVE  /\ Numbered(produced[f], f) /\ Numbered(got[f], f)
                      /\ todo' # << >> /\ todo'[1].e = f =>
                           /\ todo'[1].sets <= 1 /\ pos.set <= 1
                           /\ pos.set = 0 => produced[f] = << >>
                           /\ pos.set = 1 => Len(produced[f]) = pos.n
    BY DEF SingleSet, Numbered
  <2>1. t \in AllStmts
    BY DEF AllStmts
  <2>2. CASE t = s
    <3>1. f = e /\ Numbered(<< >>, e)
      BY <1>13, <2>2, NoRows DEF Numbered
    <3> QED
      BY <1>6, <1>7, <1>8, <2>2, <3>1
  <2>3. CASE t # s
    <3>1. stmt'[t] = stmt[t] /\ f # e
      BY <1>9, <2>1, <2>3
    <3> QED
      BY <1>1, <1>7, <2>3, <3>1 DEF SingleSet
  <2> QED
    BY <2>2, <2>3
<1>16. GotRows'
  BY <1>1, <1>10 DEF GotRows, Delivery!InOrder, Delivery!Follows
<1>17. ResultsRows'
  <2> SUFFICES ASSUME NEW t \in AllStmts
               PROVE  /\ Absent(res'[t]) /\ KindFits(res'[t], stmt'[t])
                      /\ \A f \in Executions : stmt'[t].exec = f /\ res'[t].kind # "none" =>
                           ResultRows(res'[t], f, got[f], Produced(f), Ends(f)')
    BY <1>10, Zenon DEF ResultsRows, Absent, KindFits
  <2>1. CASE t = s
    BY <2>1 DEF KindFits
  <2>2. CASE t # s
    <3>1. res'[t] = res[t] /\ stmt'[t] = stmt[t] /\ stmt'[t].exec # e
      BY <1>9, <2>2
    <3>2. Absent(res[t]) /\ KindFits(res[t], stmt[t])
      BY <1>1, Zenon DEF ResultsRows, Absent, KindFits
    <3>3. ASSUME NEW f \in Executions, stmt[t].exec = f, res[t].kind # "none"
          PROVE  ResultRows(res[t], f, got[f], Produced(f), Ends(f)')
      <4>1. Ends(f)' = Ends(f)
        BY <1>10, <3>1, <3>3
      <4>2. ResultRows(res[t], f, got[f], Produced(f), Ends(f))
        BY <1>1, <3>3, Zenon DEF ResultsRows
      <4> QED
        BY <4>1, <4>2, Zenon
    <3> QED
      BY <3>1, <3>2, <3>3, Zenon
  <2> QED
    BY <2>1, <2>2
<1>18. RestingRows'
  <2> SUFFICES ASSUME NEW t \in AllStmts, NEW f \in Executions,
                      stmt'[t].exec = f /\ res'[t].kind = "fwd"
               PROVE  ForwardEnds(res'[t], stmt'[t], got[f], Ends(f)')
    BY Zenon DEF RestingRows
  <2>1. t # s
    OBVIOUS
  <2>2. res'[t] = res[t] /\ stmt'[t] = stmt[t] /\ Ends(f)' = Ends(f)
    BY <1>9, <1>10, <2>1
  <2>3. ForwardEnds(res[t], stmt[t], got[f], Ends(f))
    BY <1>1, <2>2, Zenon DEF RestingRows
  <2> QED
    BY <2>2, <2>3, Zenon
<1>19. ReadRows'
  <2> SUFFICES ASSUME NEW f \in Executions, ~Idle', stmt'[call'.s].exec = f
               PROVE  CallRows(call', stmt'[call'.s], res'[call'.s], got[f], Produced(f), Ends(f)')
    BY <1>10, Zenon DEF ReadRows, Reader
  <2>1. call'.s = s /\ Starts(c, x, r)
    BY <1>13
  <2>2. PICK q, P, E : q = got[f] /\ P = Produced(f) /\ E = Ends(f)'
    OBVIOUS
  <2>3. CallRows(c, x, r, q, P, E)
    BY <2>1, StartRows
  <2> QED
    BY <2>1, <2>2, <2>3, Zenon
<1>20. Placed'
  <2> SUFFICES ASSUME up
               PROVE  \E a \in Places :
                        /\ Way(e, a, << >>, << >>, Produced(e), Ends(e)', todo', pos)
                        /\ \A t \in AllStmts : stmt'[t].exec = e =>
                             /\ Near(a, res'[t], << >>)
                             /\ Idle' => AtRest(a, res'[t], stmt'[t])
                             /\ ~Idle' => AtCall(a, call', stmt'[t], << >>)
    BY <1>1, <1>5, <1>6, <1>8, <1>10, ZenonT(40) DEF Placed
  <2>1. Way(e, pos, << >>, << >>, Produced(e), Ends(e)', todo', pos)
    <3>1. PICK P, E, td : P = Produced(e) /\ E = Ends(e)' /\ td = todo'
      OBVIOUS
    <3>2. Way(e, pos, << >>, << >>, P, E, td, pos)
      BY <1>11, WalkNowhere DEF Way
    <3> QED
      BY <3>1, <3>2, Zenon
  <2>2. /\ Near(pos, r, << >>) /\ AtRest(pos, r, x)
        /\ ~Idle' => AtCall(pos, c, x, << >>)
    <3>1. r.rows = << >>
      BY DEF Absent
    <3>2. Near(pos, r, << >>)
      BY <3>1, NoRows DEF Near
    <3>3. AtRest(pos, r, x)
      BY DEF AtRest
    <3>4. ~Idle' => AtCall(pos, c, x, << >>)
      BY <1>13, StartRows
    <3> QED
      BY <3>2, <3>3, <3>4
  <2>3. ASSUME NEW t \in AllStmts, stmt'[t].exec = e
        PROVE  /\ Near(pos, res'[t], << >>)
               /\ Idle' => AtRest(pos, res'[t], stmt'[t])
               /\ ~Idle' => AtCall(pos, call', stmt'[t], << >>)
    BY <1>9, <2>2, <2>3, Zenon
  <2> QED
    BY <1>11, <2>1, <2>3, Zenon
<1> QED
  BY <1>14, <1>15, <1>16, <1>17, <1>18, <1>19, <1>20 DEF RInv

LEMMA executeRows ==
  ASSUME Careful, RInv, NEW s \in Stmts, NEW flags \in Flags, execute(s, flags)
  PROVE  RInv'
<1> DEFINE st == [NewStmt EXCEPT !.exec = LastExec + 1, !.flags = flags,
                    !.send_query_status = TRUE, !.unread = "ASYNC" \in flags]
           sets == IF "BUFFERED" \in flags THEN MaxSets ELSE FwdSets
<1>0. IInv /\ IInv' /\ Types /\ Types' /\ MaySend /\ s \in AllStmts
  BY executeKeeps DEF RInv, IInv, execute, AllStmts
<1>1. /\ UNCHANGED <<up, phase, pos, produced, line, batch, got, raised>>
      /\ res' = [res EXCEPT ![s] = NoResult] /\ send_raw_message(sets)
  BY DEF execute
<1>2. res'[s] = NoResult /\ \A t \in AllStmts \ {s} : res'[t] = res[t]
  BY <1>0, <1>1 DEF Types, GotTyped
<1> DEFINE r == res'[s]
           c == call'
<1>3. r.kind = "none" /\ Absent(r)
  BY <1>2 DEF NoResult, Absent
<1>4. "BUFFERED" \notin flags => sets <= 1
  BY DEF Careful
<1>5. LastExec + 1 \in 0..MaxExec
  BY <1>0, LastIs, ResultsAssumption DEF Types, MaySend
<1>6. st \in Statements /\ st.exec = LastExec + 1 /\ ~st.partial_read_started /\ st.flags = flags
  <2>1. NewStmt \in Statements /\ ("ASYNC" \in flags) \in BOOLEAN
    BY StmtTypes
  <2>2. ~NewStmt.partial_read_started
    BY DEF NewStmt
  <2> HIDE DEF NewStmt
  <2> QED
    BY <1>5, <2>1, <2>2 DEF Statements
<1>7. \/ stmt' = [stmt EXCEPT ![s] = st] /\ UNCHANGED call
      \/ get_result(s, st, "stmt")
  BY DEF execute
<1> HIDE DEF st, sets
<1>8. CASE stmt' = [stmt EXCEPT ![s] = st] /\ UNCHANGED call
  <2>1. stmt'[s] = st /\ \A t \in AllStmts \ {s} : stmt'[t] = stmt[t]
    BY <1>0, <1>6, <1>8, StmtSet DEF Types
  <2>2. Idle'
    BY <1>0, <1>8 DEF MaySend, Idle
  <2> HIDE DEF r, c
  <2> QED
    BY <1>0, <1>1, <1>2, <1>3, <1>4, <1>6, <2>1, <2>2, SendRows DEF r, c
<1>9. CASE get_result(s, st, "stmt")
  <2>1. PICK x \in Statements :
           /\ stmt' = [stmt EXCEPT ![s] = x] /\ x.exec = st.exec /\ NoMore(x)
           /\ call'.s = s /\ call'.ret = "AGAIN" /\ call'.op \in {"buffered", "fwd"}
           /\ x.flags = st.flags /\ call'.rows = << >>
           /\ (call'.op = "buffered" <=> "BUFFERED" \in st.flags)
    BY <1>0, <1>6, <1>9, GetResultStarts
  <2>2. stmt'[s] = x /\ \A t \in AllStmts \ {s} : stmt'[t] = stmt[t]
    BY <1>0, <2>1, StmtSet DEF Types
  <2>3. c.s = s /\ Starts(c, x, r)
    BY <1>3, <2>1 DEF Starts, NoMore
  <2> HIDE DEF r, c
  <2> QED
    BY <1>0, <1>1, <1>2, <1>3, <1>4, <1>6, <2>1, <2>2, <2>3, SendRows DEF r, c
<1> QED
  BY <1>7, <1>8, <1>9

LEMMA admin_queryRows ==
  ASSUME Careful, RInv, NEW op \in {"query", "query_cb"}, admin_query(op)
  PROVE  RInv'
<1> DEFINE st == [NewStmt EXCEPT !.exec = LastExec + 1, !.send_query_status = TRUE]
           r == res'[Admin]
           c == call'
<1>0. IInv /\ IInv' /\ Types /\ MaySend /\ Admin \in AllStmts /\ Admin \notin Stmts
  BY admin_queryKeeps, ResultsAssumption DEF RInv, IInv, admin_query, AllStmts
<1>1. /\ UNCHANGED <<up, phase, pos, produced, line, batch, got, raised, res>>
      /\ stmt' = [stmt EXCEPT ![Admin] = st] /\ call' = Read(op, Admin, "stmt")
  BY DEF admin_query
<1>2. PICK sets : send_raw_message(sets)
  BY DEF admin_query
<1>3. LastExec + 1 \in 0..MaxExec
  BY <1>0, LastIs, ResultsAssumption DEF Types, MaySend
<1>4. st \in Statements /\ st.exec = LastExec + 1 /\ ~st.has_more_rows_in_set
  <2>1. NewStmt \in Statements /\ ~NewStmt.has_more_rows_in_set
    BY StmtTypes DEF NewStmt
  <2> HIDE DEF NewStmt
  <2> QED
    BY <1>3, <2>1 DEF Statements
<1> HIDE DEF st
<1>5. stmt'[Admin] = st /\ \A t \in AllStmts \ {Admin} : stmt'[t] = stmt[t] /\ res'[t] = res[t]
  BY <1>0, <1>1, <1>4, StmtSet DEF Types
<1>6. r.kind = "none" /\ Absent(r)
  <2>1. r = res[Admin] /\ r.kind = "none"
    BY <1>0, <1>1 DEF IInv, OneForwardResult
  <2> QED
    BY <1>0, <2>1 DEF RInv, ResultsRows, Absent
<1>7. c.s = Admin /\ Starts(c, st, r)
  <2>1. c.s = Admin /\ c.op = op /\ c.rows = << >> /\ c.ret = "AGAIN"
    BY <1>1 DEF Read, NoCall
  <2> QED
    BY <1>4, <1>6, <2>1 DEF Starts
<1> HIDE DEF r, c
<1> QED
  BY <1>0, <1>1, <1>2, <1>4, <1>5, <1>6, <1>7, SendRows DEF r, c

-----------------------------------------------------------------------------
LEMMA InitRows ==
  ASSUME Init
  PROVE  RInv
<1>1. /\ IInv /\ Types /\ todo = << >> /\ Idle /\ line = << >> /\ batch = << >>
      /\ \A f \in Executions : produced[f] = << >> /\ got[f] = << >>
      /\ \A s \in AllStmts : stmt[s] = NewStmt /\ res[s] = NoResult
  BY InitKeeps DEF Init, IInv, NoCall, Idle
<1>2. /\ NewStmt.exec = 0 /\ NoResult.kind = "none" /\ NoResult.rows = << >>
      /\ NoResult.row_cursor = 0 /\ NoResult.use = "none"
  BY DEF NewStmt, NoResult
<1>3. \A f \in Executions : f # 0
  BY ResultsAssumption DEF Executions
<1>4. ServerRows /\ SingleSet
  BY <1>1, <1>2, <1>3 DEF ServerRows, SingleSet, AllStmts
<1>5. GotRows
  <2>1. Delivery!InOrder(<< >>)
    BY NoRows DEF Delivery!InOrder
  <2> QED
    BY <1>1, <2>1, NoRows DEF GotRows
<1>6. ResultsRows /\ RestingRows /\ ReadRows
  BY <1>1, <1>2 DEF ResultsRows, RestingRows, ReadRows
<1>7. LastExec = 0
  BY <1>1, <1>2, LastIs DEF Types
<1>8. Placed
  BY <1>3, <1>7 DEF Placed
<1> QED
  BY <1>1, <1>4, <1>5, <1>6, <1>8 DEF RInv

LEMMA StutterRows ==
  ASSUME RInv, UNCHANGED vars
  PROVE  RInv'
<1>1. /\ UNCHANGED <<stmt, res, call, batch, got, raised>>
      /\ todo' = todo /\ phase' = phase /\ pos' = pos /\ produced' = produced /\ up' = up
      /\ line' = line /\ UNCHANGED serverVars
  BY DEF vars, serverVars, readVars
<1>2. /\ IInv /\ IInv' /\ LastExec' = LastExec
      /\ \A f : Produced(f)' = Produced(f) /\ Ends(f)' = Ends(f)
  BY <1>1, StutterKeeps, SameReader, SameServer DEF RInv
<1>3. ServerRows'
  <2>1. Produced(todo[1].e)' = Produced(todo[1].e)
    BY <1>1 DEF Produced
  <2> QED
    BY <1>1, <1>2, <2>1 DEF RInv, ServerRows
<1>4. SingleSet'
  BY <1>1 DEF RInv, SingleSet, Numbered
<1>5. \A f \in Executions, a \in Places :
        Way(f, a, batch, line, Produced(f), Ends(f), todo, pos) =>
          Way(f, a, batch, line', Produced(f)', Ends(f)', todo', pos')
  BY <1>1, <1>2, Zenon
<1>6. \A f \in Executions : Produced(f) \subseteq Produced(f)' /\ Ends(f) \subseteq Ends(f)'
  BY <1>2, Zenon
<1> QED
  BY <1>1, <1>2, <1>3, <1>4, <1>5, <1>6, ServerStep

LEMMA RowsInvariance ==
  ASSUME Careful
  PROVE  Spec => []RInv
<1>1. Init => RInv
  BY InitRows
<1>2. RInv /\ [Next]_vars => RInv'
  <2> SUFFICES ASSUME RInv, [Next]_vars PROVE RInv'
    OBVIOUS
  <2>1. CASE Server \/ ConnectionLost
    BY <2>1, ServerActsRows
  <2>2. CASE receive
    BY <2>2, receiveRows
  <2>3. CASE Process
    BY <2>3, ProcessRows
  <2>4. CASE Return
    BY <2>4, ReturnRows
  <2>5. CASE Application
    BY <2>5, executeRows, admin_queryRows, FurtherReadRows, FetchRows DEF Application
  <2>6. CASE UNCHANGED vars
    BY <2>6, StutterRows
  <2> QED
    BY <2>1, <2>2, <2>3, <2>4, <2>5, <2>6 DEF Next
<1> QED
  BY <1>1, <1>2, PTL DEF Spec

-----------------------------------------------------------------------------
(***************************************************************************)
(* RowDelivery is implemented: what every step does to the rows that were  *)
(* sent and given.                                                         *)
(***************************************************************************)
LEMMA StartOf ==
  ASSUME NEW q \in Seq(Rows), NEW rows \in Seq(Rows), NEW p, Extends(p, q, rows)
  PROVE  SubSeq(p, 1, Len(q)) = q /\ Len(p) = Len(q) + Len(rows)
<1>1. /\ p \in Seq(Rows) /\ Len(p) = Len(q) + Len(rows) /\ Len(q) \in Nat /\ Len(rows) \in Nat
      /\ \A i \in 1..Len(q) : p[i] = q[i]
  BY LenProperties DEF Extends
<1>2. Len(q) \in 0..Len(p)
  BY <1>1
<1>3. /\ SubSeq(p, 1, Len(q)) \in Seq(Rows) /\ Len(SubSeq(p, 1, Len(q))) = Len(q)
      /\ \A i \in 1..Len(q) : SubSeq(p, 1, Len(q))[i] = p[i]
  BY <1>1, <1>2, CutAt
<1>4. SubSeq(p, 1, Len(q)) = q
  <2> DEFINE z == SubSeq(p, 1, Len(q))
  <2>1. z \in Seq(Rows) /\ Len(z) = Len(q) /\ \A i \in 1..Len(z) : z[i] = q[i]
    BY <1>1, <1>3
  <2> HIDE DEF z
  <2>2. z = q
    BY <2>1, SeqEqual
  <2> QED
    BY <2>2 DEF z
<1> QED
  BY <1>1, <1>4

\* Rows are given to the application, and none is sent.
Gives ==
  /\ produced' = produced
  /\ \E e \in Executions, rows \in Seq(Rows), p \in Seq(Rows) :
       got' = [got EXCEPT ![e] = p] /\ Extends(p, got[e], rows)

LEMMA GivesDelivers ==
  ASSUME RInv, RInv', Gives
  PROVE  [Delivery!Next]_(Delivery!vars)
<1>1. PICK e \in Executions, rows \in Seq(Rows), p \in Seq(Rows) :
        got' = [got EXCEPT ![e] = p] /\ Extends(p, got[e], rows)
  BY DEF Gives
<1>2. got \in [Executions -> Seq(Rows)] /\ got[e] \in Seq(Rows) /\ got'[e] = p /\ produced' = produced
  BY <1>1 DEF RInv, IInv, Types, GotTyped, Gives
<1>3. CASE rows = << >>
  <2>1. p = got[e]
    BY <1>1, <1>2, <1>3, ExtendsEnds
  <2>2. got' = got
    BY <1>1, <1>2, <2>1
  <2> QED
    BY <1>2, <2>2 DEF Delivery!vars
<1>4. CASE rows # << >>
  <2>1. /\ SubSeq(p, 1, Len(got[e])) = got[e] /\ Len(p) = Len(got[e]) + Len(rows)
        /\ Len(got[e]) \in Nat /\ Len(rows) \in Nat /\ Len(rows) # 0
    BY <1>1, <1>2, <1>4, StartOf, LenProperties, EmptyIs
  <2>2. Len(got'[e]) > Len(got[e]) /\ SubSeq(got'[e], 1, Len(got[e])) = got[e]
    BY <1>2, <2>1
  <2>3. Delivery!InOrder(p) /\ \A i \in 1..Len(p) : p[i] \in Produced(e)'
    <3>1. \A z : z = got'[e] => Delivery!InOrder(z) /\ \A i \in 1..Len(z) : z[i] \in Produced(e)'
      BY DEF RInv, GotRows, Delivery!InOrder, Delivery!Follows
    <3> QED
      BY <1>2, <3>1
  <2>4. Delivery!IsAmong(p, produced[e])
    BY <1>2, <2>3 DEF Delivery!IsAmong, Produced
  <2>5. got' = [got EXCEPT ![e] = got'[e]]
    BY <1>1, <1>2
  <2>6. Delivery!Deliver(e)
    BY <1>2, <2>2, <2>3, <2>4, <2>5 DEF Delivery!Deliver
  <2> QED
    BY <2>6 DEF Delivery!Next
<1> QED
  BY <1>3, <1>4

\* A row is sent.
LEMMA ServerRowProduces ==
  ASSUME RInv, ServerRow
  PROVE  /\ [Delivery!Next]_(Delivery!vars)
         /\ \E e \in Executions, r \in Rows :
              r.e = e /\ produced' = [produced EXCEPT ![e] = Append(produced[e], r)]
<1>0. IInv' /\ Answering
  BY ServerKeeps DEF RInv, Server, ServerRow
<1>1. PICK e : e = LastExec
  OBVIOUS
<1>2. e \in Executions /\ Head(todo).e = e /\ pos.set \in Nat /\ pos.n \in Nat
  BY <1>0, <1>1, Answers DEF ServerRow
<1> DEFINE r == Row(e, pos.set, pos.n + 1)
           p == Append(produced[e], r)
<1>3. produced' = [produced EXCEPT ![e] = p] /\ got' = got
  BY <1>2 DEF ServerRow, Send
<1>4. produced \in [Executions -> Seq(Rows)] /\ produced[e] \in Seq(Rows)
  BY <1>2 DEF RInv, IInv, Types, ServerTyped
<1>5. r.e = e
  BY RowParts
<1>6. r \in Rows
  <2>1. pos'.set \in 0..MaxSets /\ pos'.n \in 1..MaxRows /\ pos'.set = pos.set /\ pos'.n = pos.n + 1
        /\ pos'.set > 0
    <3>1. pos \in [set : 0..MaxSets, n : 0..MaxRows] /\ pos' \in [set : 0..MaxSets, n : 0..MaxRows]
          /\ pos.set > 0
      BY <1>0 DEF RInv, IInv, Types, ServerTyped, ServerRow
    <3>2. pos'.set = pos.set /\ pos'.n = pos.n + 1
      BY <3>1 DEF ServerRow
    <3> QED
      BY <1>2, <3>1, <3>2, ResultsAssumption
  <2> QED
    BY <1>2, <2>1, ResultsAssumption DEF Row, Rows
<1> HIDE DEF r
<1>7. Extends(p, produced[e], << r >>) /\ Len(<< r >>) = 1 /\ << r >> \in Seq(Rows)
  BY <1>4, <1>6, AppendExtends
<1>8. SubSeq(p, 1, Len(produced[e])) = produced[e] /\ Len(p) = Len(produced[e]) + 1
  <2> DEFINE rows == << r >>
             q == produced[e]
  <2>1. q \in Seq(Rows) /\ rows \in Seq(Rows) /\ Extends(p, q, rows) /\ Len(rows) = 1
    BY <1>4, <1>7
  <2> HIDE DEF rows, q, p
  <2>2. SubSeq(p, 1, Len(q)) = q /\ Len(p) = Len(q) + Len(rows)
    BY <2>1, StartOf
  <2>3. SubSeq(p, 1, Len(q)) = q /\ Len(p) = Len(q) + 1
    BY <2>1, <2>2, Zenon
  <2> QED
    BY <2>3 DEF q
<1> HIDE DEF p
<1>9. produced'[e] = p
  BY <1>2, <1>3, <1>4
<1>10. Delivery!Produce(e)
  BY <1>3, <1>8, <1>9 DEF Delivery!Produce
<1> QED
  BY <1>2, <1>3, <1>5, <1>6, <1>10 DEF Delivery!Next, p

LEMMA GiveGives ==
  ASSUME RInv, NEW s \in AllStmts, stmt[s].exec # 0, NEW rows \in Seq(Rows), Give(s, rows),
         UNCHANGED serverVars
  PROVE  Gives
<1>1. stmt[s].exec \in Executions /\ got[stmt[s].exec] \in Seq(Rows)
  BY ResultsAssumption DEF RInv, IInv, Types, StmtTyped, GotTyped, Statements, Executions
<1>2. got' = [got EXCEPT ![stmt[s].exec] = got[stmt[s].exec] \o rows]
  BY DEF Give
<1>3. PICK p : p = got[stmt[s].exec] \o rows
  OBVIOUS
<1>4. Extends(p, got[stmt[s].exec], rows)
  BY <1>1, <1>3, ConcatExtends
<1>5. p \in Seq(Rows)
  BY <1>4 DEF Extends
<1>6. produced' = produced
  BY DEF serverVars
<1> QED
  BY <1>1, <1>2, <1>3, <1>4, <1>5, <1>6, Zenon DEF Gives

LEMMA Steps ==
  ASSUME RInv, Next
  PROVE  (produced' = produced /\ got' = got) \/ Gives \/ ServerRow
<1>1. Types /\ IInv
  BY DEF RInv, IInv
<1>2. CASE Server \/ ConnectionLost \/ receive
  BY <1>2 DEF Server, ServerMeta, ServerSetDone, ServerNotice, ServerOk, ServerError, Send,
              ConnectionLost, receive, serverVars
<1>3. CASE Process
  <2>1. CASE Process /\ ~on_RSET_ROW
    BY <2>1 DEF Process, on_COLUMN_META, on_RSET_FETCH_DONE, on_RSET_FETCH_DONE_MORE_RSETS,
                on_STMT_EXECUTE_OK, on_ERROR, on_NOTICE, Processed, serverVars
  <2>2. CASE on_RSET_ROW
    <3>1. produced' = produced
      BY <2>2 DEF on_RSET_ROW, Processed, serverVars
    <3> DEFINE e == Reader.exec
               r == Head(batch).row
    <3>2. got' = got \/ got' = [got EXCEPT ![e] = Append(got[e], r)]
      BY <2>2 DEF on_RSET_ROW, handler_on_row_field
    <3>3. batch # << >> /\ Head(batch) \in Sent /\ Head(batch).type = "ROW"
      BY <1>1, <2>2, TailElements DEF on_RSET_ROW, Processing, Types, LineTyped
    <3>4. r \in Rows
      BY <3>3 DEF Sent
    <3>5. e \in Executions /\ got[e] \in Seq(Rows)
      BY <1>1, <3>3 DEF Types, ReadTyped, GotTyped
    <3> HIDE DEF e, r
    <3>6. PICK p : p = Append(got[e], r)
      OBVIOUS
    <3>7. Extends(p, got[e], << r >>) /\ << r >> \in Seq(Rows)
      BY <3>4, <3>5, <3>6, AppendExtends
    <3>8. p \in Seq(Rows)
      BY <3>7 DEF Extends
    <3> QED
      BY <3>1, <3>2, <3>5, <3>6, <3>7, <3>8, Zenon DEF Gives
  <2> QED
    BY <1>3, <2>1, <2>2
<1>4. CASE Return
  <2>1. CASE buffered_result \/ fwd_result \/ prefetch_done \/ callbacks_done \/ query_done
             \/ query_cb_done
    BY <2>1 DEF buffered_result, fwd_result, prefetch_done, callbacks_done, query_done,
                query_cb_done, Settled, Again, serverVars
  <2>2. ~Idle => /\ call.s \in AllStmts /\ stmt[call.s].exec # 0 /\ call.rows \in Seq(Rows)
    BY <1>1, ReaderIs, ResultsAssumption DEF Types, ReadTyped, Reader, Executions, Reads
  <2>3. CASE iterator_prefetched
    <3>1. ~Idle /\ UNCHANGED serverVars
      BY <2>3 DEF iterator_prefetched, Returned, Settled
    <3> DEFINE more == Passed /\ call.rows # << >>
               rows == IF more THEN << Head(call.rows) >> ELSE << >>
    <3>2. Give(call.s, rows)
      BY <2>3 DEF iterator_prefetched
    <3>3. rows \in Seq(Rows)
      <4>1. call.rows # << >> => Head(call.rows) \in Rows
        BY <2>2, <3>1, TailElements
      <4> QED
        BY <4>1
    <3> HIDE DEF rows
    <3> QED
      BY <2>2, <3>1, <3>2, <3>3, GiveGives
  <2>4. CASE fetchAll_done
    <3>1. ~Idle /\ UNCHANGED serverVars /\ produced' = produced
      BY <2>4 DEF fetchAll_done, Returned, Settled, serverVars
    <3> QED
      BY <2>2, <2>4, <3>1, GiveGives DEF fetchAll_done
  <2> QED
    BY <1>4, <2>1, <2>3, <2>4 DEF Return
<1>5. CASE Application
  <2>1. ASSUME NEW s \in Stmts, fetchOne(s) \/ fetchAll(s) \/ iterator_rewind(s) \/ iterator_next(s)
        PROVE  (produced' = produced /\ got' = got) \/ Gives
    <3>1. /\ s \in AllStmts /\ stmt[s].exec # 0 /\ UNCHANGED serverVars /\ produced' = produced
          /\ res[s] \in Results /\ res[s].rows \in Seq(Rows) /\ res[s].row_cursor \in Nat
          /\ Len(res[s].rows) \in Nat
      <4>1. /\ s \in AllStmts /\ UNCHANGED serverVars /\ produced' = produced /\ res[s].rowset
        BY <2>1 DEF AllStmts, fetchOne, fetchAll, iterator_rewind, iterator_next, Usable, serverVars
      <4>2. stmt[s].exec # 0 /\ res[s] \in Results
        BY <1>1, <4>1 DEF Types, Untouched, GotTyped
      <4>3. res[s].rows \in Seq(Rows) /\ res[s].row_cursor \in Nat
        BY <4>2 DEF Results
      <4> QED
        BY <4>1, <4>2, <4>3, LenProperties
    <3>2. ASSUME NEW i \in Nat, 0 < i, i <= Len(res[s].rows)
          PROVE  << res[s].rows[i] >> \in Seq(Rows)
      <4>1. i \in 1..Len(res[s].rows)
        BY <3>1, <3>2
      <4>2. res[s].rows[i] \in Rows
        BY <3>1, <4>1, ElementOfSeq
      <4> QED
        BY <4>2
    <3>3. CASE fetchOne(s) \/ iterator_rewind(s)
      <4> DEFINE i == res[s].row_cursor + 1
      <4>1. Give(s, << res[s].rows[i] >>) /\ i \in Nat /\ 0 < i /\ i <= Len(res[s].rows)
        BY <3>1, <3>3 DEF fetchOne, iterator_rewind, HasCurrent, Current
      <4> HIDE DEF i
      <4>2. << res[s].rows[i] >> \in Seq(Rows)
        BY <3>2, <4>1
      <4> QED
        BY <3>1, <4>1, <4>2, GiveGives
    <3>4. CASE iterator_next(s)
      <4> DEFINE i == res[s].row_cursor + 2
                 more == i <= Len(res[s].rows)
                 rows == IF more THEN << res[s].rows[i] >> ELSE << >>
      <4>1. got' = got \/ Give(s, rows)
        BY <3>4 DEF iterator_next
      <4>2. i \in Nat /\ 0 < i
        BY <3>1
      <4>3. rows \in Seq(Rows)
        <5>1. more => << res[s].rows[i] >> \in Seq(Rows)
          BY <3>2, <4>2
        <5> QED
          BY <5>1, NoRows
      <4> HIDE DEF rows
      <4> QED
        BY <3>1, <4>1, <4>3, GiveGives
    <3>5. CASE fetchAll(s)
      BY <3>1, <3>5, GiveGives DEF fetchAll
    <3> QED
      BY <2>1, <3>3, <3>4, <3>5
  <2>2. ASSUME NEW s \in Stmts, \/ \E flags \in Flags : execute(s, flags)
                                \/ getNextResult(s) \/ getNextResult_callbacks(s) \/ nextResult(s)
        PROVE  produced' = produced /\ got' = got
    BY <2>2 DEF execute, getNextResult, getNextResult_callbacks, nextResult, serverVars
  <2>3. ASSUME NEW op, admin_query(op)
        PROVE  produced' = produced /\ got' = got
    BY <2>3 DEF admin_query
  <2> QED
    BY <1>5, <2>1, <2>2, <2>3 DEF Application
<1> QED
  BY <1>2, <1>3, <1>4, <1>5 DEF Next

\* Reading implements RowDelivery when the application is careful: buffered, prefetched or by
\* callbacks, every row of an execution is given once and in order (handler_on_row_field,
\* fetchOne, fetchAll and the iterator).
THEOREM ReadingDeliversInOrder ==
  ASSUME Careful
  PROVE  Spec => RowsInOrder
<1>1. Init => Delivery!Init
  BY DEF Init, Delivery!Init
<1>2. RInv /\ RInv' /\ [Next]_vars => [Delivery!Next]_(Delivery!vars)
  <2> SUFFICES ASSUME RInv, RInv', [Next]_vars PROVE [Delivery!Next]_(Delivery!vars)
    OBVIOUS
  <2>1. CASE UNCHANGED <<produced, got>>
    BY <2>1 DEF Delivery!vars
  <2>2. CASE Next
    BY <2>2, Steps, GivesDelivers, ServerRowProduces DEF Delivery!vars
  <2> QED
    BY <2>1, <2>2 DEF vars, serverVars
<1> QED
  BY <1>1, <1>2, RowsInvariance, PTL DEF Spec, Delivery!Spec, RowsInOrder

-----------------------------------------------------------------------------
(***************************************************************************)
(* What a result holds at its end.                                         *)
(***************************************************************************)
LEMMA AllGivenAtEof ==
  ASSUME RInv
  PROVE  NothingLostAtEof
<1>0. ASSUME \A s \in Stmts :
               Idle /\ res[s].kind = "fwd" /\ eof(s) /\ res[s].use \in {"one", "iter"}
                 => got[stmt[s].exec] = produced[stmt[s].exec]
      PROVE  NothingLostAtEof
  BY <1>0 DEF NothingLostAtEof
<1> SUFFICES ASSUME NEW s \in Stmts, Idle, res[s].kind = "fwd", eof(s), res[s].use \in {"one", "iter"}
             PROVE  got[stmt[s].exec] = produced[stmt[s].exec]
  BY <1>0
<1>1. s \in AllStmts /\ stmt[s].exec \in Executions
  BY ResultsAssumption DEF RInv, IInv, Types, StmtTyped, Untouched, Statements, Executions, AllStmts
<1>2. PICK e \in Executions : e = stmt[s].exec
  BY <1>1
<1> DEFINE q == got[e]
           p == produced[e]
           r == res[s]
<1>3. /\ q \in Seq(Rows) /\ p \in Seq(Rows) /\ Len(q) \in Nat /\ Len(p) \in Nat
      /\ r.rows \in Seq(Rows) /\ Len(r.rows) \in Nat /\ r.row_cursor \in Nat
  <2>1. q \in Seq(Rows) /\ p \in Seq(Rows) /\ r \in Results
    BY <1>1 DEF RInv, IInv, Types, ServerTyped, GotTyped
  <2>2. r.rows \in Seq(Rows) /\ r.row_cursor \in Nat
    BY <2>1 DEF Results
  <2> QED
    BY <2>1, <2>2, LenProperties
<1>4. Numbered(p, e) /\ Numbered(q, e)
  BY <1>1, <1>2 DEF RInv, ResultsRows, SingleSet
<1>5. /\ ResultRows(r, e, q, Produced(e), Ends(e))
      /\ ForwardEnds(r, stmt[s], q, Ends(e))
  BY <1>1, <1>2 DEF RInv, ResultsRows, RestingRows
<1>6. r.row_cursor >= Len(r.rows) /\ ~stmt[s].has_more_rows_in_set
  BY <1>5 DEF eof, ResultRows
<1>7. r.use = "one" /\ q # << >>
  BY <1>3, <1>5, <1>6 DEF ResultRows, ForwardEnds
<1>8. PlaceOf(LastRow(q)) \in Ends(e)
  <2>1. CASE r.rows = << >>
    BY <1>5, <1>6, <1>7, <2>1 DEF ForwardEnds
  <2>2. CASE r.rows # << >>
    <3>1. Len(r.rows) # 0
      BY <1>3, <2>2, EmptyIs
    <3>2. r.row_cursor # 0
      BY <1>3, <1>6, <3>1
    <3>3. r.row_cursor <= Len(r.rows) /\ LastRow(q) = r.rows[r.row_cursor]
      BY <1>5, <1>7, <3>2 DEF ResultRows
    <3>4. r.row_cursor = Len(r.rows)
      BY <1>3, <1>6, <3>3
    <3>5. LastRow(q) = LastRow(r.rows)
      BY <3>3, <3>4 DEF LastRow
    <3>6. PlaceOf(LastRow(r.rows)) \in Ends(e)
      BY <1>5, <1>6, <1>7, <2>2 DEF ForwardEnds
    <3> QED
      BY <3>5, <3>6
  <2> QED
    BY <2>1, <2>2
<1> HIDE DEF q, p, r
<1>9. Len(q) # 0 /\ Len(q) \in 1..Len(q) /\ LastRow(q) = Row(e, 1, Len(q))
  <2>1. Len(q) # 0
    BY <1>3, <1>7, EmptyIs
  <2>2. Len(q) \in 1..Len(q)
    BY <1>3, <2>1
  <2> QED
    BY <1>4, <2>1, <2>2 DEF Numbered, LastRow
<1>10. ASSUME NEW i \in 1..Len(p)
       PROVE  i <= Len(q)
  <2>1. p[i] = Row(e, 1, i) /\ p[i] \in Produced(e)
    BY <1>4 DEF Numbered, Produced, p
  <2>2. \A c \in Ends(e), x \in Produced(e) : x.set = c.set => x.n <= c.n
    BY DEF Ends
  <2>3. PlaceOf(LastRow(q)).set = 1 /\ PlaceOf(LastRow(q)).n = Len(q)
    BY <1>9, RowParts DEF PlaceOf
  <2>4. p[i].set = 1 /\ p[i].n = i
    BY <2>1, RowParts
  <2> QED
    BY <1>8, <2>1, <2>2, <2>3, <2>4
<1>11. Len(q) \in 1..Len(p)
  <2>1. q[Len(q)] \in Produced(e)
    BY <1>2, <1>9 DEF RInv, GotRows, q
  <2>2. PICK j \in 1..Len(p) : q[Len(q)] = p[j]
    BY <2>1 DEF Produced, p
  <2>3. Row(e, 1, Len(q)) = Row(e, 1, j)
    BY <1>4, <1>9, <2>2 DEF Numbered, LastRow
  <2>4. Len(q) = j
    BY <2>3, RowParts
  <2> QED
    BY <2>2, <2>4
<1>12. Len(q) = Len(p)
  <2>1. Len(p) # 0 /\ Len(p) \in 1..Len(p)
    BY <1>3, <1>11
  <2>2. Len(p) <= Len(q)
    BY <1>10, <2>1
  <2> QED
    BY <1>3, <1>11, <2>2
<1>13. \A i \in 1..Len(q) : q[i] = p[i]
  BY <1>4, <1>12 DEF Numbered
<1>14. q = p
  BY <1>3, <1>12, <1>13, SeqEqual
<1> QED
  BY <1>2, <1>14 DEF q, p

\* When a forward only result is at eof, every row the server sent for the execution has been
\* given to the application: rows prefetched around the end of the set (fetch_rows, prefetch
\* counter, has_more_rows_in_set) are neither lost nor given again.
THEOREM NothingLostAtEofHolds ==
  ASSUME Careful
  PROVE  Spec => []NothingLostAtEof
BY AllGivenAtEof, RowsInvariance, PTL

\* The rows of an execution carry its number.
Own == \A e \in Executions : \A i \in 1..Len(produced[e]) : produced[e][i].e = e

LEMMA OwnInvariance ==
  ASSUME Careful
  PROVE  Spec => []Own
<1>1. Init => Own
  BY DEF Init, Own
<1>2. RInv /\ Own /\ [Next]_vars => Own'
  <2> SUFFICES ASSUME RInv, Own, [Next]_vars PROVE Own'
    OBVIOUS
  <2>1. CASE produced' = produced
    BY <2>1 DEF Own
  <2>2. CASE ServerRow
    <3>1. PICK e \in Executions, r \in Rows :
            r.e = e /\ produced' = [produced EXCEPT ![e] = Append(produced[e], r)]
      BY <2>2, ServerRowProduces
    <3>2. produced \in [Executions -> Seq(Rows)]
      BY DEF RInv, IInv, Types, ServerTyped
    <3> DEFINE p == Append(produced[e], r)
    <3>3. /\ Len(produced[e]) \in Nat /\ Len(p) = Len(produced[e]) + 1 /\ p[Len(produced[e]) + 1] = r
          /\ \A k \in 1..Len(produced[e]) : p[k] = produced[e][k]
      BY <3>1, <3>2, AppendElements, LenProperties
    <3> HIDE DEF p
    <3>4. ASSUME NEW i \in 1..Len(p) PROVE p[i].e = e
      <4>1. i \in 1..Len(produced[e]) \/ i = Len(produced[e]) + 1
        BY <3>3
      <4> QED
        BY <3>1, <3>3, <4>1 DEF Own
    <3>5. \A f \in Executions : produced'[f] = IF f = e THEN p ELSE produced[f]
      BY <3>1, <3>2 DEF p
    <3>6. ASSUME NEW f \in Executions, NEW i \in 1..Len(produced'[f]) PROVE produced'[f][i].e = f
      <4>1. CASE f = e
        <5>1. produced'[f] = p
          BY <3>5, <4>1
        <5>2. i \in 1..Len(p)
          BY <3>6, <5>1
        <5> QED
          BY <3>4, <4>1, <5>1, <5>2
      <4>2. CASE f # e
        BY <3>5, <3>6, <4>2 DEF Own
      <4> QED
        BY <4>1, <4>2
    <3> QED
      BY <3>6 DEF Own
  <2> QED
    BY <2>1, <2>2, Steps DEF Gives, vars, serverVars
<1> QED
  BY <1>1, <1>2, RowsInvariance, PTL DEF Spec

LEMMA WholeSet ==
  ASSUME RInv, Own
  PROVE  BufferedIsOneSet
<1> SUFFICES ASSUME NEW s \in Stmts, res[s].kind = "buffered", res[s].rows # << >>
             PROVE  LET rows == res[s].rows
                        sent == produced[stmt[s].exec]
                    IN  /\ \A i \in 1..Len(rows) : rows[i] = Row(stmt[s].exec, rows[1].set, i)
                        /\ {rows[i] : i \in 1..Len(rows)} =
                             {r \in {sent[j] : j \in 1..Len(sent)} : r.set = rows[1].set}
  BY Zenon DEF BufferedIsOneSet
<1>1. s \in AllStmts /\ stmt[s].exec \in Executions
  BY ResultsAssumption DEF RInv, IInv, Types, StmtTyped, Untouched, Statements, Executions, AllStmts
<1>2. PICK e \in Executions : e = stmt[s].exec
  BY <1>1
<1> DEFINE rows == res[s].rows
           sent == produced[e]
           set == rows[1].set
<1>3. /\ rows \in Seq(Rows) /\ sent \in Seq(Rows)
      /\ Len(rows) \in Nat /\ Len(sent) \in Nat /\ Len(rows) # 0
  <2>1. sent \in Seq(Rows) /\ res[s] \in Results
    BY <1>1 DEF RInv, IInv, Types, ServerTyped, GotTyped
  <2>2. rows \in Seq(Rows)
    BY <2>1 DEF Results
  <2> QED
    BY <2>1, <2>2, LenProperties, EmptyIs
<1>4. ResultRows(res[s], e, got[e], Produced(e), Ends(e))
  BY <1>1, <1>2 DEF RInv, ResultsRows
<1>5. /\ \A i \in 1..Len(rows) : rows[i] = Row(e, set, rows[1].n + i - 1)
      /\ \A i \in 1..Len(rows) : rows[i] \in Produced(e)
      /\ rows[1].n = 1 /\ PlaceOf(LastRow(rows)) \in Ends(e)
  BY <1>4 DEF ResultRows, Run
<1> HIDE DEF rows
<1>6. ASSUME NEW i \in 1..Len(rows) PROVE rows[i] = Row(e, set, i)
  <2>1. rows[1].n + i - 1 = i
    BY <1>5
  <2> QED
    BY <1>5, <2>1
<1> HIDE DEF set, sent
<1>7. ASSUME NEW r \in {rows[i] : i \in 1..Len(rows)}
      PROVE  r \in {sent[j] : j \in 1..Len(sent)} /\ r.set = set
  BY <1>5, <1>6, RowParts DEF Produced, sent
<1>8. ASSUME NEW r \in {sent[j] : j \in 1..Len(sent)}, r.set = set
      PROVE  r \in {rows[i] : i \in 1..Len(rows)}
  <2>1. PICK j \in 1..Len(sent) : r = sent[j]
    BY <1>8
  <2>2. r.e = e
    BY <2>1 DEF Own, sent
  <2>3. r \in Rows /\ r \in Produced(e)
    BY <1>3, <2>1, ElementOfSeq DEF Produced, sent
  <2>4. r = Row(e, set, r.n) /\ r.n \in Nat /\ r.n > 0
    BY <1>8, <2>2, <2>3, RowParts
  <2>5. LastRow(rows) = Row(e, set, Len(rows))
    <3>1. Len(rows) \in 1..Len(rows)
      BY <1>3
    <3> QED
      BY <1>6, <3>1 DEF LastRow
  <2>6. PlaceOf(LastRow(rows)).set = set /\ PlaceOf(LastRow(rows)).n = Len(rows)
    BY <2>5, RowParts DEF PlaceOf
  <2>7. \A c \in Ends(e), x \in Produced(e) : x.set = c.set => x.n <= c.n
    BY DEF Ends
  <2>8. r.n <= Len(rows)
    BY <1>5, <1>8, <2>3, <2>6, <2>7
  <2>9. r.n \in 1..Len(rows)
    BY <1>3, <2>4, <2>8
  <2>10. rows[r.n] = r
    BY <1>6, <2>4, <2>9
  <2> QED
    BY <2>9, <2>10
<1>9. {rows[i] : i \in 1..Len(rows)} = {r \in {sent[j] : j \in 1..Len(sent)} : r.set = set}
  BY <1>7, <1>8
<1> QED
  BY <1>2, <1>6, <1>9, Zenon DEF rows, sent, set

\* A buffered result (get_buffered_result) holds the rows of one result set, all of them and in
\* order, however the messages were grouped into frames and whatever follows on the line.
THEOREM BufferedIsOneSetHolds ==
  ASSUME Careful
  PROVE  Spec => []BufferedIsOneSet
BY WholeSet, OwnInvariance, RowsInvariance, PTL
=============================================================================
