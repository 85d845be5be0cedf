------------------------- MODULE PreparedStatements -------------------------
(***************************************************************************)
(* CRUD operations as prepared statements (xmysqlnd_stmt.cc, class         *)
(* Prepare_stmt_data): find, modify, remove, select, update and delete of  *)
(* one session keep what the server has prepared in ps_db and execute it   *)
(* by its id, or fall back to plain messages on a server without prepared  *)
(* statements.  An execution is one action: the extension waits for every  *)
(* answer.                                                                 *)
(*                                                                         *)
(* A shape stands for the serialized message of an operation without its   *)
(* arguments and limits.  row_count and offset are treated alike by the    *)
(* code and are one number here.  ps_db is a function from message ids.    *)
(***************************************************************************)
EXTENDS Integers, Sequences

CONSTANTS
  Ops,            \* operation objects of the user
  Kind,           \* "collection": find, modify, remove; "table": update,
                  \* delete; "select"
  Shape,          \* the shape of each operation
  Holes,          \* number of placeholders of a shape
  Limited,        \* shapes with a limit
  Values,         \* values to bind
  Unbound,        \* a placeholder without value
  Limits,         \* numbers given to limit()
  Int32Max,       \* the largest int32_t
  MaxId,          \* bound of the message ids
  MaxArgs,        \* bound of the arguments of a plain message
  Sessions        \* what the session can be: records hasPS, recycled

Shapes == {Shape[o] : o \in Ops}
NoShape == "none"
NoLimit == -1
NoId == 0

\* A message names its type and its data model, DOCUMENT or TABLE: operations
\* of two kinds never have one shape.
ASSUME PreparedAssumption ==
  /\ Kind \in [Ops -> {"collection", "table", "select"}]
  /\ \A o, p \in Ops : Shape[o] = Shape[p] => Kind[o] = Kind[p]
  /\ Holes \in [Shapes -> Nat]
  /\ Limited \subseteq Shapes /\ NoShape \notin Shapes
  /\ Unbound \notin Values
  /\ Limits \subseteq Nat
  /\ Int32Max \in Nat
  /\ MaxId \in Nat /\ MaxArgs \in Nat
  /\ Sessions \subseteq [hasPS : BOOLEAN, recycled : BOOLEAN]

VARIABLES
  session,        \* hasPS: the server knows Mysqlx.Prepare; recycled: the pool
                  \* moved the session, which left ps_data without its session
  link,
  server,         \* statements the server has prepared, by id
  ps_db,
  next_ps_id,
  ps_supported,
  bound,          \* values bound to the placeholders of an operation
  limit,          \* its limit
  args,           \* arguments in its message
  ps_message_id,
  last            \* the execution just done: what was asked, what came of it

psVars == <<server, ps_db, next_ps_id, ps_supported>>
opVars == <<bound, limit>>
vars == <<session, link, psVars, opVars, args, ps_message_id, last>>

Request(shape, values, n) == [shape |-> shape, values |-> values, limit |-> n]
Asked(o) == Request(Shape[o], bound[o], limit[o])
Complete(o) == \A i \in 1..Holes[Shape[o]] : bound[o][i] # Unbound

(***************************************************************************)
(* execute() gives an "answer" of the server to what it ran, throws        *)
(* ("exception"), gives nothing ("null"), gives the server's complaint     *)
(* about an "unknown" statement id, or dereferences a null session.        *)
(***************************************************************************)
Results == {"none", "answer", "exception", "null", "unknown", "crash"}
NoRequest == Request(NoShape, << >>, NoLimit)
NoOutcome == [asked |-> NoRequest, ran |-> NoRequest, result |-> "none"]
Answered(o, req) ==
  last' = [asked |-> Asked(o), ran |-> req, result |-> "answer"]
Ends(o, result) ==
  last' = [asked |-> Asked(o), ran |-> NoRequest, result |-> result]

Init ==
  /\ session \in Sessions
  /\ link = "up"
  /\ server = << >>
  /\ ps_db = << >>
  /\ next_ps_id = 1
  /\ ps_supported = TRUE
  /\ bound = [o \in Ops |-> [i \in 1..Holes[Shape[o]] |-> Unbound]]
  /\ limit \in {l \in [Ops -> Limits \cup {NoLimit}] :
                  \A o \in Ops : Shape[o] \in Limited <=> l[o] # NoLimit}
  /\ args = [o \in Ops |-> << >>]
  /\ ps_message_id = [o \in Ops |-> NoId]
  /\ last = NoOutcome

Running == last.result # "crash"

-----------------------------------------------------------------------------
Bind(o, i, v) ==
  /\ Running
  /\ bound' = [bound EXCEPT ![o][i] = v]
  /\ last' = NoOutcome
  /\ UNCHANGED <<session, link, psVars, limit, args, ps_message_id>>

SetLimit(o, n) ==
  /\ Running
  /\ Shape[o] \in Limited
  /\ limit' = [limit EXCEPT ![o] = n]
  /\ last' = NoOutcome
  /\ UNCHANGED <<session, link, psVars, bound, args, ps_message_id>>

\* Bindings::finalize appends until it meets an unbound variable, where it
\* throws; the tables' finalize_bind replaces the arguments or changes nothing
BoundPrefix(o) ==
  CHOOSE s \in {SubSeq(bound[o], 1, n) : n \in 0..Holes[Shape[o]]} :
    /\ \A i \in 1..Len(s) : s[i] # Unbound
    /\ Len(s) < Holes[Shape[o]] => bound[o][Len(s) + 1] = Unbound

\* mutant: unbound variables are not looked for
finalize_bind_NoCheck(o, a) == a \o bound[o]

finalize_bind(o, a) ==
  IF Kind[o] = "collection" THEN a \o BoundPrefix(o)
  ELSE IF Complete(o) THEN bound[o] ELSE a

BindFails(o) == Ends(o, IF Kind[o] = "collection" THEN "exception" ELSE "null")

-----------------------------------------------------------------------------
(***************************************************************************)
(* Plain messages.  The arguments a are made final unless they are already *)
(* so for the entry of the operation.                                      *)
(***************************************************************************)
is_bind_finalized(id) == id \in DOMAIN ps_db /\ ps_db[id].is_bind_finalized

ExecutePlain(o, final, a) ==
  LET message == IF final THEN a ELSE finalize_bind(o, a) IN
  /\ args' = [args EXCEPT ![o] = message]
  /\ \/ ~final /\ ~Complete(o) /\ BindFails(o)
     \/ /\ final \/ Complete(o)
        /\ IF link = "up" THEN Answered(o, Request(Shape[o], message, limit[o]))
                          ELSE Ends(o, "null")

-----------------------------------------------------------------------------
(***************************************************************************)
(* Prepared statements.                                                    *)
(***************************************************************************)
\* bound_values of an entry is left out: bind_values writes it right before
\* send_execute_msg reads it, and nobody else does
Entry(shape, delivered, final, n) ==
  [shape |-> shape, delivered_ps |-> delivered, is_bind_finalized |-> final,
   limit |-> n]

EntriesOf(shape) == {id \in DOMAIN ps_db : ps_db[id].shape = shape}

\* mutant: every message is taken for a new one
IsNew_Always(o) == TRUE

IsNew(o) == EntriesOf(Shape[o]) = {}

get_ps_entry(o) ==
  CHOOSE id \in EntriesOf(Shape[o]) : \A j \in EntriesOf(Shape[o]) : id <= j

MessageId(o) == IF IsNew(o) THEN next_ps_id ELSE get_ps_entry(o)

\* the constructor leaves delivered_ps uninitialized
NewEntry(o, delivered) == Entry(Shape[o], delivered, FALSE, limit[o])

\* mutants: a known message keeps its old limit; it is replaced by the new entry
add_message_KeepsLimit(o, delivered) ==
  IF IsNew(o) THEN NewEntry(o, delivered) ELSE ps_db[MessageId(o)]
add_message_Replaces(o, delivered) == NewEntry(o, delivered)

add_message(o, delivered) ==
  IF IsNew(o) THEN NewEntry(o, delivered)
  ELSE LET e == ps_db[MessageId(o)] IN
       Entry(e.shape, e.delivered_ps, e.is_bind_finalized, limit[o])

\* select keeps neither the id nor that its arguments are final
RemembersId(o) == Kind[o] # "select"

set_finalized_bind(o, e) ==
  Entry(e.shape, e.delivered_ps, RemembersId(o) \/ e.is_bind_finalized, e.limit)

SetDelivered(e) == Entry(e.shape, TRUE, e.is_bind_finalized, e.limit)

PutEntry(id, e) ==
  ps_db' = [j \in DOMAIN ps_db \cup {id} |-> IF j = id THEN e ELSE ps_db[j]]

\* static_cast<int32_t>
Int32Modulus == 2 * (Int32Max + 1)
ToSigned(n) ==
  LET m == n % Int32Modulus IN IF m > Int32Max THEN m - Int32Modulus ELSE m

LimitArgument(n) == IF n = NoLimit THEN NoLimit ELSE ToSigned(n)

\* prepare_msg_delivered, bind_values and send_execute_msg
SendExecute(o, id, e, statements) ==
  /\ PutEntry(id, e)
  /\ IF ~e.delivered_ps THEN Ends(o, "null")
     ELSE IF session.recycled THEN Ends(o, "crash")
     ELSE IF link = "down" THEN Ends(o, "null")
     ELSE IF id \notin DOMAIN statements THEN Ends(o, "unknown")
     ELSE Answered(o, Request(statements[id], bound[o], LimitArgument(e.limit)))

Accepted(id, shape) ==
  [j \in DOMAIN server \cup {id} |-> IF j = id THEN shape ELSE server[j]]

\* an answer other than error 1047: Ok, or an error that makes it throw
PrepareAnswered(o, id, e) ==
  \/ /\ server' = Accepted(id, Shape[o])
     /\ SendExecute(o, id, SetDelivered(e), Accepted(id, Shape[o]))
  \/ /\ ps_db' = ps_db
     /\ Ends(o, "exception")
     /\ UNCHANGED server

\* send_prepare_msg for the new entry e, and what its caller does next
SendPrepare(o, id, e, message) ==
  \/ /\ session.recycled
     /\ PutEntry(id, e)
     /\ args' = [args EXCEPT ![o] = message]
     /\ Ends(o, "crash")
     /\ UNCHANGED <<server, ps_supported>>
  \/ /\ ~session.recycled /\ link = "down"
     /\ args' = [args EXCEPT ![o] = message]
     /\ SendExecute(o, id, e, server)
     /\ UNCHANGED <<server, ps_supported>>
  \/ /\ ~session.recycled /\ link = "up" /\ ~session.hasPS
     /\ ps_supported' = FALSE
     /\ PutEntry(id, e)
     /\ ExecutePlain(o, RemembersId(o), message)
     /\ UNCHANGED server
  \/ /\ ~session.recycled /\ link = "up" /\ session.hasPS
     /\ args' = [args EXCEPT ![o] = message]
     /\ PrepareAnswered(o, id, e)
     /\ UNCHANGED ps_supported

ExecutePrepared(o, delivered) ==
  LET id == MessageId(o)
      added == add_message(o, delivered)
      final == set_finalized_bind(o, added)
      message == finalize_bind(o, << >>) IN
  /\ next_ps_id' = IF IsNew(o) THEN next_ps_id + 1 ELSE next_ps_id
  /\ \/ /\ ~Complete(o)
        /\ PutEntry(id, added)
        /\ args' = [args EXCEPT ![o] = message]
        /\ BindFails(o)
        /\ UNCHANGED <<server, ps_supported, ps_message_id>>
     \/ /\ Complete(o)
        /\ ps_message_id' =
             [ps_message_id EXCEPT ![o] = IF RemembersId(o) THEN id ELSE @]
        /\ \/ IsNew(o) /\ SendPrepare(o, id, final, message)
           \/ /\ ~IsNew(o)
              /\ args' = [args EXCEPT ![o] = message]
              /\ SendExecute(o, id, final, server)
              /\ UNCHANGED <<server, ps_supported>>

Execute(o) ==
  /\ Running
  /\ \/ /\ ps_supported
        /\ IsNew(o) => next_ps_id <= MaxId
        /\ \E delivered \in BOOLEAN : ExecutePrepared(o, delivered)
     \/ /\ ~ps_supported
        /\ Len(args[o]) + Holes[Shape[o]] <= MaxArgs
        /\ ExecutePlain(o, is_bind_finalized(ps_message_id[o]), args[o])
        /\ UNCHANGED <<psVars, ps_message_id>>
  /\ UNCHANGED <<session, link, opVars>>

LinkLost ==
  /\ Running
  /\ link = "up"
  /\ link' = "down"
  /\ last' = NoOutcome
  /\ UNCHANGED <<session, psVars, opVars, args, ps_message_id>>

Next ==
  \/ \E o \in Ops : \/ Execute(o)
                    \/ \E i \in 1..Holes[Shape[o]], v \in Values : Bind(o, i, v)
                    \/ \E n \in Limits : SetLimit(o, n)
  \/ LinkLost

Spec == Init /\ [][Next]_vars

-----------------------------------------------------------------------------
(***************************************************************************)
(* Properties                                                              *)
(***************************************************************************)
EntryType ==
  [shape : Shapes, delivered_ps : BOOLEAN, is_bind_finalized : BOOLEAN,
   limit : Limits \cup {NoLimit}]

\* The variables keep their types; only complete argument lists are stored.
TypeOK ==
  /\ session \in Sessions
  /\ link \in {"up", "down"}
  /\ next_ps_id \in 1..MaxId + 1
  /\ DOMAIN ps_db \subseteq 1..next_ps_id - 1
  /\ \A id \in DOMAIN ps_db : ps_db[id] \in EntryType
  /\ DOMAIN server \subseteq 1..next_ps_id - 1
  /\ \A id \in DOMAIN server : server[id] \in Shapes
  /\ ps_supported \in BOOLEAN
  /\ \A o \in Ops : /\ bound[o] \in [1..Holes[Shape[o]] -> Values \cup {Unbound}]
                    /\ limit[o] \in Limits \cup {NoLimit}
                    /\ args[o] \in Seq(Values)
                    /\ ps_message_id[o] \in 0..MaxId
  /\ last.result \in Results

\* What ps_db says and what the server has prepared agree: each statement of
\* the server has a delivered entry with its shape, and no shape has two
\* entries, so re-executing a shape uses the "Same PS", as the tests of
\* prepared statements expect.
ServerAgrees ==
  /\ \A id \in DOMAIN server : /\ id \in DOMAIN ps_db
                               /\ ps_db[id].shape = server[id]
                               /\ ps_db[id].delivered_ps
  /\ \A i, j \in DOMAIN ps_db : ps_db[i].shape = ps_db[j].shape => i = j

FitsInt32(n) == n <= Int32Max

\* The server runs the operation with the values and the limit it has when it
\* is executed, although operations of one shape share an entry that keeps
\* the limit of the last one.  (Limits beyond int32_t are
\* sent truncated.  Without prepared statements only select makes its
\* arguments anew for every execution.)
RunsWhatWasAsked ==
  [][last' # last /\ last'.result = "answer" =>
       \A o \in Ops : Asked(o) = last'.asked /\ (session.hasPS \/ Kind[o] = "select") =>
         /\ last'.ran.shape = Shape[o]
         /\ last'.ran.values = bound[o]
         /\ FitsInt32(limit[o]) => last'.ran.limit = limit[o]]_vars

\* Once the server has a shape, every later execution of a complete operation
\* of that shape is answered as long as the link is up, whatever failed
\* binds, limits and other operations come in between.
PreparedAnswers ==
  [][last' # last /\ link = "up" =>
       \A o \in Ops :
         Asked(o) = last'.asked /\ Complete(o)
         /\ (\E id \in DOMAIN server : server[id] = Shape[o])
         => last'.result = "answer"]_vars

\* docbook, execute(): "A DocResult object that to either fetch results
\* from, or to query the status of the operation": with every placeholder
\* bound and a server that can be reached, execute() gives the answer of the
\* server or throws.
ExecuteGivesResult ==
  [][last' # last /\ link = "up" =>
       \A o \in Ops : Asked(o) = last'.asked /\ Complete(o)
                      => last'.result \in {"answer", "exception"}]_vars
=============================================================================
