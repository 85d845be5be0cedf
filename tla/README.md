# TLA+ development for mysql_xdevapi

mysql_xdevapi is the PHP extension for the X DevAPI of MySQL: PHP classes
(`src/mysqlx_*.cc`) over a driver for the X Protocol (`src/xmysqlnd/`). This
directory holds TLA+ modules for its stateful parts, TLC configurations that
check them on small instances, and proofs checked by TLAPS.

    tlc -workers 2 -config PoolSafety.cfg MCConnectionPool
    tlapm ConnectionPoolProofs.tla

`PROJECT.json` lists components, runs, the source lines each definition stands
for, a mutation of the model that violates each property, findings, hazards
and theorems.

## 1. The system

### Components, their state and operations

| component | state | operations |
|---|---|---|
| **Client and connection pool** (`mysqlx_client.cc`) | `Connection_pool`: `active_connections`, `idle_connections` (queue with expiration times), `next_prune_time`, a mutex, a condition variable; options enabled, maxSize, maxIdleTime, queueTimeOut | getSession (`get_connection`), Session close (`on_close`), Client close, prune |
| **Client registry** (`mysqlx_client.cc`) | `Client_state_manager`: map from URI to shared `Client_state` | getClient, prune and release at the end of a request or the module |
| **Session object** (`mysqlx_session.cc`) | a shared pointer to a session | getSession, close, sql, transactions, savepoints, schemas |
| **Session** (`xmysqlnd_session.cc`) | `xmysqlnd_session_data`: state, close reason, credentials, compression executor, error, callback for notices, mechanisms, prepared statements | connect over a list of addresses, reset, close, query |
| **Compression negotiation** (`xmysqlnd_compression_setup.cc`) | none between calls | `Setup::run` |
| **Compression executors** (`xmysqlnd_compress*.cc`) | a streaming compressor per session | compress a message, decompress a batch |
| **Wire protocol and frame codec** (`xmysqlnd_wireprotocol.cc`, `xmysqlnd_protocol_frame_codec.cc`) | readers with their handlers, flags "more rows", "more results" | send a message, receive until a handler stops |
| **Statements, results, row sets** (`xmysqlnd_stmt*.cc`, `xmysqlnd_rowset*.cc`) | cursor, buffered rows, prefetch counter, read context | send, read buffered / forward / by callback, skip |
| **Prepared statements** (`xmysqlnd_stmt.cc`) | `ps_db`: id, message, delivered, bound values | prepare, execute, bind |
| **CRUD operations** (`mysqlx_collection__*.cc`, `mysqlx_table__*.cc`, `xmysqlnd_crud_*`) | the message under construction, placeholders | filter, sort, limit, bind, execute |
| **Document ids** (`xmysqlnd_session.cc`) | `Uuid_generator` of a session: node id, clock sequence, last time | generate an id |
| **Schema, collection, table, index** | names only | one statement each |
| **Expression parser, conversions, utilities, plug-in start-up** | none | pure functions, registration |

How they interact: `Client::getSession` asks the pool for a connection; the
pool calls `connect_session` or `reset` *while it holds its mutex*. A Session
that is closed calls the pool back (`on_close`), which moves the connection
into a new object. Every request writes one message through the frame codec
and reads until a handler stops the loop; a notice that the server goes away
comes through the same loop and calls the session back, which closes itself.
CRUD operations go through the prepared statements of the session.

### What is hard here

* threads of a ZTS build share one pool through a condition variable with
  timeouts, spurious wake-ups and a clock that is not monotonic;
* a connection changes objects (`std::move`) each time it goes back to the
  pool while PHP still has a Session that refers to the old object;
* a connect is a chain of six or seven round trips, any of which can be
  refused or lost, inside loops over addresses, algorithms and mechanisms, all
  on one object that is reused for the next address;
* closes come from the user, the destructor, a failing connect, the client and
  the server;
* results are read lazily from a line shared with the next request.

### What makes each component correct

* Pool: never more than maxSize connections; one user per connection; only
  open connections offered; no slot lost but by a failing reset; nobody blocked beside
  an idle connection; getSession with a timeout returns; prune closes what has
  expired and nothing else.
* Session: credentials only over the protection asked for; READY means
  authenticated; both ends agree on compression; closed once and for one
  reason; failures reported; nothing left open; the call ends; every address
  gets its attempt.
* Prepared statements: the extension and the server agree on what is prepared;
  what is executed is what the operation asks for at that moment; what is
  prepared stays executable.
* Results: every row given once, in order, and for the execution it belongs to,
  whatever the way of reading; the flags tell what is left on the line; no
  read waits for something that will not come.
* Registry: one pool per URI, whatever the threads do at once; no Session with
  a pointer to a pool that is gone; getClient throws for its own arguments only
  and returns.
* CRUD: what is sent has every clause that was accepted, complete, and each
  value at the position its placeholder points to; what is bound completely can
  be executed.
* Wire: each message arrives once, whole and in order, in both directions, and
  the compression streams of the two ends stay in step.
* Ids: no two are equal.

## 2. Modules

### ConnectionPool

`Connection_pool` and the Sessions over it. Every public method holds `mtx`
from its first line to its return, so a critical section is one action; the
wait on `on_idle_connection_added` is the only place in between, and has
states of its own in `pc`: `"wait"` (blocked), `"woken"` (signalled, mutex not
yet taken), `"expired"` (deadline passed, mutex not yet taken).

| variable | code |
|---|---|
| `active`, `idle`, `next_prune_time` | the members of `Connection_pool` |
| `now` | `system_clock::now()`, 1..`MaxNow`; may step back if `ClockMayStepBack` |
| `hobj`, `held` | per PHP variable: no Session, a pooled or plain session, or the shell `std::move` left behind; and the connection it refers to |
| `conn` | per connection: its session's state (`"connecting"` for ever if its connect failed), its link, and whether it was recycled |

Actions: `get_connection` (plain, from the queue, new, a connect that fails, or wait),
`QueueTimeoutElapses`, `SpuriousWakeUp`, `ResumeWait` (the predicate is
evaluated under the mutex again), `SessionClose`, `SessionFree`,
`ClientClose`, `prune_expired_connections`, `Tick`, `ServerNotice`,
`LinkLost`. Four details of the code shape the results:

* `pop_idle_connection` makes the connection active *before* `reset`, which
  throws when the session is closed, when the link is dead and when the server
  answers with an error (`xmysqlnd_session.cc:552`): the model keeps the connection
  in `active`, alive or not, and gives it to nobody.
* `create_new_connection` throws when the connect fails, before the pool is changed.
  The session it made is referred to by its own `ps_data`
  (`xmysqlnd_session.cc:2485`), so it is never destroyed, and if its socket was open
  it stays open (`create_new_connection_fails`; a connect that leaves nothing behind
  changes nothing and is a stuttering step).
* A recycled session's callback for notices still points to the object it was
  moved from (`xmysqlnd_session.cc:821-860`), so a notice breaks the link of a
  recycled session without closing it.
* prune is called from the request shutdown function, which only debug builds
  compile (`php_mysqlx.cc:155`); the model lets it happen at any time or never.

What a connect and a reset do to one session is in `Session`.

### PoolLease

What a pool promises: a lease per Session, at most `MaxSize` leases, one per
connection, ended by its Session or by the end of the whole client.
`ImplementsLease` maps a Session's lease to the connection it holds while that
connection is active.

### Session

One session from `getSession` to its end, one step per request and answer.
`pc` is where `connect_session` is; `data` has the members of
`xmysqlnd_session_data`, `caps` those of `Authenticate`; `link` is the
connection as the server sees it; `sent` remembers every authentication
started and whether the link was encrypted. The server accepts, refuses, or
the link is lost, at every request. Options (TLS, mechanism, compression
policy and algorithms, attributes, list of addresses) are chosen at the start
and constant. An unspecified ssl-mode is "required", as in the code.
`"crashed"` is a dereference of a null pointer: it ends the behaviour. An algorithm
that is not built in, or that the server does not have, is passed over in a step
of its own (`SkipAlgorithm`), one per turn of the loop.

Left out: texts, names, TLS options beyond on and off, the parsing of
the URI, and the round trips inside one authentication, which is one step.

### PreparedStatements

The find, modify, remove, select, update and delete of one session as
`Prepare_stmt_data` executes them. `ps_db`, `next_ps_id` and `ps_supported` are
its members; `server` is what the server has prepared. A user's operation
has a shape (the serialized message without arguments and limits, which is
what `get_ps_entry` compares), bound values, a limit, the arguments its message
accumulates and the id it remembers. `last` is what the last execute asked for
and what came of it. `Execute` is a whole `execute()`: `add_message`, the
arguments, `send_prepare_msg` with its answers (accepted, refused, error 1047
after which the extension uses plain messages for the rest of the session),
and `send_execute_msg`. `Bind`, `SetLimit` and `LinkLost` may come between any
two executions.

* `delivered_ps` of a new entry is not initialized by the constructor
  (`xmysqlnd_stmt.h:199`): either value.
* `session.recycled` is a session the pool moved; its `ps_data` has no session,
  and what the code would send is a dereference of null (`"crash"`).
* A limit is sent as `static_cast<int32_t>`; `Int32Max` is the largest number of
  that type, and what does not fit is truncated modulo `Int32Modulus`.
* The message of a shape names its command, so operations of one shape are of one
  kind: an assumption of the module.

### StatementResults and RowDelivery

The statements of one session and the reading of their results: `execute` with
its flags, buffered and forward only results, callbacks, several result sets,
`nextResult`, `fetchOne`, `fetchAll`, `foreach`, and the queries the extension
makes for itself (`query`, `query_cb`). The server (external) puts the messages
of its answers on `line`; `receive` takes one, or a compressed frame of several
into `batch`; one action per handler of the reader (`on_RSET_ROW`, ...) keeps
what the handler returned in `call.ret`; one action per caller ends the read.
`stmt` has `st_mysqlx_statement`, `xmysqlnd_stmt` and its `reader_ctx`, `res`
the result object, `produced` and `got` are the rows sent and given.

`RowDelivery` is what reading promises: rows of the execution, each at most
once, in order, without gaps inside a set. `RowsInOrder` is the refinement, with
`produced` and `got` as they are.

The code relies on the application for the following, and so does the model: a
statement is sent when the results of the ones before are read (`Patient`;
nothing in the extension calls `skip_all_results`); `getNextResult` is called when
`hasMoreResults` says so; nothing is fetched after an exception; a result is
consumed in one way. Facts of the code that the model has: `fetchOne`
does not look at what `next` returned, and all messages of a batch are
processed even after one of them ended the read.

Three calls read on behind a forward only result, and nothing in the extension
forbids them: `fetchAll` when its set has ended, which reads what the line has next and
waits for ever at the end of the answer (`xmysqlnd_rowset_fwd.cc:124`); `nextResult`
and `getNextResult`, which create a second result in the place of the first and free
one that is still referred to, or use metadata that is gone. `FwdCalls` has the calls
that the application makes, `FwdSets` the sets of an answer that is read forward only.
`results_read` makes all of them, over two sets. `ReadsPast` tells these reads from the
others: `UndefinedOnlyReadingPast` says that only they reach undefined behaviour,
`CallReturns` that all the others return.

### ClientRegistry

`Client_state_manager` and the parser of client options, for the threads of one
process: `getClient`, which in a debug build verifies its URI first
(`verify_connection_string`, which throws for one that is not among `WellFormedUris`), and
then under `mtx` parses, finds or creates; sessions and their
`pool_callback`, the end of a request (prune) and of the module. Options are
the classes of JSON values the parser tells apart; a number is narrowed to `int`
before it is checked, with `IntModulus` values. `build` is how PHP was built: prune
runs in debug builds only (`php_mysqlx.cc:155`), several threads need ZTS. The
debug build with ZTS iterates over `client_states` without the lock while another
thread inserts; the run enumerates the other three builds.

### CrudOperation

One operation object from its creation to its executions, for the nine kinds.
An expression is the sequence of placeholders the parser meets in it; the
message is its clauses with positions, `placeholders` and `bound` are the vectors
of the driver's operation. `given`, `last_bound`, `clean` and `awaited` are
history. Details of the code that shape it:

* the parser gives each occurrence of a placeholder a new position, while a name
  is kept once: with `MayRepeat = FALSE` the application uses a name once;
* the tables parse with a placeholder vector of their own, so a where() or
  having() that fails leaves names behind, and where() replaces the bound
  values; the application binds after where(), and gives update's placeholders
  in set() before where(): a guard of `add_operation` forbids the call that would
  make bind store out of bounds;
* placeholders of sort and projection can never be bound: none are used;
* a sort that fails leaves an incomplete order element, after which execute
  throws; a value that does not parse leaves an operation without value, which
  is sent; a document path with a placeholder in modify is a null dereference
  (`"undefined"`);
* a second execute of add sends its documents again on top of the first ones, of
  insert its columns and rows, of SQL its parameters: `SentAsGiven` asks that
  the rows given are the *last* ones of the message.

Left out: row locks, the lifetimes of PHP values, and what becomes of the message
after it is built, which is `PreparedStatements`.

### WireStream

The messages of one session as frames. `xmysqlnd_send_message` is
compressed above the threshold if a compressor was negotiated, cut into frames of
`max_packet_size` (1 MB in the code). zstd and zlib are streams, so a payload has its
place in the stream (`at`, where the sender's stream is behind it) and only a peer at
the place before it can read it; lz4 has none.
`ServerReceives`, `ServerSends` are the other end, `pfc_receive` the readers'. Only the
readers of a result have a handler for compressed frames (`xmysqlnd_wireprotocol.cc:1739`);
any other drops such a frame (`:591-614`) and with it a place of the stream. `dropped`
remembers that it happened, and `GotAsAnswered` is about connections where it did not.
`MoveSession` is the pool's move of the session with its executor; `LinkLost`,
`cleanup` and `Connect` end and begin a connection. The codec never notices a failed write
(`xmysqlnd_protocol_frame_codec.cc:82`): the message is gone and the caller goes on.
A payload larger than a frame is split into frames that the server takes for
messages; `HeardAsWritten` is about connections where no payload was (`fits`).
Errors inside the compression libraries are left out.

### DocumentIds

`Session::generateUUID`: one `Uuid_generator` per session, all on one clock that may
stand still or be set back. The code assigns the node id before it looks at the
time, so an id generated in the same tick, or after the clock was set back, has
the *old* node id, and only the new clock sequence of 16 bits makes it
different. `repeated` remembers that a clock sequence was drawn twice in a row
(the odds are 1 to 65536); `IdsDiffer` is about all other behaviours. Node ids
have 48 random bits and are taken to be always new.

### MC modules

`MCConnectionPool` gives threads, Sessions and connections;
`MCPoolOptions` puts five kinds of client options into one state space;
`MCSession`, `MCPreparedStatements`, `MCStatementResults`, `MCClientRegistry`,
`MCCrudOperation`, `MCWireStream` and `MCDocumentIds` instantiate the module they
are named after.

## 3. Runs

| run | what it checks | instance |
|---|---|---|
| `pool_safety` | PoolCapacity, ExclusiveUse, IdleIsOpen, SlotsLostByResetsOnly, SessionsBounded, NoLostWakeUp, ImplementsLease | 3 threads, 4 Sessions (one thread has two), maxSize 2, 3 connection identities, queue timeout, maxIdleTime 1, clock 1..2; symmetric in connections; 476,428 states |
| `pool_options` | PruneLeavesNoExpired with a monotonic clock, PruneOnlyExpired with one that is set back, IdleReachesWaiter without and GetSessionReturns with a queue timeout; the pool disabled | 3 threads, up to 4 Sessions, 2-3 connections; 212,825 states |
| `session_connect` | TypeOK, CredentialsProtected, ReadyIsAuthenticated, CompressionAgrees, FailureIsClean, ClosedForGood, GetSessionEnds | one and two addresses, 272 option sets, 8 capability sets; 55,414 states |
| `session_failover` | *violated*: EachAddressAttempted | two TCP addresses |
| `prepared_crud` | TypeOK, ServerAgrees, RunsWhatWasAsked, PreparedAnswers | two finds of one shape, a select, an update; two values, limits 1 and 2, two ids; fresh and recycled sessions, server with and without prepared statements; 522,982 states |
| `prepared_recycled` | *violated*: ExecuteGivesResult | the same operations, recycled session |
| `results_read` | TypeOK, FlagTellsTheLine, BufferedIsOneSet, NothingLostAtEof, UndefinedOnlyReadingPast, CallReturns, RowsInOrder | one statement and the queries of the extension, two executions, up to 2 sets (read forward only, too) and 3 rows, prefetch 2, frames of up to 3 messages; 735,005 states |
| `client_registry` | TypeOK, OnePoolPerUri, NothingDangles, FailsForItsArguments, GetClientReturns | 2 threads, 2 URIs, one of them not well-formed, 9 options, 3 pools, 3 builds; 97,977 states |
| `crud_build` | TypeOK, SentAsGiven, UsableWhenBound | nine kinds, two names, two values, six expressions, three clauses; 563,401 states |
| `crud_repeated` | *violated*: SentAsGiven | modify with a placeholder that occurs twice |
| `wire_stream` | HeardAsWritten, GotAsAnswered | 3 messages each way, frames of 3 bytes of payload, threshold 2, sizes 0 to 6, 3 kinds of compression, readers with and without the handler, 2 links; 675,877 states |
| `document_ids` | IdsDiffer | 2 sessions, 2 clock sequences, 2 ticks, 4 ids, 4 nodes; 328,500 states |

Bounds. Identities of connections are reused once a connection is closed and
no Session refers to it, so a bounded set of them does not bound the
behaviour; three for maxSize 2 leave room for a Session that keeps a closed
connection. Three threads are needed for a lost wake-up (one blocked, one
signalled, one that takes the connection first), two Sessions in a thread
for a thread that closes one and asks for another. In `pool_options` the clock runs
past two pruning periods, and without a queue timeout two threads can wait at once
while the third, with two Sessions, gives connections back. For a session, two addresses are the smallest list with a
failover, two algorithms of which one is not built in the smallest with a
choice. For prepared statements, two operations of one shape share an entry,
`MaxId` = 2 lets the other shapes compete with it for ids (a refused Prepare uses
one up), `MaxArgs` = 2 lets a plain message be executed again once, and with
`Int32Max` = 1 the limit 1 fits the truncated type and the limit 2 does not.
For results, three rows are one more than the prefetch count, so a set ends before,
at and after a prefetch; a frame of three messages holds a row, the end of
its set and the beginning of the next; the second execution finds what the first one left. In the
registry two threads race for the same URI and hold different ones; with
`IntModulus` = 64 the value 66 narrows to 2 and 40 to a negative number. For CRUD, three
clauses are a criterion, a value and one that fails between them. On the wire the sizes lie
below, at and above the threshold and the largest frame, and compression makes
some payloads larger. For ids, four of them are two in one tick, one after the clock
was set back, and one of another session.

Deadlock is checked in the pool's runs and for ids. It is switched off where the
system may stop: a Session that was freed, a crash of the process, an application that
has used up its executions, the end of the module, a lost link.

Fairness. `ConnectionPool`: weak fairness of `ResumeWait` (a thread that was
woken gets the mutex: no critical section waits) and of `QueueTimeoutElapses`
(time passes). No thread has to call or close anything. A blocked connect
inside a critical section ends with the timeout of the stream; a server that
never answers without a read timeout is outside this assumption. `Session`: weak
fairness of the steps of `connect_session`, which one thread executes, where
every request ends with an answer, an error or the stream's timeout; none of
the user's or the server's steps. `StatementResults`: weak fairness of the
receive loop and of a server that answers what it was sent; the connection may be lost
instead. `ClientRegistry`: strong fairness of taking `mtx` (a thread that waits for
a lock that others take again and again gets it some day) and weak fairness of the
steps inside.

### Findings

* `session_failover`: an address that accepts the connection and fails later
  leaves the session in a state in which the next `connect` cleans up and then
  reads the credentials it freed (`xmysqlnd_session.cc:370`).
* `prepared_recycled`: the move constructor of the session data drops
  `ps_data` (`xmysqlnd_session.cc:821`), so the first prepared operation on a
  session from the idle queue dereferences null (`xmysqlnd_stmt.cc:832`).
* `crud_repeated`: a placeholder that occurs twice gets two positions and one
  value (`mysqlx_crud_parser.cc:31`), so its second occurrence is read from the
  limit, from another name's value, or from beyond the values.

More facts that the models have, without a property against them:

* Client::close, a prune and a close with error free slots but notify nobody, and
  a woken thread looks for idle connections only: getSession may throw "queue
  timeout elapsed", or wait for ever, although the pool has room
  (`mysqlx_client.cc:408`); the connection whose `reset` threw stays active
  with no Session (`:389`), be it dead or one whose reset the server refused.
  `SlotsLostByResetsOnly` shows that this is the only way to lose a slot, and
  Client::close the only way to get it back. A failed connect takes no slot, but its
  socket stays open (`xmysqlnd_session.cc:2485`).
* maxIdleTime has no effect in release builds (`php_mysqlx.cc:155`).
* A comment says PLAIN is tried over Unix sockets; the code looks at TLS only
  (`xmysqlnd_session.cc:1610`). A URI with an ill-formed query gives null where
  an exception is documented (`:5131`). A session obtained after a refused address has
  no callback for notices (`:878`). A server's refusal of a compression algorithm
  throws even if compression is only preferred
  (`xmysqlnd_compression_setup.cc:226`).
* An execute that fails for an unbound placeholder has already added its entry;
  after the bind, execute prepares nothing, and returns nothing or executes an
  id the server does not know, depending on an uninitialized flag
  (`xmysqlnd_stmt.h:199`).
* On a server without prepared statements a repeated find, modify, remove, update or
  delete sends the arguments of its first execution, or appends to them, so
  `RunsWhatWasAsked` excludes it; a limit beyond int32_t is truncated.
* set() of update after where() makes bind store out of the bounds of its vector
  (`xmysqlnd_crud_table_commands.cc:63`).

## 4. Proofs

Eight modules hold theorems. Each proves an inductive invariant (`Init => IInv`,
`IInv /\ [Next]_vars => IInv'`, one step per action and under it one per conjunct that the
action can disturb) and derives the properties from it. Every assumption is the
named ASSUME of the module the proofs are about, which TLC evaluates in its runs. Each
`IInv` was checked with TLC too, on the instances of the runs (for StatementResults on the
one its theorems assume, `Careful`).

### ConnectionPoolProofs

For every finite set of threads and Sessions, every set of connections, every
maxSize, timeout and clock bound (`PoolAssumption`):

| theorem | statement |
|---|---|
| `TypeCorrect` | `Spec => []TypeOK` |
| `CapacityHolds` | `Spec => []PoolCapacity` |
| `ExclusiveUseHolds` | `Spec => []ExclusiveUse` |
| `IdleIsOpenHolds` | `Spec => []IdleIsOpen` |
| `SlotsLostByResetsOnlyHolds` | `Spec => SlotsLostByResetsOnly` |
| `SessionsBoundedHolds` | `Spec => []SessionsBounded` |
| `NoLostWakeUpHolds` | `Spec => []NoLostWakeUp` |
| `PruneSparesTheFresh` | `Spec => [][PrunesOnlyExpired]_vars` |
| `PruneLeavesNoneExpired` | `Spec => [][PrunesAllExpired]_vars` if `~ClockMayStepBack` |
| `Refinement` | `Spec => ImplementsLease` |

The properties are not inductive one by one. Exclusive use fails after a step
from a state in which a Session holds a connection that is idle or somebody
else's; capacity after a return of a connection that is active and idle at once;
the wake-up property needs types only. The inductive invariant `IInv` adds:

* `HandlesOK`: a Session with an object has a connection, a shell has none;
* `OneHolder`: two Sessions never have the same connection, open or not;
* `IdleOnce`, `IdleUnused`: an idle connection is in the queue once, not
  active, and not behind any Session;
* `ActiveWasOpen`: an active connection is one that was connected and that nobody
  closed by hand, since Client::close closes what it forgets;
* `StrandedAlone`: no Session refers to a connection whose connect failed;
* `OpenIsTracked`: with pooling, an open session is active or idle.

`NoLostWakeUp` is about cardinalities: a push adds one entry and wakes one thread if any
is blocked; a woken thread goes back to waiting only when the queue is empty.
`PruneSparesTheFresh` needs `IdleOnce`: a connection that was in the queue twice would be
closed with its older entry. `PruneLeavesNoneExpired` needs `ByExpiration` besides: the
queue is in the order of expiration times and no entry is newer than one pushed now, which
a clock that is set back would spoil. `Refinement` maps `get_connection`
and `ResumeWait` to a grant, a close to a return, `ClientClose` to the revocation; all
other steps leave the leases as they are.

### SessionProofs

For every set of options, servers and algorithms and any number of addresses
(`SessionAssumption`):

| theorem | statement |
|---|---|
| `TypeCorrect` | `Spec => []TypeOK` |
| `CredentialsAreProtected` | `Spec => []CredentialsProtected` |
| `ReadySessionsAreAuthenticated` | `Spec => []ReadyIsAuthenticated` |
| `BothEndsCompressAlike` | `Spec => []CompressionAgrees` |
| `FailuresAreClean` | `Spec => []FailureIsClean` |
| `ClosedSessionsStayClosed` | `Spec => ClosedForGood` |

The object is reused from address to address, so what holds when it is READY has to be
carried along the chain of round trips. `IInv` is an assertion per place of
`connect_session`: `Trying` (a new address starts without compression), `Shaking` (until TLS
nothing is compressed unless negotiated, and what is left to negotiate is the user's),
`Authenticating` (both ends at this address, agreed and secured), `InUse`, `ClosedAt`,
and `Skipped` (a failed connect without an error tried nothing). `Careful(data.mechs)` says
of the *stored* mechanisms that PLAIN is among them over an open link only if
the user chose it: a reset authenticates again with them.

### PreparedStatementsProofs

For every set of operations, kinds, shapes, values and limits, every kind of session and
every bound (`PreparedAssumption`):

| theorem | statement |
|---|---|
| `TypeCorrect` | `Spec => []TypeOK` |
| `ServerAgreesHolds` | `Spec => []ServerAgrees` |
| `PreparedAnswersHolds` | `Spec => PreparedAnswers` |
| `RunsWhatWasAskedHolds` | `Spec => RunsWhatWasAsked` |

`ServerAgrees` becomes inductive with `IdsAreFresh`: an id at or above `next_ps_id` is in no
entry, so a new entry hides no old one. That a shape has one entry is what makes
`get_ps_entry` find the entry of the server's statement; `PreparedOnlyIfSupported` (a server
with a statement knows prepared statements and the session was not recycled)
excludes the paths of `SendExecute` that give no answer. `RunsWhatWasAsked` needs where
the loop of finalize stops: at the least position without a value. That there is a
least one is proved from the well-foundedness of the natural numbers, not by induction over
the sequence.

### StatementResultsProofs

For every number of statements, executions, result sets and rows, every prefetch
count and every grouping of messages into frames (`ResultsAssumption`):

| theorem | statement |
|---|---|
| `TypeCorrect` | `Spec => []TypeOK` |
| `NothingUndefinedHolds` | `Spec => []~broken /\ UndefinedOnlyReadingPast` if `Careful` |
| `FlagTellsTheLineHolds` | `Spec => []FlagTellsTheLine` if `Careful` |

`Careful` is `Patient /\ FwdCalls = {} /\ FwdSets = 1`: the application reads a statement's
results before it sends the next, does not read on behind a forward only result, and
reads an answer of several sets buffered. For it no behaviour is undefined at all
(`~broken`), which is more than `results_read` checks: the run reads on behind forward only
results, and there `UndefinedOnlyReadingPast` is what holds of the code. Without `Patient`
`FlagTellsTheLine` fails, as the module's comments say of the code. Types need no such
hypothesis.

The flags of the reader have to tell where on the line it is, at every message and not
only between calls. `Stream` says that the messages in the frame and on
the line are a `Path` from the phase of the answer that the flags stand for to the phase the
server is in; a path is stated through neighbours, so it can be cut and prolonged without
induction. The rest of `IInv`:

* `Tidy`: a frame has messages of one type, and only rows come behind the message that ends a
  read (a prefetch may stop in the middle of a frame); one answer is waited for at a time;
* `OneReader`, `OthersDone`: executions have different numbers, a read is of the last one,
  and the statements before it have nothing left;
* `OneForwardResult`: a forward only result belongs to a read that was
  started, and a read that would create a second one is never begun;
* `ResultsPromise`: a buffered result that says `has_more_results` is right, so `nextResult`
  reads something;
* `QueryHasNoSets`: the loop of `query` meets no metadata.

The second half of the module is about the rows, for the same constants and a `Careful`
application:

| theorem | statement |
|---|---|
| `ReadingDeliversInOrder` | `Spec => RowsInOrder`: reading implements `RowDelivery` |
| `NothingLostAtEofHolds` | `Spec => []NothingLostAtEof` |
| `BufferedIsOneSetHolds` | `Spec => []BufferedIsOneSet` |

The flags tell which message may come, not which row it carries. `RInv` adds to `IInv` where
in the answer everybody is. A *place* is a result set and the number of rows before it:

* `Placed`: the reader is at a place `a`, and the messages in the frame and then on the line
  `Walk` from there to the place of the server. A walk is a function from 0..n to places whose
  neighbours are a message apart, so it can be cut at a frame, begun by a message or prolonged by
  one without induction;
* `AtCall`, `AtRest`: the last row of the read in progress, or of the forward only result, or
  of what was given, is the one before `a`, so the next row joins it;
* `ResultRows`, `CallRows`: the rows of a result and of a read are consecutive rows of one set
  that were sent, and the first that was not given yet may follow the last that was;
* `ForwardEnds` with `Ends`: a reader that was told the set is over holds the last row
  of the set, and the server never comes back to it;
* `SingleSet`: a statement not read with BUFFERED has one set, so its rows are numbered through;
* `ServerRows`, `GotRows`: the server is behind the rows it sent; what was given is in order and
  was sent.

`NothingLostAtEof` follows from `SingleSet` and `ForwardEnds`, `BufferedIsOneSet` from
`ResultRows`, `Ends` and that an execution's rows carry its number (`Own`). The steps are
proved for what they do to one statement (`RowsStep`), for the server (`ServerStep`) and for
a new execution (`SendRows`). `RInv` was checked by TLC on the instance of `results_read`.

### ClientRegistryProofs

For any number of threads, URIs, client options and pools and every width of an int
(`RegistryAssumption`):

| theorem | statement |
|---|---|
| `TypeCorrect` | `Spec => []TypeOK` |
| `ClientsShareThePool` | `Spec => []OnePoolPerUri` |
| `NoPoolDangles` | `Spec => [](~Racing => NothingDangles)` |
| `FailsForItsArgumentsHolds` | `Spec => FailsForItsArguments` |

`Racing` is a debug build with ZTS, the one build where prune iterates over `client_states`
without the lock while other threads may insert. `IInv` has `Mutex` (who is between find
and add holds `mtx`), `Adding` (what find found out is still true when add inserts), `Verified` (in a debug build
a URI goes no further than its verification unless it is well-formed), `Called`,
`OwnUri`, `SessionsRegistered`, `Idle` (without ZTS one thread runs) and
`PruningInDebug`.

### WireStreamProofs

For every frame size, threshold, header and algorithm and any number of messages, batches,
connections and moves (`WireAssumption`):

| theorem | statement |
|---|---|
| `ServerHearsAsWritten` | `Spec => []HeardAsWritten` |
| `ReadersGetAsAnswered` | `Spec => []GotAsAnswered` |

`IInv` says of each direction how the frames on the way continue what the receiver has
(`Chain`: neighbouring frames carry successive messages and successive places of the stream),
and, while the link is up, that the last of them ends where the sender is (`Complete`). `Quiet`
says that nothing of an old connection is left when a new one begins. `ServerHearsAsWritten` has
no condition but `fits`; a dropped frame breaks the flow to the client only.

### CrudOperationProofs

For every set of kinds, names, values, expressions and documents and every bound
(`CrudAssumption`):

| theorem | statement |
|---|---|
| `TypeCorrect` | `Spec => []TypeOK` |
| `SentAsGivenHolds` | `Spec => []SentAsGiven` if `Careful` and `PlainLists` |
| `UsableWhenBoundHolds` | `Spec => UsableWhenBound` if `Careful` |

`Careful` (`~MayRepeat`) is an application that uses a name in one expression only,
`PlainLists` one that has no placeholders in sort and projection: the hypotheses of the
properties, which `crud_build` makes too. Without `Careful` the code sends other values,
as `crud_repeated` shows.

The recursive functions of the model (`add_placeholders`, `Without`) are reasoned about
without an induction theorem: `UpTo` takes the least number that a set lacks, `Iteration`
builds from it a function that follows a given step, and so the CHOOSE behind the recursive
definition has a witness. `AddPlaceholders` then says that distinct names stay distinct, and
that names which are new and distinct are appended as they are. `IInv` adds to the types:

* `RefsFit`: the position of every placeholder in the message has its name; unless it is in
  an update without criteria, it is also the position of a value. Only there are values
  missing, since update resizes them in `where` only;
* `FirstBound`: only the first position of a name has a value, and it is the last one given.
  A table keeps the names of an expression that did not parse, so a name may be there twice
  even for a careful application; the second place then stays empty and `execute` refuses;
* `Known`: a collection, and a table until a call fails, know names of accepted expressions
  only, each once;
* `Waiting`: until a call fails, every name without a value is awaited, all of them in a
  table's operation without criteria, and every clause is complete;
* `Rows`: only `add` is given empty documents.

The calls that build the message come down to three forms: those that take an expression (`Adds`: the
placeholders grow by its names, the values are kept with room for more or all
forgotten), those that add at most a clause without placeholders, and `bind`.

### DocumentIdsProofs

For every set of sessions and of clock sequences and every bound (`IdsAssumption`):

| theorem | statement |
|---|---|
| `TypeCorrect` | `Spec => []TypeOK` |
| `IdsDifferHolds` | `Spec => []IdsDiffer` |

`IdsDiffer` alone is not inductive: the next id could be one that was issued for the
generator's node. `IssuedBefore` says that what was issued for the node a generator has now
has its clock sequence and is not later than its last time; `NodesOwned` says that two
sessions have different nodes and that no id has a node that was not drawn.

### Only model-checked

* `IdleReachesWaiter`, `GetSessionReturns`, `GetSessionEnds`, `CallReturns`,
  `GetClientReturns`: liveness; fairness and `ENABLED` are out of the prover's reach.
* `PruneLeavesNoExpired` and `PruneOnlyExpired` are stated in `MCPoolOptions` over its
  kinds of client options; what they say of one pool is proved as `PruneLeavesNoneExpired`
  and `PruneSparesTheFresh`.

TypeOK of `ConnectionPool` and `DocumentIds` is proved and in no run.

## 5. Plan

Done: all modules of section 2, and the proofs of section 4. Left:

1. `AddressList`: the priorities of a list of addresses (defaults from 100
   downwards, all or none given) and the order of DNS SRV records, as operators
   against a reference definition.

## 6. Not modelled

The vendored `cdkbase` (nearly half of the lines of the tree: expression and URI
parsers, rapidjson, protocol headers, most of which the extension does not call) and
the generated protobuf code. The conversions between PHP values and protobuf,
utilities, class registration, statistics and protocol dumps: no state that
outlives a call, or straight-line code. Transactions, savepoints, schemas,
collections, tables and indexes send one statement each and keep names only; what
sending and reading it does is in `StatementResults`. Row locks and the contents of
metadata and warnings are data no property tells apart. The expression
parser is a pure function over strings; `CrudOperation` has what it leaves in the
operation. The order of addresses is in the plan; `Session` takes the list as given.
