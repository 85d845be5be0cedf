--------------------------- MODULE ConnectionPool ---------------------------
(***************************************************************************)
(* The connection pool behind mysql_xdevapi\Client (mysqlx_client.cc,      *)
(* class Connection_pool) and the PHP Session objects that hold its        *)
(* connections (mysqlx_session.cc, Session_data).                          *)
(*                                                                         *)
(* Every method of Connection_pool takes mtx first and keeps it until it   *)
(* returns, the connect and the reset of a connection included, so one     *)
(* critical section is one action.  The only place that gives the mutex up *)
(* is the wait on the condition variable on_idle_connection_added; a       *)
(* thread inside it is at "wait" while it is blocked, "woken" or "expired" *)
(* once it was signalled or its deadline passed and it has to take mtx     *)
(* again.                                                                  *)
(***************************************************************************)
EXTENDS Naturals, Sequences, FiniteSets

CONSTANTS
  Threads,           \* PHP threads sharing the client
  Handles,           \* PHP variables that can hold a Session object
  Owner,             \* the thread each of them belongs to
  Conns,             \* identities of connections to the server
  NoConn,            \* no connection
  PoolingEnabled,    \* option "enabled"
  MaxSize,           \* option "maxSize"
  QueueTimeout,      \* option "queueTimeOut", 0: wait for ever
  MaxIdleTime,       \* option "maxIdleTime", 0: never pruned
  MaxNow,            \* bound of the clock
  ClockMayStepBack   \* std::chrono::system_clock is not monotonic

ASSUME PoolAssumption ==
  /\ IsFiniteSet(Threads)
  /\ IsFiniteSet(Handles)
  /\ Owner \in [Handles -> Threads]
  /\ NoConn \notin Conns
  /\ PoolingEnabled \in BOOLEAN
  /\ MaxSize \in Nat \ {0}
  /\ QueueTimeout \in Nat
  /\ MaxIdleTime \in Nat
  /\ MaxNow \in Nat
  /\ ClockMayStepBack \in BOOLEAN

VARIABLES
  active,            \* active_connections
  idle,              \* idle_connections, front first
  next_prune_time,
  now,               \* system_clock::now()
  pc,                \* where a thread is in get_connection
  hobj,              \* the session object behind a Session
  held,              \* the connection behind that object
  conn               \* the session behind a connection

poolVars == <<active, idle, next_prune_time>>
handleVars == <<hobj, held>>
vars == <<active, idle, next_prune_time, now, pc, hobj, held, conn>>

(***************************************************************************)
(* A session is "ready", "closed" without error (explicitly, implicitly)   *)
(* or "failed" (closed with error: the server said that it shuts down,     *)
(* killed the session or lost it).  Its link may go down without the       *)
(* session noticing.  "recycled" sessions were moved into the pool once:   *)
(* their session_callback still points to the moved-from object, whose     *)
(* state is closed, so that object ignores the server's notices.           *)
(* A session whose connect failed after its socket was open stays          *)
(* "connecting": ps_data refers back to it (xmysqlnd_session_create), so   *)
(* it is never destroyed and its socket stays open.                        *)
(***************************************************************************)
SessionStates == {"connecting", "ready", "closed", "failed"}
ConnRecords ==
  [st : SessionStates, link : {"up", "down"}, recycled : BOOLEAN]
StrandedConn == [st |-> "connecting", link |-> "up", recycled |-> FALSE]
NewConn == [st |-> "ready", link |-> "up", recycled |-> FALSE]
ClosedConn == [st |-> "closed", link |-> "down", recycled |-> FALSE]
FailedConn == [st |-> "failed", link |-> "down", recycled |-> FALSE]

HasClosedWithError(c) == conn[c].st = "failed"

\* send_close(Explicit): a session that is closed already stays as it is
CloseAll(S) ==
  [c \in Conns |-> IF c \in S /\ conn[c].st \in {"connecting", "ready"}
                   THEN ClosedConn ELSE conn[c]]

(***************************************************************************)
(* A PHP Session refers to "none", to a "pooled" session (pool_callback is *)
(* set), to a "plain" one, or to the "moved"-from shell that is left when  *)
(* the pool took the connection back.                                      *)
(***************************************************************************)
HandleKinds == {"none", "pooled", "plain", "moved"}
Holds(h, c) == hobj[h] \in {"pooled", "plain"} /\ held[h] = c
Of(t) == {h \in Handles : Owner[h] = t}

IdleConns == {idle[i].connection : i \in 1..Len(idle)}
Stranded == {c \in Conns : conn[c].st = "connecting"}
Unused == {c \in Conns : /\ c \notin active \cup IdleConns \cup Stranded
                         /\ \A h \in Handles : ~Holds(h, c)}

Waiting == {t \in Threads : pc[t] = "wait"}
Awake == {t \in Threads : pc[t] \in {"woken", "expired"}}

has_idle_connection == idle # << >>
connections_count == Cardinality(active) + Len(idle)
\* mutant: off by one
is_full_OffByOne == connections_count > MaxSize

is_full == connections_count = MaxSize

Init ==
  /\ active = {}
  /\ idle = << >>
  /\ next_prune_time = 0
  /\ now = 1
  /\ pc = [t \in Threads |-> "run"]
  /\ hobj = [h \in Handles |-> "none"]
  /\ held = [h \in Handles |-> NoConn]
  /\ conn = [c \in Conns |-> ClosedConn]

-----------------------------------------------------------------------------
(***************************************************************************)
(* Client::getSession.  A connect that fails throws out of                 *)
(* create_new_connection before the pool is changed: either nothing is     *)
(* left of it, or a session the pool does not know, with its socket open.  *)
(***************************************************************************)
Hand(h, kind, c) ==
  /\ hobj' = [hobj EXCEPT ![h] = kind]
  /\ held' = [held EXCEPT ![h] = c]

\* mutant: the connection is made active before it is connected
create_new_connection_fails_InActive ==
  \E c \in Unused :
     /\ active' = active \cup {c}
     /\ conn' = [conn EXCEPT ![c] = StrandedConn]
     /\ UNCHANGED <<idle, next_prune_time, now, pc, handleVars>>

create_new_connection_fails ==
  \E c \in Unused :
     /\ conn' = [conn EXCEPT ![c] = StrandedConn]
     /\ UNCHANGED <<poolVars, now, pc, handleVars>>

create_non_pooled_connection(h) ==
  \E c \in Unused :
     /\ Hand(h, "plain", c)
     /\ conn' = [conn EXCEPT ![c] = NewConn]
     /\ UNCHANGED <<poolVars, now, pc>>

add_new_connection(h) ==
  \E c \in Unused :
     /\ active' = active \cup {c}
     /\ Hand(h, "pooled", c)
     /\ conn' = [conn EXCEPT ![c] = NewConn]
     /\ UNCHANGED <<idle, next_prune_time, now, pc>>

\* the session is not closed and the server can still be reached
Usable(c) == conn[c].st = "ready" /\ conn[c].link = "up"

\* xmysqlnd_session::reset throws when the session cannot be used, and when
\* the server answers with an error or not at all.  The connection is in
\* active_connections by then, and an error of the server leaves it as it is.
pop_idle_connection(t, h) ==
  LET c == Head(idle).connection IN
  /\ idle' = Tail(idle)
  /\ active' = active \cup {c}
  /\ \/ Usable(c) /\ Hand(h, "pooled", c)
     \/ UNCHANGED handleVars
  /\ pc' = [pc EXCEPT ![t] = "run"]
  /\ UNCHANGED <<next_prune_time, now, conn>>

wait_for_idle_connection(t) ==
  /\ pc' = [pc EXCEPT ![t] = "wait"]
  /\ UNCHANGED <<poolVars, now, handleVars, conn>>

get_connection(t, h) ==
  /\ pc[t] = "run"
  /\ hobj[h] = "none"
  /\ \/ /\ ~PoolingEnabled
        /\ create_non_pooled_connection(h) \/ create_new_connection_fails
     \/ PoolingEnabled /\ has_idle_connection /\ pop_idle_connection(t, h)
     \/ /\ PoolingEnabled /\ ~has_idle_connection /\ is_full
        /\ wait_for_idle_connection(t)
     \/ /\ PoolingEnabled /\ ~has_idle_connection /\ ~is_full
        /\ add_new_connection(h) \/ create_new_connection_fails

\* the deadline of wait_for passes, whether or not the thread was signalled
QueueTimeoutElapses(t) ==
  /\ QueueTimeout # 0
  /\ pc[t] \in {"wait", "woken"}
  /\ pc' = [pc EXCEPT ![t] = "expired"]
  /\ UNCHANGED <<poolVars, now, handleVars, conn>>

SpuriousWakeUp(t) ==
  /\ pc[t] = "wait"
  /\ pc' = [pc EXCEPT ![t] = "woken"]
  /\ UNCHANGED <<poolVars, now, handleVars, conn>>

\* mutant: the deadline starts anew after every wake-up
ResumeWait_RestartsTimeout(t) ==
  /\ pc[t] \in {"woken", "expired"}
  /\ \/ /\ has_idle_connection
        /\ \E h \in Of(t) : hobj[h] = "none" /\ pop_idle_connection(t, h)
     \/ /\ ~has_idle_connection
        /\ pc' = [pc EXCEPT ![t] = "wait"]
        /\ UNCHANGED <<poolVars, now, handleVars, conn>>

\* mtx is taken again and the predicate of the wait is evaluated: a thread
\* that finds nothing waits on, or throws "queue timeout elapsed"
ResumeWait(t) ==
  /\ pc[t] \in {"woken", "expired"}
  /\ \/ /\ has_idle_connection
        /\ \E h \in Of(t) : hobj[h] = "none" /\ pop_idle_connection(t, h)
     \/ /\ ~has_idle_connection
        /\ pc' = [pc EXCEPT ![t] = IF pc[t] = "woken" THEN "wait" ELSE "run"]
        /\ UNCHANGED <<poolVars, now, handleVars, conn>>

-----------------------------------------------------------------------------
(***************************************************************************)
(* Session::close and the destruction of a PHP Session, both through       *)
(* Session_data::close_connection.                                         *)
(***************************************************************************)
notify_one ==
  IF Waiting = {} THEN UNCHANGED pc
  ELSE \E w \in Waiting : pc' = [pc EXCEPT ![w] = "woken"]

IdleEntry(c) == [connection |-> c, expiration_time |-> now + MaxIdleTime]

\* mutants: notify only when the queue was empty, never; the queue used as a
\* stack
push_idle_connection_NotifyIfEmpty(c) ==
  /\ idle' = Append(idle, IdleEntry(c))
  /\ conn' = [conn EXCEPT ![c].recycled = TRUE]
  /\ IF has_idle_connection THEN UNCHANGED pc ELSE notify_one
push_idle_connection_NoNotify(c) ==
  /\ idle' = Append(idle, IdleEntry(c))
  /\ conn' = [conn EXCEPT ![c].recycled = TRUE]
  /\ UNCHANGED pc
push_idle_connection_Front(c) ==
  /\ idle' = <<IdleEntry(c)>> \o idle
  /\ conn' = [conn EXCEPT ![c].recycled = TRUE]
  /\ notify_one

push_idle_connection(c) ==
  /\ idle' = Append(idle, IdleEntry(c))
  /\ conn' = [conn EXCEPT ![c].recycled = TRUE]
  /\ notify_one

\* mutant: the check is dropped
can_pool_connection_Always(c) == TRUE

can_pool_connection(c) == ~HasClosedWithError(c)

on_close(c) ==
  /\ active' = active \ {c}
  /\ IF c \in active /\ can_pool_connection(c)
     THEN push_idle_connection(c)
     ELSE UNCHANGED <<idle, pc, conn>>

close_connection(t, h) ==
  /\ pc[t] = "run"
  /\ hobj[h] # "none"
  /\ IF hobj[h] = "pooled"
     THEN on_close(held[h])
     ELSE /\ conn' = CloseAll({held[h]})
          /\ UNCHANGED <<active, idle, pc>>
  /\ UNCHANGED <<next_prune_time, now>>

\* mutant: the moved-from session still refers to the pool
MovedAway_Never(h) == FALSE

\* std::move leaves a shell that is closed and has no pool_callback
MovedAway(h) ==
  /\ hobj[h] = "pooled"
  /\ held[h] \in active
  /\ can_pool_connection(held[h])

SessionClose(t, h) ==
  /\ close_connection(t, h)
  /\ IF MovedAway(h) THEN Hand(h, "moved", NoConn) ELSE UNCHANGED handleVars

SessionFree(t, h) ==
  /\ close_connection(t, h)
  /\ Hand(h, "none", NoConn)

\* mutant: the sets are cleared only
ClientClose_ClearOnly ==
  /\ \E t \in Threads : pc[t] = "run"
  /\ active' = {}
  /\ idle' = << >>
  /\ UNCHANGED <<next_prune_time, now, pc, handleVars, conn>>

\* Client::close, in a thread that is not inside get_connection
ClientClose ==
  /\ \E t \in Threads : pc[t] = "run"
  /\ conn' = CloseAll(active \cup IdleConns)
  /\ active' = {}
  /\ idle' = << >>
  /\ UNCHANGED <<next_prune_time, now, pc, handleVars>>

-----------------------------------------------------------------------------
IsExpired(e) == e.expiration_time <= now

\* mutant: as many entries as are expired anywhere in the queue
IsExpiredPrefix_Count(n) ==
  n = Cardinality({i \in 1..Len(idle) : IsExpired(idle[i])})

\* find_if stops at the first entry that is not expired
IsExpiredPrefix(n) ==
  /\ \A i \in 1..n : IsExpired(idle[i])
  /\ n < Len(idle) => ~IsExpired(idle[n + 1])

\* the connections that leave the queue are destroyed, which closes them
erase_idle(n) ==
  /\ idle' = SubSeq(idle, n + 1, Len(idle))
  /\ conn' = CloseAll({idle[i].connection : i \in 1..n})

prune_expired_connections ==
  /\ MaxIdleTime # 0
  /\ now > next_prune_time
  /\ \E n \in 0..Len(idle) : IsExpiredPrefix(n) /\ erase_idle(n)
  /\ next_prune_time' = now + MaxIdleTime
  /\ UNCHANGED <<active, now, pc, handleVars>>

Tick ==
  /\ \/ now < MaxNow /\ now' = now + 1
     \/ ClockMayStepBack /\ now > 1 /\ now' = now - 1
  /\ UNCHANGED <<poolVars, pc, handleVars, conn>>

-----------------------------------------------------------------------------
(***************************************************************************)
(* The server.  A statement run by the owner of a session meets a notice   *)
(* that the connection ends (process_server_notifications), or the link    *)
(* is lost without one.                                                    *)
(***************************************************************************)
ServerNotice(t, h) ==
  /\ pc[t] = "run"
  /\ hobj[h] \in {"pooled", "plain"}
  /\ LET c == held[h] IN
     /\ Usable(c)
     /\ conn' = [conn EXCEPT ![c] = IF conn[c].recycled
                                    THEN [conn[c] EXCEPT !.link = "down"]
                                    ELSE FailedConn]
  /\ UNCHANGED <<poolVars, now, pc, handleVars>>

LinkLost(c) ==
  /\ Usable(c)
  /\ conn' = [conn EXCEPT ![c].link = "down"]
  /\ UNCHANGED <<poolVars, now, pc, handleVars>>

ThreadStep(t) ==
  \/ \E h \in Of(t) : \/ get_connection(t, h)
                      \/ SessionClose(t, h)
                      \/ SessionFree(t, h)
                      \/ ServerNotice(t, h)
  \/ QueueTimeoutElapses(t)
  \/ SpuriousWakeUp(t)
  \/ ResumeWait(t)

Next ==
  \/ \E t \in Threads : ThreadStep(t)
  \/ ClientClose
  \/ prune_expired_connections
  \/ Tick
  \/ \E c \in Conns : LinkLost(c)

Spec == Init /\ [][Next]_vars

(***************************************************************************)
(* A thread that was signalled gets the mutex some day: mtx is never held  *)
(* across a wait.  A deadline passes.  No fairness is assumed of what the  *)
(* users of the pool or the server do.                                     *)
(***************************************************************************)
Fairness ==
  \A t \in Threads : WF_vars(ResumeWait(t)) /\ WF_vars(QueueTimeoutElapses(t))

FairSpec == Spec /\ Fairness

-----------------------------------------------------------------------------
(***************************************************************************)
(* Properties                                                              *)
(***************************************************************************)

\* The variables keep their types.
TypeOK ==
  /\ active \subseteq Conns /\ IsFiniteSet(active)
  /\ idle \in Seq([connection : Conns, expiration_time : Nat])
  /\ next_prune_time \in Nat
  /\ now \in Nat
  /\ pc \in [Threads -> {"run", "wait", "woken", "expired"}]
  /\ hobj \in [Handles -> HandleKinds]
  /\ held \in [Handles -> Conns \cup {NoConn}]
  /\ conn \in [Conns -> ConnRecords]

\* The assertion of is_full: active and idle connections together never
\* exceed maxSize, whichever way threads interleave get, wait and close.
PoolCapacity == connections_count <= MaxSize

\* A connection has one user: two Sessions never share one, and a connection
\* that waits in the pool is in the queue once, is not active and is not
\* behind any open Session, however often a Session is closed.
ExclusiveUse ==
  /\ \A g, h \in Handles, c \in Conns : Holds(g, c) /\ Holds(h, c) => g = h
  /\ \A i, j \in 1..Len(idle) : idle[i].connection = idle[j].connection => i = j
  /\ \A i \in 1..Len(idle) :
        /\ idle[i].connection \notin active
        /\ \A h \in Handles : ~Holds(h, idle[i].connection)

\* A connection closed with an error, or closed by Client::close, is never
\* offered again: whatever waits in the pool is an open session.
IdleIsOpen == \A i \in 1..Len(idle) : conn[idle[i].connection].st = "ready"

\* Active connections that no Session refers to: their slots are taken and
\* nobody can give them back.
Orphans == {c \in active : \A h \in Handles : ~(hobj[h] = "pooled" /\ held[h] = c)}

\* A slot is lost in one way only: the connection was just taken from the
\* queue and its reset threw.  It comes back in one way only: Client::close.
\* A close, a second close, the destruction of a Session or a server that
\* vanishes loses none, and a lost one is not handed out or freed meanwhile.
SlotLoss ==
  /\ \A c \in Orphans' \ Orphans : has_idle_connection /\ c = Head(idle).connection
  /\ Orphans \subseteq Orphans' \/ (active' = {} /\ idle' = << >>)

SlotsLostByResetsOnly == [][SlotLoss]_vars

\* The sessions that are open on the server through a pool are those it knows,
\* at most maxSize.  What else is open was stranded by a connect that failed,
\* and neither the pool nor a Session can reach it to close it.
SessionsBounded ==
  PoolingEnabled =>
    /\ \A c \in Conns : conn[c].st = "ready" => c \in active \cup IdleConns
    /\ Cardinality({c \in Conns : conn[c].st = "ready"}) <= MaxSize
    /\ \A c \in Stranded : /\ c \notin active \cup IdleConns
                           /\ \A h \in Handles : ~Holds(h, c)

\* No wake-up is lost: while a thread is blocked in wait_for_idle_connection,
\* there is an awake thread for every idle connection.
NoLostWakeUp == Waiting # {} => Len(idle) <= Cardinality(Awake)

\* A prune closes no connection before its maxIdleTime is over, even when the
\* clock was set back in between.
PrunesOnlyExpired ==
  next_prune_time' # next_prune_time =>
    \A i \in 1..Len(idle) :
       ~IsExpired(idle[i]) => /\ idle[i] \in {idle'[k] : k \in 1..Len(idle')}
                              /\ conn'[idle[i].connection].st = "ready"

\* With a monotonic clock a prune leaves no expired connection behind: the
\* queue is ordered by expiration time although connections come back in any
\* order.
PrunesAllExpired ==
  next_prune_time' # next_prune_time =>
    \A k \in 1..Len(idle') : ~IsExpired(idle'[k])

\* An idle connection and a blocked thread do not wait for each other.
IdleReachesWaiter ==
  (has_idle_connection /\ Waiting # {}) ~> (~has_idle_connection \/ Waiting = {})

\* With a queue timeout every call of getSession comes back.
GetSessionReturns ==
  \A t \in Threads : pc[t] # "run" ~> pc[t] = "run"

(***************************************************************************)
(* The pool implements PoolLease: a Session leases its connection while    *)
(* the pool counts that connection as active for it.                       *)
(***************************************************************************)
LeaseOf ==
  [h \in Handles |-> IF hobj[h] = "pooled" /\ held[h] \in active
                     THEN held[h] ELSE NoConn]

Lease == INSTANCE PoolLease WITH lease <- LeaseOf

\* getSession, close and the destruction of Sessions act as grant and return
\* of leases, Client::close as the only revocation.
ImplementsLease == Lease!Spec
=============================================================================
