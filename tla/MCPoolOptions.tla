--------------------------- MODULE MCPoolOptions ---------------------------
(***************************************************************************)
(* ConnectionPool under every kind of client options in one state space:   *)
(* the options are chosen at the start and never change.                   *)
(***************************************************************************)
EXTENDS Naturals, TLC

CONSTANTS t1, t2, t3, h1, h2, h3, h4, c1, c2, c3, NoConn

VARIABLES options, active, idle, next_prune_time, now, pc, hobj, held, conn

vars == <<options, active, idle, next_prune_time, now, pc, hobj, held, conn>>

Pool(o) == INSTANCE ConnectionPool WITH
  Threads <- o.threads, Handles <- DOMAIN o.owner, Owner <- o.owner,
  Conns <- o.conns, PoolingEnabled <- o.enabled, MaxSize <- o.maxSize,
  QueueTimeout <- o.queueTimeout, MaxIdleTime <- o.maxIdleTime,
  MaxNow <- o.maxNow, ClockMayStepBack <- o.back

Threads == {t1, t2, t3}

\* maxIdleTime set: two threads with a Session each.
Pruning ==
  [threads |-> Threads, owner |-> h1 :> t1 @@ h2 :> t2, conns |-> {c1, c2},
   enabled |-> TRUE, maxSize |-> 2, queueTimeout |-> 0, maxIdleTime |-> 2,
   maxNow |-> 6, back |-> FALSE]

\* maxIdleTime set and a clock that is set back.
SetBack == [Pruning EXCEPT !.maxNow = 5, !.back = TRUE]

\* Waiting for ever: two threads can wait while a third one, which holds both
\* connections, gives them back one by one or takes one again.
Forever ==
  [threads |-> Threads, owner |-> h1 :> t1 @@ h2 :> t1 @@ h3 :> t2 @@ h4 :> t3,
   conns |-> {c1, c2}, enabled |-> TRUE, maxSize |-> 2, queueTimeout |-> 0,
   maxIdleTime |-> 0, maxNow |-> 1, back |-> FALSE]

\* queueTimeOut set: three threads and one connection.
Timeout ==
  [threads |-> Threads, owner |-> h1 :> t1 @@ h2 :> t1 @@ h3 :> t2 @@ h4 :> t3,
   conns |-> {c1, c2}, enabled |-> TRUE, maxSize |-> 1, queueTimeout |-> 1,
   maxIdleTime |-> 0, maxNow |-> 1, back |-> FALSE]

\* enabled=false: every Session has its own connection.
Disabled ==
  [threads |-> Threads, owner |-> h1 :> t1 @@ h2 :> t1 @@ h3 :> t2,
   conns |-> {c1, c2, c3}, enabled |-> FALSE, maxSize |-> 1, queueTimeout |-> 0,
   maxIdleTime |-> 0, maxNow |-> 1, back |-> FALSE]

OptionSets == {Pruning, SetBack, Forever, Timeout, Disabled}

Init == \E o \in OptionSets : options = o /\ Pool(o)!Init

Next == \E o \in OptionSets : options = o /\ Pool(o)!Next /\ UNCHANGED options

\* A signalled thread gets the mutex and a deadline passes, see ConnectionPool.
Fairness ==
  \A o \in OptionSets, t \in Threads :
    /\ WF_vars(options = o /\ Pool(o)!ResumeWait(t) /\ UNCHANGED options)
    /\ WF_vars(options = o /\ Pool(o)!QueueTimeoutElapses(t) /\ UNCHANGED options)

Spec == Init /\ [][Next]_vars /\ Fairness

\* With a monotonic clock a prune leaves no expired connection in the queue,
\* although connections come back in any order.
PruneLeavesNoExpired ==
  [][options = Pruning => Pool(Pruning)!PrunesAllExpired]_vars

\* Although a clock that is set back leaves the queue out of order, a prune
\* closes no connection before its time.
PruneOnlyExpired ==
  [][options = SetBack => Pool(SetBack)!PrunesOnlyExpired]_vars

\* Without a queue timeout a blocked thread and an idle connection do not
\* wait for each other.
IdleReachesWaiter == options = Forever => Pool(Forever)!IdleReachesWaiter

\* With a queue timeout every call of getSession comes back.
GetSessionReturns == options = Timeout => Pool(Timeout)!GetSessionReturns
=============================================================================
