------------------------ MODULE ConnectionPoolProofs ------------------------
(***************************************************************************)
(* Proofs about ConnectionPool, for every set of threads, sessions and     *)
(* connections and every choice of the pool's options.                     *)
(***************************************************************************)
EXTENDS ConnectionPool, FiniteSetTheorems, FunctionTheorems, SequenceTheorems,
        TLAPS

Entries == [connection : Conns, expiration_time : Nat]

\* What pop_front leaves of the queue.
LEMMA PopFacts ==
  ASSUME TypeOK, has_idle_connection
  PROVE  /\ Len(idle) \in Nat \ {0}
         /\ Head(idle) = idle[1]
         /\ Head(idle).connection \in Conns
         /\ Tail(idle) \in Seq(Entries)
         /\ Len(Tail(idle)) = Len(idle) - 1
         /\ \A i \in 1..Len(Tail(idle)) : Tail(idle)[i] = idle[i + 1]
<1>1. idle \in Seq(Entries) /\ idle # << >>
  BY DEF TypeOK, has_idle_connection, Entries
<1>2. Head(idle) \in Entries
  BY <1>1, HeadTailProperties
<1>3. Len(idle) \in Nat \ {0}
  BY <1>1, EmptySeq
<1>4. Head(idle) = idle[1]
  BY <1>1, <1>3
<1> QED
  BY <1>1, <1>2, <1>3, <1>4, HeadTailProperties DEF Entries

\* What push_back makes of the queue.
LEMMA PushFacts ==
  ASSUME TypeOK, NEW c \in Conns
  PROVE  /\ Append(idle, IdleEntry(c)) \in Seq(Entries)
         /\ Len(Append(idle, IdleEntry(c))) = Len(idle) + 1
         /\ \A i \in 1..Len(idle) : Append(idle, IdleEntry(c))[i] = idle[i]
         /\ Append(idle, IdleEntry(c))[Len(idle) + 1].connection = c
<1>1. idle \in Seq(Entries) /\ IdleEntry(c) \in Entries
  BY PoolAssumption DEF TypeOK, IdleEntry, Entries
<1>2. IdleEntry(c).connection = c
  BY DEF IdleEntry
<1> QED
  BY <1>1, <1>2, AppendProperties

\* What a prune of n connections leaves of the queue.
LEMMA PruneFacts ==
  ASSUME TypeOK, NEW n \in 0..Len(idle)
  PROVE  /\ SubSeq(idle, n + 1, Len(idle)) \in Seq(Entries)
         /\ Len(SubSeq(idle, n + 1, Len(idle))) = Len(idle) - n
         /\ \A i \in 1..(Len(idle) - n) :
               SubSeq(idle, n + 1, Len(idle))[i] = idle[n + i]
<1>1. idle \in Seq(Entries) /\ Len(idle) \in Nat /\ n \in Nat
  BY LenProperties DEF TypeOK, Entries
<1>2. \A i \in (n + 1)..Len(idle) : idle[i] \in Entries
  BY <1>1, ElementOfSeq
<1>3. /\ SubSeq(idle, n + 1, Len(idle)) \in Seq(Entries)
      /\ Len(SubSeq(idle, n + 1, Len(idle))) =
            IF n + 1 <= Len(idle) THEN Len(idle) - (n + 1) + 1 ELSE 0
      /\ \A i \in 1..(Len(idle) - (n + 1) + 1) :
            SubSeq(idle, n + 1, Len(idle))[i] = idle[n + 1 + i - 1]
  <2>1. n + 1 \in Int /\ Len(idle) \in Int
    BY <1>1
  <2> QED
    BY <1>2, <2>1, SubSeqProperties
<1>4. Len(SubSeq(idle, n + 1, Len(idle))) = Len(idle) - n
  BY <1>1, <1>3
<1>5. ASSUME NEW i \in 1..(Len(idle) - n)
      PROVE  SubSeq(idle, n + 1, Len(idle))[i] = idle[n + i]
  <2>1. i \in 1..(Len(idle) - (n + 1) + 1) /\ n + 1 + i - 1 = n + i
    BY <1>1
  <2> HIDE DEF Entries
  <2>2. SubSeq(idle, n + 1, Len(idle))[i] = idle[n + 1 + i - 1]
    BY <1>3, <2>1, Zenon
  <2> QED
    BY <2>1, <2>2, Zenon
<1> QED
  BY <1>3, <1>4, <1>5, Zenon

\* Closing sessions keeps the table of connections well typed.
LEMMA CloseAllType ==
  ASSUME TypeOK, NEW S
  PROVE  CloseAll(S) \in [Conns -> ConnRecords]
BY DEF TypeOK, CloseAll, ClosedConn, ConnRecords, SessionStates

-----------------------------------------------------------------------------
(***************************************************************************)
(* The critical sections of the pool and the steps around it, each with    *)
(* the thread and the Session it is about.                                 *)
(***************************************************************************)
GetPlain(t, h) == /\ hobj[h] = "none" /\ ~PoolingEnabled
                  /\ create_non_pooled_connection(h)
GetNew(t, h) == /\ hobj[h] = "none" /\ PoolingEnabled
                /\ ~has_idle_connection /\ ~is_full
                /\ add_new_connection(h)
Pop(t, h) == /\ has_idle_connection /\ hobj[h] = "none" /\ pc[t] # "wait"
             /\ pop_idle_connection(t, h)
PcOnly(t) == /\ UNCHANGED <<poolVars, now, handleVars, conn>>
             /\ \/ /\ pc[t] = "run" /\ ~has_idle_connection
                   /\ pc' = [pc EXCEPT ![t] = "wait"]
                \/ /\ pc[t] \in {"wait", "woken"}
                   /\ pc' = [pc EXCEPT ![t] = "expired"]
                \/ /\ pc[t] = "wait"
                   /\ pc' = [pc EXCEPT ![t] = "woken"]
                \/ /\ pc[t] \in {"woken", "expired"} /\ ~has_idle_connection
                   /\ pc' = [pc EXCEPT ![t] = IF pc[t] = "woken" THEN "wait"
                                              ELSE "run"]

\* Every step is one of these.
LEMMA StepCases ==
  ASSUME Next
  PROVE  \/ \E t \in Threads, h \in Handles :
               \/ GetPlain(t, h) \/ GetNew(t, h) \/ Pop(t, h)
               \/ SessionClose(t, h) \/ SessionFree(t, h) \/ ServerNotice(t, h)
         \/ \E t \in Threads : PcOnly(t)
         \/ create_new_connection_fails
         \/ ClientClose \/ prune_expired_connections \/ Tick
         \/ \E c \in Conns : LinkLost(c)
<1>1. ASSUME NEW t \in Threads, NEW h \in Of(t), get_connection(t, h)
      PROVE  \/ GetPlain(t, h) \/ GetNew(t, h) \/ Pop(t, h) \/ PcOnly(t)
             \/ create_new_connection_fails
  BY <1>1, Zenon DEF get_connection, GetPlain, GetNew, Pop, PcOnly,
                     wait_for_idle_connection
<1>2. ASSUME NEW t \in Threads, ResumeWait(t)
      PROVE  PcOnly(t) \/ \E h \in Handles : Pop(t, h)
  BY <1>2 DEF ResumeWait, Pop, PcOnly, Of
<1>3. ASSUME NEW t \in Threads, QueueTimeoutElapses(t) \/ SpuriousWakeUp(t)
      PROVE  PcOnly(t)
  BY <1>3 DEF QueueTimeoutElapses, SpuriousWakeUp, PcOnly
<1>4. \A t \in Threads : \A h \in Of(t) : h \in Handles
  BY DEF Of
<1> QED
  BY <1>1, <1>2, <1>3, <1>4, Zenon DEF Next, ThreadStep

\* The effect of a close on the pool and on the session, in four cases.
LEMMA CloseCases ==
  ASSUME TypeOK, NEW t \in Threads, NEW h \in Handles, close_connection(t, h)
  PROVE  /\ next_prune_time' = next_prune_time /\ now' = now
         /\ pc[t] = "run" /\ hobj[h] # "none"
         /\ \/ MovedAway(h) /\ push_idle_connection(held[h])
               /\ active' = active \ {held[h]}
            \/ /\ hobj[h] = "pooled" /\ ~MovedAway(h)
               /\ active' = active \ {held[h]}
               /\ idle' = idle /\ pc' = pc /\ conn' = conn
            \/ /\ hobj[h] \in {"plain", "moved"} /\ ~MovedAway(h)
               /\ active' = active /\ idle' = idle /\ pc' = pc
               /\ conn' = CloseAll({held[h]})
<1>1. hobj[h] \in {"none", "pooled", "plain", "moved"}
  BY DEF TypeOK, HandleKinds
<1> QED
  BY <1>1, Zenon DEF close_connection, on_close, MovedAway

-----------------------------------------------------------------------------
(***************************************************************************)
(* Type correctness.                                                       *)
(***************************************************************************)
LEMMA TypeInit == Init => TypeOK
<1> SUFFICES ASSUME Init PROVE TypeOK
  OBVIOUS
<1>1. active \subseteq Conns /\ IsFiniteSet(active)
  BY FS_EmptySet DEF Init
<1>2. idle \in Seq(Entries)
  BY EmptySeq DEF Init
<1>3. conn \in [Conns -> ConnRecords]
  BY DEF Init, ClosedConn, ConnRecords, SessionStates
<1> QED
  BY <1>1, <1>2, <1>3 DEF Init, TypeOK, HandleKinds, Entries

LEMMA NewConnType == NewConn \in ConnRecords
BY DEF NewConn, ConnRecords, SessionStates

LEMMA NotifyType == TypeOK /\ notify_one =>
                      pc' \in [Threads -> {"run", "wait", "woken", "expired"}]
BY DEF TypeOK, notify_one, Waiting

LEMMA TypeStep == TypeOK /\ [Next]_vars => TypeOK'
<1> SUFFICES ASSUME TypeOK, [Next]_vars PROVE TypeOK'
  OBVIOUS
<1> USE PoolAssumption
<1>1. ASSUME NEW t \in Threads, NEW h \in Handles, GetPlain(t, h)
      PROVE  TypeOK'
  BY <1>1, NewConnType DEF GetPlain, create_non_pooled_connection, Hand, Unused,
                           poolVars, TypeOK, HandleKinds
<1>2. ASSUME NEW t \in Threads, NEW h \in Handles, GetNew(t, h)
      PROVE  TypeOK'
  <2>1. PICK c \in Unused : /\ active' = active \cup {c}
                            /\ Hand(h, "pooled", c)
                            /\ conn' = [conn EXCEPT ![c] = NewConn]
                            /\ UNCHANGED <<idle, next_prune_time, now, pc>>
    BY <1>2 DEF GetNew, add_new_connection
  <2>2. c \in Conns
    BY DEF Unused
  <2>3. active' \subseteq Conns /\ IsFiniteSet(active')
    BY <2>1, <2>2, FS_AddElement DEF TypeOK
  <2> QED
    BY <2>1, <2>2, <2>3, NewConnType DEF TypeOK, Hand, HandleKinds
<1>3. ASSUME NEW t \in Threads, NEW h \in Handles, Pop(t, h)
      PROVE  TypeOK'
  <2>1. idle' \in Seq(Entries) /\ Head(idle).connection \in Conns
    BY <1>3, PopFacts DEF Pop, pop_idle_connection
  <2>2. active' \subseteq Conns /\ IsFiniteSet(active')
    BY <1>3, <2>1, FS_AddElement DEF Pop, pop_idle_connection, TypeOK
  <2> QED
    BY <1>3, <2>1, <2>2 DEF Pop, pop_idle_connection, Hand, TypeOK, HandleKinds,
                            handleVars, Entries
<1>4. ASSUME NEW t \in Threads, NEW h \in Handles, close_connection(t, h)
      PROVE  /\ active' \subseteq Conns /\ IsFiniteSet(active')
             /\ idle' \in Seq(Entries)
             /\ next_prune_time' \in Nat /\ now' \in Nat
             /\ pc' \in [Threads -> {"run", "wait", "woken", "expired"}]
             /\ conn' \in [Conns -> ConnRecords]
  <2>1. IsFiniteSet(active \ {held[h]}) /\ active \ {held[h]} \subseteq Conns
    BY FS_RemoveElement DEF TypeOK
  <2>2. CASE MovedAway(h) /\ push_idle_connection(held[h])
                          /\ active' = active \ {held[h]}
    <3>1. held[h] \in Conns
      BY <2>2 DEF MovedAway, TypeOK
    <3>2. conn' \in [Conns -> ConnRecords]
      BY <2>2, <3>1 DEF push_idle_connection, TypeOK, ConnRecords
    <3> QED
      BY <1>4, <2>1, <2>2, <3>1, <3>2, PushFacts, NotifyType
         DEF push_idle_connection, close_connection, TypeOK
  <2>3. CASE idle' = idle /\ pc' = pc /\ conn' = conn
             /\ active' = active \ {held[h]}
    BY <1>4, <2>1, <2>3 DEF close_connection, TypeOK, Entries
  <2>4. CASE active' = active /\ idle' = idle /\ pc' = pc
             /\ conn' = CloseAll({held[h]})
    BY <1>4, <2>4, CloseAllType DEF close_connection, TypeOK, Entries
  <2> QED
    BY <1>4, <2>2, <2>3, <2>4, CloseCases
<1>5. ASSUME NEW t \in Threads, NEW h \in Handles, SessionClose(t, h)
      PROVE  TypeOK'
  BY <1>4, <1>5 DEF SessionClose, Hand, handleVars, TypeOK, HandleKinds, Entries
<1>6. ASSUME NEW t \in Threads, NEW h \in Handles, SessionFree(t, h)
      PROVE  TypeOK'
  BY <1>4, <1>6 DEF SessionFree, Hand, handleVars, TypeOK, HandleKinds, Entries
<1>7. ASSUME NEW t \in Threads, NEW h \in Handles, ServerNotice(t, h)
      PROVE  TypeOK'
  <2>1. PICK r \in ConnRecords : conn' = [conn EXCEPT ![held[h]] = r]
    <3>1. FailedConn \in ConnRecords
      BY DEF FailedConn, ConnRecords, SessionStates
    <3>2. held[h] \in Conns => [conn[held[h]] EXCEPT !.link = "down"] \in ConnRecords
      BY DEF TypeOK, ConnRecords
    <3>3. CASE held[h] \in Conns
      BY <1>7, <3>1, <3>2, <3>3, Zenon DEF ServerNotice
    <3>4. CASE held[h] \notin Conns
      <4>1. conn' = conn /\ conn = [conn EXCEPT ![held[h]] = FailedConn]
        BY <1>7, <3>4 DEF ServerNotice, TypeOK
      <4> QED
        BY <3>1, <4>1, Zenon
    <3> QED
      BY <3>3, <3>4
  <2>2. conn' \in [Conns -> ConnRecords]
    BY <2>1 DEF TypeOK
  <2>3. UNCHANGED <<active, idle, next_prune_time, now, pc, hobj, held>>
    BY <1>7, Zenon DEF ServerNotice, poolVars, handleVars
  <2> QED
    BY <2>2, <2>3 DEF TypeOK
<1>8. ASSUME NEW t \in Threads, PcOnly(t)
      PROVE  TypeOK'
  BY <1>8 DEF PcOnly, poolVars, handleVars, TypeOK
<1>9. CASE ClientClose
  <2>1. conn' \in [Conns -> ConnRecords]
    BY <1>9, CloseAllType DEF ClientClose
  <2>2. idle' \in Seq(Entries)
    BY <1>9, EmptySeq DEF ClientClose
  <2> QED
    BY <1>9, <2>1, <2>2, FS_EmptySet DEF ClientClose, handleVars, TypeOK, Entries
<1>10. CASE prune_expired_connections
  <2>1. PICK n \in 0..Len(idle) : erase_idle(n)
    BY <1>10 DEF prune_expired_connections
  <2>2. idle' \in Seq(Entries) /\ conn' \in [Conns -> ConnRecords]
    BY <2>1, PruneFacts, CloseAllType DEF erase_idle
  <2> QED
    BY <1>10, <2>2 DEF prune_expired_connections, handleVars, TypeOK, Entries
<1>11. CASE Tick
  BY <1>11 DEF Tick, poolVars, handleVars, TypeOK
<1>12. ASSUME NEW c \in Conns, LinkLost(c)
       PROVE  TypeOK'
  BY <1>12 DEF LinkLost, poolVars, handleVars, TypeOK, ConnRecords
<1>13. CASE UNCHANGED vars
  BY <1>13 DEF vars, TypeOK
<1>14. CASE create_new_connection_fails
  <2>1. StrandedConn \in ConnRecords
    BY DEF StrandedConn, ConnRecords, SessionStates
  <2> QED
    BY <1>14, <2>1 DEF create_new_connection_fails, poolVars, handleVars, TypeOK
<1> QED
  BY <1>1, <1>2, <1>3, <1>5, <1>6, <1>7, <1>8, <1>9, <1>10, <1>11, <1>12, <1>13,
     <1>14, StepCases, Zenon

\* The variables of the pool keep their types in every behaviour.
THEOREM TypeCorrect == Spec => []TypeOK
BY TypeInit, TypeStep, PTL DEF Spec

-----------------------------------------------------------------------------
(***************************************************************************)
(* The inductive invariant.  PoolCapacity, IdleIsOpen and NoLostWakeUp are *)
(* not inductive by themselves: that a returned connection is open, free   *)
(* and not in the queue yet follows from who may hold a connection and     *)
(* from what the pool counts as active.                                    *)
(***************************************************************************)

\* Only open Sessions refer to a connection, and a pool that is disabled
\* keeps no connections.
HandlesOK ==
  /\ \A h \in Handles : hobj[h] \in {"pooled", "plain"} => held[h] \in Conns
  /\ \A h \in Handles : hobj[h] \in {"none", "moved"} => held[h] = NoConn
  /\ \A h \in Handles : hobj[h] = "plain" => ~PoolingEnabled
  /\ ~PoolingEnabled => active = {} /\ idle = << >>

OneHolder == \A g, h \in Handles : \A c \in Conns : Holds(g, c) /\ Holds(h, c) => g = h
IdleOnce ==
  \A i, j \in 1..Len(idle) : idle[i].connection = idle[j].connection => i = j
IdleUnused ==
  \A i \in 1..Len(idle) : /\ idle[i].connection \notin active
                          /\ \A h \in Handles : ~Holds(h, idle[i].connection)

\* A connection that the pool counts as active was connected, and was not
\* closed by this side.
ActiveWasOpen == \A c \in active : conn[c].st \in {"ready", "failed"}

\* No Session refers to what a failed connect left behind.
StrandedAlone == \A c \in Stranded, h \in Handles : ~Holds(h, c)

\* The pool knows every open session.
OpenIsTracked ==
  PoolingEnabled => \A c \in Conns : conn[c].st = "ready" => c \in active \cup IdleConns

IInv ==
  /\ TypeOK
  /\ HandlesOK
  /\ OneHolder /\ IdleOnce /\ IdleUnused
  /\ IdleIsOpen
  /\ ActiveWasOpen
  /\ StrandedAlone
  /\ OpenIsTracked
  /\ PoolCapacity
  /\ NoLostWakeUp

LEMMA IdleTyped ==
  ASSUME TypeOK
  PROVE  /\ Len(idle) \in Nat
         /\ \A i \in 1..Len(idle) : idle[i].connection \in Conns
<1>1. idle \in Seq(Entries)
  BY DEF TypeOK, Entries
<1>2. Len(idle) \in Nat /\ \A i \in 1..Len(idle) : idle[i] \in Entries
  BY <1>1, LenProperties, ElementOfSeq
<1> QED
  BY <1>2 DEF Entries

LEMMA InitIInv == Init => IInv
<1> SUFFICES ASSUME Init PROVE IInv
  OBVIOUS
<1>1. Len(idle) = 0
  BY DEF Init
<1>2. TypeOK /\ HandlesOK
  BY TypeInit DEF Init, HandlesOK
<1>3. OneHolder /\ IdleOnce /\ IdleUnused /\ IdleIsOpen
  BY <1>1 DEF Init, OneHolder, IdleOnce, IdleUnused, IdleIsOpen, Holds
<1>4. ActiveWasOpen /\ StrandedAlone /\ OpenIsTracked
  BY DEF Init, ActiveWasOpen, StrandedAlone, Holds, OpenIsTracked, ClosedConn
<1>5. PoolCapacity
  BY <1>1, FS_EmptySet, PoolAssumption DEF Init, PoolCapacity, connections_count
<1>6. NoLostWakeUp
  BY DEF Init, NoLostWakeUp, Waiting
<1> QED
  BY <1>2, <1>3, <1>4, <1>5, <1>6 DEF IInv

\* What a Session refers to after the steps that change it.
LEMMA HandlesStep == IInv /\ [Next]_vars => HandlesOK'
<1> SUFFICES ASSUME IInv, [Next]_vars PROVE HandlesOK'
  OBVIOUS
<1> USE PoolAssumption
<1>0. TypeOK /\ HandlesOK
  BY DEF IInv
<1>1. ASSUME NEW t \in Threads, NEW h \in Handles, GetPlain(t, h)
      PROVE  HandlesOK'
  BY <1>0, <1>1 DEF GetPlain, create_non_pooled_connection, Hand, Unused,
                    poolVars, TypeOK, HandlesOK, HandleKinds
<1>2. ASSUME NEW t \in Threads, NEW h \in Handles, GetNew(t, h)
      PROVE  HandlesOK'
  BY <1>0, <1>2 DEF GetNew, add_new_connection, Hand, Unused, TypeOK, HandlesOK,
                    HandleKinds
<1>3. ASSUME NEW t \in Threads, NEW h \in Handles, Pop(t, h)
      PROVE  HandlesOK'
  <2>1. PoolingEnabled /\ Head(idle).connection \in Conns
    BY <1>0, <1>3, PopFacts DEF Pop, has_idle_connection, HandlesOK
  <2> QED
    BY <1>0, <1>3, <2>1 DEF Pop, pop_idle_connection, Hand, handleVars, TypeOK,
                            HandlesOK, HandleKinds
<1>4. ASSUME NEW t \in Threads, NEW h \in Handles, close_connection(t, h),
             \/ hobj' = hobj /\ held' = held
             \/ \E k \in {"none", "moved"} : Hand(h, k, NoConn)
      PROVE  HandlesOK'
  <2>1. ~PoolingEnabled => active' = {} /\ idle' = << >>
    <3>1. MovedAway(h) => PoolingEnabled
      BY <1>0 DEF MovedAway, HandlesOK
    <3> QED
      BY <1>0, <1>4, <3>1, CloseCases DEF HandlesOK
  <2> QED
    BY <1>0, <1>4, <2>1 DEF Hand, HandlesOK, TypeOK
<1>5. ASSUME NEW t \in Threads, NEW h \in Handles, SessionClose(t, h)
      PROVE  HandlesOK'
  BY <1>4, <1>5 DEF SessionClose, handleVars
<1>6. ASSUME NEW t \in Threads, NEW h \in Handles, SessionFree(t, h)
      PROVE  HandlesOK'
  BY <1>4, <1>6 DEF SessionFree
<1>7. ASSUME hobj' = hobj, held' = held, active' = active, idle' = idle
      PROVE  HandlesOK'
  BY <1>0, <1>7 DEF HandlesOK
<1>8. CASE ClientClose
  BY <1>0, <1>8 DEF ClientClose, handleVars, HandlesOK
<1>9. CASE prune_expired_connections
  <2>1. PICK n \in 0..Len(idle) : erase_idle(n)
    BY <1>9 DEF prune_expired_connections
  <2>2. ~PoolingEnabled => idle' = << >>
    <3>1. SUFFICES ASSUME ~PoolingEnabled PROVE idle' = << >>
      OBVIOUS
    <3>2. Len(idle') = 0 /\ idle' \in Seq(Entries)
      BY <1>0, <2>1, <3>1, PruneFacts DEF HandlesOK, erase_idle
    <3> QED
      BY <3>2, EmptySeq
  <2> QED
    BY <1>0, <1>9, <2>2 DEF prune_expired_connections, handleVars, HandlesOK
<1> QED
  BY <1>1, <1>2, <1>3, <1>5, <1>6, <1>7, <1>8, <1>9, StepCases
     DEF create_new_connection_fails, PcOnly, ServerNotice, Tick, LinkLost, poolVars, handleVars, vars

\* A connection changes hands and never has two users.
LEMMA ExclusiveStep == IInv /\ [Next]_vars => (OneHolder /\ IdleOnce /\ IdleUnused)'
<1> SUFFICES ASSUME IInv, [Next]_vars PROVE (OneHolder /\ IdleOnce /\ IdleUnused)'
  OBVIOUS
<1> USE PoolAssumption
<1>0. /\ TypeOK /\ HandlesOK /\ OneHolder /\ IdleOnce /\ IdleUnused
      /\ Len(idle) \in Nat
      /\ \A i \in 1..Len(idle) : idle[i].connection \in Conns
  BY IdleTyped DEF IInv
<1>1. ASSUME NEW h \in Handles, NEW c \in Unused, NEW k \in {"pooled", "plain"},
             Hand(h, k, c), idle' = idle, active' \subseteq active \cup {c}
      PROVE  (OneHolder /\ IdleOnce /\ IdleUnused)'
  <2>1. /\ c \in Conns /\ \A g \in Handles : ~Holds(g, c)
        /\ \A i \in 1..Len(idle) : idle[i].connection # c
    BY DEF Unused, IdleConns
  <2>2. \A g \in Handles, d \in Conns :
           Holds(g, d)' => (g = h /\ d = c) \/ (g # h /\ Holds(g, d))
    BY <1>0, <1>1 DEF Hand, Holds, TypeOK
  <2>3. OneHolder'
    BY <1>0, <2>1, <2>2 DEF OneHolder
  <2>4. IdleUnused'
    BY <1>0, <1>1, <2>1, <2>2 DEF IdleUnused
  <2> QED
    BY <1>0, <1>1, <2>3, <2>4 DEF IdleOnce
<1>2. ASSUME NEW t \in Threads, NEW h \in Handles, Pop(t, h)
      PROVE  (OneHolder /\ IdleOnce /\ IdleUnused)'
  <2> DEFINE c == Head(idle).connection
  <2>1. /\ c \in Conns /\ c = idle[1].connection /\ Len(idle) \in Nat \ {0}
        /\ idle' = Tail(idle) /\ Len(idle') = Len(idle) - 1
        /\ \A i \in 1..Len(idle') : idle'[i] = idle[i + 1]
    BY <1>0, <1>2, PopFacts DEF Pop, pop_idle_connection
  <2>2. /\ active' = active \cup {c} /\ hobj[h] = "none"
        /\ Hand(h, "pooled", c) \/ (hobj' = hobj /\ held' = held)
    BY <1>2 DEF Pop, pop_idle_connection, handleVars
  <2> HIDE DEF c
  <2>3. c \notin active /\ \A g \in Handles : ~Holds(g, c)
    BY <1>0, <2>1 DEF IdleUnused
  <2>4. \A g \in Handles, d \in Conns :
           Holds(g, d)' => (g = h /\ d = c) \/ Holds(g, d)
    BY <1>0, <2>2 DEF Hand, Holds, TypeOK
  <2>5. \A d \in Conns : ~Holds(h, d)
    BY <2>2 DEF Holds
  <2>6. OneHolder'
    BY <1>0, <2>3, <2>4, <2>5 DEF OneHolder
  <2>7. \A i \in 1..Len(idle') : /\ i + 1 \in 1..Len(idle) /\ i + 1 # 1
                                 /\ idle'[i] = idle[i + 1]
    BY <2>1
  <2>8. \A i \in 1..Len(idle') : idle'[i].connection # c
    BY <1>0, <2>1, <2>7 DEF IdleOnce
  <2>9. IdleOnce'
    <3> SUFFICES ASSUME NEW i \in 1..Len(idle'), NEW j \in 1..Len(idle'),
                        idle'[i].connection = idle'[j].connection
                 PROVE  i = j
      BY DEF IdleOnce
    <3>1. i + 1 = j + 1
      BY <1>0, <2>7 DEF IdleOnce
    <3>2. i \in Int /\ j \in Int
      OBVIOUS
    <3> QED
      BY <3>1, <3>2
  <2>10. IdleUnused'
    BY <1>0, <2>2, <2>4, <2>7, <2>8 DEF IdleUnused
  <2> QED
    BY <2>6, <2>9, <2>10
<1>3. ASSUME NEW t \in Threads, NEW h \in Handles, close_connection(t, h),
             \/ hobj' = hobj /\ held' = held /\ ~MovedAway(h)
             \/ \E k \in {"none", "moved"} : Hand(h, k, NoConn)
      PROVE  (OneHolder /\ IdleOnce /\ IdleUnused)'
  <2>1. \A g \in Handles, d \in Conns : Holds(g, d)' => Holds(g, d)
    BY <1>0, <1>3 DEF Hand, Holds, TypeOK
  <2>2. OneHolder'
    BY <1>0, <2>1 DEF OneHolder
  <2>3. CASE MovedAway(h) /\ push_idle_connection(held[h])
             /\ active' = active \ {held[h]}
    <3>0. PICK c \in Conns : c = held[h]
      BY <1>0, <2>3 DEF MovedAway, TypeOK
    <3>1. c \in Conns /\ c \in active /\ Holds(h, c)
      BY <2>3, <3>0 DEF MovedAway, Holds
    <3>2. /\ Len(idle') = Len(idle) + 1
          /\ \A i \in 1..Len(idle) : idle'[i] = idle[i]
          /\ idle'[Len(idle) + 1].connection = c
      BY <1>0, <2>3, <3>0, PushFacts DEF push_idle_connection
    <3>3. \E k \in {"none", "moved"} : Hand(h, k, NoConn)
      BY <1>3, <2>3
    <3>4. active' = active \ {c}
      BY <2>3, <3>0
    <3>5. \A d \in Conns : ~Holds(h, d)'
      BY <1>0, <3>3 DEF Hand, Holds, TypeOK
    <3>6. \A i \in 1..Len(idle') : i \in 1..Len(idle) \/ i = Len(idle) + 1
      BY <1>0, <3>2
    <3>7. \A g \in Handles : ~Holds(g, c)'
      BY <1>0, <2>1, <3>1, <3>5 DEF OneHolder
    <3>8. \A i \in 1..Len(idle) : idle[i].connection # c
      BY <1>0, <3>1 DEF IdleUnused
    <3>9. IdleOnce'
      BY <1>0, <3>2, <3>6, <3>8 DEF IdleOnce
    <3>10. IdleUnused'
      BY <1>0, <2>1, <3>2, <3>4, <3>6, <3>7 DEF IdleUnused
    <3> QED
      BY <2>2, <3>9, <3>10
  <2>4. CASE active' \subseteq active /\ idle' = idle
    BY <1>0, <2>1, <2>2, <2>4 DEF IdleOnce, IdleUnused
  <2> QED
    BY <1>0, <1>3, <2>3, <2>4, CloseCases
<1>4. ASSUME NEW t \in Threads, NEW h \in Handles,
             SessionClose(t, h) \/ SessionFree(t, h)
      PROVE  (OneHolder /\ IdleOnce /\ IdleUnused)'
  BY <1>3, <1>4 DEF SessionClose, SessionFree, handleVars
<1>5. ASSUME hobj' = hobj, held' = held, active' = active, idle' = idle
      PROVE  (OneHolder /\ IdleOnce /\ IdleUnused)'
  BY <1>0, <1>5 DEF OneHolder, IdleOnce, IdleUnused, Holds
<1>6. CASE ClientClose
  BY <1>0, <1>6 DEF ClientClose, handleVars, OneHolder, IdleOnce, IdleUnused, Holds
<1>7. CASE prune_expired_connections
  <2>1. PICK n \in 0..Len(idle) : erase_idle(n)
    BY <1>7 DEF prune_expired_connections
  <2>2. /\ n \in Nat /\ Len(idle') = Len(idle) - n
        /\ \A i \in 1..(Len(idle) - n) : idle'[i] = idle[n + i]
    BY <1>0, <2>1, PruneFacts DEF erase_idle
  <2>3. \A i \in 1..Len(idle') : n + i \in 1..Len(idle) /\ idle'[i] = idle[n + i]
    BY <1>0, <2>2
  <2>4. IdleOnce'
    <3> SUFFICES ASSUME NEW i \in 1..Len(idle'), NEW j \in 1..Len(idle'),
                        idle'[i].connection = idle'[j].connection
                 PROVE  i = j
      BY DEF IdleOnce
    <3>1. n + i = n + j
      BY <1>0, <2>3 DEF IdleOnce
    <3>2. i \in Int /\ j \in Int
      OBVIOUS
    <3> QED
      BY <2>2, <3>1, <3>2
  <2>5. active' = active /\ hobj' = hobj /\ held' = held
    BY <1>7 DEF prune_expired_connections, handleVars
  <2> QED
    BY <1>0, <2>3, <2>4, <2>5 DEF OneHolder, IdleUnused, Holds
<1>8. ASSUME NEW t \in Threads, NEW h \in Handles, GetPlain(t, h) \/ GetNew(t, h)
      PROVE  (OneHolder /\ IdleOnce /\ IdleUnused)'
  BY <1>1, <1>8 DEF GetPlain, GetNew, create_non_pooled_connection,
                    add_new_connection, poolVars
<1> QED
  BY <1>2, <1>4, <1>5, <1>6, <1>7, <1>8, StepCases
     DEF create_new_connection_fails, PcOnly, ServerNotice, Tick, LinkLost, poolVars, handleVars, vars

\* What waits in the pool is open, what is active was not closed by this
\* side, and every open connection is one or the other.
SessionsOK == IdleIsOpen /\ ActiveWasOpen /\ OpenIsTracked

LEMMA SessionsStep == IInv /\ [Next]_vars => SessionsOK'
<1> SUFFICES ASSUME IInv, [Next]_vars PROVE SessionsOK'
  OBVIOUS
<1> USE PoolAssumption
<1>0. /\ TypeOK /\ HandlesOK /\ OneHolder /\ IdleOnce /\ IdleUnused
      /\ IdleIsOpen /\ ActiveWasOpen /\ OpenIsTracked
      /\ Len(idle) \in Nat
      /\ \A i \in 1..Len(idle) : idle[i].connection \in Conns
  BY IdleTyped DEF IInv
<1>1. ASSUME NEW h \in Handles, NEW c \in Unused, idle' = idle,
             conn' = [conn EXCEPT ![c] = NewConn],
             active' = active \cup {c} \/ (active' = active /\ ~PoolingEnabled)
      PROVE  SessionsOK'
  <2>1. /\ c \in Conns /\ \A i \in 1..Len(idle) : idle[i].connection # c
        /\ c \notin active
    BY DEF Unused, IdleConns
  <2>2. \A d \in Conns : conn'[d].st = IF d = c THEN "ready" ELSE conn[d].st
    BY <1>0, <1>1, <2>1 DEF TypeOK, NewConn
  <2>3. IdleIsOpen'
    BY <1>0, <1>1, <2>1, <2>2 DEF IdleIsOpen
  <2>4. ActiveWasOpen'
    BY <1>0, <1>1, <2>1, <2>2 DEF ActiveWasOpen, TypeOK
  <2>5. IdleConns' = IdleConns
    BY <1>1 DEF IdleConns
  <2>6. OpenIsTracked'
    BY <1>0, <1>1, <2>2, <2>5 DEF OpenIsTracked
  <2> QED
    BY <2>3, <2>4, <2>6 DEF SessionsOK
<1>2. ASSUME NEW t \in Threads, NEW h \in Handles, Pop(t, h)
      PROVE  SessionsOK'
  <2>0. PICK c \in Conns : c = Head(idle).connection
    BY <1>0, <1>2, PopFacts DEF Pop
  <2>1. /\ c = idle[1].connection /\ Len(idle) \in Nat \ {0}
        /\ idle' = Tail(idle) /\ Len(idle') = Len(idle) - 1
        /\ \A i \in 1..Len(idle') : idle'[i] = idle[i + 1]
        /\ active' = active \cup {c} /\ conn' = conn
    BY <1>0, <1>2, <2>0, PopFacts DEF Pop, pop_idle_connection
  <2>2. \A i \in 1..Len(idle') : i + 1 \in 1..Len(idle) /\ idle'[i] = idle[i + 1]
    BY <2>1
  <2>3. conn[c].st = "ready"
    BY <1>0, <2>1 DEF IdleIsOpen
  <2>4. IdleIsOpen'
    BY <1>0, <2>1, <2>2 DEF IdleIsOpen
  <2>5. ActiveWasOpen'
    BY <1>0, <2>1, <2>3 DEF ActiveWasOpen
  <2>6. IdleConns \subseteq IdleConns' \cup {c}
    <3> SUFFICES ASSUME NEW i \in 1..Len(idle), idle[i].connection # c
                 PROVE  idle[i].connection \in IdleConns'
      BY DEF IdleConns
    <3>1. i # 1 /\ i - 1 \in 1..Len(idle') /\ (i - 1) + 1 = i
      BY <1>0, <2>1
    <3>2. idle'[i - 1] = idle[i]
      BY <2>1, <3>1
    <3> QED
      BY <3>1, <3>2 DEF IdleConns
  <2>7. OpenIsTracked'
    BY <1>0, <2>1, <2>6 DEF OpenIsTracked
  <2> QED
    BY <2>4, <2>5, <2>7 DEF SessionsOK
<1>3. ASSUME NEW t \in Threads, NEW h \in Handles, close_connection(t, h)
      PROVE  SessionsOK'
  <2>1. CASE MovedAway(h) /\ push_idle_connection(held[h])
             /\ active' = active \ {held[h]}
    <3>0. PICK c \in Conns : c = held[h]
      BY <1>0, <2>1 DEF MovedAway, TypeOK
    <3>1. conn[c].st = "ready"
      <4>1. conn[c].st # "failed" /\ c \in active
        BY <2>1, <3>0 DEF MovedAway, can_pool_connection, HasClosedWithError
      <4> QED
        BY <1>0, <4>1 DEF ActiveWasOpen
    <3>2. /\ Len(idle') = Len(idle) + 1
          /\ \A i \in 1..Len(idle) : idle'[i] = idle[i]
          /\ idle'[Len(idle) + 1].connection = c
      BY <1>0, <2>1, <3>0, PushFacts DEF push_idle_connection
    <3>3. \A d \in Conns : conn'[d].st = conn[d].st
      BY <1>0, <2>1, <3>0 DEF push_idle_connection, TypeOK, ConnRecords
    <3>4. \A i \in 1..Len(idle') : i \in 1..Len(idle) \/ i = Len(idle) + 1
      BY <1>0, <3>2
    <3>5. IdleIsOpen'
      BY <1>0, <3>1, <3>2, <3>3, <3>4 DEF IdleIsOpen
    <3>6. ActiveWasOpen'
      BY <1>0, <2>1, <3>3 DEF ActiveWasOpen, TypeOK
    <3>7. IdleConns \subseteq IdleConns' /\ c \in IdleConns'
      <4>1. Len(idle) + 1 \in 1..Len(idle') /\ \A i \in 1..Len(idle) : i \in 1..Len(idle')
        BY <1>0, <3>2
      <4> QED
        BY <3>2, <4>1 DEF IdleConns
    <3>8. active' = active \ {c}
      BY <2>1, <3>0
    <3>9. OpenIsTracked'
      BY <1>0, <3>3, <3>7, <3>8 DEF OpenIsTracked
    <3> QED
      BY <3>5, <3>6, <3>9 DEF SessionsOK
  <2>2. CASE /\ hobj[h] = "pooled" /\ ~MovedAway(h)
             /\ active' = active \ {held[h]}
             /\ idle' = idle /\ pc' = pc /\ conn' = conn
    <3>1. held[h] \in active => conn[held[h]].st # "ready"
      BY <2>2 DEF MovedAway, can_pool_connection, HasClosedWithError
    <3>2. OpenIsTracked'
      BY <1>0, <2>2, <3>1 DEF OpenIsTracked, IdleConns
    <3> QED
      BY <1>0, <2>2, <3>2 DEF SessionsOK, IdleIsOpen, ActiveWasOpen
  <2>3. CASE /\ hobj[h] \in {"plain", "moved"} /\ active' = active /\ idle' = idle
             /\ conn' = CloseAll({held[h]})
    <3>1. \A d \in Conns : conn'[d].st = "ready" => conn[d].st = "ready"
      BY <1>0, <2>3 DEF CloseAll, ClosedConn, TypeOK
    <3>2. OpenIsTracked'
      BY <1>0, <2>3, <3>1 DEF OpenIsTracked, IdleConns
    <3>3. CASE hobj[h] = "moved"
      <4>1. conn' = conn
        BY <1>0, <2>3, <3>3 DEF HandlesOK, CloseAll, TypeOK
      <4> QED
        BY <1>0, <2>3, <3>2, <4>1 DEF SessionsOK, IdleIsOpen, ActiveWasOpen
    <3>4. CASE hobj[h] = "plain"
      <4>1. active' = {} /\ Len(idle') = 0
        BY <1>0, <2>3, <3>4 DEF HandlesOK
      <4> QED
        BY <3>2, <4>1 DEF SessionsOK, IdleIsOpen, ActiveWasOpen
    <3> QED
      BY <2>3, <3>3, <3>4
  <2> QED
    BY <1>0, <1>3, <2>1, <2>2, <2>3, CloseCases
<1>4. ASSUME NEW t \in Threads, NEW h \in Handles,
             SessionClose(t, h) \/ SessionFree(t, h)
      PROVE  SessionsOK'
  BY <1>3, <1>4 DEF SessionClose, SessionFree
<1>5. ASSUME active' = active, idle' = idle,
             \A c \in Conns : \/ conn'[c].st = conn[c].st
                              \/ conn'[c].st = "failed" /\ c \notin IdleConns
                              \/ conn'[c].st = "connecting" /\ c \notin active \cup IdleConns
      PROVE  SessionsOK'
  <2>1. IdleConns' = IdleConns
    BY <1>5 DEF IdleConns
  <2>2. \A i \in 1..Len(idle) : idle[i].connection \in IdleConns
    BY DEF IdleConns
  <2>3. IdleIsOpen'
    BY <1>0, <1>5, <2>2 DEF IdleIsOpen
  <2> QED
    BY <1>0, <1>5, <2>1, <2>3 DEF SessionsOK, ActiveWasOpen, OpenIsTracked, TypeOK
<1>6. ASSUME NEW t \in Threads, NEW h \in Handles, ServerNotice(t, h)
      PROVE  SessionsOK'
  <2>1. PICK c \in Conns : c = held[h] /\ Holds(h, c)
    BY <1>0, <1>6 DEF ServerNotice, HandlesOK, Holds
  <2>2. c \notin IdleConns
    BY <1>0, <2>1 DEF IdleUnused, IdleConns
  <2>3. /\ active' = active /\ idle' = idle
        /\ conn' = [conn EXCEPT ![c] = IF conn[c].recycled
                                       THEN [conn[c] EXCEPT !.link = "down"]
                                       ELSE FailedConn]
    BY <1>6, <2>1 DEF ServerNotice, poolVars
  <2>4. \A d \in Conns : \/ conn'[d].st = conn[d].st
                         \/ conn'[d].st = "failed" /\ d = c
    BY <1>0, <2>3 DEF TypeOK, ConnRecords, FailedConn
  <2> QED
    BY <1>5, <2>2, <2>3, <2>4
<1>7. ASSUME NEW c \in Conns, LinkLost(c)
      PROVE  SessionsOK'
  <2>1. \A d \in Conns : conn'[d].st = conn[d].st
    BY <1>0, <1>7 DEF LinkLost, TypeOK, ConnRecords
  <2> QED
    BY <1>5, <1>7, <2>1 DEF LinkLost, poolVars
<1>8. CASE ClientClose
  <2>1. active' = {} /\ Len(idle') = 0
    BY <1>8 DEF ClientClose
  <2>2. \A d \in Conns : conn'[d].st = "ready" =>
           conn[d].st = "ready" /\ d \notin active \cup IdleConns
    BY <1>0, <1>8 DEF ClientClose, CloseAll, ClosedConn, TypeOK
  <2> QED
    BY <1>0, <2>1, <2>2 DEF SessionsOK, IdleIsOpen, ActiveWasOpen, OpenIsTracked
<1>9. CASE prune_expired_connections
  <2>1. PICK n \in 0..Len(idle) : erase_idle(n)
    BY <1>9 DEF prune_expired_connections
  <2>2. /\ n \in Nat /\ Len(idle') = Len(idle) - n
        /\ \A i \in 1..(Len(idle) - n) : idle'[i] = idle[n + i]
        /\ conn' = CloseAll({idle[i].connection : i \in 1..n})
        /\ active' = active
    <3>1. n \in Nat
      BY <1>0
    <3>2. Len(idle') = Len(idle) - n /\ \A i \in 1..(Len(idle) - n) : idle'[i] = idle[n + i]
      BY <1>0, <2>1, PruneFacts, Zenon DEF erase_idle
    <3> QED
      BY <1>9, <2>1, <3>1, <3>2, Zenon DEF erase_idle, prune_expired_connections
  <2>3. \A i \in 1..Len(idle') : n + i \in 1..Len(idle) /\ n + i \notin 1..n
                                 /\ idle'[i] = idle[n + i]
    BY <1>0, <2>2
  <2>4. 1..n \subseteq 1..Len(idle)
    BY <1>0, <2>2
  <2> DEFINE gone == {idle[i].connection : i \in 1..n}
  <2>5. \A d \in Conns : /\ d \notin gone => conn'[d] = conn[d]
                         /\ d \in gone => conn'[d].st # "ready"
    BY <1>0, <2>2 DEF CloseAll, ClosedConn, TypeOK
  <2>6. ASSUME NEW i \in 1..Len(idle'), NEW j \in 1..n,
               idle'[i].connection = idle[j].connection
        PROVE  FALSE
    <3>1. n + i \in 1..Len(idle) /\ n + i \notin 1..n /\ idle'[i] = idle[n + i]
      BY <2>3
    <3>2. j \in 1..Len(idle) /\ idle[n + i].connection = idle[j].connection
      BY <2>4, <2>6, <3>1
    <3>3. n + i = j
      BY <1>0, <3>1, <3>2 DEF IdleOnce
    <3> QED
      BY <3>1, <3>3
  <2>7. gone \cap active = {}
    BY <1>0, <2>4 DEF IdleUnused
  <2>8. IdleConns \subseteq IdleConns' \cup gone
    <3> SUFFICES ASSUME NEW i \in 1..Len(idle), i \notin 1..n
                 PROVE  idle[i].connection \in IdleConns'
      BY DEF IdleConns
    <3>1. i - n \in 1..(Len(idle) - n) /\ n + (i - n) = i
      BY <1>0, <2>2
    <3>2. idle'[i - n] = idle[i]
      BY <2>2, <3>1
    <3> QED
      BY <2>2, <3>1, <3>2 DEF IdleConns
  <2> HIDE DEF gone
  <2>9. IdleIsOpen'
    <3> SUFFICES ASSUME NEW i \in 1..Len(idle')
                 PROVE  conn'[idle'[i].connection].st = "ready"
      BY DEF IdleIsOpen
    <3>1. idle'[i].connection \notin gone
      BY <2>6 DEF gone
    <3> QED
      BY <1>0, <2>3, <2>5, <3>1 DEF IdleIsOpen
  <2>10. ActiveWasOpen'
    BY <1>0, <2>2, <2>5, <2>7 DEF ActiveWasOpen, TypeOK
  <2>11. OpenIsTracked'
    BY <1>0, <2>2, <2>5, <2>8 DEF OpenIsTracked
  <2> QED
    BY <2>9, <2>10, <2>11 DEF SessionsOK
<1>10. ASSUME NEW t \in Threads, NEW h \in Handles, GetPlain(t, h) \/ GetNew(t, h)
       PROVE  SessionsOK'
  BY <1>1, <1>10 DEF GetPlain, GetNew, create_non_pooled_connection,
                     add_new_connection, poolVars
<1>11. CASE create_new_connection_fails
  <2>1. PICK c \in Unused : conn' = [conn EXCEPT ![c] = StrandedConn]
    BY <1>11 DEF create_new_connection_fails
  <2>2. active' = active /\ idle' = idle
    BY <1>11, Zenon DEF create_new_connection_fails, poolVars
  <2>3. \A d \in Conns : \/ conn'[d].st = conn[d].st
                         \/ conn'[d].st = "connecting" /\ d \notin active \cup IdleConns
    BY <1>0, <2>1 DEF Unused, StrandedConn, TypeOK
  <2> QED
    BY <1>5, <2>2, <2>3
<1> QED
  BY <1>2, <1>4, <1>5, <1>6, <1>7, <1>8, <1>9, <1>10, <1>11, StepCases
     DEF PcOnly, Tick, poolVars, handleVars, vars

\* A failed connect strands a connection no Session refers to, and Sessions
\* get connections that are connected.
LEMMA StrandedStep == IInv /\ [Next]_vars => StrandedAlone'
<1> SUFFICES ASSUME IInv, [Next]_vars PROVE StrandedAlone'
  OBVIOUS
<1> USE PoolAssumption
<1>0. /\ TypeOK /\ HandlesOK /\ IdleIsOpen /\ StrandedAlone
      /\ Len(idle) \in Nat
      /\ \A i \in 1..Len(idle) : idle[i].connection \in Conns
  BY IdleTyped DEF IInv
<1>1. ASSUME Stranded' \subseteq Stranded,
             \A d \in Stranded', g \in Handles : Holds(g, d)' => Holds(g, d)
      PROVE  StrandedAlone'
  BY <1>0, <1>1 DEF StrandedAlone
<1>2. ASSUME \A d \in Conns : conn'[d].st = "connecting" => conn[d].st = "connecting"
      PROVE  Stranded' \subseteq Stranded
  BY <1>2 DEF Stranded
<1>3. ASSUME hobj' = hobj, held' = held
      PROVE  \A g \in Handles, d \in Conns : Holds(g, d)' <=> Holds(g, d)
  BY <1>3 DEF Holds
<1>4. Stranded \subseteq Conns /\ Stranded' \subseteq Conns
  BY DEF Stranded
<1>5. ASSUME NEW t \in Threads, NEW h \in Handles, GetPlain(t, h) \/ GetNew(t, h)
      PROVE  StrandedAlone'
  <2>1. PICK c \in Unused, k \in {"plain", "pooled"} :
           Hand(h, k, c) /\ conn' = [conn EXCEPT ![c] = NewConn]
    BY <1>5 DEF GetPlain, GetNew, create_non_pooled_connection, add_new_connection
  <2>2. c \in Conns
    BY DEF Unused
  <2>3. c \notin Stranded'
    BY <1>0, <2>1, <2>2 DEF Stranded, NewConn, TypeOK
  <2>4. \A d \in Conns : conn'[d].st = "connecting" => conn[d].st = "connecting"
    BY <1>0, <2>1, <2>2 DEF NewConn, TypeOK
  <2>5. \A g \in Handles, d \in Conns : Holds(g, d)' => d = c \/ Holds(g, d)
    BY <1>0, <2>1 DEF Hand, Holds, TypeOK
  <2> QED
    BY <1>1, <1>2, <1>4, <2>3, <2>4, <2>5
<1>6. ASSUME NEW t \in Threads, NEW h \in Handles, Pop(t, h)
      PROVE  StrandedAlone'
  <2>1. PICK c \in Conns : c = Head(idle).connection
    BY <1>0, <1>6, PopFacts DEF Pop
  <2>2. conn' = conn /\ (Hand(h, "pooled", c) \/ (hobj' = hobj /\ held' = held))
    BY <1>6, <2>1 DEF Pop, pop_idle_connection, handleVars
  <2>3. conn[c].st = "ready"
    BY <1>0, <1>6, <2>1, PopFacts DEF Pop, IdleIsOpen
  <2>4. Stranded' = Stranded /\ c \notin Stranded'
    BY <2>2, <2>3 DEF Stranded
  <2>5. \A g \in Handles, d \in Conns : Holds(g, d)' => d = c \/ Holds(g, d)
    BY <1>0, <2>2 DEF Hand, Holds, TypeOK
  <2> QED
    BY <1>1, <1>4, <2>4, <2>5
<1>7. ASSUME NEW t \in Threads, NEW h \in Handles,
             SessionClose(t, h) \/ SessionFree(t, h)
      PROVE  StrandedAlone'
  <2>1. close_connection(t, h)
        /\ (\/ hobj' = hobj /\ held' = held
            \/ \E k \in {"none", "moved"} : Hand(h, k, NoConn))
    BY <1>7 DEF SessionClose, SessionFree, handleVars
  <2>2. \A g \in Handles, d \in Conns : Holds(g, d)' => Holds(g, d)
    BY <1>0, <2>1 DEF Hand, Holds, TypeOK
  <2>3. \A d \in Conns : conn'[d].st = "connecting" => conn[d].st = "connecting"
    <3>1. CASE push_idle_connection(held[h]) /\ MovedAway(h)
      BY <1>0, <3>1 DEF push_idle_connection, MovedAway, TypeOK, ConnRecords
    <3>2. CASE conn' = CloseAll({held[h]})
      BY <1>0, <3>2 DEF CloseAll, ClosedConn, TypeOK
    <3> QED
      BY <1>0, <2>1, <3>1, <3>2, CloseCases
  <2> QED
    BY <1>1, <1>2, <1>4, <2>2, <2>3
<1>8. ASSUME hobj' = hobj, held' = held,
             \A d \in Conns : conn'[d].st = "connecting" => conn[d].st = "connecting"
      PROVE  StrandedAlone'
  BY <1>1, <1>2, <1>3, <1>4, <1>8
<1>9. ASSUME NEW t \in Threads, NEW h \in Handles, ServerNotice(t, h)
      PROVE  StrandedAlone'
  BY <1>0, <1>8, <1>9 DEF ServerNotice, FailedConn, handleVars, TypeOK, ConnRecords
<1>10. ASSUME NEW c \in Conns, LinkLost(c)
       PROVE  StrandedAlone'
  BY <1>0, <1>8, <1>10 DEF LinkLost, handleVars, TypeOK, ConnRecords
<1>11. ASSUME NEW S, conn' = CloseAll(S)
       PROVE  \A d \in Conns : conn'[d].st = "connecting" => conn[d].st = "connecting"
  BY <1>0, <1>11 DEF CloseAll, ClosedConn, TypeOK
<1>12. CASE ClientClose
  BY <1>8, <1>11, <1>12 DEF ClientClose, handleVars
<1>13. CASE prune_expired_connections
  BY <1>8, <1>11, <1>13 DEF prune_expired_connections, erase_idle, handleVars
<1>14. CASE create_new_connection_fails
  <2>1. PICK c \in Unused : conn' = [conn EXCEPT ![c] = StrandedConn]
    BY <1>14 DEF create_new_connection_fails
  <2>2. \A g \in Handles : ~Holds(g, c)
    BY DEF Unused
  <2>3. hobj' = hobj /\ held' = held
    BY <1>14, Zenon DEF create_new_connection_fails, handleVars
  <2>4. \A d \in Stranded' : d = c \/ d \in Stranded
    BY <1>0, <2>1 DEF Stranded, TypeOK
  <2> QED
    BY <1>0, <1>3, <1>4, <2>2, <2>3, <2>4 DEF StrandedAlone
<1> QED
  BY <1>5, <1>6, <1>7, <1>8, <1>9, <1>10, <1>12, <1>13, <1>14, StepCases
     DEF PcOnly, Tick, handleVars, vars

\* A connection that changes between active and idle keeps its slot, and a
\* new one is opened only while a slot is free.
LEMMA CapacityStep == IInv /\ [Next]_vars => PoolCapacity'
<1> SUFFICES ASSUME IInv, [Next]_vars PROVE PoolCapacity'
  OBVIOUS
<1> USE PoolAssumption
<1>0. /\ TypeOK /\ PoolCapacity /\ IsFiniteSet(active)
      /\ Len(idle) \in Nat /\ Cardinality(active) \in Nat
      /\ Cardinality(active) + Len(idle) <= MaxSize
  BY IdleTyped, FS_CardinalityType DEF IInv, TypeOK, PoolCapacity, connections_count
<1>1. ASSUME active' = active, idle' = idle
      PROVE  PoolCapacity'
  BY <1>0, <1>1 DEF PoolCapacity, connections_count
<1>2. ASSUME NEW c, active' = active \cup {c}
      PROVE  Cardinality(active') \in Nat /\ Cardinality(active') <= Cardinality(active) + 1
  <2>1. IsFiniteSet(active \cup {c})
        /\ (Cardinality(active \cup {c}) = Cardinality(active)
            \/ Cardinality(active \cup {c}) = Cardinality(active) + 1)
    BY <1>0, FS_AddElement
  <2> QED
    BY <1>0, <1>2, <2>1
<1>3. ASSUME NEW t \in Threads, NEW h \in Handles, GetNew(t, h)
      PROVE  PoolCapacity'
  <2>1. /\ Cardinality(active) + Len(idle) # MaxSize /\ idle' = idle
        /\ \E c \in Unused : active' = active \cup {c}
    BY <1>3 DEF GetNew, add_new_connection, is_full, connections_count
  <2>2. Cardinality(active') \in Nat /\ Cardinality(active') <= Cardinality(active) + 1
    BY <1>2, <2>1
  <2> QED
    BY <1>0, <2>1, <2>2 DEF PoolCapacity, connections_count
<1>4. ASSUME NEW t \in Threads, NEW h \in Handles, Pop(t, h)
      PROVE  PoolCapacity'
  <2>0. PICK c \in Conns : c = Head(idle).connection
    BY <1>0, <1>4, PopFacts DEF Pop
  <2>1. /\ Len(idle') = Len(idle) - 1 /\ Len(idle) \in Nat \ {0}
        /\ active' = active \cup {c}
    BY <1>0, <1>4, <2>0, PopFacts DEF Pop, pop_idle_connection
  <2>2. Cardinality(active') \in Nat /\ Cardinality(active') <= Cardinality(active) + 1
    BY <1>2, <2>1
  <2> QED
    BY <1>0, <2>1, <2>2 DEF PoolCapacity, connections_count
<1>5. ASSUME NEW t \in Threads, NEW h \in Handles, close_connection(t, h)
      PROVE  PoolCapacity'
  <2>1. /\ IsFiniteSet(active \ {held[h]})
        /\ Cardinality(active \ {held[h]}) \in Nat
        /\ Cardinality(active \ {held[h]}) =
             IF held[h] \in active THEN Cardinality(active) - 1 ELSE Cardinality(active)
    BY <1>0, FS_RemoveElement, FS_CardinalityType
  <2>2. CASE MovedAway(h) /\ push_idle_connection(held[h])
             /\ active' = active \ {held[h]}
    <3>1. held[h] \in active /\ held[h] \in Conns
      BY <1>0, <2>2 DEF MovedAway, TypeOK
    <3>2. Len(idle') = Len(idle) + 1
      BY <1>0, <2>2, <3>1, PushFacts DEF push_idle_connection
    <3> QED
      BY <1>0, <2>1, <2>2, <3>1, <3>2 DEF PoolCapacity, connections_count
  <2>3. CASE active' = active \ {held[h]} /\ idle' = idle
    BY <1>0, <2>1, <2>3 DEF PoolCapacity, connections_count
  <2> QED
    BY <1>0, <1>1, <1>5, <2>2, <2>3, CloseCases
<1>6. ASSUME NEW t \in Threads, NEW h \in Handles,
             SessionClose(t, h) \/ SessionFree(t, h)
      PROVE  PoolCapacity'
  BY <1>5, <1>6 DEF SessionClose, SessionFree
<1>7. CASE ClientClose
  BY <1>7, FS_EmptySet DEF ClientClose, PoolCapacity, connections_count
<1>8. CASE prune_expired_connections
  <2>1. PICK n \in 0..Len(idle) : erase_idle(n)
    BY <1>8 DEF prune_expired_connections
  <2>2. n \in Nat /\ n <= Len(idle) /\ active' = active
    BY <1>0, <1>8 DEF prune_expired_connections
  <2>3. Len(idle') = Len(idle) - n
    BY <1>0, <2>1, PruneFacts DEF erase_idle
  <2> QED
    BY <1>0, <2>2, <2>3 DEF PoolCapacity, connections_count
<1> QED
  BY <1>1, <1>3, <1>4, <1>6, <1>7, <1>8, StepCases
     DEF create_new_connection_fails, PcOnly, ServerNotice, Tick, LinkLost, GetPlain,
         create_non_pooled_connection, poolVars, handleVars, vars

\* Who is awake after the steps of a thread inside getSession.
LEMMA AwakeFacts ==
  ASSUME TypeOK
  PROVE  /\ IsFiniteSet(Awake) /\ Cardinality(Awake) \in Nat
         /\ \A t : /\ IsFiniteSet(Awake \cup {t})
                   /\ Cardinality(Awake \cup {t}) \in Nat
                   /\ Cardinality(Awake) <= Cardinality(Awake \cup {t})
                   /\ t \notin Awake =>
                        Cardinality(Awake \cup {t}) = Cardinality(Awake) + 1
                   /\ Cardinality(Awake \ {t}) \in Nat
                   /\ Cardinality(Awake) <= Cardinality(Awake \ {t}) + 1
<1>1. IsFiniteSet(Awake)
  <2>1. Awake \subseteq Threads /\ IsFiniteSet(Threads)
    BY PoolAssumption DEF Awake
  <2> QED
    BY <2>1, FS_Subset
<1>2. Cardinality(Awake) \in Nat
  BY <1>1, FS_CardinalityType
<1>3. ASSUME NEW t
      PROVE  /\ IsFiniteSet(Awake \cup {t})
             /\ Cardinality(Awake \cup {t}) =
                  IF t \in Awake THEN Cardinality(Awake) ELSE Cardinality(Awake) + 1
  BY <1>1, FS_AddElement
<1>4. ASSUME NEW t
      PROVE  /\ IsFiniteSet(Awake \ {t})
             /\ Cardinality(Awake \ {t}) =
                  IF t \in Awake THEN Cardinality(Awake) - 1 ELSE Cardinality(Awake)
  BY <1>1, FS_RemoveElement
<1>5. \A t : Cardinality(Awake \ {t}) \in Nat
  BY <1>4, FS_CardinalityType
<1>6. ASSUME NEW t
      PROVE  /\ Cardinality(Awake \cup {t}) \in Nat
             /\ Cardinality(Awake) <= Cardinality(Awake \cup {t})
             /\ t \notin Awake => Cardinality(Awake \cup {t}) = Cardinality(Awake) + 1
  <2>1. Cardinality(Awake \cup {t}) =
          IF t \in Awake THEN Cardinality(Awake) ELSE Cardinality(Awake) + 1
    BY <1>3, Zenon
  <2> QED
    BY <1>2, <2>1
<1>7. ASSUME NEW t
      PROVE  Cardinality(Awake) <= Cardinality(Awake \ {t}) + 1
  BY <1>2, <1>4
<1> QED
  BY <1>1, <1>2, <1>3, <1>5, <1>6, <1>7, Zenon

\* Every connection that enters the queue wakes a thread, and a thread that
\* leaves the wait takes at most one connection with it.
LEMMA WakeUpStep == IInv /\ [Next]_vars => NoLostWakeUp'
<1> SUFFICES ASSUME IInv, [Next]_vars PROVE NoLostWakeUp'
  OBVIOUS
<1> USE PoolAssumption
<1>0. /\ TypeOK /\ NoLostWakeUp
      /\ Len(idle) \in Nat /\ Cardinality(Awake) \in Nat
  BY IdleTyped, AwakeFacts DEF IInv
<1>1. ASSUME pc' = pc, Len(idle') \in Nat, Len(idle') <= Len(idle)
      PROVE  NoLostWakeUp'
  <2>1. Waiting' = Waiting /\ Awake' = Awake
    BY <1>1 DEF Waiting, Awake
  <2> QED
    BY <1>0, <1>1, <2>1 DEF NoLostWakeUp
<1>2. ASSUME Len(idle') = 0, TypeOK'
      PROVE  NoLostWakeUp'
  <2>1. (Cardinality(Awake) \in Nat)'
    <3>1. (IsFiniteSet(Awake))'
      <4>1. Awake' \subseteq Threads /\ IsFiniteSet(Threads)
        BY DEF Awake
      <4> QED
        BY <4>1, FS_Subset
    <3> QED
      BY <3>1, FS_CardinalityType
  <2> QED
    BY <1>2, <2>1 DEF NoLostWakeUp
<1>3. TypeOK'
  BY <1>0, TypeStep
<1>4. ASSUME NEW t \in Threads, NEW h \in Handles, Pop(t, h)
      PROVE  NoLostWakeUp'
  <2>1. Len(idle') = Len(idle) - 1 /\ Len(idle) \in Nat \ {0}
    BY <1>0, <1>4, PopFacts DEF Pop, pop_idle_connection
  <2>2. Waiting' = Waiting /\ Awake' = Awake \ {t}
    BY <1>0, <1>4 DEF Pop, pop_idle_connection, Waiting, Awake, TypeOK
  <2>3. /\ Cardinality(Awake \ {t}) \in Nat
        /\ Cardinality(Awake) <= Cardinality(Awake \ {t}) + 1
    BY <1>0, AwakeFacts
  <2> QED
    BY <1>0, <2>1, <2>2, <2>3 DEF NoLostWakeUp
<1>5. ASSUME NEW t \in Threads, PcOnly(t)
      PROVE  NoLostWakeUp'
  <2>1. CASE ~has_idle_connection
    BY <1>2, <1>3, <1>5, <2>1 DEF PcOnly, poolVars, has_idle_connection
  <2>2. CASE pc[t] \in {"wait", "woken"} /\ pc'[t] \in {"woken", "expired"}
             /\ \A s \in Threads \ {t} : pc'[s] = pc[s]
    <3>1. Waiting' \subseteq Waiting /\ Awake' = Awake \cup {t}
      BY <1>0, <1>3, <2>2 DEF Waiting, Awake, TypeOK
    <3>2. /\ Cardinality(Awake \cup {t}) \in Nat
          /\ Cardinality(Awake) <= Cardinality(Awake \cup {t})
      BY <1>0, AwakeFacts
    <3>3. idle' = idle
      BY <1>5 DEF PcOnly, poolVars
    <3> QED
      BY <1>0, <3>1, <3>2, <3>3 DEF NoLostWakeUp
  <2> QED
    BY <1>0, <1>5, <2>1, <2>2 DEF PcOnly, TypeOK
<1>6. ASSUME NEW t \in Threads, NEW h \in Handles, close_connection(t, h)
      PROVE  NoLostWakeUp'
  <2>1. CASE MovedAway(h) /\ push_idle_connection(held[h])
    <3>1. Len(idle') = Len(idle) + 1
      BY <1>0, <2>1, PushFacts DEF push_idle_connection, MovedAway, TypeOK
    <3>2. CASE Waiting = {}
      <4>1. Waiting' = {}
        BY <2>1, <3>2 DEF push_idle_connection, notify_one, Waiting
      <4> QED
        BY <4>1 DEF NoLostWakeUp
    <3>3. CASE Waiting # {}
      <4>1. PICK w \in Waiting : pc' = [pc EXCEPT ![w] = "woken"]
        BY <2>1, <3>3 DEF push_idle_connection, notify_one
      <4>2. Awake' = Awake \cup {w} /\ w \notin Awake
        BY <1>0, <4>1 DEF Awake, Waiting, TypeOK
      <4>3. Cardinality(Awake') = Cardinality(Awake) + 1
        BY <1>0, <4>2, AwakeFacts
      <4> QED
        BY <1>0, <3>1, <3>3, <4>3 DEF NoLostWakeUp
    <3> QED
      BY <3>2, <3>3
  <2>2. CASE idle' = idle /\ pc' = pc
    BY <1>0, <1>1, <2>2
  <2> QED
    BY <1>0, <1>6, <2>1, <2>2, CloseCases
<1>7. ASSUME NEW t \in Threads, NEW h \in Handles,
             SessionClose(t, h) \/ SessionFree(t, h)
      PROVE  NoLostWakeUp'
  BY <1>6, <1>7 DEF SessionClose, SessionFree
<1>8. CASE ClientClose
  BY <1>2, <1>3, <1>8 DEF ClientClose
<1>9. CASE prune_expired_connections
  <2>1. PICK n \in 0..Len(idle) : erase_idle(n)
    BY <1>9 DEF prune_expired_connections
  <2>2. n \in Nat /\ n <= Len(idle) /\ pc' = pc
    BY <1>0, <1>9 DEF prune_expired_connections
  <2>3. Len(idle') = Len(idle) - n
    BY <1>0, <2>1, PruneFacts DEF erase_idle
  <2> QED
    BY <1>0, <1>1, <2>2, <2>3
<1>10. ASSUME pc' = pc, idle' = idle
       PROVE  NoLostWakeUp'
  BY <1>0, <1>1, <1>10
<1> QED
  BY <1>4, <1>5, <1>7, <1>8, <1>9, <1>10, StepCases
     DEF create_new_connection_fails, ServerNotice, Tick, LinkLost, GetPlain, GetNew, add_new_connection,
         create_non_pooled_connection, poolVars, handleVars, vars

LEMMA NextIInv == IInv /\ [Next]_vars => IInv'
<1> SUFFICES ASSUME IInv, [Next]_vars PROVE IInv'
  OBVIOUS
<1>1. TypeOK' /\ HandlesOK'
  BY TypeStep, HandlesStep DEF IInv
<1>2. OneHolder' /\ IdleOnce' /\ IdleUnused'
  BY ExclusiveStep
<1>3. IdleIsOpen' /\ ActiveWasOpen' /\ OpenIsTracked'
  BY SessionsStep DEF SessionsOK
<1>4. StrandedAlone' /\ PoolCapacity' /\ NoLostWakeUp'
  BY StrandedStep, CapacityStep, WakeUpStep
<1> QED
  BY <1>1, <1>2, <1>3, <1>4 DEF IInv

THEOREM Inductive == Spec => []IInv
BY InitIInv, NextIInv, PTL DEF Spec

\* Whatever the threads do, the pool never counts more than maxSize
\* connections: the assertion of is_full holds.
THEOREM CapacityHolds == Spec => []PoolCapacity
BY Inductive, PTL DEF IInv

\* A connection has one user at a time, and none while it waits in the pool.
THEOREM ExclusiveUseHolds == Spec => []ExclusiveUse
<1>1. IInv => ExclusiveUse
  BY DEF IInv, OneHolder, IdleOnce, IdleUnused, ExclusiveUse
<1> QED
  BY <1>1, Inductive, PTL

\* The pool offers open sessions only.
THEOREM IdleIsOpenHolds == Spec => []IdleIsOpen
BY Inductive, PTL DEF IInv

\* No thread sleeps on while there is a connection that nobody was woken for.
THEOREM NoLostWakeUpHolds == Spec => []NoLostWakeUp
BY Inductive, PTL DEF IInv

\* The queue holds at most as many connections as entries.
LEMMA IdleConnsBounded ==
  ASSUME TypeOK
  PROVE  /\ IsFiniteSet(IdleConns)
         /\ Cardinality(IdleConns) \in Nat /\ Cardinality(IdleConns) <= Len(idle)
<1>1. Len(idle) \in Nat
  BY IdleTyped
<1>2. IsFiniteSet(1..Len(idle)) /\ Cardinality(1..Len(idle)) = Len(idle)
  <2>1. /\ IsFiniteSet(1..Len(idle))
        /\ Cardinality(1..Len(idle)) = IF 1 > Len(idle) THEN 0 ELSE Len(idle) - 1 + 1
    <3>1. 1 \in Int /\ Len(idle) \in Int
      BY <1>1
    <3> QED
      BY <3>1, FS_Interval
  <2>2. (IF 1 > Len(idle) THEN 0 ELSE Len(idle) - 1 + 1) = Len(idle)
    BY <1>1
  <2> QED
    BY <2>1, <2>2
<1> DEFINE f == [i \in 1..Len(idle) |-> idle[i].connection]
<1>3. f \in [1..Len(idle) -> IdleConns]
      /\ \A c \in IdleConns : \E i \in 1..Len(idle) : f[i] = c
  BY DEF IdleConns
<1> HIDE DEF f
<1>4. f \in Surjection(1..Len(idle), IdleConns)
  BY <1>3, Fun_IsSurj
<1>5. IsFiniteSet(IdleConns) /\ Cardinality(IdleConns) <= Cardinality(1..Len(idle))
  BY <1>2, <1>4, FS_Surjection
<1> QED
  BY <1>2, <1>5, FS_CardinalityType

\* The pool knows the sessions that are open through it, at most maxSize, and
\* what a failed connect left open is beyond its reach.
THEOREM SessionsBoundedHolds == Spec => []SessionsBounded
<1>1. ASSUME IInv, PoolingEnabled, NEW c \in Stranded
      PROVE  c \notin active \cup IdleConns /\ \A h \in Handles : ~Holds(h, c)
  <2>1. c \notin active
    BY <1>1 DEF IInv, ActiveWasOpen, Stranded
  <2>2. c \notin IdleConns
    BY <1>1 DEF IInv, IdleIsOpen, IdleConns, Stranded
  <2> QED
    BY <1>1, <2>1, <2>2 DEF IInv, StrandedAlone
<1>2. ASSUME IInv, PoolingEnabled
      PROVE  /\ \A c \in Conns : conn[c].st = "ready" => c \in active \cup IdleConns
             /\ Cardinality({c \in Conns : conn[c].st = "ready"}) <= MaxSize
  <2>1. TypeOK /\ OpenIsTracked /\ PoolCapacity /\ PoolingEnabled
    BY <1>2 DEF IInv
  <2> DEFINE open == {c \in Conns : conn[c].st = "ready"}
  <2>2. open \in SUBSET (active \cup IdleConns)
    BY <2>1 DEF OpenIsTracked
  <2>3. /\ IsFiniteSet(active) /\ Cardinality(active) \in Nat
        /\ IsFiniteSet(IdleConns) /\ Cardinality(IdleConns) \in Nat
        /\ Cardinality(IdleConns) <= Len(idle) /\ Len(idle) \in Nat
    BY <2>1, IdleConnsBounded, IdleTyped, FS_CardinalityType DEF TypeOK
  <2>4. /\ IsFiniteSet(active \cup IdleConns)
        /\ Cardinality(active \cup IdleConns) \in Nat
        /\ Cardinality(active \cup IdleConns) =
             Cardinality(active) + Cardinality(IdleConns)
             - Cardinality(active \cap IdleConns)
    BY <2>3, FS_Union, FS_CardinalityType
  <2>5. Cardinality(active \cap IdleConns) \in Nat
    <3>1. active \cap IdleConns \in SUBSET active
      OBVIOUS
    <3> QED
      BY <2>3, <3>1, FS_Subset, FS_CardinalityType
  <2> HIDE DEF open
  <2>6. Cardinality(open) \in Nat /\ Cardinality(open) <= Cardinality(active \cup IdleConns)
    BY <2>2, <2>4, FS_Subset, FS_CardinalityType
  <2>7. Cardinality(active) + Len(idle) <= MaxSize
    BY <2>1 DEF PoolCapacity, connections_count
  <2>8. Cardinality(open) <= MaxSize
    BY <2>3, <2>4, <2>5, <2>6, <2>7, PoolAssumption
  <2> QED
    BY <2>1, <2>8 DEF OpenIsTracked, open
<1>3. IInv => SessionsBounded
  BY <1>1, <1>2 DEF SessionsBounded
<1> QED
  BY <1>3, Inductive, PTL

\* A slot is lost only when the reset of a connection just taken from the
\* queue throws, and comes back only with Client::close.
THEOREM SlotsLostByResetsOnlyHolds == Spec => SlotsLostByResetsOnly
<1> DEFINE Owned(c) == \E h \in Handles : hobj[h] = "pooled" /\ held[h] = c
<1>1. ASSUME IInv, [Next]_vars PROVE SlotLoss
  <2> USE PoolAssumption
  <2>0. /\ TypeOK /\ HandlesOK /\ IdleUnused
        /\ Len(idle) \in Nat
        /\ \A i \in 1..Len(idle) : idle[i].connection \in Conns
    BY <1>1, IdleTyped DEF IInv
  <2>1. Orphans = {c \in active : ~Owned(c)} /\ Orphans' = {c \in active' : ~Owned(c)'}
    BY DEF Orphans
  <2>2. ASSUME active \subseteq active',
               \A c \in active : Owned(c) <=> Owned(c)',
               \A c \in active' \ active : \/ Owned(c)'
                                           \/ has_idle_connection /\ c = Head(idle).connection
        PROVE  SlotLoss
    BY <2>1, <2>2 DEF SlotLoss
  <2>3. ASSUME active' = active, hobj' = hobj, held' = held
        PROVE  SlotLoss
    BY <2>2, <2>3
  <2>4. ASSUME NEW t \in Threads, NEW h \in Handles, GetPlain(t, h)
        PROVE  SlotLoss
    BY <2>0, <2>2, <2>4 DEF GetPlain, create_non_pooled_connection, poolVars, HandlesOK
  <2>5. ASSUME NEW h \in Handles, NEW c \in Conns, hobj[h] = "none", c \notin active,
               active' = active \cup {c},
               \/ Hand(h, "pooled", c)
               \/ /\ hobj' = hobj /\ held' = held
                  /\ has_idle_connection /\ c = Head(idle).connection
        PROVE  SlotLoss
    <3>1. \A d \in active : Owned(d) <=> Owned(d)'
      BY <2>0, <2>5 DEF Hand, TypeOK
    <3>2. Owned(c)' \/ (has_idle_connection /\ c = Head(idle).connection)
      BY <2>0, <2>5 DEF Hand, TypeOK
    <3> QED
      BY <2>2, <2>5, <3>1, <3>2
  <2>6. ASSUME NEW t \in Threads, NEW h \in Handles, GetNew(t, h)
        PROVE  SlotLoss
    <3>1. PICK c \in Unused : active' = active \cup {c} /\ Hand(h, "pooled", c)
      BY <2>6 DEF GetNew, add_new_connection
    <3>2. c \in Conns /\ c \notin active /\ hobj[h] = "none"
      BY <2>6 DEF Unused, GetNew
    <3> QED
      BY <2>5, <3>1, <3>2
  <2>7. ASSUME NEW t \in Threads, NEW h \in Handles, Pop(t, h)
        PROVE  SlotLoss
    <3>1. PICK c \in Conns : c = Head(idle).connection
      BY <2>0, <2>7, PopFacts DEF Pop
    <3>2. c \notin active
      BY <2>0, <2>7, <3>1, PopFacts DEF Pop, IdleUnused
    <3>3. /\ active' = active \cup {c} /\ hobj[h] = "none" /\ has_idle_connection
          /\ Hand(h, "pooled", c) \/ (hobj' = hobj /\ held' = held)
      BY <2>7, <3>1 DEF Pop, pop_idle_connection, handleVars
    <3> QED
      BY <2>5, <3>1, <3>2, <3>3
  <2>8. ASSUME NEW t \in Threads, NEW h \in Handles,
               SessionClose(t, h) \/ SessionFree(t, h)
        PROVE  SlotLoss
    <3>1. close_connection(t, h)
          /\ (\/ hobj' = hobj /\ held' = held
              \/ \E k \in {"none", "moved"} : Hand(h, k, NoConn))
      BY <2>8 DEF SessionClose, SessionFree, handleVars
    <3>2. active' = IF hobj[h] = "pooled" THEN active \ {held[h]} ELSE active
      BY <2>0, <3>1, CloseCases DEF MovedAway
    <3>3. \A c \in active' : Owned(c) <=> Owned(c)'
      BY <2>0, <3>1, <3>2 DEF Hand, TypeOK
    <3>4. \A c \in active \ active' : Owned(c)
      BY <3>2
    <3>5. active' \subseteq active
      BY <3>2
    <3> QED
      BY <2>1, <3>3, <3>4, <3>5 DEF SlotLoss
  <2>9. CASE ClientClose
    BY <2>1, <2>9 DEF ClientClose, SlotLoss
  <2> QED
    BY <1>1, <2>3, <2>4, <2>6, <2>7, <2>8, <2>9, StepCases
       DEF create_new_connection_fails, PcOnly, ServerNotice, Tick, LinkLost,
           prune_expired_connections, poolVars, handleVars, vars
<1> QED
  BY <1>1, Inductive, PTL DEF Spec, SlotsLostByResetsOnly

-----------------------------------------------------------------------------
(***************************************************************************)
(* Pruning.                                                                *)
(***************************************************************************)

\* What is in the queue.
LEMMA EntryTyped ==
  ASSUME idle \in Seq(Entries), NEW i \in 1..Len(idle)
  PROVE  idle[i].connection \in Conns /\ idle[i].expiration_time \in Nat
<1>1. idle[i] \in Entries
  BY ElementOfSeq
<1> QED
  BY <1>1 DEF Entries

\* What a prune leaves of the queue and of the connections in it.
LEMMA PruneLeaves ==
  ASSUME IInv, prune_expired_connections
  PROVE  \E n \in 0..Len(idle) :
           /\ IsExpiredPrefix(n)
           /\ Len(idle') = Len(idle) - n
           /\ \A i \in 1..(Len(idle) - n) : idle'[i] = idle[n + i]
           /\ conn' = CloseAll({idle[i].connection : i \in 1..n})
           /\ now' = now
<1>1. PICK n \in 0..Len(idle) : IsExpiredPrefix(n) /\ erase_idle(n)
  BY DEF prune_expired_connections
<1>2. Len(idle') = Len(idle) - n /\ \A i \in 1..(Len(idle) - n) : idle'[i] = idle[n + i]
  BY <1>1, PruneFacts DEF erase_idle, IInv
<1> QED
  BY <1>1, <1>2, Zenon DEF erase_idle, prune_expired_connections

\* Only a prune moves the time of the next prune.
LEMMA OnlyPruneMovesTime ==
  ASSUME IInv, [Next]_vars, next_prune_time' # next_prune_time
  PROVE  prune_expired_connections
<1>1. TypeOK
  BY DEF IInv
<1>2. ASSUME NEW t \in Threads, NEW h \in Handles,
             GetPlain(t, h) \/ GetNew(t, h) \/ Pop(t, h)
             \/ SessionClose(t, h) \/ SessionFree(t, h) \/ ServerNotice(t, h)
      PROVE  next_prune_time' = next_prune_time
  BY <1>2, Zenon DEF GetPlain, GetNew, Pop, create_non_pooled_connection, add_new_connection,
     pop_idle_connection, SessionClose, SessionFree, close_connection, ServerNotice, poolVars
<1>3. ASSUME NEW t \in Threads, PcOnly(t)
      PROVE  next_prune_time' = next_prune_time
  BY <1>3, Zenon DEF PcOnly, poolVars
<1>4. ASSUME \/ ClientClose \/ Tick \/ UNCHANGED vars \/ create_new_connection_fails
             \/ \E c \in Conns : LinkLost(c)
      PROVE  next_prune_time' = next_prune_time
  BY <1>4, Zenon DEF ClientClose, Tick, LinkLost, create_new_connection_fails, vars, poolVars
<1> QED
  BY <1>2, <1>3, <1>4, StepCases, Zenon

\* A prune closes no connection before its time, also when the clock was set
\* back and the queue is not in the order of expiration times.
THEOREM PruneSparesTheFresh == Spec => [][PrunesOnlyExpired]_vars
<1>1. ASSUME IInv, [Next]_vars PROVE PrunesOnlyExpired
  <2> SUFFICES ASSUME next_prune_time' # next_prune_time, NEW i \in 1..Len(idle),
                      ~IsExpired(idle[i])
               PROVE  /\ idle[i] \in {idle'[k] : k \in 1..Len(idle')}
                      /\ conn'[idle[i].connection].st = "ready"
    BY DEF PrunesOnlyExpired
  <2>1. prune_expired_connections
    BY <1>1, OnlyPruneMovesTime
  <2>2. PICK n \in 0..Len(idle) :
           /\ IsExpiredPrefix(n)
           /\ Len(idle') = Len(idle) - n
           /\ \A k \in 1..(Len(idle) - n) : idle'[k] = idle[n + k]
           /\ conn' = CloseAll({idle[k].connection : k \in 1..n})
    BY <1>1, <2>1, PruneLeaves
  <2>3. idle \in Seq(Entries) /\ Len(idle) \in Nat /\ IdleOnce /\ IdleIsOpen
    BY <1>1 DEF IInv, TypeOK, Entries
  <2>4. i \notin 1..n
    BY <2>2 DEF IsExpiredPrefix
  <2>5. n \in Nat /\ i - n \in 1..(Len(idle) - n) /\ n + (i - n) = i
    BY <2>3, <2>4
  <2>6. idle'[i - n] = idle[i] /\ i - n \in 1..Len(idle')
    <3>1. idle'[i - n] = idle[n + (i - n)]
      BY <2>2, <2>5, Zenon
    <3> QED
      BY <2>2, <2>5, <3>1, Zenon
  <2>7. idle[i].connection \notin {idle[k].connection : k \in 1..n}
    <3> SUFFICES ASSUME NEW k \in 1..n, idle[i].connection = idle[k].connection
                 PROVE  FALSE
      OBVIOUS
    <3>1. k \in 1..Len(idle)
      BY <2>3, <2>5
    <3>2. i = k
      BY <2>3, <3>1 DEF IdleOnce
    <3> QED
      BY <2>4, <3>2
  <2>8. idle[i].connection \in Conns /\ conn[idle[i].connection].st = "ready"
    BY <2>3, EntryTyped DEF IdleIsOpen
  <2>9. conn'[idle[i].connection] = conn[idle[i].connection]
    BY <2>2, <2>7, <2>8, Zenon DEF CloseAll
  <2> QED
    BY <2>6, <2>8, <2>9, Zenon
<1> QED
  BY <1>1, Inductive, PTL DEF Spec

\* The queue is in the order of expiration times, and no entry is newer than the
\* one a Session would get that is closed now.
ByExpiration ==
  /\ \A i, j \in 1..Len(idle) : i <= j => idle[i].expiration_time <= idle[j].expiration_time
  /\ \A i \in 1..Len(idle) : idle[i].expiration_time <= now + MaxIdleTime

\* What keeps, shortens or prolongs the queue keeps it in order.
LEMMA OrderKept ==
  ASSUME TypeOK, ByExpiration, now' \in Nat, now <= now', NEW n \in 0..Len(idle),
         Len(idle') = Len(idle) - n,
         \A i \in 1..(Len(idle) - n) : idle'[i] = idle[n + i]
  PROVE  ByExpiration'
<1>1. /\ idle \in Seq(Entries) /\ Len(idle) \in Nat /\ n \in Nat /\ now \in Nat
      /\ MaxIdleTime \in Nat
  BY PoolAssumption DEF TypeOK, Entries
<1>2. \A i \in 1..Len(idle) : idle[i].expiration_time \in Nat
  BY <1>1, EntryTyped
<1>3. \A i \in 1..Len(idle') : n + i \in 1..Len(idle) /\ idle'[i] = idle[n + i]
  BY <1>1
<1>4. ASSUME NEW i \in 1..Len(idle'), NEW j \in 1..Len(idle'), i <= j
      PROVE  idle'[i].expiration_time <= idle'[j].expiration_time
  <2>1. n + i <= n + j /\ n + i \in 1..Len(idle) /\ n + j \in 1..Len(idle)
    BY <1>1, <1>3, <1>4
  <2> QED
    BY <1>3, <2>1 DEF ByExpiration
<1>5. ASSUME NEW i \in 1..Len(idle')
      PROVE  idle'[i].expiration_time <= now' + MaxIdleTime
  <2>1. n + i \in 1..Len(idle) /\ idle'[i] = idle[n + i]
    BY <1>3
  <2>2. idle[n + i].expiration_time <= now + MaxIdleTime
    BY <2>1 DEF ByExpiration
  <2>3. idle[n + i].expiration_time \in Nat
    BY <1>2, <2>1
  <2> QED
    BY <1>1, <2>1, <2>2, <2>3
<1> QED
  BY <1>4, <1>5 DEF ByExpiration

LEMMA OrderPushed ==
  ASSUME TypeOK, ByExpiration, NEW c \in Conns, idle' = Append(idle, IdleEntry(c)), now' = now
  PROVE  ByExpiration'
<1>1. idle \in Seq(Entries) /\ Len(idle) \in Nat /\ now \in Nat /\ MaxIdleTime \in Nat
  BY PoolAssumption DEF TypeOK, Entries
<1>2. /\ Len(idle') = Len(idle) + 1
      /\ \A i \in 1..Len(idle) : idle'[i] = idle[i]
      /\ idle'[Len(idle) + 1] = IdleEntry(c)
  <2>1. IdleEntry(c) \in Entries
    BY <1>1 DEF IdleEntry, Entries
  <2> QED
    BY <1>1, <2>1, AppendProperties
<1>3. IdleEntry(c).expiration_time = now + MaxIdleTime
  BY DEF IdleEntry
<1>4. \A i \in 1..Len(idle') : i \in 1..Len(idle) \/ i = Len(idle) + 1
  BY <1>1, <1>2
<1>5. \A i \in 1..Len(idle') : idle'[i].expiration_time <= now + MaxIdleTime
  BY <1>1, <1>2, <1>3, <1>4 DEF ByExpiration
<1>6. ASSUME NEW i \in 1..Len(idle'), NEW j \in 1..Len(idle'), i <= j
      PROVE  idle'[i].expiration_time <= idle'[j].expiration_time
  <2>1. CASE j = Len(idle) + 1
    BY <1>2, <1>3, <1>5, <2>1
  <2>2. CASE j \in 1..Len(idle)
    <3>1. i \in 1..Len(idle)
      BY <1>1, <1>6, <2>2
    <3> QED
      BY <1>2, <1>6, <2>2, <3>1 DEF ByExpiration
  <2> QED
    BY <1>4, <2>1, <2>2
<1> QED
  BY <1>5, <1>6 DEF ByExpiration

LEMMA OrderStep ==
  ASSUME ~ClockMayStepBack, IInv, ByExpiration, [Next]_vars
  PROVE  ByExpiration'
<1>0. TypeOK /\ idle \in Seq(Entries) /\ Len(idle) \in Nat /\ now \in Nat
  BY DEF IInv, TypeOK, Entries
<1>1. ASSUME idle' = idle, now' \in Nat, now <= now'
      PROVE  ByExpiration'
  <2>1. 0 \in 0..Len(idle) /\ Len(idle') = Len(idle) - 0
    BY <1>0, <1>1
  <2>2. \A i \in 1..(Len(idle) - 0) : idle'[i] = idle[0 + i]
    BY <1>0, <1>1
  <2> QED
    BY <1>0, <1>1, <2>1, <2>2, OrderKept
<1>2. ASSUME NEW t \in Threads, NEW h \in Handles,
             GetPlain(t, h) \/ GetNew(t, h) \/ ServerNotice(t, h)
      PROVE  idle' = idle /\ now' = now
  BY <1>2, Zenon DEF GetPlain, GetNew, create_non_pooled_connection, add_new_connection,
     ServerNotice, poolVars
<1>3. ASSUME NEW t \in Threads, NEW h \in Handles, Pop(t, h)
      PROVE  ByExpiration'
  <2>1. idle' = Tail(idle) /\ now' = now /\ has_idle_connection
    BY <1>3 DEF Pop, pop_idle_connection
  <2>2. /\ Len(idle) \in Nat \ {0} /\ Len(idle') = Len(idle) - 1
        /\ \A i \in 1..Len(idle') : idle'[i] = idle[i + 1]
    BY <1>0, <2>1, PopFacts
  <2>3. 1 \in 0..Len(idle) /\ \A i \in 1..(Len(idle) - 1) : idle'[i] = idle[1 + i]
    BY <2>2
  <2>4. now' \in Nat /\ now <= now'
    BY <1>0, <2>1
  <2> QED
    BY <1>0, <2>2, <2>3, <2>4, OrderKept
<1>4. ASSUME NEW t \in Threads, NEW h \in Handles, SessionClose(t, h) \/ SessionFree(t, h)
      PROVE  ByExpiration'
  <2>1. close_connection(t, h)
    BY <1>4 DEF SessionClose, SessionFree
  <2>2. CASE MovedAway(h) /\ push_idle_connection(held[h])
    <3>1. held[h] \in Conns
      BY <1>0, <2>2 DEF MovedAway, TypeOK
    <3>2. idle' = Append(idle, IdleEntry(held[h])) /\ now' = now
      BY <1>0, <2>1, <2>2, CloseCases DEF push_idle_connection
    <3> QED
      BY <1>0, <3>1, <3>2, OrderPushed
  <2>3. CASE idle' = idle
    <3>1. now' = now
      BY <1>0, <2>1, CloseCases
    <3>2. now' \in Nat /\ now <= now'
      BY <1>0, <3>1
    <3> QED
      BY <1>1, <2>3, <3>2
  <2> QED
    BY <1>0, <2>1, <2>2, <2>3, CloseCases
<1>5. CASE ClientClose
  <2>1. Len(idle') = 0
    BY <1>5 DEF ClientClose
  <2> QED
    BY <2>1 DEF ByExpiration
<1>6. CASE prune_expired_connections
  <2>1. PICK n \in 0..Len(idle) :
           /\ Len(idle') = Len(idle) - n
           /\ \A k \in 1..(Len(idle) - n) : idle'[k] = idle[n + k]
           /\ now' = now
    BY <1>6, PruneLeaves
  <2>2. now' \in Nat /\ now <= now'
    BY <1>0, <2>1
  <2> QED
    BY <1>0, <2>1, <2>2, OrderKept
<1>7. CASE Tick
  <2>1. idle' = idle /\ now' = now + 1
    BY <1>7 DEF Tick, poolVars
  <2>2. now' \in Nat /\ now <= now'
    BY <1>0, <2>1
  <2> QED
    BY <1>1, <2>1, <2>2
<1>8. ASSUME \/ UNCHANGED vars \/ (\E t \in Threads : PcOnly(t))
             \/ (\E c \in Conns : LinkLost(c)) \/ create_new_connection_fails
      PROVE  idle' = idle /\ now' = now
  BY <1>8, Zenon DEF vars, PcOnly, LinkLost, create_new_connection_fails, poolVars
<1>9. ASSUME idle' = idle, now' = now
      PROVE  ByExpiration'
  <2>1. now' \in Nat /\ now <= now'
    BY <1>0, <1>9
  <2> QED
    BY <1>1, <1>9, <2>1
<1> QED
  BY <1>2, <1>3, <1>4, <1>5, <1>6, <1>7, <1>8, <1>9, StepCases, Zenon

\* With a clock that is never set back a prune leaves no expired connection in
\* the queue, although find_if stops at the first entry that is not expired.
THEOREM PruneLeavesNoneExpired ==
  ASSUME ~ClockMayStepBack
  PROVE  Spec => [][PrunesAllExpired]_vars
<1>1. Init => ByExpiration
  <2> SUFFICES ASSUME Init PROVE ByExpiration
    OBVIOUS
  <2>1. Len(idle) = 0
    BY DEF Init
  <2> QED
    BY <2>1 DEF ByExpiration
<1>2. IInv /\ ByExpiration /\ [Next]_vars => ByExpiration'
  BY OrderStep
<1>3. ASSUME IInv, ByExpiration, [Next]_vars PROVE PrunesAllExpired
  <2> SUFFICES ASSUME next_prune_time' # next_prune_time, NEW k \in 1..Len(idle'),
                      IsExpired(idle'[k])
               PROVE  FALSE
    BY DEF PrunesAllExpired
  <2>1. prune_expired_connections
    BY <1>3, OnlyPruneMovesTime
  <2>2. PICK n \in 0..Len(idle) :
           /\ IsExpiredPrefix(n)
           /\ Len(idle') = Len(idle) - n
           /\ \A i \in 1..(Len(idle) - n) : idle'[i] = idle[n + i]
    BY <1>3, <2>1, PruneLeaves
  <2>3. idle \in Seq(Entries) /\ Len(idle) \in Nat /\ now \in Nat
    BY <1>3 DEF IInv, TypeOK, Entries
  <2>4. n \in Nat /\ n + k \in 1..Len(idle) /\ n + 1 \in 1..Len(idle) /\ n + 1 <= n + k
    BY <2>2, <2>3
  <2>5. idle'[k] = idle[n + k]
    BY <2>2
  <2>6. idle[n + 1].expiration_time <= idle[n + k].expiration_time
    BY <1>3, <2>4 DEF ByExpiration
  <2>7. ~IsExpired(idle[n + 1])
    BY <2>2, <2>3, <2>4 DEF IsExpiredPrefix
  <2>8. idle[n + 1].expiration_time \in Nat /\ idle[n + k].expiration_time \in Nat
    BY <2>3, <2>4, EntryTyped
  <2>9. ~(idle[n + 1].expiration_time <= now) /\ idle[n + k].expiration_time <= now
    BY <2>5, <2>7, Zenon DEF IsExpired
  <2> DEFINE first == idle[n + 1].expiration_time
             left == idle[n + k].expiration_time
  <2>10. first \in Nat /\ left \in Nat /\ first <= left /\ ~(first <= now) /\ left <= now
    BY <2>6, <2>8, <2>9, Zenon
  <2> HIDE DEF first, left
  <2> QED
    BY <2>3, <2>10
<1> QED
  BY <1>1, <1>2, <1>3, Inductive, PTL DEF Spec

-----------------------------------------------------------------------------
(***************************************************************************)
(* The refinement: with IInv every step of the pool is a grant, a return,  *)
(* the revocation of all leases, or changes no lease.                      *)
(***************************************************************************)
LEMMA LeaseInit == Init => Lease!Init
BY DEF Init, Lease!Init, LeaseOf

\* What is leased is active.
LEMMA LeasedIsActive ==
  ASSUME IInv
  PROVE  /\ Lease!Leased \subseteq active
         /\ Cardinality(Lease!Leased) \in Nat
         /\ Cardinality(Lease!Leased) <= Cardinality(active)
<1>1. IsFiniteSet(active)
  BY DEF IInv, TypeOK
<1>2. Lease!Leased \in SUBSET active
  BY DEF Lease!Leased, LeaseOf
<1> QED
  BY <1>1, <1>2, FS_Subset, FS_CardinalityType

\* A Session that gets a connection nobody leases, while a slot is left.
LEMMA GrantStep ==
  ASSUME IInv, NEW h \in Handles, NEW c \in Conns, c \notin active,
         hobj[h] = "none", Hand(h, "pooled", c), active' = active \cup {c},
         \A g \in Handles : ~Holds(g, c),
         Cardinality(active) < MaxSize
  PROVE  Lease!Grant(h, c)
<1>0. TypeOK /\ NoConn \notin Conns /\ active \subseteq Conns /\ MaxSize \in Nat
  BY PoolAssumption DEF IInv, TypeOK
<1>1. LeaseOf[h] = NoConn
  BY DEF LeaseOf
<1>2. c \notin Lease!Leased /\ Cardinality(Lease!Leased) < MaxSize
  <2>1. Cardinality(active) \in Nat
    BY FS_CardinalityType DEF IInv, TypeOK
  <2> QED
    BY <1>0, <2>1, LeasedIsActive
<1>3. LeaseOf' = [LeaseOf EXCEPT ![h] = c]
  <2>1. LeaseOf'[h] = c
    BY <1>0 DEF LeaseOf, Hand, TypeOK
  <2>2. ASSUME NEW g \in Handles, g # h
        PROVE  LeaseOf'[g] = LeaseOf[g]
    <3>1. hobj'[g] = hobj[g] /\ held'[g] = held[g]
      BY <1>0, <2>2 DEF Hand, TypeOK
    <3>2. hobj[g] = "pooled" => held[g] # c
      BY DEF Holds
    <3> QED
      BY <3>1, <3>2 DEF LeaseOf
  <2>3. LeaseOf = [g \in Handles |-> LeaseOf[g]] /\ LeaseOf' = [g \in Handles |-> LeaseOf'[g]]
    BY DEF LeaseOf
  <2> QED
    BY <2>1, <2>2, <2>3
<1> QED
  BY <1>1, <1>2, <1>3 DEF Lease!Grant, Lease!Cardinality, Cardinality

LEMMA LeaseStep == IInv /\ [Next]_vars => [Lease!Next]_LeaseOf
<1> SUFFICES ASSUME IInv, [Next]_vars PROVE [Lease!Next]_LeaseOf
  OBVIOUS
<1> USE PoolAssumption
<1>0. /\ TypeOK /\ HandlesOK /\ OneHolder /\ IdleUnused /\ PoolCapacity
      /\ Len(idle) \in Nat /\ Cardinality(active) \in Nat
      /\ Cardinality(active) + Len(idle) <= MaxSize
  BY IdleTyped, FS_CardinalityType DEF IInv, TypeOK, PoolCapacity, connections_count
<1>1. ASSUME NEW t \in Threads, NEW h \in Handles, GetPlain(t, h)
      PROVE  LeaseOf' = LeaseOf
  <2>1. active = {} /\ active' = {}
    BY <1>0, <1>1 DEF GetPlain, create_non_pooled_connection, poolVars, HandlesOK
  <2> QED
    BY <2>1 DEF LeaseOf
<1>2. ASSUME NEW t \in Threads, NEW h \in Handles, GetNew(t, h)
      PROVE  \E c \in Conns : Lease!Grant(h, c)
  <2>1. PICK c \in Unused : /\ active' = active \cup {c}
                            /\ Hand(h, "pooled", c)
    BY <1>2 DEF GetNew, add_new_connection
  <2>2. /\ c \in Conns /\ c \notin active /\ hobj[h] = "none"
        /\ \A g \in Handles : ~Holds(g, c)
    BY <1>2 DEF Unused, GetNew
  <2>3. Cardinality(active) < MaxSize
    BY <1>0, <1>2 DEF GetNew, is_full, connections_count
  <2> QED
    BY <2>1, <2>2, <2>3, GrantStep
<1>3. ASSUME NEW t \in Threads, NEW h \in Handles, Pop(t, h)
      PROVE  LeaseOf' = LeaseOf \/ \E c \in Conns : Lease!Grant(h, c)
  <2>1. PICK c \in Conns : c = Head(idle).connection
    BY <1>0, <1>3, PopFacts DEF Pop
  <2>2. c \notin active /\ \A g \in Handles : ~Holds(g, c)
    BY <1>0, <1>3, <2>1, PopFacts DEF Pop, IdleUnused
  <2>3. /\ active' = active \cup {c} /\ hobj[h] = "none"
        /\ Hand(h, "pooled", c) \/ (hobj' = hobj /\ held' = held)
    BY <1>3, <2>1 DEF Pop, pop_idle_connection, handleVars
  <2>4. Len(idle) # 0
    BY <1>0, <1>3, PopFacts DEF Pop
  <2>5. Cardinality(active) < MaxSize
    BY <1>0, <2>4
  <2>6. CASE Hand(h, "pooled", c)
    BY <2>2, <2>3, <2>5, <2>6, GrantStep
  <2>7. CASE hobj' = hobj /\ held' = held
    BY <2>2, <2>3, <2>7 DEF LeaseOf, Holds
  <2> QED
    BY <2>3, <2>6, <2>7
<1>4. ASSUME NEW t \in Threads, NEW h \in Handles, close_connection(t, h),
             \/ hobj' = hobj /\ held' = held
             \/ \E k \in {"none", "moved"} : Hand(h, k, NoConn)
      PROVE  LeaseOf' = LeaseOf \/ Lease!Return(h)
  <2>1. active' = IF hobj[h] = "pooled" THEN active \ {held[h]} ELSE active
    BY <1>0, <1>4, CloseCases DEF MovedAway
  <2>2. ASSUME NEW g \in Handles, g # h
        PROVE  LeaseOf'[g] = LeaseOf[g]
    <3>1. hobj'[g] = hobj[g] /\ held'[g] = held[g]
      BY <1>0, <1>4, <2>2 DEF Hand, TypeOK
    <3>2. hobj[g] = "pooled" /\ hobj[h] = "pooled" => held[g] # held[h]
      BY <1>0, <2>2 DEF OneHolder, Holds, HandlesOK
    <3> QED
      BY <2>1, <3>1, <3>2 DEF LeaseOf
  <2>3. LeaseOf'[h] = NoConn
    BY <1>0, <1>4, <2>1 DEF LeaseOf, Hand, TypeOK
  <2>4. LeaseOf = [g \in Handles |-> LeaseOf[g]] /\ LeaseOf' = [g \in Handles |-> LeaseOf'[g]]
    BY DEF LeaseOf
  <2>5. LeaseOf' = [LeaseOf EXCEPT ![h] = NoConn]
    BY <2>2, <2>3, <2>4
  <2>6. CASE LeaseOf[h] = NoConn
    BY <2>2, <2>3, <2>4, <2>6
  <2> QED
    BY <2>5, <2>6 DEF Lease!Return
<1>5. ASSUME NEW t \in Threads, NEW h \in Handles,
             SessionClose(t, h) \/ SessionFree(t, h)
      PROVE  LeaseOf' = LeaseOf \/ Lease!Return(h)
  BY <1>4, <1>5 DEF SessionClose, SessionFree, handleVars
<1>6. CASE ClientClose
  BY <1>6 DEF ClientClose, LeaseOf, Lease!Next, Lease!RevokeAll
<1>7. ASSUME hobj' = hobj, held' = held, active' = active
      PROVE  LeaseOf' = LeaseOf
  BY <1>7 DEF LeaseOf
<1>8. LeaseOf' = LeaseOf \/ ClientClose
      \/ \E h \in Handles : Lease!Return(h) \/ \E c \in Conns : Lease!Grant(h, c)
  BY <1>1, <1>2, <1>3, <1>5, <1>7, StepCases
     DEF create_new_connection_fails, PcOnly, ServerNotice, Tick, LinkLost, prune_expired_connections,
         poolVars, handleVars, vars
<1> QED
  BY <1>6, <1>8 DEF Lease!Next

\* The pool implements the abstract specification of leases.
THEOREM Refinement == Spec => ImplementsLease
BY LeaseInit, LeaseStep, Inductive, PTL DEF Spec, ImplementsLease, Lease!Spec

=============================================================================
