------------------------- MODULE DocumentIdsProofs -------------------------
(***************************************************************************)
(* No two ids of DocumentIds are equal, for every set of sessions and every *)
(* behaviour of the clock.                                                 *)
(***************************************************************************)
EXTENDS DocumentIds, TLAPS

\* A node belongs to one session at most, and was drawn.
NodesOwned ==
  /\ \A s \in Sessions : generator[s].session_node_id <= nodes
  /\ \A s, t \in Sessions : s # t /\ Exists(s) =>
       generator[s].session_node_id # generator[t].session_node_id
  /\ \A i \in 1..Len(issued) : issued[i].node_id # 0 /\ issued[i].node_id <= nodes

\* The ids with the node that a generator has now were issued by it, with its
\* clock sequence and not after its last time.
IssuedBefore ==
  \A s \in Sessions : \A i \in 1..Len(issued) :
    issued[i].node_id = generator[s].session_node_id =>
      /\ issued[i].clock_seq = generator[s].clock_sequence
      /\ issued[i].time <= generator[s].last_timestamp

\* The inductive invariant.
IInv == TypeOK /\ NodesOwned /\ IssuedBefore /\ IdsDiffer

\* An element of a sequence is a member of its set.
LEMMA ElementOfSeq ==
  ASSUME NEW S, NEW q \in Seq(S), NEW i \in 1..Len(q)
  PROVE  q[i] \in S
OBVIOUS

\* The initial states satisfy the invariant: nothing is issued.
LEMMA InitIInv == Init => IInv
<1> SUFFICES ASSUME Init PROVE IInv
  OBVIOUS
<1>1. PICK c \in ClockSeqs : generator = [s \in Sessions |-> NoGenerator(c)]
  BY DEF Init
<1>2. \A s \in Sessions : generator[s].session_node_id = 0
  BY <1>1 DEF NoGenerator, Generator
<1>3. Len(issued) = 0
  BY DEF Init
<1>4. TypeOK
  <2>0. now \in 1..MaxTime /\ nodes = 0 /\ repeated = FALSE
    BY Zenon DEF Init
  <2>1. now \in Nat /\ nodes \in Nat /\ repeated \in BOOLEAN
    <3>1. now \in Nat /\ nodes \in Nat
      BY <2>0, IdsAssumption, SMT
    <3>2. repeated \in BOOLEAN
      BY <2>0, Zenon
    <3> QED BY <3>1, <3>2
  <2>2. NoGenerator(c) \in [session_node_id : Nat, clock_sequence : ClockSeqs,
                            last_timestamp : Nat]
    BY DEF NoGenerator, Generator
  <2>3. generator \in [Sessions -> [session_node_id : Nat, clock_sequence : ClockSeqs,
                                    last_timestamp : Nat]]
    BY <1>1, <2>2
  <2>4. issued \in Seq([node_id : Nat, clock_seq : ClockSeqs, time : Nat])
    BY DEF Init
  <2> QED BY <2>1, <2>3, <2>4 DEF TypeOK
<1>5. NodesOwned
  BY <1>2, <1>3 DEF Init, NodesOwned, Exists
<1>6. IssuedBefore /\ IdsDiffer
  BY <1>3 DEF IssuedBefore, IdsDiffer
<1> QED BY <1>4, <1>5, <1>6 DEF IInv

\* Creating a session: its node is new, so no id has it.
LEMMA CreateSessionIInv ==
  ASSUME IInv, NEW s \in Sessions, CreateSession(s)
  PROVE  IInv'
<1>0. TypeOK /\ NodesOwned /\ IssuedBefore /\ IdsDiffer
  BY DEF IInv
<1>1. PICK c \in ClockSeqs :
        generator' = [generator EXCEPT ![s] = Generator(NewNode, c, 0)]
  BY DEF CreateSession
<1>2. /\ generator'[s] = [session_node_id |-> nodes + 1, clock_sequence |-> c,
                          last_timestamp |-> 0]
      /\ \A t \in Sessions : t # s => generator'[t] = generator[t]
  BY <1>0, <1>1 DEF TypeOK, Generator, NewNode
<1>3. nodes \in Nat /\ nodes' = nodes + 1 /\ issued' = issued /\ repeated' = repeated
  BY <1>0 DEF CreateSession, TypeOK
<1>4. TypeOK'
  BY <1>0, <1>1 DEF CreateSession, TypeOK, Generator, NewNode
<1>5. NodesOwned'
  <2>1. \A t \in Sessions : generator[t].session_node_id \in Nat
    BY <1>0 DEF TypeOK
  <2>a. issued \in Seq([node_id : Nat, clock_seq : ClockSeqs, time : Nat])
    BY <1>0 DEF TypeOK
  <2>b. \A i \in 1..Len(issued) : issued[i] \in [node_id : Nat, clock_seq : ClockSeqs, time : Nat]
    BY <2>a, ElementOfSeq, Zenon
  <2>2. \A i \in 1..Len(issued) : issued[i].node_id \in Nat
    BY <2>b
  <2>3. \A t \in Sessions : generator[t].session_node_id < nodes + 1
    BY <1>0, <1>3, <2>1 DEF NodesOwned
  <2>4. \A t \in Sessions : generator'[t].session_node_id <= nodes'
    BY <1>2, <1>3, <2>1, <2>3
  <2>5. ASSUME NEW t \in Sessions, NEW u \in Sessions, t # u,
               generator'[t].session_node_id # 0
        PROVE  generator'[t].session_node_id # generator'[u].session_node_id
    <3>1. CASE t = s
      BY <1>2, <1>3, <2>1, <2>3, <2>5, <3>1
    <3>2. CASE u = s
      BY <1>2, <1>3, <2>1, <2>3, <2>5, <3>2
    <3>3. CASE t # s /\ u # s
      BY <1>0, <1>2, <2>5, <3>3 DEF NodesOwned, Exists
    <3> QED BY <3>1, <3>2, <3>3
  <2>6. \A i \in 1..Len(issued) : issued[i].node_id # 0 /\ issued[i].node_id <= nodes + 1
    BY <1>0, <1>3, <2>2 DEF NodesOwned
  <2> QED BY <1>3, <2>4, <2>5, <2>6 DEF NodesOwned, Exists
<1>6. IssuedBefore'
  <2>1. \A i \in 1..Len(issued) : issued[i].node_id # nodes + 1
    BY <1>0, <1>3 DEF NodesOwned, TypeOK
  <2> QED BY <1>0, <1>2, <1>3, <2>1 DEF IssuedBefore
<1>7. IdsDiffer'
  BY <1>0, <1>3 DEF IdsDiffer
<1> QED BY <1>4, <1>5, <1>6, <1>7 DEF IInv

\* Freeing a session leaves the ids of its node behind, for nobody.
LEMMA FreeSessionIInv ==
  ASSUME IInv, NEW s \in Sessions, FreeSession(s)
  PROVE  IInv'
<1> USE DEF Exists
<1>2. TypeOK'
  BY DEF FreeSession, IInv, TypeOK
<1>3. NodesOwned'
  BY DEF FreeSession, IInv, TypeOK, NodesOwned
<1>4. IssuedBefore'
  BY DEF FreeSession, IInv, TypeOK, NodesOwned, IssuedBefore
<1>5. IdsDiffer'
  BY DEF FreeSession, IInv, IdsDiffer
<1> QED BY <1>2, <1>3, <1>4, <1>5 DEF IInv

\* A new id differs from all before it: by its time if the clock went on, by
\* its clock sequence if a new one was drawn.
LEMMA GenerateIInv ==
  ASSUME IInv, NEW s \in Sessions, generate(s)
  PROVE  IInv'
<1> DEFINE Ids == [node_id : Nat, clock_seq : ClockSeqs, time : Nat]
<1> DEFINE n == Len(issued)
<1> DEFINE g == generator[s]
<1>1. PICK c \in ClockSeqs, node \in Nat :
        /\ generator' = [generator EXCEPT ![s] = Generator(node, c, now)]
        /\ \/ /\ g.last_timestamp < now /\ c = g.clock_sequence
              /\ node = g.session_node_id
              /\ nodes' = nodes /\ repeated' = repeated
           \/ /\ node = nodes + 1 /\ nodes' = nodes + 1
              /\ repeated' = (repeated \/ c = g.clock_sequence)
  <2>0. /\ g \in [session_node_id : Nat, clock_sequence : ClockSeqs, last_timestamp : Nat]
        /\ now \in Nat /\ nodes \in Nat
    BY DEF IInv, TypeOK
  <2>1. CASE ~Repeats(s) /\ generator' = [generator EXCEPT ![s].last_timestamp = now]
                         /\ UNCHANGED <<nodes, repeated>>
    <3>1. Generator(g.session_node_id, g.clock_sequence, now) = [g EXCEPT !.last_timestamp = now]
      BY <2>0 DEF Generator
    <3>2. g.last_timestamp < now
      BY <2>0, <2>1 DEF Repeats
    <3> QED BY <2>0, <2>1, <3>1, <3>2
  <2>2. CASE Repeats(s) /\ nodes' = nodes + 1 /\ \E c \in ClockSeqs :
               /\ generator' = [generator EXCEPT ![s] = Generator(NewNode, c, now)]
               /\ repeated' = (repeated \/ c = generator[s].clock_sequence)
    <3>1. PICK d \in ClockSeqs :
               /\ generator' = [generator EXCEPT ![s] = Generator(NewNode, d, now)]
               /\ repeated' = (repeated \/ d = g.clock_sequence)
      BY <2>2
    <3>2. NewNode = nodes + 1 /\ nodes + 1 \in Nat
      BY <2>0 DEF NewNode
    <3> QED BY <2>2, <3>1, <3>2, Zenon
  <2> QED BY <2>1, <2>2 DEF generate
<1> DEFINE id == Uuid(g.session_node_id, c, now)
<1>2. /\ now' = now /\ now \in Nat /\ nodes \in Nat /\ nodes' \in Nat /\ nodes <= nodes'
      /\ g.session_node_id \in Nat \ {0} /\ g.last_timestamp \in Nat
      /\ g.session_node_id <= nodes
  BY <1>1 DEF IInv, TypeOK, NodesOwned, generate, Exists
<1>3. /\ generator'[s] = Generator(node, c, now)
      /\ \A t \in Sessions : t # s => generator'[t] = generator[t]
  BY <1>1 DEF IInv, TypeOK
<1>4. issued' = Append(issued, id)
  BY <1>3 DEF generate, Generator
<1>5. id \in Ids /\ id.node_id = g.session_node_id /\ id.clock_seq = c /\ id.time = now
  BY <1>2 DEF Uuid
<1>6. issued \in Seq(Ids) /\ n \in Nat
  BY DEF IInv, TypeOK
<1>7. /\ issued' \in Seq(Ids) /\ Len(issued') = n + 1
      /\ \A i \in 1..n : issued'[i] = issued[i]
      /\ issued'[n + 1] = id
  BY <1>4, <1>5, <1>6
<1>8. \A i \in 1..n : /\ issued[i].node_id \in Nat /\ issued[i].time \in Nat
                      /\ issued[i].node_id # 0 /\ issued[i].node_id <= nodes
  <2>1. \A i \in 1..n : issued[i] \in Ids
    BY <1>6, ElementOfSeq, Zenon
  <2>2. \A i \in 1..n : issued[i].node_id \in Nat /\ issued[i].time \in Nat
    BY <2>1
  <2> QED BY <2>2 DEF IInv, NodesOwned
<1>9. \A t \in Sessions : generator[t].session_node_id \in Nat
                          /\ generator[t].session_node_id <= nodes
                          /\ generator[t].last_timestamp \in Nat
  BY DEF IInv, TypeOK, NodesOwned
<1>10. /\ generator'[s].session_node_id = node /\ generator'[s].clock_sequence = c
       /\ generator'[s].last_timestamp = now
  BY <1>3 DEF Generator
<1> HIDE DEF Ids, n, g, id
<1>11. \A i \in 1..(n + 1) : i \in 1..n \/ i = n + 1
  BY <1>6
<1>12. ~repeated' => \A i \in 1..n : issued[i] # id
  <2> SUFFICES ASSUME ~repeated', NEW i \in 1..n, issued[i] = id PROVE FALSE
    OBVIOUS
  <2>1. issued[i].clock_seq = g.clock_sequence /\ issued[i].time <= g.last_timestamp
    BY <1>5 DEF IInv, IssuedBefore, g, n
  <2>2. c = g.clock_sequence /\ now <= g.last_timestamp
    BY <1>5, <2>1
  <2>3. repeated' = (repeated \/ c = g.clock_sequence)
    BY <1>1, <1>2, <2>2
  <2> QED BY <2>2, <2>3
<1>13. TypeOK'
  <2>1. Generator(node, c, now) \in [session_node_id : Nat, clock_sequence : ClockSeqs,
                                     last_timestamp : Nat]
    BY <1>2 DEF Generator
  <2>2. generator' \in [Sessions -> [session_node_id : Nat, clock_sequence : ClockSeqs,
                                     last_timestamp : Nat]]
    BY <1>1, <2>1 DEF IInv, TypeOK
  <2>3. repeated' \in BOOLEAN
    BY <1>1 DEF IInv, TypeOK
  <2> QED BY <1>2, <1>7, <2>2, <2>3 DEF TypeOK, Ids
<1>14. NodesOwned'
  <2>0. node <= nodes' /\ (node = g.session_node_id \/ node > nodes)
    BY <1>1, <1>2
  <2>1. \A t \in Sessions : generator'[t].session_node_id <= nodes'
    BY <1>2, <1>3, <1>9, <1>10, <2>0
  <2>2. ASSUME NEW t \in Sessions, t # s
        PROVE  generator'[t].session_node_id # node
    <3>1. generator[t].session_node_id # g.session_node_id
      BY <1>2, <2>2 DEF IInv, NodesOwned, Exists, g
    <3> QED BY <1>2, <1>3, <1>9, <2>0, <2>2, <3>1
  <2>3. ASSUME NEW t \in Sessions, NEW u \in Sessions, t # u,
               generator'[t].session_node_id # 0
        PROVE  generator'[t].session_node_id # generator'[u].session_node_id
    <3>1. CASE t = s \/ u = s
      BY <1>10, <2>2, <2>3, <3>1
    <3>2. CASE t # s /\ u # s
      BY <1>3, <2>3, <3>2 DEF IInv, NodesOwned, Exists
    <3> QED BY <3>1, <3>2
  <2>4. ASSUME NEW i \in 1..(n + 1)
        PROVE  issued'[i].node_id # 0 /\ issued'[i].node_id <= nodes'
    <3>1. CASE i \in 1..n
      BY <1>2, <1>7, <1>8, <3>1
    <3>2. CASE i = n + 1
      BY <1>2, <1>5, <1>7, <3>2
    <3> QED BY <1>11, <3>1, <3>2
  <2> QED BY <1>7, <2>1, <2>3, <2>4 DEF NodesOwned, Exists
<1>15. IssuedBefore'
  <2> SUFFICES ASSUME NEW t \in Sessions, NEW i \in 1..(n + 1),
                      issued'[i].node_id = generator'[t].session_node_id
               PROVE  /\ issued'[i].clock_seq = generator'[t].clock_sequence
                      /\ issued'[i].time <= generator'[t].last_timestamp
    BY <1>7 DEF IssuedBefore
  <2>1. CASE i = n + 1
    <3>1. t = s
      <4> SUFFICES ASSUME t # s PROVE FALSE
        OBVIOUS
      <4>1. generator[t].session_node_id = g.session_node_id
        BY <1>3, <1>5, <1>7, <2>1
      <4> QED BY <1>2, <4>1 DEF IInv, NodesOwned, Exists, g
    <3> QED BY <1>2, <1>5, <1>7, <1>10, <2>1, <3>1
  <2>2. CASE i \in 1..n /\ t # s
    BY <1>3, <1>7, <2>2 DEF IInv, IssuedBefore, n
  <2>3. CASE i \in 1..n /\ t = s
    <3>1. issued[i].node_id = node /\ node <= nodes
      BY <1>7, <1>8, <1>10, <2>3
    <3>2. node = g.session_node_id /\ c = g.clock_sequence /\ g.last_timestamp < now
      BY <1>1, <1>2, <3>1
    <3>3. issued[i].clock_seq = g.clock_sequence /\ issued[i].time <= g.last_timestamp
      BY <2>3, <3>1, <3>2 DEF IInv, IssuedBefore, g, n
    <3> QED BY <1>2, <1>7, <1>8, <1>10, <2>3, <3>2, <3>3
  <2> QED BY <1>11, <2>1, <2>2, <2>3
<1>16. IdsDiffer'
  <2> SUFFICES ASSUME ~repeated', NEW i \in 1..(n + 1), NEW j \in 1..(n + 1), i # j
               PROVE  issued'[i] # issued'[j]
    BY <1>7 DEF IdsDiffer
  <2>1. ~repeated
    BY <1>1
  <2>2. CASE i \in 1..n /\ j \in 1..n
    BY <1>7, <2>1, <2>2 DEF IInv, IdsDiffer, n
  <2>3. CASE i = n + 1 /\ j \in 1..n
    BY <1>7, <1>12, <2>3
  <2>4. CASE i \in 1..n /\ j = n + 1
    BY <1>7, <1>12, <2>4
  <2> QED BY <1>11, <2>2, <2>3, <2>4
<1> QED BY <1>13, <1>14, <1>15, <1>16 DEF IInv

\* Every step, the clock's included, preserves the invariant.
LEMMA NextIInv == IInv /\ [Next]_vars => IInv'
<1> SUFFICES ASSUME IInv, [Next]_vars PROVE IInv'
  OBVIOUS
<1>1. ASSUME NEW s \in Sessions, CreateSession(s) PROVE IInv'
  BY <1>1, CreateSessionIInv
<1>2. ASSUME NEW s \in Sessions, FreeSession(s) PROVE IInv'
  BY <1>2, FreeSessionIInv
<1>3. ASSUME NEW s \in Sessions, generate(s) PROVE IInv'
  BY <1>3, GenerateIInv
<1>4. ASSUME NEW t \in 1..MaxTime, SetClock(t) PROVE IInv'
  BY <1>4, IdsAssumption
  DEF SetClock, IInv, TypeOK, NodesOwned, IssuedBefore, IdsDiffer, Exists
<1>5. CASE UNCHANGED vars
  BY <1>5 DEF vars, IInv, TypeOK, NodesOwned, IssuedBefore, IdsDiffer, Exists
<1> QED BY <1>1, <1>2, <1>3, <1>4, <1>5 DEF Next

\* The generators and the ids keep their types.
THEOREM TypeCorrect == Spec => []TypeOK
<1>1. Init => IInv
  BY InitIInv
<1>2. IInv /\ [Next]_vars => IInv'
  BY NextIInv
<1>3. IInv => TypeOK
  BY DEF IInv
<1> QED BY <1>1, <1>2, <1>3, PTL DEF Spec

\* Session::generateUUID gives no id twice, for any number of sessions, any
\* clock sequences and any behaviour of the clock, as long as a clock sequence
\* drawn anew differs from the one before.
THEOREM IdsDifferHolds == Spec => []IdsDiffer
<1>1. Init => IInv
  BY InitIInv
<1>2. IInv /\ [Next]_vars => IInv'
  BY NextIInv
<1>3. IInv => IdsDiffer
  BY DEF IInv
<1> QED BY <1>1, <1>2, <1>3, PTL DEF Spec
=============================================================================
