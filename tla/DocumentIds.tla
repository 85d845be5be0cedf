---------------------------- MODULE DocumentIds ----------------------------
(***************************************************************************)
(* Session::generateUUID: one Uuid_generator per session, all on one       *)
(* system clock that may stand still between two calls and may be set      *)
(* back.  An id is a node, a clock sequence and a time.                    *)
(*                                                                         *)
(* Node ids are random numbers of 48 bits, taken here to be always new.    *)
(* A clock sequence has 16 bits only: a new one can be equal to the old.   *)
(* The subtraction of the epoch wraps around, for all times alike, which   *)
(* keeps their order and sets the bits that the version would overwrite.   *)
(***************************************************************************)
EXTENDS Integers, Sequences

CONSTANTS
  Sessions,
  ClockSeqs,      \* values of clock_sequence
  MaxTime,        \* bound of the clock
  MaxIds,         \* bound of the ids generated
  MaxNodes        \* bound of the nodes drawn

ASSUME IdsAssumption ==
  MaxTime \in Nat /\ MaxIds \in Nat /\ MaxNodes \in Nat

VARIABLES
  now,            \* high_resolution_clock, in ticks of 100 ns
  generator,      \* session_uuid of each session
  nodes,          \* how many node ids have been drawn
  issued,         \* ids returned so far
  repeated        \* history: a new clock sequence was equal to the old one

vars == <<now, generator, nodes, issued, repeated>>

Generator(node, clock, last) == [session_node_id |-> node, clock_sequence |-> clock,
                                 last_timestamp |-> last]
Uuid(node, clock, time) == [node_id |-> node, clock_seq |-> clock, time |-> time]

\* node 0 stands for a session that does not exist
NoGenerator(clock) == Generator(0, clock, 0)
Exists(s) == generator[s].session_node_id # 0

Init ==
  /\ now \in 1..MaxTime
  /\ \E c \in ClockSeqs : generator = [s \in Sessions |-> NoGenerator(c)]
  /\ nodes = 0
  /\ issued = << >>
  /\ repeated = FALSE

\* generate_session_node_info: the node id, here its number
NewNode == nodes + 1

\* the constructor of Uuid_generator
CreateSession(s) ==
  /\ ~Exists(s) /\ nodes < MaxNodes
  /\ \E c \in ClockSeqs : generator' = [generator EXCEPT ![s] = Generator(NewNode, c, 0)]
  /\ nodes' = nodes + 1
  /\ UNCHANGED <<now, issued, repeated>>

\* the session is destroyed, or lost with its process
FreeSession(s) ==
  /\ Exists(s)
  /\ generator' = [generator EXCEPT ![s].session_node_id = 0]
  /\ UNCHANGED <<now, nodes, issued, repeated>>

\* mutant: two ids of one tick count as in order
Repeats_SameTick(s) == generator[s].last_timestamp > now

Repeats(s) == generator[s].last_timestamp >= now

\* assign_node_id comes first, so the node of the id is the old one even if
\* assign_timestamp draws a new one; the clock sequence is the new one
generate(s) ==
  /\ Exists(s) /\ Len(issued) < MaxIds
  /\ \/ /\ ~Repeats(s)
        /\ generator' = [generator EXCEPT ![s].last_timestamp = now]
        /\ UNCHANGED <<nodes, repeated>>
     \/ /\ Repeats(s) /\ nodes < MaxNodes
        /\ \E c \in ClockSeqs :
             /\ generator' = [generator EXCEPT ![s] = Generator(NewNode, c, now)]
             /\ repeated' = (repeated \/ c = generator[s].clock_sequence)
        /\ nodes' = nodes + 1
  /\ issued' = Append(issued, Uuid(generator[s].session_node_id,
                                   generator'[s].clock_sequence, now))
  /\ UNCHANGED now

\* time passes, or somebody sets the clock
SetClock(t) ==
  /\ now' = t
  /\ UNCHANGED <<generator, nodes, issued, repeated>>

Next ==
  \/ \E s \in Sessions : CreateSession(s) \/ FreeSession(s) \/ generate(s)
  \/ \E t \in 1..MaxTime : SetClock(t)

Spec == Init /\ [][Next]_vars

-----------------------------------------------------------------------------
\* The variables keep their types.
TypeOK ==
  /\ now \in Nat /\ nodes \in Nat
  /\ generator \in [Sessions -> [session_node_id : Nat, clock_sequence : ClockSeqs,
                                 last_timestamp : Nat]]
  /\ issued \in Seq([node_id : Nat, clock_seq : ClockSeqs, time : Nat])
  /\ repeated \in BOOLEAN

\* No two ids are equal, whatever sessions generate them, within one tick and
\* after the clock was set back any number of times, unless a clock sequence
\* that was drawn anew came out as before.
IdsDiffer ==
  ~repeated => \A i, j \in 1..Len(issued) : i # j => issued[i] # issued[j]
=============================================================================
