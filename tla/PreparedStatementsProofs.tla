---------------------- MODULE PreparedStatementsProofs ----------------------
(***************************************************************************)
(* What ps_db says of the server's prepared statements is true for every   *)
(* set of operations, shapes, values and limits and every kind of session. *)
(***************************************************************************)
EXTENDS PreparedStatements, WellFoundedInduction, TLAPS

\* Ids are given once: without it a new message could take the id of an
\* entry that the server already knows.
IdsAreFresh ==
  /\ next_ps_id \in Nat \ {0}
  /\ DOMAIN ps_db \subseteq 1..next_ps_id - 1

IInv == IdsAreFresh /\ ServerAgrees

\* get_ps_entry finds an entry of the operation's own shape.
LEMMA FoundEntry ==
  ASSUME IInv, NEW o \in Ops, ~IsNew(o)
  PROVE  /\ MessageId(o) \in DOMAIN ps_db
         /\ ps_db[MessageId(o)].shape = Shape[o]
<1>1. PICK id \in EntriesOf(Shape[o]) : TRUE
  BY DEF IsNew
<1>2. \A j \in EntriesOf(Shape[o]) : j = id
  BY <1>1 DEF IInv, ServerAgrees, EntriesOf
<1>3. id \in Nat
  BY <1>1 DEF IInv, IdsAreFresh, EntriesOf
<1>4. \A j \in EntriesOf(Shape[o]) : id <= j
  BY <1>2, <1>3
<1>5. get_ps_entry(o) \in EntriesOf(Shape[o])
  BY <1>1, <1>4 DEF get_ps_entry
<1> QED
  BY <1>5 DEF MessageId, EntriesOf

\* Rewriting an entry without touching its shape, or taking back that it was
\* delivered, is harmless.
LEMMA PutKnown ==
  ASSUME IInv, NEW id \in DOMAIN ps_db, NEW e,
         e.shape = ps_db[id].shape,
         ps_db[id].delivered_ps => e.delivered_ps,
         PutEntry(id, e), UNCHANGED <<server, next_ps_id>>
  PROVE  IInv'
<1>1. DOMAIN ps_db' = DOMAIN ps_db
  BY DEF PutEntry
<1>2. \A j \in DOMAIN ps_db : ps_db'[j] = IF j = id THEN e ELSE ps_db[j]
  BY DEF PutEntry
<1>3. \A j \in DOMAIN ps_db : ps_db'[j].shape = ps_db[j].shape
  BY <1>2
<1>4. \A j \in DOMAIN ps_db : ps_db[j].delivered_ps => ps_db'[j].delivered_ps
  BY <1>2
<1>5. IdsAreFresh'
  BY <1>1 DEF IInv, IdsAreFresh
<1>6. ServerAgrees'
  BY <1>1, <1>3, <1>4 DEF IInv, ServerAgrees
<1> QED
  BY <1>5, <1>6 DEF IInv

\* A new message takes a fresh id; the server gets the statement only together
\* with the mark that it was delivered.
LEMMA PutNew ==
  ASSUME IInv, NEW o \in Ops, IsNew(o), NEW e, e.shape = Shape[o],
         PutEntry(next_ps_id, e), next_ps_id' = next_ps_id + 1,
         \/ server' = server
         \/ server' = Accepted(next_ps_id, Shape[o]) /\ e.delivered_ps
  PROVE  IInv'
<1>1. DOMAIN ps_db' = DOMAIN ps_db \cup {next_ps_id}
  BY DEF PutEntry
<1>2. next_ps_id \notin DOMAIN ps_db /\ next_ps_id \notin DOMAIN server
  BY DEF IInv, IdsAreFresh, ServerAgrees
<1>3. \A j \in DOMAIN ps_db : ps_db'[j] = ps_db[j]
  BY <1>2 DEF PutEntry
<1>4. ps_db'[next_ps_id] = e
  BY DEF PutEntry
<1>5. \A j \in DOMAIN ps_db : ps_db[j].shape # Shape[o]
  BY DEF IsNew, EntriesOf
<1>6. IdsAreFresh'
  BY <1>1 DEF IInv, IdsAreFresh
<1>7. \A i, j \in DOMAIN ps_db' : ps_db'[i].shape = ps_db'[j].shape => i = j
  BY <1>1, <1>3, <1>4, <1>5 DEF IInv, ServerAgrees
<1>8. \A id \in DOMAIN server' : /\ id \in DOMAIN ps_db'
                                 /\ ps_db'[id].shape = server'[id]
                                 /\ ps_db'[id].delivered_ps
  <2>1. CASE server' = server
    BY <2>1, <1>1, <1>3 DEF IInv, ServerAgrees
  <2>2. CASE server' = Accepted(next_ps_id, Shape[o]) /\ e.delivered_ps
    <3>1. DOMAIN server' = DOMAIN server \cup {next_ps_id}
      BY <2>2 DEF Accepted
    <3>2. server'[next_ps_id] = Shape[o]
      BY <2>2 DEF Accepted
    <3>3. \A id \in DOMAIN server : server'[id] = server[id]
      BY <2>2, <1>2 DEF Accepted
    <3> QED
      BY <2>2, <3>1, <3>2, <3>3, <1>1, <1>3, <1>4 DEF IInv, ServerAgrees
  <2> QED
    BY <2>1, <2>2
<1> QED
  BY <1>6, <1>7, <1>8 DEF IInv, ServerAgrees

\* What add_message and set_finalized_bind leave alone.
LEMMA KnownEntry ==
  ASSUME IInv, NEW o \in Ops, ~IsNew(o), NEW delivered \in BOOLEAN,
         NEW e \in {add_message(o, delivered),
                    set_finalized_bind(o, add_message(o, delivered))}
  PROVE  /\ e.shape = ps_db[MessageId(o)].shape
         /\ ps_db[MessageId(o)].delivered_ps => e.delivered_ps
BY DEF add_message, set_finalized_bind, Entry

LEMMA FreshEntry ==
  ASSUME NEW o \in Ops, IsNew(o), NEW delivered \in BOOLEAN,
         NEW e \in {add_message(o, delivered),
                    set_finalized_bind(o, add_message(o, delivered))}
  PROVE  e.shape = Shape[o]
BY DEF add_message, set_finalized_bind, NewEntry, Entry

\* Sending a new message keeps the agreement, whatever comes of it.
LEMMA SendPrepareKeeps ==
  ASSUME IInv, NEW o \in Ops, IsNew(o), NEW e, e.shape = Shape[o], NEW message,
         SendPrepare(o, next_ps_id, e, message), next_ps_id' = next_ps_id + 1
  PROVE  IInv'
<1>1. \/ PutEntry(next_ps_id, e) /\ server' = server
      \/ PrepareAnswered(o, next_ps_id, e)
  BY DEF SendPrepare, SendExecute
<1>2. CASE PutEntry(next_ps_id, e) /\ server' = server
  BY <1>2, PutNew
<1>3. CASE PrepareAnswered(o, next_ps_id, e)
  <2>1. CASE /\ server' = Accepted(next_ps_id, Shape[o])
             /\ PutEntry(next_ps_id, SetDelivered(e))
    <3>1. /\ SetDelivered(e).shape = Shape[o]
          /\ SetDelivered(e).delivered_ps
      BY DEF SetDelivered, Entry
    <3> QED
      BY <2>1, <3>1, PutNew
  <2>2. CASE ps_db' = ps_db /\ server' = server
    BY <2>2 DEF IInv, IdsAreFresh, ServerAgrees
  <2> QED
    BY <1>3, <2>1, <2>2 DEF PrepareAnswered, SendExecute
<1> QED
  BY <1>1, <1>2, <1>3

LEMMA ExecutePreparedKeeps ==
  ASSUME IInv, NEW o \in Ops, NEW delivered \in BOOLEAN,
         ExecutePrepared(o, delivered)
  PROVE  IInv'
<1> DEFINE added == add_message(o, delivered)
           final == set_finalized_bind(o, added)
           message == finalize_bind(o, << >>)
<1>1. CASE IsNew(o)
  <2>1. MessageId(o) = next_ps_id /\ next_ps_id' = next_ps_id + 1
    BY <1>1 DEF MessageId, ExecutePrepared
  <2>2. added.shape = Shape[o] /\ final.shape = Shape[o]
    BY <1>1, FreshEntry
  <2>3. CASE PutEntry(next_ps_id, added) /\ server' = server
    BY <1>1, <2>1, <2>2, <2>3, PutNew
  <2>4. CASE SendPrepare(o, next_ps_id, final, message)
    BY <1>1, <2>1, <2>2, <2>4, SendPrepareKeeps
  <2> QED
    BY <1>1, <2>1, <2>3, <2>4 DEF ExecutePrepared
<1>2. CASE ~IsNew(o)
  <2>1. MessageId(o) \in DOMAIN ps_db
    BY <1>2, FoundEntry
  <2>2. UNCHANGED <<server, next_ps_id>>
    BY <1>2 DEF ExecutePrepared
  <2>3. PICK e \in {added, final} : PutEntry(MessageId(o), e)
    BY <1>2 DEF ExecutePrepared, SendExecute
  <2>4. /\ e.shape = ps_db[MessageId(o)].shape
        /\ ps_db[MessageId(o)].delivered_ps => e.delivered_ps
    BY <1>2, KnownEntry
  <2> QED
    BY <2>1, <2>2, <2>3, <2>4, PutKnown
<1> QED
  BY <1>1, <1>2

LEMMA Inductive ==
  /\ Init => IInv
  /\ IInv /\ [Next]_vars => IInv'
<1>1. Init => IInv
  <2> SUFFICES ASSUME Init PROVE IInv
    OBVIOUS
  <2>1. DOMAIN ps_db = {} /\ DOMAIN server = {} /\ next_ps_id = 1
    BY DEF Init
  <2> QED
    BY <2>1 DEF IInv, IdsAreFresh, ServerAgrees
<1>2. ASSUME IInv, [Next]_vars PROVE IInv'
  <2>1. ASSUME NEW o \in Ops, Execute(o) PROVE IInv'
    <3>1. CASE \E delivered \in BOOLEAN : ExecutePrepared(o, delivered)
      BY <1>2, <3>1, ExecutePreparedKeeps
    <3>2. CASE UNCHANGED psVars
      BY <1>2, <3>2 DEF psVars, IInv, IdsAreFresh, ServerAgrees
    <3> QED
      BY <2>1, <3>1, <3>2 DEF Execute
  <2>2. CASE UNCHANGED psVars
    BY <1>2, <2>2 DEF psVars, IInv, IdsAreFresh, ServerAgrees
  <2>3. ASSUME NEW o \in Ops,
               \/ \E i \in 1..Holes[Shape[o]], v \in Values : Bind(o, i, v)
               \/ \E n \in Limits : SetLimit(o, n)
        PROVE  UNCHANGED psVars
    BY <2>3 DEF Bind, SetLimit
  <2>4. LinkLost \/ UNCHANGED vars => UNCHANGED psVars
    BY DEF LinkLost, vars
  <2> QED
    BY <1>2, <2>1, <2>2, <2>3, <2>4 DEF Next
<1> QED
  BY <1>1, <1>2

\* Prepare_stmt_data never believes something wrong about the server: what
\* the server has prepared has exactly one entry in ps_db, marked as
\* delivered, and an operation never finds two entries of its shape.
THEOREM ServerAgreesHolds == Spec => []ServerAgrees
<1>1. IInv => ServerAgrees
  BY DEF IInv
<1> QED
  BY Inductive, <1>1, PTL DEF Spec

-----------------------------------------------------------------------------
(***************************************************************************)
(* Executing what the server has prepared.                                 *)
(***************************************************************************)
\* Only a session that still has its session pointer and a server that knows
\* prepared statements get that far, and such a server never makes the
\* extension give up on them.
PreparedOnlyIfSupported ==
  /\ server # << >> => session.hasPS /\ ~session.recycled
  /\ session.hasPS => ps_supported

LEMMA SupportedInductive ==
  /\ Init => PreparedOnlyIfSupported
  /\ PreparedOnlyIfSupported /\ [Next]_vars => PreparedOnlyIfSupported'
<1>1. Init => PreparedOnlyIfSupported
  BY DEF Init, PreparedOnlyIfSupported
<1>2. ASSUME PreparedOnlyIfSupported, [Next]_vars
      PROVE  PreparedOnlyIfSupported'
  <2>1. CASE UNCHANGED <<session, psVars>>
    BY <1>2, <2>1 DEF psVars, PreparedOnlyIfSupported
  <2>2. ASSUME NEW o \in Ops, NEW delivered \in BOOLEAN,
               ExecutePrepared(o, delivered), session' = session
        PROVE  PreparedOnlyIfSupported'
    <3>1. CASE UNCHANGED <<server, ps_supported>>
      BY <1>2, <2>2, <3>1 DEF PreparedOnlyIfSupported
    <3>2. CASE ~session.hasPS /\ server' = server
      BY <1>2, <2>2, <3>2 DEF PreparedOnlyIfSupported
    <3>3. CASE session.hasPS /\ ~session.recycled /\ ps_supported' = ps_supported
      BY <1>2, <2>2, <3>3 DEF PreparedOnlyIfSupported
    <3> QED
      BY <2>2, <3>1, <3>2, <3>3 DEF ExecutePrepared, SendPrepare
  <2>3. ASSUME NEW o \in Ops, Execute(o) PROVE PreparedOnlyIfSupported'
    <3>1. session' = session
      BY <2>3 DEF Execute
    <3>2. \/ \E delivered \in BOOLEAN : ExecutePrepared(o, delivered)
          \/ UNCHANGED psVars
      BY <2>3 DEF Execute
    <3> QED
      BY <2>1, <2>2, <3>1, <3>2
  <2>4. ASSUME NEW o \in Ops,
               \/ \E i \in 1..Holes[Shape[o]], v \in Values : Bind(o, i, v)
               \/ \E n \in Limits : SetLimit(o, n)
        PROVE  UNCHANGED <<session, psVars>>
    BY <2>4 DEF Bind, SetLimit
  <2>5. LinkLost \/ UNCHANGED vars => UNCHANGED <<session, psVars>>
    BY DEF LinkLost, vars
  <2> QED
    BY <1>2, <2>1, <2>3, <2>4, <2>5 DEF Next
<1> QED
  BY <1>1, <1>2

\* An operation whose shape the server has finds exactly that statement.
LEMMA FindsStatement ==
  ASSUME IInv, NEW o \in Ops, NEW id \in DOMAIN server, server[id] = Shape[o]
  PROVE  ~IsNew(o) /\ MessageId(o) = id
<1>1. id \in DOMAIN ps_db /\ ps_db[id].shape = Shape[o]
  BY DEF IInv, ServerAgrees
<1>2. ~IsNew(o)
  BY <1>1 DEF IsNew, EntriesOf
<1> QED
  BY <1>1, <1>2, FoundEntry DEF IInv, ServerAgrees

LEMMA ExecuteAnswers ==
  ASSUME IInv, PreparedOnlyIfSupported, link = "up",
         NEW o \in Ops, Complete(o), Execute(o),
         NEW id \in DOMAIN server, server[id] = Shape[o]
  PROVE  last'.result = "answer"
<1>1. ~IsNew(o) /\ MessageId(o) = id
  BY FindsStatement
<1>2. session.hasPS /\ ~session.recycled /\ ps_supported
  <2>1. server # << >>
    OBVIOUS
  <2> QED
    BY <2>1 DEF PreparedOnlyIfSupported
<1>3. PICK delivered \in BOOLEAN : ExecutePrepared(o, delivered)
  BY <1>2 DEF Execute
<1> DEFINE e == set_finalized_bind(o, add_message(o, delivered))
<1>4. SendExecute(o, id, e, server)
  BY <1>1, <1>3 DEF ExecutePrepared
<1>5. e.delivered_ps
  <2>1. ps_db[id].delivered_ps
    BY DEF IInv, ServerAgrees
  <2> QED
    BY <1>1, <2>1, KnownEntry
<1>6. Answered(o, Request(server[id], bound[o], LimitArgument(e.limit)))
  BY <1>2, <1>4, <1>5 DEF SendExecute
<1> QED
  BY <1>6 DEF Answered

\* A statement the server has prepared keeps working: over a working link no
\* sequence of failed binds, other limits and other operations of the same
\* shape makes a complete execution fail.
THEOREM PreparedAnswersHolds == Spec => PreparedAnswers
<1> DEFINE Answers(o) ==
             Asked(o) = last'.asked /\ Complete(o)
             /\ (\E id \in DOMAIN server : server[id] = Shape[o])
             => last'.result = "answer"
<1>1. ASSUME IInv, PreparedOnlyIfSupported, Next, last' # last, link = "up",
             NEW o \in Ops
      PROVE  Answers(o)
  <2>1. SUFFICES ASSUME Asked(o) = last'.asked, Complete(o),
                        NEW id \in DOMAIN server, server[id] = Shape[o]
                 PROVE  last'.result = "answer"
    OBVIOUS
  <2>2. last' # NoOutcome
    <3>1. Shape[o] # NoShape
      BY PreparedAssumption DEF Shapes
    <3> QED
      BY <2>1, <3>1 DEF Asked, Request, NoOutcome, NoRequest
  <2>3. PICK p \in Ops : Execute(p)
    BY <1>1, <2>2 DEF Next, Bind, SetLimit, LinkLost
  <2>4. last'.asked = Asked(p)
    BY <2>3 DEF Execute, ExecutePrepared, ExecutePlain, SendPrepare,
       PrepareAnswered, SendExecute, BindFails, Answered, Ends
  <2>5. Shape[p] = Shape[o] /\ bound[p] = bound[o]
    BY <2>1, <2>4 DEF Asked, Request
  <2>6. Complete(p)
    BY <2>1, <2>5 DEF Complete
  <2> QED
    BY <1>1, <2>1, <2>3, <2>5, <2>6, ExecuteAnswers
<1>2. IInv /\ PreparedOnlyIfSupported /\ [Next]_vars
      => [last' # last /\ link = "up" => \A o \in Ops : Answers(o)]_vars
  BY <1>1 DEF vars
<1> QED
  BY Inductive, SupportedInductive, <1>2, PTL DEF Spec, PreparedAnswers
-----------------------------------------------------------------------------
(***************************************************************************)
(* Types.                                                                  *)
(***************************************************************************)
\* A set of numbers that is not empty has a least one.
LEMMA LeastNumber ==
  ASSUME NEW T \in SUBSET Nat, T # {}
  PROVE  \E n \in T : \A m \in T : n <= m
<1> DEFINE R == OpToRel(<, Nat)
<1>1. IsWellFoundedOn(R, Nat)
  BY NatLessThanWellFounded, Zenon
<1>2. \A x, y \in Nat : x < y => <<x, y>> \in R
  BY DEF OpToRel
<1> HIDE DEF R
<1>3. PICK n \in T : \A m \in T : ~ (<<m, n>> \in R)
  BY <1>1, WFMin
<1>4. \A m \in T : ~(m < n)
  BY <1>2, <1>3
<1> QED BY <1>4

\* The operations' variables are functions on Ops.
Functions ==
  /\ bound = [o \in Ops |-> bound[o]]
  /\ limit \in [Ops -> Limits \cup {NoLimit}]
  /\ args \in [Ops -> Seq(Values)]
  /\ ps_message_id \in [Ops -> 0..MaxId]

\* Bindings::finalize stops at a definite place: the first unbound placeholder.
LEMMA BoundPrefixType ==
  ASSUME TypeOK, NEW o \in Ops
  PROVE  BoundPrefix(o) \in Seq(Values)
<1> DEFINE n == Holes[Shape[o]]
           b == bound[o]
           T == {k \in 0..n : k = n \/ b[k + 1] = Unbound}
           IsPrefix(s) == /\ \A i \in 1..Len(s) : s[i] # Unbound
                          /\ Len(s) < n => b[Len(s) + 1] = Unbound
           S == {SubSeq(b, 1, k) : k \in 0..n}
<1>1. n \in Nat
  BY PreparedAssumption DEF Shapes
<1>2. b \in [1..n -> Values \cup {Unbound}]
  BY DEF TypeOK
<1>3. b \in Seq(Values \cup {Unbound}) /\ Len(b) = n
  BY <1>1, <1>2
<1> HIDE DEF n, b
<1>4. ASSUME NEW k \in 0..n
      PROVE  /\ SubSeq(b, 1, k) \in Seq(Values \cup {Unbound}) /\ Len(SubSeq(b, 1, k)) = k
             /\ \A i \in 1..k : SubSeq(b, 1, k)[i] = b[i]
  BY <1>1, <1>3
<1>5. PICK k \in T : \A m \in T : k <= m
  <2>1. n \in T /\ T \in SUBSET Nat
    BY <1>1
  <2> QED BY <2>1, LeastNumber
<1>6. \A i \in 1..k : b[i] # Unbound
  <2> SUFFICES ASSUME NEW i \in 1..k, b[i] = Unbound PROVE FALSE
    OBVIOUS
  <2>1. i - 1 \in 0..n /\ (i - 1) + 1 = i
    BY <1>1
  <2>2. i - 1 \in T
    BY <2>1
  <2>3. k <= i - 1
    BY <1>5, <2>2
  <2> QED BY <1>1, <2>3
<1>7. IsPrefix(SubSeq(b, 1, k)) /\ SubSeq(b, 1, k) \in S
  BY <1>1, <1>4, <1>6
<1>8. BoundPrefix(o) = CHOOSE s \in S : IsPrefix(s)
  BY DEF BoundPrefix, n, b
<1> HIDE DEF S, IsPrefix
<1>9. BoundPrefix(o) \in S /\ IsPrefix(BoundPrefix(o))
  BY <1>7, <1>8, Zenon
<1>10. PICK m \in 0..n : BoundPrefix(o) = SubSeq(b, 1, m)
  BY <1>9 DEF S
<1>11. BoundPrefix(o) \in Seq(Values \cup {Unbound})
  BY <1>4, <1>10
<1>12. \A i \in 1..Len(BoundPrefix(o)) : BoundPrefix(o)[i] # Unbound
  BY <1>9 DEF IsPrefix
<1> QED BY <1>11, <1>12

\* Whatever is made final for a message is a list of values.
LEMMA FinalizeType ==
  ASSUME TypeOK, NEW o \in Ops, NEW a \in Seq(Values)
  PROVE  finalize_bind(o, a) \in Seq(Values)
<1>1. CASE Kind[o] = "collection"
  <2>1. a \o BoundPrefix(o) \in Seq(Values)
    BY BoundPrefixType
  <2> QED BY <1>1, <2>1 DEF finalize_bind
<1>2. CASE Kind[o] # "collection" /\ Complete(o)
  <2>1. Holes[Shape[o]] \in Nat
    BY PreparedAssumption DEF Shapes
  <2>2. bound[o] \in [1..Holes[Shape[o]] -> Values]
    BY <1>2 DEF TypeOK, Complete
  <2>3. bound[o] \in Seq(Values)
    BY <2>1, <2>2
  <2> QED BY <1>2, <2>3 DEF finalize_bind
<1>3. CASE Kind[o] # "collection" /\ ~Complete(o)
  BY <1>3 DEF finalize_bind
<1> QED BY <1>1, <1>2, <1>3

\* Entries keep their type.
LEMMA EntryTypes ==
  ASSUME IInv, TypeOK, NEW o \in Ops, NEW delivered \in BOOLEAN
  PROVE  /\ add_message(o, delivered) \in EntryType
         /\ set_finalized_bind(o, add_message(o, delivered)) \in EntryType
<1>1. Shape[o] \in Shapes /\ limit[o] \in Limits \cup {NoLimit}
  BY DEF Shapes, TypeOK
<1>2. add_message(o, delivered) \in EntryType
  <2>1. CASE IsNew(o)
    BY <1>1, <2>1 DEF add_message, NewEntry, Entry, EntryType
  <2>2. CASE ~IsNew(o)
    <3>1. ps_db[MessageId(o)] \in EntryType
      BY <2>2, FoundEntry DEF TypeOK
    <3> QED BY <1>1, <2>2, <3>1 DEF add_message, Entry, EntryType
  <2> QED BY <2>1, <2>2
<1> DEFINE e == add_message(o, delivered)
<1> HIDE DEF e
<1>3. RemembersId(o) \in BOOLEAN
  BY DEF RemembersId
<1>4. e \in EntryType => set_finalized_bind(o, e) \in EntryType
  BY <1>3 DEF set_finalized_bind, Entry, EntryType
<1> QED BY <1>2, <1>4 DEF e

\* ps_db, when an entry is written.
LEMMA PutType ==
  ASSUME TypeOK, NEW id, NEW e \in EntryType, PutEntry(id, e)
  PROVE  \A j \in DOMAIN ps_db' : ps_db'[j] \in EntryType
<1>1. DOMAIN ps_db' = DOMAIN ps_db \cup {id}
  BY DEF PutEntry
<1>2. \A j \in DOMAIN ps_db' : ps_db'[j] = IF j = id THEN e ELSE ps_db[j]
  BY DEF PutEntry
<1> QED BY <1>1, <1>2 DEF TypeOK

\* What an execution as prepared statement may do to the variables.
LEMMA PreparedParts ==
  ASSUME IInv, TypeOK, NEW o \in Ops, NEW delivered \in BOOLEAN,
         ExecutePrepared(o, delivered)
  PROVE  /\ \/ ps_db' = ps_db
            \/ \E id, e : e \in EntryType /\ PutEntry(id, e)
         /\ server' = server \/ \E id : server' = Accepted(id, Shape[o])
         /\ \E m \in Seq(Values) : args' = [args EXCEPT ![o] = m]
         /\ ps_supported' \in {ps_supported, FALSE}
         /\ \/ ps_message_id' = ps_message_id
            \/ ps_message_id' = [ps_message_id EXCEPT ![o] = MessageId(o)]
            \/ ps_message_id' = [ps_message_id EXCEPT ![o] = @]
         /\ last'.result \in Results
<1> DEFINE added == add_message(o, delivered)
           final == set_finalized_bind(o, added)
           message == finalize_bind(o, << >>)
<1>1. added \in EntryType /\ final \in EntryType
  BY EntryTypes
<1>2. message \in Seq(Values) /\ finalize_bind(o, message) \in Seq(Values)
  <2>1. << >> \in Seq(Values)
    OBVIOUS
  <2>2. message \in Seq(Values)
    BY <2>1, FinalizeType
  <2> QED BY <2>2, FinalizeType
<1>3. SetDelivered(final) \in EntryType
  BY <1>1 DEF SetDelivered, Entry, EntryType
<1>4. \/ /\ PutEntry(MessageId(o), added) /\ args' = [args EXCEPT ![o] = message]
         /\ BindFails(o) /\ UNCHANGED <<server, ps_supported, ps_message_id>>
      \/ /\ ps_message_id' = [ps_message_id EXCEPT ![o] = IF RemembersId(o) THEN MessageId(o) ELSE @]
         /\ \/ SendPrepare(o, MessageId(o), final, message)
            \/ /\ args' = [args EXCEPT ![o] = message]
               /\ SendExecute(o, MessageId(o), final, server)
               /\ UNCHANGED <<server, ps_supported>>
  BY DEF ExecutePrepared
<1> HIDE DEF added, final, message
<1>5. \A e, st : SendExecute(o, MessageId(o), e, st)
                  => PutEntry(MessageId(o), e) /\ last'.result \in Results
  BY DEF SendExecute, Ends, Answered, Results
<1>6. BindFails(o) => last'.result \in Results
  BY DEF BindFails, Ends, Results
<1>7. CASE /\ PutEntry(MessageId(o), added) /\ args' = [args EXCEPT ![o] = message]
           /\ BindFails(o) /\ UNCHANGED <<server, ps_supported, ps_message_id>>
  BY <1>1, <1>2, <1>6, <1>7
<1>8. ASSUME SendPrepare(o, MessageId(o), final, message)
      PROVE  /\ \/ ps_db' = ps_db
                \/ \E id, e : e \in EntryType /\ PutEntry(id, e)
             /\ server' = server \/ \E id : server' = Accepted(id, Shape[o])
             /\ \E m \in Seq(Values) : args' = [args EXCEPT ![o] = m]
             /\ ps_supported' \in {ps_supported, FALSE}
             /\ last'.result \in Results
  <2>1. CASE /\ PutEntry(MessageId(o), final) /\ args' = [args EXCEPT ![o] = message]
             /\ Ends(o, "crash") /\ UNCHANGED <<server, ps_supported>>
    BY <1>1, <1>2, <2>1 DEF Ends, Results
  <2>2. CASE /\ args' = [args EXCEPT ![o] = message]
             /\ SendExecute(o, MessageId(o), final, server)
             /\ UNCHANGED <<server, ps_supported>>
    BY <1>1, <1>2, <1>5, <2>2
  <2>3. CASE /\ ps_supported' = FALSE /\ PutEntry(MessageId(o), final)
             /\ ExecutePlain(o, RemembersId(o), message) /\ UNCHANGED server
    <3>1. last'.result \in Results
      BY <1>6, <2>3 DEF ExecutePlain, Answered, Ends, Results
    <3>2. args' = [args EXCEPT ![o] = IF RemembersId(o) THEN message
                                                       ELSE finalize_bind(o, message)]
      BY <2>3 DEF ExecutePlain
    <3>3. \E m \in Seq(Values) : args' = [args EXCEPT ![o] = m]
      BY <1>2, <3>2
    <3> QED BY <1>1, <2>3, <3>1, <3>3
  <2>4. CASE /\ args' = [args EXCEPT ![o] = message]
             /\ PrepareAnswered(o, MessageId(o), final) /\ UNCHANGED ps_supported
    <3>1. CASE /\ server' = Accepted(MessageId(o), Shape[o])
               /\ SendExecute(o, MessageId(o), SetDelivered(final), Accepted(MessageId(o), Shape[o]))
      <4>1. PutEntry(MessageId(o), SetDelivered(final)) /\ last'.result \in Results
        BY <1>5, <3>1
      <4> QED BY <1>2, <1>3, <2>4, <3>1, <4>1
    <3>2. CASE ps_db' = ps_db /\ Ends(o, "exception") /\ UNCHANGED server
      BY <1>2, <2>4, <3>2 DEF Ends, Results
    <3> QED BY <2>4, <3>1, <3>2 DEF PrepareAnswered
  <2> QED BY <1>8, <2>1, <2>2, <2>3, <2>4 DEF SendPrepare
<1>9. CASE /\ args' = [args EXCEPT ![o] = message]
           /\ SendExecute(o, MessageId(o), final, server)
           /\ UNCHANGED <<server, ps_supported>>
  BY <1>1, <1>2, <1>4, <1>5, <1>9
<1> QED BY <1>4, <1>7, <1>8, <1>9

LEMMA ExecutePreparedTypes ==
  ASSUME IInv, TypeOK, Functions, NEW o \in Ops, NEW delivered \in BOOLEAN,
         ExecutePrepared(o, delivered), IsNew(o) => next_ps_id <= MaxId,
         UNCHANGED <<session, link, opVars>>
  PROVE  TypeOK' /\ Functions'
<1>1. IInv'
  BY ExecutePreparedKeeps
<1>2. next_ps_id' \in 1..MaxId + 1
  BY PreparedAssumption DEF ExecutePrepared, TypeOK
<1>3. MessageId(o) \in 1..MaxId
  <2>1. CASE IsNew(o)
    BY <2>1, PreparedAssumption DEF MessageId, TypeOK
  <2>2. CASE ~IsNew(o)
    BY <2>2, FoundEntry, PreparedAssumption DEF TypeOK
  <2> QED BY <2>1, <2>2
<1>4. DOMAIN ps_db' \subseteq 1..next_ps_id' - 1 /\ DOMAIN server' \subseteq 1..next_ps_id' - 1
  BY <1>1 DEF IInv, IdsAreFresh, ServerAgrees
<1>5. \A id \in DOMAIN ps_db' : ps_db'[id] \in EntryType
  <2>1. CASE ps_db' = ps_db
    BY <2>1 DEF TypeOK
  <2>2. CASE \E id, e : e \in EntryType /\ PutEntry(id, e)
    BY <2>2, PutType
  <2> QED BY <2>1, <2>2, PreparedParts
<1>6. \A id \in DOMAIN server' : server'[id] \in Shapes
  <2>1. CASE server' = server
    BY <2>1 DEF TypeOK
  <2>2. ASSUME NEW id, server' = Accepted(id, Shape[o])
        PROVE  \A j \in DOMAIN server' : server'[j] \in Shapes
    <3>1. DOMAIN server' = DOMAIN server \cup {id}
      BY <2>2 DEF Accepted
    <3>2. \A j \in DOMAIN server' : server'[j] = IF j = id THEN Shape[o] ELSE server[j]
      BY <2>2 DEF Accepted
    <3> QED BY <3>1, <3>2 DEF TypeOK, Shapes
  <2> QED BY <2>1, <2>2, PreparedParts
<1>7. args' \in [Ops -> Seq(Values)]
  <2>1. PICK m \in Seq(Values) : args' = [args EXCEPT ![o] = m]
    BY PreparedParts
  <2> QED BY <2>1 DEF Functions
<1>8. ps_message_id' \in [Ops -> 0..MaxId]
  <2>1. MessageId(o) \in 0..MaxId
    BY <1>3, PreparedAssumption
  <2>2. \/ ps_message_id' = ps_message_id
        \/ ps_message_id' = [ps_message_id EXCEPT ![o] = MessageId(o)]
        \/ ps_message_id' = [ps_message_id EXCEPT ![o] = @]
    BY PreparedParts
  <2> QED BY <2>1, <2>2 DEF Functions
<1>9. ps_supported' \in BOOLEAN /\ last'.result \in Results
  BY PreparedParts DEF TypeOK
<1> QED BY <1>2, <1>4, <1>5, <1>6, <1>7, <1>8, <1>9 DEF TypeOK, Functions, opVars

LEMMA ExecutePlainTypes ==
  ASSUME TypeOK, Functions, NEW o \in Ops, NEW final \in BOOLEAN,
         ExecutePlain(o, final, args[o]),
         UNCHANGED <<session, link, opVars, psVars, ps_message_id>>
  PROVE  TypeOK' /\ Functions'
<1>1. args[o] \in Seq(Values) /\ finalize_bind(o, args[o]) \in Seq(Values)
  BY FinalizeType DEF Functions
<1>2. PICK m \in Seq(Values) : args' = [args EXCEPT ![o] = m]
  BY <1>1 DEF ExecutePlain
<1>3. args' \in [Ops -> Seq(Values)]
  BY <1>2 DEF Functions
<1>4. last'.result \in Results
  BY DEF ExecutePlain, BindFails, Answered, Ends, Results
<1> QED BY <1>3, <1>4 DEF TypeOK, Functions, opVars, psVars

LEMMA TypesInductive ==
  /\ Init => TypeOK /\ Functions
  /\ IInv /\ TypeOK /\ Functions /\ [Next]_vars => TypeOK' /\ Functions'
<1>1. ASSUME Init PROVE TypeOK /\ Functions
  <2>1. DOMAIN ps_db = {} /\ DOMAIN server = {} /\ next_ps_id \in 1..MaxId + 1
    BY <1>1, PreparedAssumption DEF Init
  <2>2. /\ args \in [Ops -> Seq(Values)]
        /\ ps_message_id \in [Ops -> 0..MaxId]
        /\ limit \in [Ops -> Limits \cup {NoLimit}]
    BY <1>1, PreparedAssumption DEF Init, NoId
  <2>3. \A o \in Ops : bound[o] \in [1..Holes[Shape[o]] -> Values \cup {Unbound}]
    BY <1>1 DEF Init
  <2>4. bound = [o \in Ops |-> bound[o]]
    BY <1>1 DEF Init
  <2>5. last.result \in Results
    BY <1>1 DEF Init, NoOutcome, Results
  <2> QED BY <1>1, <2>1, <2>2, <2>3, <2>4, <2>5 DEF Init, TypeOK, Functions
<1>2. ASSUME IInv, TypeOK, Functions, [Next]_vars PROVE TypeOK' /\ Functions'
  <2>1. ASSUME NEW o \in Ops, Execute(o) PROVE TypeOK' /\ Functions'
    <3>1. is_bind_finalized(ps_message_id[o]) \in BOOLEAN
      BY <1>2 DEF TypeOK, EntryType, is_bind_finalized
    <3> QED BY <1>2, <2>1, <3>1, ExecutePreparedTypes, ExecutePlainTypes DEF Execute
  <2>2. ASSUME NEW o \in Ops, NEW i \in 1..Holes[Shape[o]], NEW v \in Values, Bind(o, i, v)
        PROVE  TypeOK' /\ Functions'
    <3>1. bound' = [bound EXCEPT ![o] = [bound[o] EXCEPT ![i] = v]]
      BY <2>2 DEF Bind
    <3>2. [bound[o] EXCEPT ![i] = v] \in [1..Holes[Shape[o]] -> Values \cup {Unbound}]
      BY <1>2 DEF TypeOK
    <3>3. \A p \in Ops : bound'[p] = IF p = o THEN [bound[o] EXCEPT ![i] = v] ELSE bound[p]
      BY <1>2, <3>1 DEF Functions
    <3>4. bound' = [p \in Ops |-> bound'[p]]
      BY <1>2, <3>1 DEF Functions
    <3>5. \A p \in Ops : bound'[p] \in [1..Holes[Shape[p]] -> Values \cup {Unbound}]
      BY <1>2, <3>2, <3>3 DEF TypeOK
    <3>6. last'.result \in Results
      BY <2>2 DEF Bind, NoOutcome, Results
    <3> QED BY <1>2, <2>2, <3>4, <3>5, <3>6 DEF Bind, psVars, TypeOK, Functions
  <2>3. ASSUME NEW o \in Ops, NEW n \in Limits, SetLimit(o, n) PROVE TypeOK' /\ Functions'
    <3>1. limit' \in [Ops -> Limits \cup {NoLimit}]
      BY <1>2, <2>3 DEF SetLimit, Functions
    <3>2. last'.result \in Results
      BY <2>3 DEF SetLimit, NoOutcome, Results
    <3> QED BY <1>2, <2>3, <3>1, <3>2 DEF SetLimit, psVars, TypeOK, Functions
  <2>4. CASE LinkLost
    <3>1. last'.result \in Results
      BY <2>4 DEF LinkLost, NoOutcome, Results
    <3> QED BY <1>2, <2>4, <3>1 DEF LinkLost, psVars, opVars, TypeOK, Functions
  <2>5. CASE UNCHANGED vars
    BY <1>2, <2>5 DEF vars, psVars, opVars, TypeOK, Functions
  <2> QED BY <1>2, <2>1, <2>2, <2>3, <2>4, <2>5 DEF Next
<1> QED BY <1>1, <1>2

\* The variables keep their types for every set of operations: the arguments of
\* a message are values only, however many placeholders were bound when
\* finalize threw, and ids stay within what was given.
THEOREM TypeCorrect == Spec => []TypeOK
BY Inductive, TypesInductive, PTL DEF Spec

-----------------------------------------------------------------------------
(***************************************************************************)
(* What the server runs.                                                   *)
(***************************************************************************)
\* select never finds its arguments already final.
SelectForgets == \A o \in Ops : Kind[o] = "select" => ps_message_id[o] = NoId

LEMMA ForgetsInductive ==
  /\ Init => SelectForgets
  /\ SelectForgets /\ Functions /\ [Next]_vars => SelectForgets'
<1>1. Init => SelectForgets
  BY DEF Init, SelectForgets
<1>2. ASSUME SelectForgets, Functions, [Next]_vars PROVE SelectForgets'
  <2>1. ASSUME NEW o \in Ops, NEW delivered \in BOOLEAN, ExecutePrepared(o, delivered)
        PROVE  SelectForgets'
    <3>1. CASE UNCHANGED ps_message_id
      BY <1>2, <3>1 DEF SelectForgets
    <3>2. CASE ps_message_id' = [ps_message_id EXCEPT ![o] =
                                   IF RemembersId(o) THEN MessageId(o) ELSE @]
      BY <1>2, <3>2 DEF SelectForgets, Functions, RemembersId
    <3> QED BY <2>1, <3>1, <3>2 DEF ExecutePrepared
  <2>2. CASE UNCHANGED ps_message_id
    BY <1>2, <2>2 DEF SelectForgets
  <2> QED BY <1>2, <2>1, <2>2 DEF Next, Execute, Bind, SetLimit, LinkLost, vars
<1> QED BY <1>1, <1>2

\* A limit that fits is sent as it is.
LEMMA LimitFits ==
  ASSUME NEW n \in Limits \cup {NoLimit}, FitsInt32(n)
  PROVE  LimitArgument(n) = n
<1>1. CASE n = NoLimit
  BY <1>1 DEF LimitArgument
<1>2. CASE n # NoLimit
  <2>1. n \in Nat /\ n <= Int32Max /\ Int32Max \in Nat
    BY <1>2, PreparedAssumption DEF FitsInt32
  <2>2. Int32Modulus \in Nat /\ n < Int32Modulus
    BY <2>1 DEF Int32Modulus
  <2>3. n % Int32Modulus = n
    BY <2>1, <2>2
  <2> QED BY <1>2, <2>1, <2>3 DEF LimitArgument, ToSigned
<1> QED BY <1>1, <1>2

\* What the server is asked to execute by id.
LEMMA SendExecuteRuns ==
  ASSUME TypeOK, NEW o \in Ops, NEW id, NEW e, NEW statements,
         SendExecute(o, id, e, statements), last'.result = "answer",
         e.limit = limit[o], id \in DOMAIN statements => statements[id] = Shape[o]
  PROVE  /\ last'.ran.shape = Shape[o]
         /\ last'.ran.values = bound[o]
         /\ FitsInt32(limit[o]) => last'.ran.limit = limit[o]
<1>1. /\ id \in DOMAIN statements
      /\ Answered(o, Request(statements[id], bound[o], LimitArgument(e.limit)))
  BY DEF SendExecute, Ends
<1>2. FitsInt32(limit[o]) => LimitArgument(limit[o]) = limit[o]
  BY LimitFits DEF TypeOK
<1> QED BY <1>1, <1>2 DEF Answered, Request

\* A plain message of a select carries the values that are bound now.
LEMMA PlainSelectRuns ==
  ASSUME NEW o \in Ops, Kind[o] = "select", NEW a, ExecutePlain(o, FALSE, a),
         last'.result = "answer"
  PROVE  last'.ran = Request(Shape[o], bound[o], limit[o])
<1>1. Complete(o) /\ Answered(o, Request(Shape[o], finalize_bind(o, a), limit[o]))
  BY DEF ExecutePlain, BindFails, Ends
<1>2. finalize_bind(o, a) = bound[o]
  BY <1>1 DEF finalize_bind
<1> QED BY <1>1, <1>2 DEF Answered

LEMMA ExecuteRuns ==
  ASSUME IInv, TypeOK, PreparedOnlyIfSupported, SelectForgets,
         NEW o \in Ops, Execute(o), last'.result = "answer",
         session.hasPS \/ Kind[o] = "select"
  PROVE  /\ last'.ran.shape = Shape[o]
         /\ last'.ran.values = bound[o]
         /\ FitsInt32(limit[o]) => last'.ran.limit = limit[o]
<1>1. ASSUME NEW delivered \in BOOLEAN, ExecutePrepared(o, delivered)
      PROVE  /\ last'.ran.shape = Shape[o]
             /\ last'.ran.values = bound[o]
             /\ FitsInt32(limit[o]) => last'.ran.limit = limit[o]
  <2> DEFINE added == add_message(o, delivered)
             final == set_finalized_bind(o, added)
             message == finalize_bind(o, << >>)
             id == MessageId(o)
  <2>1. final.limit = limit[o] /\ SetDelivered(final).limit = limit[o]
    BY DEF add_message, set_finalized_bind, SetDelivered, NewEntry, Entry
  <2>2. CASE BindFails(o)
    BY <1>1, <2>2 DEF BindFails, Ends
  <2>3. CASE SendExecute(o, id, final, server)
    <3>1. id \in DOMAIN server => server[id] = Shape[o]
      <4>1. CASE IsNew(o)
        BY <4>1 DEF MessageId, IInv, IdsAreFresh, ServerAgrees
      <4>2. CASE ~IsNew(o)
        BY <4>2, FoundEntry DEF IInv, ServerAgrees
      <4> QED BY <4>1, <4>2
    <3> HIDE DEF final, id
    <3> QED BY <2>1, <2>3, <3>1, SendExecuteRuns
  <2>4. CASE SendExecute(o, id, SetDelivered(final), Accepted(id, Shape[o]))
    <3>1. Accepted(id, Shape[o])[id] = Shape[o]
      BY DEF Accepted
    <3> HIDE DEF final, id
    <3> QED BY <2>1, <2>4, <3>1, SendExecuteRuns
  <2>5. CASE ExecutePlain(o, RemembersId(o), message) /\ ~session.hasPS
    <3>1. Kind[o] = "select" /\ RemembersId(o) = FALSE
      BY <2>5 DEF RemembersId
    <3>2. last'.ran = Request(Shape[o], bound[o], limit[o])
      BY <2>5, <3>1, PlainSelectRuns
    <3> QED BY <3>2 DEF Request
  <2>6. \A result : Ends(o, result) => last'.result = result
    BY DEF Ends
  <2> HIDE DEF added, final, message, id
  <2>7. \/ BindFails(o)
        \/ SendPrepare(o, id, final, message)
        \/ SendExecute(o, id, final, server)
    BY <1>1 DEF ExecutePrepared, added, final, message, id
  <2>8. CASE SendPrepare(o, id, final, message)
    BY <2>3, <2>4, <2>5, <2>6, <2>8 DEF SendPrepare, PrepareAnswered
  <2> QED BY <2>2, <2>3, <2>7, <2>8
<1>2. CASE ~ps_supported /\ ExecutePlain(o, is_bind_finalized(ps_message_id[o]), args[o])
  <2>1. Kind[o] = "select"
    BY <1>2 DEF PreparedOnlyIfSupported
  <2>2. is_bind_finalized(ps_message_id[o]) = FALSE
    BY <2>1 DEF SelectForgets, is_bind_finalized, IInv, IdsAreFresh, NoId
  <2>3. last'.ran = Request(Shape[o], bound[o], limit[o])
    BY <1>2, <2>1, <2>2, PlainSelectRuns
  <2> QED BY <2>3 DEF Request
<1> QED BY <1>1, <1>2 DEF Execute

\* The server runs exactly what was asked, at the values and the limit of that
\* moment, for every set of operations that share entries of ps_db.
THEOREM RunsWhatWasAskedHolds == Spec => RunsWhatWasAsked
<1> DEFINE Runs(o) ==
             Asked(o) = last'.asked /\ (session.hasPS \/ Kind[o] = "select") =>
               /\ last'.ran.shape = Shape[o]
               /\ last'.ran.values = bound[o]
               /\ FitsInt32(limit[o]) => last'.ran.limit = limit[o]
<1>1. ASSUME IInv, TypeOK, PreparedOnlyIfSupported, SelectForgets, Next,
             last' # last, last'.result = "answer", NEW o \in Ops
      PROVE  Runs(o)
  <2>1. SUFFICES ASSUME Asked(o) = last'.asked, session.hasPS \/ Kind[o] = "select"
                 PROVE  /\ last'.ran.shape = Shape[o]
                        /\ last'.ran.values = bound[o]
                        /\ FitsInt32(limit[o]) => last'.ran.limit = limit[o]
    OBVIOUS
  <2>2. last' # NoOutcome
    BY <1>1 DEF NoOutcome
  <2>3. PICK p \in Ops : Execute(p)
    BY <1>1, <2>2 DEF Next, Bind, SetLimit, LinkLost
  <2>4. last'.asked = Asked(p)
    BY <2>3 DEF Execute, ExecutePrepared, ExecutePlain, SendPrepare,
       PrepareAnswered, SendExecute, BindFails, Answered, Ends
  <2>5. Shape[p] = Shape[o] /\ bound[p] = bound[o] /\ limit[p] = limit[o]
    BY <2>1, <2>4 DEF Asked, Request
  <2>6. Kind[p] = Kind[o]
    BY <2>5, PreparedAssumption
  <2> QED BY <1>1, <2>1, <2>3, <2>5, <2>6, ExecuteRuns
<1>2. IInv /\ TypeOK /\ PreparedOnlyIfSupported /\ SelectForgets /\ [Next]_vars
      => [last' # last /\ last'.result = "answer" => \A o \in Ops : Runs(o)]_vars
  BY <1>1 DEF vars
<1> QED
  BY Inductive, TypesInductive, SupportedInductive, ForgetsInductive, <1>2, PTL
     DEF Spec, RunsWhatWasAsked
=============================================================================
