------------------------ MODULE ClientRegistryProofs ------------------------
(***************************************************************************)
(* The safety properties of ClientRegistry, for any number of threads,     *)
(* URIs, client options and pools and every width of an int.               *)
(***************************************************************************)
EXTENDS ClientRegistry, FiniteSetTheorems, TLAPS

(***************************************************************************)
(* The inductive invariant.                                                *)
(***************************************************************************)

\* Pools are numbered in the order they were created.
Numbered == \E n \in Nat : DOMAIN pools = 1..n

\* Who is behind the lock_guard of get_client_state holds the mutex.
Mutex == \A t \in Threads : pc[t] \in {"find", "add"} => mtx = t

\* Inside getClient: the arguments are those of the call, and the thread has
\* no Client yet.
Called ==
  \A t \in Threads : pc[t] \in {"verify", "lock", "find", "add"} =>
    arg[t] \in [uri : Uris, desc : Descs] /\ client[t] = None

\* A debug build lets a URI that is not well formed go no further than the
\* verification, which no other build does.
Verified ==
  \A t \in Threads :
    /\ pc[t] = "verify" => build.debug
    /\ pc[t] \in {"lock", "find", "add"} /\ build.debug => arg[t].uri \in WellFormedUris

\* What get_client_state found out is still true in add_client_state.
Adding ==
  \A t \in Threads : pc[t] = "add" =>
    arg[t].uri \notin DOMAIN client_states /\ Accepted(arg[t].desc)

\* A pool is registered under the URI it was created for.
OwnUri == \A u \in DOMAIN client_states : pools[client_states[u]].uri = u

\* The pool of a Session stays registered until the module's shutdown.
SessionsRegistered == \A t \in Threads : session[t] # None => session[t] \in Registered

\* Without ZTS one thread of Threads is the process; the others never run.
OnlyThread == CHOOSE u \in Threads : TRUE
Idle ==
  \A t \in Threads : ~build.zts /\ t # OnlyThread =>
    pc[t] \in {"request", "ended"} /\ client[t] = None /\ session[t] = None

\* Only debug builds prune at the end of a request.
PruningInDebug == \A t \in Threads : pc[t] = "prune" => build.debug

\* A debug build with threads is the only one with a data race.
Racing == build.zts /\ build.debug
NoRace == ~Racing => ~broken

IInv ==
  /\ TypeOK /\ Numbered /\ Mutex /\ Called /\ Verified /\ Adding /\ OwnUri
  /\ OnePoolPerUri /\ SessionsRegistered /\ Idle /\ PruningInDebug /\ NoRace

-----------------------------------------------------------------------------
(***************************************************************************)
(* Client_options_parser: what it accepts, ConnectionPool can work with.   *)
(***************************************************************************)

\* Half of the width is a number.
LEMMA HalfModulus ==
  /\ IntModulus \div 2 \in Nat /\ IntModulus = 2 * (IntModulus \div 2)
  /\ 32 <= IntModulus \div 2
BY RegistryAssumption

\* A remainder is smaller than the divisor.
LEMMA Remainder ==
  ASSUME NEW n \in Int, NEW m \in Nat, 0 < m
  PROVE  n % m \in 0..(m - 1)
OBVIOUS

\* to_int32 gives an int.
LEMMA NarrowedIsInt ==
  ASSUME NEW n \in Int
  PROVE  to_int32(n) \in IntRange
<1> DEFINE h == IntModulus \div 2
           m == (n + h) % IntModulus
<1>1. h \in Nat /\ IntModulus = 2 * h /\ 32 <= h /\ IntModulus \in Nat
  BY HalfModulus, RegistryAssumption
<1> HIDE DEF h
<1>2. m \in 0..(IntModulus - 1)
  BY <1>1, Remainder
<1> HIDE DEF m
<1>3. m - h \in (-h)..(h - 1)
  BY <1>1, <1>2
<1> QED BY <1>3 DEF to_int32, IntRange, m, h

\* The defaults are usable.
LEMMA DefaultUsable == Default \in UsableOptions
<1> DEFINE h == IntModulus \div 2
<1>1. h \in Nat /\ IntModulus = 2 * h /\ 32 <= h /\ IntModulus \in Nat
  BY HalfModulus, RegistryAssumption
<1> HIDE DEF h
<1>2. 25 \in (-h)..(h - 1) /\ 0 \in (-h)..(h - 1) /\ 25 \notin -IntModulus..0
  BY <1>1
<1>3. 25 \in IntRange \ (-IntModulus..0) /\ 0 \in IntRange \cap Nat
  BY <1>2 DEF IntRange, h
<1> QED BY <1>3 DEF Default, UsableOptions

\* An option that is given and passes value_checker has a usable value.
LEMMA OptionUsable ==
  ASSUME NEW d, d.kind = "object", IsDesc(d), NEW name \in OptionNames,
         assign_option(d, name), Given(d, name)
  PROVE  /\ name = "enabled" => OptionValue(d, name) \in BOOLEAN
         /\ name = "maxSize" => OptionValue(d, name) \in IntRange \ (-IntModulus..0)
         /\ name \in {"maxIdleTime", "queueTimeOut"} =>
              OptionValue(d, name) \in IntRange \cap Nat
<1>1. d.options[name] \in Values
  BY DEF IsDesc, Given
<1>2. /\ d.options[name].type = OptionType(name)
      /\ value_checker(name, OptionValue(d, name))
  BY DEF assign_option
<1>3. CASE name = "enabled"
  <2>1. d.options[name].val \in BOOLEAN
    BY <1>1, <1>2, <1>3 DEF Values, OptionType
  <2> QED BY <1>3, <2>1 DEF OptionValue
<1>4. CASE name # "enabled"
  <2>1. d.options[name].val \in Int
    BY <1>1, <1>2, <1>4 DEF Values, OptionType
  <2>2. OptionValue(d, name) \in IntRange
    BY <1>4, <2>1, NarrowedIsInt DEF OptionValue
  <2>3. IntRange \subseteq Int
    BY HalfModulus DEF IntRange
  <2>4. CASE name = "maxSize"
    BY <1>2, <2>2, <2>3, <2>4 DEF value_checker
  <2>5. CASE name \in {"maxIdleTime", "queueTimeOut"}
    BY <1>2, <2>2, <2>3, <2>5 DEF value_checker
  <2> QED BY <1>4, <2>4, <2>5
<1> QED BY <1>3, <1>4

\* parse_client_options gives usable options, or throws.
LEMMA ParsedUsable ==
  ASSUME NEW d \in Descs, Accepted(d)
  PROVE  parse_client_options(d) \in UsableOptions
<1> DEFINE o == parse_client_options(d)
<1>1. IsDesc(d)
  BY RegistryAssumption
<1>2. ASSUME NEW name \in OptionNames
      PROVE  \/ o[name] = Default[name]
             \/ /\ d.kind = "object" /\ Given(d, name) /\ assign_option(d, name)
                /\ o[name] = OptionValue(d, name)
  BY DEF parse_client_options, Accepted
<1>3. /\ Default["enabled"] \in BOOLEAN
      /\ Default["maxSize"] \in IntRange \ (-IntModulus..0)
      /\ Default["maxIdleTime"] \in IntRange \cap Nat
      /\ Default["queueTimeOut"] \in IntRange \cap Nat
  BY DefaultUsable DEF UsableOptions
<1>4. o["enabled"] \in BOOLEAN
  BY <1>1, <1>2, <1>3, OptionUsable DEF OptionNames
<1>5. o["maxSize"] \in IntRange \ (-IntModulus..0)
  BY <1>1, <1>2, <1>3, OptionUsable DEF OptionNames
<1>6. o["maxIdleTime"] \in IntRange \cap Nat
  BY <1>1, <1>2, <1>3, OptionUsable DEF OptionNames
<1>7. o["queueTimeOut"] \in IntRange \cap Nat
  BY <1>1, <1>2, <1>3, OptionUsable DEF OptionNames
<1>8. o = [name \in OptionNames |-> o[name]]
  BY DEF parse_client_options
<1> HIDE DEF o
<1>9. o = [enabled |-> o["enabled"], maxSize |-> o["maxSize"],
           maxIdleTime |-> o["maxIdleTime"], queueTimeOut |-> o["queueTimeOut"]]
  BY <1>8 DEF OptionNames
<1> QED BY <1>4, <1>5, <1>6, <1>7, <1>9 DEF UsableOptions, o

-----------------------------------------------------------------------------
(***************************************************************************)
(* Every step keeps the invariant.                                         *)
(***************************************************************************)

\* A call of getClient: nothing shared changes.
LEMMA getClientKeeps ==
  ASSUME IInv, NEW t \in Threads, NEW u \in Uris, NEW d \in Descs, getClient(t, u, d)
  PROVE  IInv'
<1> USE DEF IInv, getClient, At, Goto, registryVars
<1>1. TypeOK' /\ Numbered'
  BY DEF TypeOK, Numbered
<1>2. Mutex' /\ Called' /\ Verified' /\ Adding'
  BY DEF TypeOK, Mutex, Called, Verified, Adding
<1>3. OwnUri' /\ OnePoolPerUri' /\ SessionsRegistered'
  BY DEF OwnUri, OnePoolPerUri, SessionsRegistered, Registered
<1>4. Idle'
  BY DEF TypeOK, Idle, Runs, OnlyThread
<1>5. PruningInDebug' /\ NoRace'
  BY DEF TypeOK, PruningInDebug, NoRace, Racing
<1> QED BY <1>1, <1>2, <1>3, <1>4, <1>5

\* A debug build has looked at the URI: the call goes on, or has thrown.
LEMMA verify_connection_stringKeeps ==
  ASSUME IInv, NEW t \in Threads, verify_connection_string(t)
  PROVE  IInv'
<1> USE DEF IInv, verify_connection_string, At, Goto, Leave, registryVars
<1>1. TypeOK' /\ Numbered'
  BY DEF TypeOK, Numbered
<1>2. Mutex' /\ Called' /\ Verified' /\ Adding'
  BY DEF TypeOK, Mutex, Called, Verified, Adding
<1>3. OwnUri' /\ OnePoolPerUri' /\ SessionsRegistered'
  BY DEF OwnUri, OnePoolPerUri, SessionsRegistered, Registered
<1>4. Idle'
  BY DEF TypeOK, Idle, Runs, OnlyThread
<1>5. PruningInDebug' /\ NoRace'
  BY DEF TypeOK, PruningInDebug, NoRace, Racing
<1> QED BY <1>1, <1>2, <1>3, <1>4, <1>5

\* The mutex is taken: nobody else was behind it.
LEMMA lock_guardKeeps ==
  ASSUME IInv, NEW t \in Threads, lock_guard(t)
  PROVE  IInv'
<1> USE DEF IInv, lock_guard, At, Goto
<1>1. TypeOK' /\ Numbered'
  BY DEF TypeOK, Numbered
<1>2. Mutex'
  BY RegistryAssumption DEF TypeOK, Mutex
<1>3. Called' /\ Verified' /\ Adding'
  BY DEF TypeOK, Called, Verified, Adding
<1>4. OwnUri' /\ OnePoolPerUri' /\ SessionsRegistered'
  BY DEF OwnUri, OnePoolPerUri, SessionsRegistered, Registered
<1>5. Idle'
  BY DEF TypeOK, Idle, Runs, OnlyThread
<1>6. PruningInDebug' /\ NoRace'
  BY DEF TypeOK, PruningInDebug, NoRace, Racing
<1> QED BY <1>1, <1>2, <1>3, <1>4, <1>5, <1>6

\* The registered pool is returned, the options are refused, or a pool is to be added.
LEMMA get_client_stateKeeps ==
  ASSUME IInv, NEW t \in Threads, get_client_state(t)
  PROVE  IInv'
<1> USE DEF IInv, get_client_state, At, Goto, Return, Throw, Leave
<1>1. TypeOK' /\ Numbered'
  <2>1. mtx' \in Threads \cup {NoThread} /\ pc' \in [Threads -> {"request", "verify", "lock", "find",
          "add", "prune", "free", "ended"}]
    BY DEF TypeOK
  <2>2. arg' \in [Threads -> {NoArg} \cup [uri : Uris, desc : Descs]]
    BY DEF TypeOK
  <2>3. client' \in [Threads -> DOMAIN pools \cup {None}]
    BY DEF TypeOK
  <2>4. UNCHANGED <<build, client_states, pools, session, toPrune, broken>>
    OBVIOUS
  <2> HIDE DEF get_client_state
  <2> QED
    BY <2>1, <2>2, <2>3, <2>4 DEF TypeOK, Numbered
<1>2. Mutex'
  BY DEF TypeOK, Mutex
<1>3. Called' /\ Verified'
  BY DEF TypeOK, Called, Verified
<1>4. Adding'
  BY DEF TypeOK, Adding
<1>5. OwnUri' /\ SessionsRegistered'
  BY DEF OwnUri, SessionsRegistered, Registered
<1>6. OnePoolPerUri'
  BY DEF TypeOK, OwnUri, OnePoolPerUri
<1>7. Idle'
  BY DEF TypeOK, Idle, Runs, OnlyThread
<1>8. PruningInDebug' /\ NoRace'
  BY DEF TypeOK, PruningInDebug, NoRace, Racing
<1> QED BY <1>1, <1>2, <1>3, <1>4, <1>5, <1>6, <1>7, <1>8

\* A Session of a Client has the pool that is registered.
LEMMA getSessionKeeps ==
  ASSUME IInv, NEW t \in Threads, getSession(t)
  PROVE  IInv'
<1> USE DEF IInv, getSession, At, registryVars
<1>1. TypeOK' /\ Numbered'
  BY DEF TypeOK, Numbered
<1>2. Mutex' /\ Called' /\ Verified' /\ Adding'
  BY DEF Mutex, Called, Verified, Adding
<1>3. OwnUri' /\ OnePoolPerUri'
  BY DEF OwnUri, OnePoolPerUri
<1>4. SessionsRegistered'
  BY DEF TypeOK, OnePoolPerUri, SessionsRegistered, Registered
<1>5. Idle'
  BY DEF TypeOK, Idle, Runs, OnlyThread
<1>6. PruningInDebug' /\ NoRace'
  BY DEF PruningInDebug, NoRace, Racing
<1> QED BY <1>1, <1>2, <1>3, <1>4, <1>5, <1>6

\* A Session is closed: its pool is alive, so the call back is defined.
LEMMA close_connectionKeeps ==
  ASSUME IInv, NEW t \in Threads, close_connection(t)
  PROVE  IInv'
<1> USE DEF IInv, close_connection, registryVars
<1>1. TypeOK' /\ Numbered'
  BY DEF TypeOK, Numbered
<1>2. Mutex' /\ Called' /\ Verified' /\ Adding'
  BY DEF Mutex, Called, Verified, Adding
<1>3. OwnUri' /\ OnePoolPerUri'
  BY DEF OwnUri, OnePoolPerUri
<1>4. SessionsRegistered'
  BY DEF TypeOK, SessionsRegistered, Registered
<1>5. Idle' /\ PruningInDebug'
  BY DEF TypeOK, Idle, Runs, OnlyThread, PruningInDebug
<1>6. NoRace'
  BY DEF SessionsRegistered, Alive, NoRace, Racing
<1> QED BY <1>1, <1>2, <1>3, <1>4, <1>5, <1>6

\* A Client is freed: the registry keeps its pool.
LEMMA client_free_storageKeeps ==
  ASSUME IInv, NEW t \in Threads, client_free_storage(t)
  PROVE  IInv'
<1> USE DEF IInv, client_free_storage, registryVars
<1>1. TypeOK' /\ Numbered'
  BY DEF TypeOK, Numbered
<1>2. Mutex' /\ Called' /\ Verified' /\ Adding'
  BY DEF TypeOK, Mutex, Called, Verified, Adding
<1>3. OwnUri' /\ OnePoolPerUri' /\ SessionsRegistered'
  BY DEF TypeOK, OwnUri, OnePoolPerUri, SessionsRegistered, Registered
<1>4. Idle'
  BY DEF TypeOK, Idle, Runs, OnlyThread
<1>5. PruningInDebug' /\ NoRace'
  BY DEF PruningInDebug, NoRace, Racing
<1> QED BY <1>1, <1>2, <1>3, <1>4, <1>5

\* A request ends, with a prune in debug builds.
LEMMA RSHUTDOWNKeeps ==
  ASSUME IInv, NEW t \in Threads, RSHUTDOWN(t)
  PROVE  IInv'
<1> USE DEF IInv, RSHUTDOWN, At, Goto, registryVars
<1>1. UNCHANGED <<build, registryVars, arg, client, session, broken>>
  OBVIOUS
<1>2. TypeOK' /\ Numbered'
  <2>1. Registered \subseteq DOMAIN pools
    BY DEF TypeOK, Registered
  <2>2. toPrune' \in [Threads -> SUBSET DOMAIN pools]
    BY <2>1 DEF TypeOK
  <2>3. pc' = [pc EXCEPT ![t] = "prune"] \/ pc' = [pc EXCEPT ![t] = "free"]
    OBVIOUS
  <2> HIDE DEF RSHUTDOWN
  <2> QED
    BY <1>1, <2>2, <2>3 DEF TypeOK, Numbered
<1>3. Mutex' /\ Called' /\ Verified' /\ Adding'
  BY DEF TypeOK, Mutex, Called, Verified, Adding
<1>4. OwnUri' /\ OnePoolPerUri' /\ SessionsRegistered'
  BY DEF OwnUri, OnePoolPerUri, SessionsRegistered, Registered
<1>5. Idle'
  BY DEF TypeOK, Idle, Runs, OnlyThread
<1>6. PruningInDebug' /\ NoRace'
  BY DEF TypeOK, PruningInDebug, NoRace, Racing
<1> QED BY <1>2, <1>3, <1>4, <1>5, <1>6

\* The prune visits a pool, or is done.
LEMMA prune_expired_connectionsKeeps ==
  ASSUME IInv, NEW t \in Threads, prune_expired_connections(t)
  PROVE  IInv'
<1> USE DEF IInv, prune_expired_connections, At, Goto, registryVars
<1>1. TypeOK' /\ Numbered'
  BY DEF TypeOK, Numbered
<1>2. Mutex' /\ Called' /\ Verified' /\ Adding'
  BY DEF TypeOK, Mutex, Called, Verified, Adding
<1>3. OwnUri' /\ OnePoolPerUri' /\ SessionsRegistered'
  BY DEF OwnUri, OnePoolPerUri, SessionsRegistered, Registered
<1>4. Idle'
  BY DEF TypeOK, Idle, Runs, OnlyThread
<1>5. PruningInDebug' /\ NoRace'
  BY DEF TypeOK, PruningInDebug, NoRace, Racing
<1> QED BY <1>1, <1>2, <1>3, <1>4, <1>5

\* The next request of a thread.
LEMMA NewRequestKeeps ==
  ASSUME IInv, NEW t \in Threads, NewRequest(t)
  PROVE  IInv'
<1> USE DEF IInv, NewRequest, At, Goto, registryVars
<1>1. TypeOK' /\ Numbered'
  BY DEF TypeOK, Numbered
<1>2. Mutex' /\ Called' /\ Verified' /\ Adding'
  BY DEF TypeOK, Mutex, Called, Verified, Adding
<1>3. OwnUri' /\ OnePoolPerUri' /\ SessionsRegistered'
  BY DEF OwnUri, OnePoolPerUri, SessionsRegistered, Registered
<1>4. Idle'
  BY DEF TypeOK, Idle, Runs, OnlyThread
<1>5. PruningInDebug' /\ NoRace'
  BY DEF TypeOK, PruningInDebug, NoRace, Racing
<1> QED BY <1>1, <1>2, <1>3, <1>4, <1>5

\* The module ends: no thread has a Client or a Session any more.
LEMMA release_all_clientsKeeps ==
  ASSUME IInv, release_all_clients
  PROVE  IInv'
<1> USE DEF IInv, release_all_clients
<1>1. \A t \in Threads : client[t] = None /\ session[t] = None
  BY DEF Idle, Runs, OnlyThread, NoRace
<1>2. TypeOK' /\ Numbered'
  BY DEF TypeOK, Numbered
<1>3. Mutex' /\ Called' /\ Verified' /\ Adding' /\ OwnUri'
  BY DEF Mutex, Called, Verified, Adding, OwnUri
<1>4. OnePoolPerUri' /\ SessionsRegistered'
  BY <1>1 DEF OnePoolPerUri, SessionsRegistered
<1>5. Idle' /\ PruningInDebug' /\ NoRace'
  BY <1>1 DEF Idle, PruningInDebug, NoRace, Racing
<1> QED BY <1>2, <1>3, <1>4, <1>5

\* A pool is created and registered.  The exception "Cannot add client" is
\* impossible: the URI was unregistered when get_client_state looked, and the
\* mutex was held since.  A build that iterates has no other thread.
LEMMA add_client_stateKeeps ==
  ASSUME IInv, NEW t \in Threads, add_client_state(t)
  PROVE  IInv'
<1> DEFINE u == arg[t].uri
           new == [uri |-> u, options |-> parse_client_options(arg[t].desc)]
<1>1. PICK n \in Nat : DOMAIN pools = 1..n
  BY DEF IInv, Numbered
<1>2. Cardinality(DOMAIN pools) = n
  BY <1>1, FS_Interval
<1>3. /\ At(t, "add") /\ pc[t] = "add" /\ mtx = t /\ ~broken
      /\ u \in Uris /\ arg[t].desc \in Descs /\ u \notin DOMAIN client_states
      /\ Accepted(arg[t].desc)
  BY DEF IInv, add_client_state, At, Runs, Mutex, Called, Verified, Adding
<1>4. new \in [uri : Uris, options : UsableOptions] /\ new.uri = u
  BY <1>3, ParsedUsable
<1>5. /\ pools' = [p \in 1..(n + 1) |-> IF p = n + 1 THEN new ELSE pools[p]]
      /\ client_states' = [v \in DOMAIN client_states \cup {u} |->
                             IF v = u THEN n + 1 ELSE client_states[v]]
      /\ client' = [client EXCEPT ![t] = n + 1] /\ mtx' = NoThread
      /\ arg' = [arg EXCEPT ![t] = NoArg] /\ pc' = [pc EXCEPT ![t] = "request"]
      /\ broken' = (broken \/ Iterating)
      /\ UNCHANGED <<build, session, toPrune>>
  BY <1>2, <1>3 DEF add_client_state, Return, Leave, Goto
<1> HIDE DEF u, new
<1>6. /\ DOMAIN pools' = 1..(n + 1) /\ Cardinality(DOMAIN pools') = n + 1
      /\ DOMAIN pools \subseteq DOMAIN pools' /\ n + 1 \in DOMAIN pools'
      /\ n + 1 \notin DOMAIN pools
  BY <1>1, <1>5, FS_Interval
<1>7. \A p \in DOMAIN pools : pools'[p] = pools[p]
  BY <1>1, <1>5, <1>6
<1>8. pools'[n + 1] = new
  BY <1>5, <1>6
<1>8a. /\ DOMAIN client_states' = DOMAIN client_states \cup {u}
       /\ client_states'[u] = n + 1
       /\ \A v \in DOMAIN client_states :
            client_states'[v] = client_states[v] /\ client_states[v] \in DOMAIN pools
  BY <1>3, <1>5 DEF IInv, TypeOK
<1>9. TypeOK'
  <2>1. pools' \in [1..Cardinality(DOMAIN pools') -> [uri : Uris, options : UsableOptions]]
    BY <1>1, <1>2, <1>4, <1>5, <1>6 DEF IInv, TypeOK
  <2>2. /\ client_states' \in [DOMAIN client_states' -> DOMAIN pools']
        /\ DOMAIN client_states' \subseteq Uris
    BY <1>3, <1>5, <1>6 DEF IInv, TypeOK
  <2>3. /\ client' \in [Threads -> DOMAIN pools' \cup {None}]
        /\ session' \in [Threads -> DOMAIN pools' \cup {None}]
        /\ toPrune' \in [Threads -> SUBSET DOMAIN pools']
    BY <1>5, <1>6 DEF IInv, TypeOK
  <2>4. /\ build' \in Builds /\ mtx' \in Threads \cup {NoThread}
        /\ pc' \in [Threads -> {"request", "verify", "lock", "find", "add", "prune", "free", "ended"}]
        /\ arg' \in [Threads -> {NoArg} \cup [uri : Uris, desc : Descs]]
    BY <1>5 DEF IInv, TypeOK
  <2>5. broken' \in BOOLEAN
    BY <1>5 DEF IInv, TypeOK, Iterating
  <2> QED BY <2>1, <2>2, <2>3, <2>4, <2>5 DEF TypeOK
<1>10. Numbered'
  BY <1>6 DEF Numbered
<1>11. Mutex' /\ Called' /\ Verified' /\ PruningInDebug'
  BY <1>3, <1>5 DEF IInv, TypeOK, Mutex, Called, Verified, PruningInDebug
<1>12. Adding'
  BY <1>3, <1>5 DEF IInv, TypeOK, Adding, Mutex
<1>13. OwnUri'
  <2>1. \A v \in DOMAIN client_states : pools'[client_states'[v]].uri = v
    BY <1>7, <1>8a DEF IInv, OwnUri
  <2>2. pools'[client_states'[u]].uri = u
    BY <1>4, <1>8, <1>8a
  <2> QED BY <1>8a, <2>1, <2>2 DEF OwnUri
<1>14. OnePoolPerUri'
  <2> SUFFICES ASSUME NEW s \in Threads, client'[s] # None
               PROVE  /\ pools'[client'[s]].uri \in DOMAIN client_states'
                      /\ client_states'[pools'[client'[s]].uri] = client'[s]
    BY DEF OnePoolPerUri
  <2>1. CASE s = t
    BY <1>4, <1>5, <1>8, <2>1 DEF IInv, TypeOK
  <2>2. CASE s # t
    <3>1. client'[s] = client[s] /\ client[s] \in DOMAIN pools
      BY <1>5, <2>2 DEF IInv, TypeOK
    <3>2. /\ pools[client[s]].uri \in DOMAIN client_states
          /\ client_states[pools[client[s]].uri] = client[s]
      BY <3>1 DEF IInv, OnePoolPerUri
    <3>3. pools'[client'[s]] = pools[client[s]]
      BY <1>7, <3>1
    <3> QED BY <1>8a, <3>1, <3>2, <3>3
  <2> QED BY <2>1, <2>2
<1>15. SessionsRegistered'
  <2>1. Registered \subseteq Registered'
    BY <1>3, <1>5 DEF Registered
  <2> QED BY <1>5, <2>1 DEF IInv, SessionsRegistered
<1>16. Idle'
  BY <1>3, <1>5 DEF IInv, TypeOK, Idle, At, Runs, OnlyThread
<1>17. NoRace'
  <2> SUFFICES ASSUME ~Racing, Iterating
               PROVE  FALSE
    BY <1>3, <1>5 DEF NoRace, Racing
  <2>1. PICK s \in Threads : pc[s] = "prune"
    BY DEF Iterating
  <2>2. ~build.zts
    BY <2>1 DEF IInv, PruningInDebug, Racing
  <2>3. s = OnlyThread /\ t = OnlyThread
    BY <1>3, <2>1, <2>2 DEF IInv, Idle
  <2> QED BY <1>3, <2>1, <2>3
<1> QED
  BY <1>9, <1>10, <1>11, <1>12, <1>13, <1>14, <1>15, <1>16, <1>17 DEF IInv

-----------------------------------------------------------------------------
(***************************************************************************)
(* The theorems.                                                           *)
(***************************************************************************)

\* Before the first request.
LEMMA InitHolds ==
  ASSUME Init
  PROVE  IInv
<1> USE DEF Init
<1>1. DOMAIN pools = 1..0 /\ DOMAIN pools = {} /\ Cardinality(DOMAIN pools) = 0
  BY FS_Interval, FS_EmptySet
<1>2. pools \in [1..Cardinality(DOMAIN pools) -> [uri : Uris, options : UsableOptions]]
  BY <1>1
<1>3. TypeOK
  BY <1>1, <1>2 DEF TypeOK
<1>4. Numbered
  BY <1>1 DEF Numbered
<1>5. Mutex /\ Called /\ Verified /\ Adding /\ OwnUri /\ OnePoolPerUri /\ SessionsRegistered
  BY DEF Mutex, Called, Verified, Adding, OwnUri, OnePoolPerUri, SessionsRegistered
<1>6. Idle /\ PruningInDebug /\ NoRace
  BY DEF Idle, PruningInDebug, NoRace
<1> QED BY <1>3, <1>4, <1>5, <1>6 DEF IInv

\* The invariant holds in every reachable state.
LEMMA InvariantHolds == Spec => []IInv
<1>1. Init => IInv
  BY InitHolds
<1>2. IInv /\ [Next]_vars => IInv'
  <2> SUFFICES ASSUME IInv, [Next]_vars
               PROVE  IInv'
    OBVIOUS
  <2>1. CASE release_all_clients
    BY <2>1, release_all_clientsKeeps
  <2>2. ASSUME NEW t \in Threads, NEW u \in Uris, NEW d \in Descs, getClient(t, u, d)
        PROVE  IInv'
    BY <2>2, getClientKeeps
  <2>3. ASSUME NEW t \in Threads, Inside(t)
        PROVE  IInv'
    BY <2>3, verify_connection_stringKeeps, lock_guardKeeps, get_client_stateKeeps,
       add_client_stateKeeps DEF Inside
  <2>4. ASSUME NEW t \in Threads,
               \/ getSession(t) \/ close_connection(t) \/ client_free_storage(t)
               \/ RSHUTDOWN(t) \/ prune_expired_connections(t) \/ NewRequest(t)
        PROVE  IInv'
    BY <2>4, getSessionKeeps, close_connectionKeeps, client_free_storageKeeps,
       RSHUTDOWNKeeps, prune_expired_connectionsKeeps, NewRequestKeeps
  <2>5. CASE UNCHANGED vars
    <3> USE <2>5 DEF IInv, vars
    <3>1. TypeOK' /\ Numbered'
      BY DEF TypeOK, Numbered
    <3>2. Mutex' /\ Called' /\ Verified' /\ Adding' /\ OwnUri' /\ OnePoolPerUri'
      BY DEF Mutex, Called, Verified, Adding, OwnUri, OnePoolPerUri
    <3>3. SessionsRegistered' /\ Idle' /\ PruningInDebug' /\ NoRace'
      BY DEF SessionsRegistered, Registered, Idle, PruningInDebug, NoRace, Racing
    <3> QED BY <3>1, <3>2, <3>3
  <2> QED BY <2>1, <2>2, <2>3, <2>4, <2>5 DEF Next
<1> QED BY <1>1, <1>2, PTL DEF Spec

\* Types; every pool has options that ConnectionPool can work with, although
\* the parser checks a number it has narrowed to an int.
THEOREM TypeCorrect == Spec => []TypeOK
<1>1. IInv => TypeOK
  BY DEF IInv
<1> QED BY <1>1, InvariantHolds, PTL

\* Clients for one URI share one pool, on every build.
THEOREM ClientsShareThePool == Spec => []OnePoolPerUri
<1>1. IInv => OnePoolPerUri
  BY DEF IInv
<1> QED BY <1>1, InvariantHolds, PTL

\* On every build but a debug build with threads, a Session's pool is alive and
\* client_states is not changed while it is iterated over.
THEOREM NoPoolDangles == Spec => [](~Racing => NothingDangles)
<1>1. IInv => (~Racing => NothingDangles)
  BY DEF IInv, NoRace, SessionsRegistered, Alive, NothingDangles
<1> QED BY <1>1, InvariantHolds, PTL

\* Whatever other threads do, a getClient gives a Client exactly if it is not
\* refused for its own arguments, and leaves the registry alone if it is.
THEOREM FailsForItsArgumentsHolds == Spec => FailsForItsArguments
<1> DEFINE Ends(t) == pc[t] \in {"verify", "find", "add"} /\ pc'[t] = "request"
           Right(t) == /\ client'[t] = None <=> Refused(t)
                       /\ Refused(t) => UNCHANGED <<client_states, pools>>
<1>1. ASSUME IInv, Next, NEW t \in Threads, Ends(t)
      PROVE  Right(t)
  <2>1. /\ pc \in [Threads -> {"request", "verify", "lock", "find", "add", "prune", "free", "ended"}]
        /\ client \in [Threads -> DOMAIN pools \cup {None}]
    BY <1>1 DEF IInv, TypeOK
  <2>2. /\ pc[t] \in {"find", "add"} /\ build.debug => arg[t].uri \in WellFormedUris
        /\ pc[t] = "verify" => build.debug
        /\ client[t] = None
    BY <1>1 DEF IInv, Called, Verified
  <2>3. CASE release_all_clients
    BY <1>1, <2>3 DEF release_all_clients
  <2>4. ASSUME NEW s \in Threads,
               \/ \E u \in Uris, d \in Descs : getClient(s, u, d)
               \/ lock_guard(s) \/ getSession(s) \/ close_connection(s)
               \/ client_free_storage(s) \/ RSHUTDOWN(s)
               \/ prune_expired_connections(s) \/ NewRequest(s)
        PROVE  FALSE
    BY <1>1, <2>1, <2>4
    DEF getClient, lock_guard, getSession, close_connection, client_free_storage,
        RSHUTDOWN, prune_expired_connections, NewRequest, At, Goto
  <2>5. ASSUME NEW s \in Threads, verify_connection_string(s)
        PROVE  Right(t)
    <3>1. s = t
      BY <1>1, <2>1, <2>5 DEF verify_connection_string, Leave, Goto
    <3>2. /\ pc[t] = "verify" /\ arg[t].uri \notin WellFormedUris
          /\ UNCHANGED <<client_states, pools, client>>
      BY <1>1, <2>1, <2>5, <3>1 DEF verify_connection_string, At, Goto, registryVars
    <3> QED BY <2>2, <3>2 DEF Refused
  <2>6. ASSUME NEW s \in Threads, get_client_state(s)
        PROVE  Right(t)
    <3>1. s = t /\ pc[t] = "find"
      BY <1>1, <2>1, <2>6 DEF get_client_state, At, Return, Throw, Leave, Goto
    <3>2. \A u \in DOMAIN client_states : client_states[u] # None
      BY <1>1 DEF IInv, TypeOK, Numbered, None
    <3>3. UNCHANGED <<client_states, pools>>
      BY <2>6 DEF get_client_state
    <3>4. CASE /\ arg[t].uri \in DOMAIN client_states
               /\ Return(t, client_states[arg[t].uri])
      <4>1. client'[t] = client_states[arg[t].uri]
        BY <2>1, <3>4 DEF Return
      <4>2. ~Refused(t)
        BY <2>2, <3>1, <3>4 DEF Refused
      <4> QED BY <3>2, <3>4, <4>1, <4>2
    <3>5. CASE arg[t].uri \notin DOMAIN client_states /\ ~Accepted(arg[t].desc) /\ Throw(t)
      BY <2>2, <3>3, <3>5 DEF Throw, Refused
    <3>6. ~Goto(t, "add")
      BY <1>1, <2>1 DEF Goto
    <3> QED BY <2>6, <3>1, <3>4, <3>5, <3>6 DEF get_client_state
  <2>7. ASSUME NEW s \in Threads, add_client_state(s)
        PROVE  Right(t)
    <3>1. s = t /\ pc[t] = "add"
      BY <1>1, <2>1, <2>7 DEF add_client_state, At, Return, Throw, Leave, Goto
    <3>2. Cardinality(DOMAIN pools) + 1 # None
      <4>1. PICK n \in Nat : DOMAIN pools = 1..n
        BY <1>1 DEF IInv, Numbered
      <4>2. Cardinality(DOMAIN pools) = n
        BY <4>1, FS_Interval
      <4> QED BY <4>2 DEF None
    <3>3. arg[t].uri \notin DOMAIN client_states /\ Accepted(arg[t].desc)
      BY <1>1, <3>1 DEF IInv, Adding
    <3>4. client'[t] = Cardinality(DOMAIN pools) + 1
      BY <2>1, <2>7, <3>1, <3>3 DEF add_client_state, Return
    <3>5. ~Refused(t)
      BY <2>2, <3>1, <3>3 DEF Refused
    <3> QED BY <3>2, <3>4, <3>5
  <2> QED BY <1>1, <2>3, <2>4, <2>5, <2>6, <2>7 DEF Next, Inside
<1>2. IInv /\ [Next]_vars => [\A t \in Threads : Ends(t) => Right(t)]_vars
  BY <1>1
<1> QED BY <1>2, InvariantHolds, PTL DEF Spec, FailsForItsArguments
=============================================================================
