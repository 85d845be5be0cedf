--------------------------- MODULE ClientRegistry ---------------------------
(***************************************************************************)
(* The registry of clients (mysqlx_client.cc: Client_options_parser,       *)
(* Client_state_manager, getClient; php_mysqlx.cc: the end of a request    *)
(* and of the module).                                                     *)
(*                                                                         *)
(* One pool per URI, for the whole process.  getClient works under mtx;    *)
(* the prune at the end of a request iterates over client_states without   *)
(* it.  A Session keeps a plain pointer to its pool (pool_callback), so    *)
(* the pool has to outlive it, whatever becomes of the Client object.      *)
(***************************************************************************)
EXTENDS Integers, FiniteSets

CONSTANTS
  Threads,        \* PHP threads
  Uris,           \* connection URIs
  WellFormedUris, \* those that have an address and parse
  Descs,          \* client options as the application passes them
  IntModulus,     \* 2^32, the number of values of an int
  MaxPools,       \* bound: pools created
  Builds          \* kinds of builds: [zts, debug]

None == 0
NoThread == "nobody"
OptionNames == {"enabled", "maxSize", "maxIdleTime", "queueTimeOut"}
IntRange == (-(IntModulus \div 2))..(IntModulus \div 2 - 1)

\* a JSON value, as far as the parser tells them apart
Values == [type : {"bool"}, val : BOOLEAN] \cup [type : {"long"}, val : Int]
          \cup [type : {"null", "other"}]
IsDesc(d) ==
  \/ d.kind \in {"empty", "malformed", "scalar"}
  \/ /\ d.kind = "object" /\ \A name \in DOMAIN d.options : d.options[name] \in Values

ASSUME RegistryAssumption ==
  /\ IsFiniteSet(Threads) /\ NoThread \notin Threads
  /\ \A d \in Descs : IsDesc(d)
  /\ IntModulus \in Nat /\ 64 <= IntModulus /\ IntModulus % 2 = 0
  /\ MaxPools \in Nat
  /\ Builds \subseteq [zts : BOOLEAN, debug : BOOLEAN]

VARIABLES
  build,          \* how PHP and the extension were built
  mtx,            \* Client_state_manager::mtx
  client_states,  \* [uri -> pool]
  pools,          \* every pool created: its URI and options
  pc,             \* where a thread is
  arg,            \* the arguments of its getClient
  client,         \* the pool of a thread's Client object
  session,        \* the pool of a thread's Session, by pool_callback
  toPrune,        \* the pools a thread's prune still has to visit
  broken          \* undefined behaviour was reached

registryVars == <<mtx, client_states, pools>>
vars == <<build, mtx, client_states, pools, pc, arg, client, session,
          toPrune, broken>>

NoArg == [uri |-> None, desc |-> [kind |-> "empty"]]
Registered == {client_states[u] : u \in DOMAIN client_states}

\* shared_ptr: the registry and the Client objects keep a Client_state
Alive == Registered \cup {client[t] : t \in Threads}

Init ==
  /\ build \in Builds
  /\ mtx = NoThread
  /\ client_states = [u \in {} |-> None] /\ pools = << >>
  /\ pc = [t \in Threads |-> "request"]
  /\ arg = [t \in Threads |-> NoArg]
  /\ client = [t \in Threads |-> None] /\ session = [t \in Threads |-> None]
  /\ toPrune = [t \in Threads |-> {}]
  /\ broken = FALSE

\* without ZTS a process has one thread
Runs(t) == ~broken /\ (build.zts \/ t = CHOOSE u \in Threads : TRUE)
At(t, where) == Runs(t) /\ pc[t] = where
Goto(t, where) == pc' = [pc EXCEPT ![t] = where]

-----------------------------------------------------------------------------
(***************************************************************************)
(* Client_options_parser.                                                  *)
(***************************************************************************)
Default == [enabled |-> TRUE, maxSize |-> 25, maxIdleTime |-> 0, queueTimeOut |-> 0]

\* zvalue::to_int32 takes the low bits of a 64 bit long
to_int32(n) == ((n + IntModulus \div 2) % IntModulus) - IntModulus \div 2

\* mutant: a pool without room is accepted
value_checker_ZeroSize(name, v) == IF name = "enabled" THEN TRUE ELSE 0 <= v

value_checker(name, v) ==
  CASE name = "enabled" -> TRUE
    [] name = "maxSize" -> 0 < v
    [] OTHER -> 0 <= v

Given(d, name) == name \in DOMAIN d.options /\ d.options[name].type # "null"
OptionType(name) == IF name = "enabled" THEN "bool" ELSE "long"
OptionValue(d, name) ==
  LET v == d.options[name].val IN IF name = "enabled" THEN v ELSE to_int32(v)

assign_option(d, name) ==
  Given(d, name) => /\ d.options[name].type = OptionType(name)
                    /\ value_checker(name, OptionValue(d, name))

\* parse_client_options does not throw
Accepted(d) ==
  \/ d.kind = "empty"
  \/ /\ d.kind = "object"
     /\ DOMAIN d.options \subseteq OptionNames
     /\ \A name \in OptionNames : assign_option(d, name)

parse_client_options(d) ==
  [name \in OptionNames |->
     IF d.kind = "object" /\ Given(d, name) THEN OptionValue(d, name) ELSE Default[name]]

-----------------------------------------------------------------------------
(***************************************************************************)
(* getClient: debug builds verify the URI first; then get_client_state     *)
(* under the lock, which is given up when it returns or throws.  A         *)
(* thread's Client variable is set by it only.                             *)
(***************************************************************************)
getClient(t, u, d) ==
  /\ At(t, "request") /\ client[t] = None
  /\ arg' = [arg EXCEPT ![t] = [uri |-> u, desc |-> d]]
  /\ Goto(t, IF build.debug THEN "verify" ELSE "lock")
  /\ UNCHANGED <<build, registryVars, client, session, toPrune, broken>>

Leave(t) == arg' = [arg EXCEPT ![t] = NoArg] /\ Goto(t, "request")

\* it throws before anything is locked or looked up
verify_connection_string(t) ==
  /\ At(t, "verify")
  /\ \/ arg[t].uri \in WellFormedUris /\ Goto(t, "lock") /\ UNCHANGED arg
     \/ arg[t].uri \notin WellFormedUris /\ Leave(t)
  /\ UNCHANGED <<build, registryVars, client, session, toPrune, broken>>

\* mutant: nobody is waited for
lock_guard_None(t) ==
  /\ At(t, "lock")
  /\ mtx' = t
  /\ Goto(t, "find")
  /\ UNCHANGED <<build, client_states, pools, arg, client, session, toPrune, broken>>

lock_guard(t) ==
  /\ At(t, "lock") /\ mtx = NoThread
  /\ mtx' = t
  /\ Goto(t, "find")
  /\ UNCHANGED <<build, client_states, pools, arg, client, session, toPrune, broken>>

Return(t, pool) ==
  /\ client' = [client EXCEPT ![t] = pool]
  /\ mtx' = NoThread
  /\ Leave(t)

\* mutant: the lock is kept when an exception leaves the function
Throw_KeepsLock(t) == Leave(t) /\ UNCHANGED <<mtx, client>>

Throw(t) == Leave(t) /\ mtx' = NoThread /\ UNCHANGED client

\* mutant: other options than the registered pool's make a new pool
get_client_state_Replaces(t) ==
  LET u == arg[t].uri
      pool == Cardinality(DOMAIN pools) + 1
      options == parse_client_options(arg[t].desc)
  IN  /\ At(t, "find")
      /\ \/ /\ u \in DOMAIN client_states /\ Accepted(arg[t].desc) /\ pool <= MaxPools
            /\ options # pools[client_states[u]].options
            /\ pools' = [p \in 1..pool |-> IF p = pool THEN [uri |-> u, options |-> options]
                                                      ELSE pools[p]]
            /\ client_states' = [client_states EXCEPT ![u] = pool]
            /\ Return(t, pool)
         \/ /\ u \notin DOMAIN client_states /\ Accepted(arg[t].desc)
            /\ Goto(t, "add")
            /\ UNCHANGED <<mtx, arg, client, client_states, pools>>
      /\ UNCHANGED <<build, session, toPrune, broken>>

get_client_state(t) ==
  LET u == arg[t].uri IN
  /\ At(t, "find")
  /\ \/ u \in DOMAIN client_states /\ Return(t, client_states[u])
     \/ /\ u \notin DOMAIN client_states /\ Accepted(arg[t].desc)
        /\ Goto(t, "add")
        /\ UNCHANGED <<mtx, arg, client>>
     \/ u \notin DOMAIN client_states /\ ~Accepted(arg[t].desc) /\ Throw(t)
  /\ UNCHANGED <<build, client_states, pools, session, toPrune, broken>>

\* an insertion while another thread iterates is a data race
Iterating == \E t \in Threads : pc[t] = "prune"

add_client_state(t) ==
  LET u == arg[t].uri
      pool == Cardinality(DOMAIN pools) + 1
  IN  /\ At(t, "add")
      /\ pool <= MaxPools
      /\ pools' = [p \in 1..pool |->
           IF p = pool THEN [uri |-> u, options |-> parse_client_options(arg[t].desc)]
                       ELSE pools[p]]
      /\ \/ /\ u \notin DOMAIN client_states
            /\ client_states' = [v \in DOMAIN client_states \cup {u} |->
                                   IF v = u THEN pool ELSE client_states[v]]
            /\ Return(t, pool)
         \/ u \in DOMAIN client_states /\ Throw(t) /\ UNCHANGED client_states
      /\ broken' = (broken \/ Iterating)
      /\ UNCHANGED <<build, session, toPrune>>

-----------------------------------------------------------------------------
(***************************************************************************)
(* Objects.  Sessions of a client without pooling have no pool_callback;   *)
(* a connect to a URI that is not well formed gives no Session.            *)
(***************************************************************************)
getSession(t) ==
  /\ At(t, "request") /\ client[t] # None /\ session[t] = None
  /\ pools[client[t]].options["enabled"] /\ pools[client[t]].uri \in WellFormedUris
  /\ session' = [session EXCEPT ![t] = client[t]]
  /\ UNCHANGED <<build, registryVars, pc, arg, client, toPrune, broken>>

\* close_connection calls the pool through pool_callback
close_connection(t) ==
  /\ pc[t] \in {"request", "free"} /\ Runs(t) /\ session[t] # None
  /\ session' = [session EXCEPT ![t] = None]
  /\ broken' = (broken \/ session[t] \notin Alive)
  /\ UNCHANGED <<build, registryVars, pc, arg, client, toPrune>>

\* mutant: the registry does not keep a pool that no Client refers to
client_free_storage_Weak(t) ==
  /\ pc[t] \in {"request", "free"} /\ Runs(t) /\ client[t] # None
  /\ client' = [client EXCEPT ![t] = None]
  /\ client_states' =
       IF \E u \in Threads \ {t} : client[u] = client[t] THEN client_states
       ELSE [u \in {v \in DOMAIN client_states : client_states[v] # client[t]} |->
               client_states[u]]
  /\ UNCHANGED <<build, mtx, pools, pc, arg, session, toPrune, broken>>

client_free_storage(t) ==
  /\ pc[t] \in {"request", "free"} /\ Runs(t) /\ client[t] # None
  /\ client' = [client EXCEPT ![t] = None]
  /\ UNCHANGED <<build, registryVars, pc, arg, session, toPrune, broken>>

-----------------------------------------------------------------------------
(***************************************************************************)
(* The end of a request: RSHUTDOWN, which only debug builds have, then the *)
(* objects that are left are freed, in any order; the next request.        *)
(***************************************************************************)
RSHUTDOWN(t) ==
  /\ At(t, "request")
  /\ IF build.debug
     THEN Goto(t, "prune") /\ toPrune' = [toPrune EXCEPT ![t] = Registered]
     ELSE Goto(t, "free") /\ UNCHANGED toPrune
  /\ UNCHANGED <<build, registryVars, arg, client, session, broken>>

prune_expired_connections(t) ==
  /\ At(t, "prune")
  /\ \/ \E p \in toPrune[t] : toPrune' = [toPrune EXCEPT ![t] = @ \ {p}] /\ UNCHANGED pc
     \/ toPrune[t] = {} /\ Goto(t, "free") /\ UNCHANGED toPrune
  /\ UNCHANGED <<build, registryVars, arg, client, session, broken>>

NewRequest(t) ==
  /\ At(t, "free") /\ client[t] = None /\ session[t] = None
  /\ Goto(t, "request")
  /\ UNCHANGED <<build, registryVars, arg, client, session, toPrune, broken>>

\* MSHUTDOWN, when every thread has ended its last request
release_all_clients ==
  /\ \A t \in Threads : Runs(t) => /\ pc[t] = "free"
                                   /\ client[t] = None /\ session[t] = None
  /\ ~broken /\ client_states # [u \in {} |-> None]
  /\ client_states' = [u \in {} |-> None]
  /\ pc' = [t \in Threads |-> "ended"]
  /\ UNCHANGED <<build, mtx, pools, arg, client, session, toPrune, broken>>

Inside(t) == verify_connection_string(t) \/ lock_guard(t) \/ get_client_state(t) \/ add_client_state(t)

Next ==
  \/ release_all_clients
  \/ \E t \in Threads :
       \/ \E u \in Uris, d \in Descs : getClient(t, u, d)
       \/ Inside(t)
       \/ getSession(t) \/ close_connection(t) \/ client_free_storage(t)
       \/ RSHUTDOWN(t) \/ prune_expired_connections(t) \/ NewRequest(t)

\* A thread inside getClient goes on, and gets a mutex that is free again and
\* again.
Fairness == \A t \in Threads : SF_vars(lock_guard(t)) /\ WF_vars(Inside(t))

Spec == Init /\ [][Next]_vars
FairSpec == Spec /\ Fairness

-----------------------------------------------------------------------------
\* What ConnectionPool assumes of its options.
UsableOptions ==
  [enabled : BOOLEAN, maxSize : IntRange \ (-IntModulus..0),
   maxIdleTime : IntRange \cap Nat, queueTimeOut : IntRange \cap Nat]

\* Types; every pool has the options ConnectionPool is specified for: a pool of
\* at least one connection and no negative time, although the parser checks a
\* number it has narrowed to an int.
TypeOK ==
  /\ build \in Builds
  /\ mtx \in Threads \cup {NoThread}
  /\ pools \in [1..Cardinality(DOMAIN pools) -> [uri : Uris, options : UsableOptions]]
  /\ client_states \in [DOMAIN client_states -> DOMAIN pools]
  /\ DOMAIN client_states \subseteq Uris
  /\ pc \in [Threads -> {"request", "verify", "lock", "find", "add", "prune", "free", "ended"}]
  /\ arg \in [Threads -> {NoArg} \cup [uri : Uris, desc : Descs]]
  /\ client \in [Threads -> DOMAIN pools \cup {None}]
  /\ session \in [Threads -> DOMAIN pools \cup {None}]
  /\ toPrune \in [Threads -> SUBSET DOMAIN pools]
  /\ broken \in BOOLEAN

\* Clients for one URI share one pool, the registered one, whichever threads
\* asked for them, in which order, and how many were freed in between.
OnePoolPerUri ==
  \A t \in Threads : client[t] # None =>
    LET u == pools[client[t]].uri
    IN  u \in DOMAIN client_states /\ client_states[u] = client[t]

\* The pool that a Session will call back when it is closed is alive, although
\* the Client it came from may be gone; no pool is called after its end, and
\* client_states is not changed while it is iterated over: in a build with
\* threads nothing iterates, in a build that prunes there is one thread.  (A
\* debug build with threads has the race.)
NothingDangles ==
  /\ ~broken
  /\ \A t \in Threads : session[t] # None => session[t] \in Alive

\* What a call of getClient is refused for: in a debug build its URI, whatever
\* is registered; its options, only while its URI is not registered.
Refused(t) ==
  \/ build.debug /\ arg[t].uri \notin WellFormedUris
  \/ arg[t].uri \notin DOMAIN client_states /\ ~Accepted(arg[t].desc)

\* Whatever other threads do in between, a call of getClient fails if and only
\* if it is refused for its own arguments ("Cannot add client" never happens),
\* and then leaves the registry as it was.
FailsForItsArguments ==
  [][\A t \in Threads :
       pc[t] \in {"verify", "find", "add"} /\ pc'[t] = "request" =>
         /\ client'[t] = None <=> Refused(t)
         /\ Refused(t) => UNCHANGED <<client_states, pools>>]_vars

\* Every getClient returns or throws: no exception leaves the mutex locked.
GetClientReturns ==
  \A t \in Threads : pc[t] \in {"verify", "lock"} ~> pc[t] = "request"
=============================================================================
