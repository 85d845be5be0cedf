-------------------------- MODULE MCClientRegistry --------------------------
(***************************************************************************)
(* A small instance of ClientRegistry: two threads, two URIs, one of them  *)
(* well formed, and client options from each class the parser tells apart, *)
(* on the builds without a race.                                           *)
(***************************************************************************)
EXTENDS ClientRegistry, TLC

CONSTANTS t1, t2, u1, u2

TwoThreads == {t1, t2}
TwoUris == {u1, u2}
OneWellFormed == {u1}
Safe == {[zts |-> TRUE, debug |-> FALSE], [zts |-> FALSE, debug |-> TRUE],
         [zts |-> FALSE, debug |-> FALSE]}

Long(n) == [type |-> "long", val |-> n]
Object(options) == [kind |-> "object", options |-> options]

\* IntModulus = 64: 66 narrows to 2, 40 to a negative number
SomeDescs ==
  { [kind |-> "empty"], [kind |-> "malformed"], [kind |-> "scalar"],
    Object("enabled" :> [type |-> "bool", val |-> FALSE]),
    Object("maxSize" :> Long(66) @@ "queueTimeOut" :> [type |-> "null"]),
    Object("maxIdleTime" :> Long(40)),
    Object("maxSize" :> Long(0)),
    Object("queueTimeOut" :> [type |-> "other"]),
    Object("maxsize" :> Long(1)) }
=============================================================================
