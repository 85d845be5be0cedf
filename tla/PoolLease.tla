----------------------------- MODULE PoolLease -----------------------------
(***************************************************************************)
(* What a connection pool promises to the code that calls                  *)
(* Client::getSession and Session::close: a connection is leased to one    *)
(* session at a time, at most MaxSize connections are leased, and a lease  *)
(* ends when its session is closed or when the whole client is closed.     *)
(* Nothing is said of how connections are kept between two leases.         *)
(***************************************************************************)
EXTENDS Naturals, FiniteSets

CONSTANTS Handles, Conns, NoConn, MaxSize

VARIABLE lease

Leased == {lease[h] : h \in Handles} \ {NoConn}

Init == lease = [h \in Handles |-> NoConn]

Grant(h, c) ==
  /\ lease[h] = NoConn
  /\ c \notin Leased
  /\ Cardinality(Leased) < MaxSize
  /\ lease' = [lease EXCEPT ![h] = c]

Return(h) ==
  /\ lease[h] # NoConn
  /\ lease' = [lease EXCEPT ![h] = NoConn]

RevokeAll == lease' = [h \in Handles |-> NoConn]

Next ==
  \/ \E h \in Handles, c \in Conns : Grant(h, c)
  \/ \E h \in Handles : Return(h)
  \/ RevokeAll

Spec == Init /\ [][Next]_lease
=============================================================================
