-------------------------- MODULE MCConnectionPool --------------------------
(***************************************************************************)
(* A small instance of ConnectionPool: three threads, one of which may     *)
(* hold two Sessions at a time.                                            *)
(***************************************************************************)
EXTENDS ConnectionPool, TLC

CONSTANTS t1, t2, t3, h1, h2, h3, h4, c1, c2, c3

ThreeThreads == {t1, t2, t3}
FourHandles == {h1, h2, h3, h4}
FourOwners == h1 :> t1 @@ h2 :> t1 @@ h3 :> t2 @@ h4 :> t3
ThreeConns == {c1, c2, c3}
ConnSymmetry == Permutations(Conns)
=============================================================================
