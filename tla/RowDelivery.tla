---------------------------- MODULE RowDelivery ----------------------------
(***************************************************************************)
(* What reading a statement's results promises, whatever the way the rows  *)
(* are read: the application gets rows the server produced for that        *)
(* execution, every row at most once, the rows of a result set from the    *)
(* first on and without a gap, and the result sets in their order.  A      *)
(* result set may be left early.                                           *)
(***************************************************************************)
EXTENDS Naturals, Sequences

CONSTANT Executions

VARIABLES
  produced,    \* the rows the server has sent for an execution, in order
  got          \* the rows the application has been given

vars == <<produced, got>>

Follows(r, q) == \/ q.set = r.set /\ q.n = r.n + 1
                 \/ q.set > r.set /\ q.n = 1
InOrder(rows) ==
  /\ rows # << >> => rows[1].n = 1
  /\ \A i \in 1..(Len(rows) - 1) : Follows(rows[i], rows[i + 1])
IsAmong(rows, all) == \A i \in 1..Len(rows) : \E j \in 1..Len(all) : rows[i] = all[j]

Init ==
  /\ produced = [e \in Executions |-> << >>]
  /\ got = [e \in Executions |-> << >>]

Produce(e) ==
  /\ Len(produced'[e]) = Len(produced[e]) + 1
  /\ SubSeq(produced'[e], 1, Len(produced[e])) = produced[e]
  /\ produced' = [produced EXCEPT ![e] = produced'[e]]
  /\ UNCHANGED got

Deliver(e) ==
  /\ Len(got'[e]) > Len(got[e])
  /\ SubSeq(got'[e], 1, Len(got[e])) = got[e]
  /\ InOrder(got'[e])
  /\ IsAmong(got'[e], produced[e])
  /\ got' = [got EXCEPT ![e] = got'[e]]
  /\ UNCHANGED produced

Next == \E e \in Executions : Produce(e) \/ Deliver(e)

Spec == Init /\ [][Next]_vars
=============================================================================
