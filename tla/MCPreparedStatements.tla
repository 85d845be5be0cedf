----------------------- MODULE MCPreparedStatements -----------------------
(***************************************************************************)
(* Small instances of PreparedStatements: two operations of one collection *)
(* with the same shape and a limit, a select and an update; limits below   *)
(* and beyond what an int32_t of two bits holds.                           *)
(***************************************************************************)
EXTENDS PreparedStatements, TLC

CONSTANTS find1, find2, select, update, a, b

AllOps == {find1, find2, select, update}
AllKinds ==
  find1 :> "collection" @@ find2 :> "collection" @@ select :> "select"
  @@ update :> "table"
AllShapes == find1 :> "F" @@ find2 :> "F" @@ select :> "S" @@ update :> "U"
OneHole == "F" :> 1 @@ "S" :> 1 @@ "U" :> 0

FreshSession == {[hasPS |-> TRUE, recycled |-> FALSE]}
OldServer == {[hasPS |-> FALSE, recycled |-> FALSE]}
RecycledSession == {[hasPS |-> TRUE, recycled |-> TRUE]}
TwoValues == {a, b}
Symmetry == Permutations({find1, find2}) \cup Permutations({a, b})

AnySession == FreshSession \cup OldServer \cup RecycledSession
=============================================================================
