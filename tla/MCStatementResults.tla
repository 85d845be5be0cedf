------------------------ MODULE MCStatementResults ------------------------
(***************************************************************************)
(* Small instances of StatementResults: rows around the prefetch count,    *)
(* two result sets, frames of up to three messages, two executions.        *)
(***************************************************************************)
EXTENDS StatementResults

CONSTANT s1
OneStmt == {s1}
=============================================================================
