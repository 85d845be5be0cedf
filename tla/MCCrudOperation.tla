-------------------------- MODULE MCCrudOperation --------------------------
(***************************************************************************)
(* Instances of CrudOperation for TLC.                                     *)
(***************************************************************************)
EXTENDS CrudOperation

CONSTANTS x, y, v, w

Expr(names, parses, built) == [names |-> names, parses |-> parses, built |-> built]
Parses(names) == Expr(names, TRUE, TRUE)

\* with one, two or no placeholders; with an error after one of them
MCExprs == {Parses(<< >>), Parses(<<x>>), Parses(<<y>>), Parses(<<x, y>>),
            Expr(<<x>>, FALSE, TRUE), Expr(<<y>>, FALSE, TRUE)}
MCListExprs == {Parses(<< >>), Expr(<< >>, FALSE, TRUE), Expr(<< >>, FALSE, FALSE)}

\* a placeholder twice
RepeatExprs == {Parses(<<x>>), Parses(<<y>>), Parses(<<x, x>>)}

Symmetry == Permutations({v, w})
AllKinds == Collection \cup Table \cup Adder
=============================================================================
