--------------------------- MODULE CrudOperation ---------------------------
(***************************************************************************)
(* One CRUD operation object of PHP, from its creation to its executions:  *)
(* find, modify and remove of a collection, select, update and delete of a *)
(* table (xmysqlnd_crud_collection_commands.cc,                            *)
(* xmysqlnd_crud_table_commands.cc and the PHP classes on top of them).    *)
(* The calls build a protobuf message of clauses.  The parser turns the    *)
(* placeholder :name of an expression into a position, bind() gives the    *)
(* name a value, execute() sends the clauses and the values by position.   *)
(* The other three operations (add, insert, SQL) only collect rows.        *)
(*                                                                         *)
(* An expression is the sequence of the placeholders that the parser meets *)
(* in it and whether it parses; when it does not, "built" says whether the *)
(* error (characters after the expression) comes after a whole expression. *)
(* The server has prepared statements; PreparedStatements models what      *)
(* becomes of the message from there.                                      *)
(***************************************************************************)
EXTENDS Integers, Sequences, FiniteSets, SequencesExt

CONSTANTS
  Kinds,          \* kinds of operations to create
  Names,          \* placeholder names
  Values,         \* values to bind
  Unbound,        \* the nullptr of a placeholder without value
  Limit,          \* the argument that carries a limit or an offset
  Exprs,          \* expressions of criteria, groupings and values
  ListExprs,      \* expressions of sort and projection
  Docs,           \* documents, rows or parameters
  Noops,          \* documents that are empty arrays, which add nothing
  Bad,            \* documents that cannot be encoded as JSON
  MayRepeat,      \* whether the application uses a placeholder twice
  MaxClauses,     \* bound of the clauses, placeholders and documents
  MaxRows         \* bound of the rows of a message

Collection == {"find", "modify", "remove"}
Table == {"select", "update", "delete"}
Adder == {"add", "insert", "sql"}

ASSUME CrudAssumption ==
  /\ Kinds \subseteq Collection \cup Table \cup Adder
  /\ Unbound \notin Values /\ Limit \notin Values /\ Limit # Unbound
  /\ Exprs \cup ListExprs
       \subseteq [names : Seq(Names), parses : BOOLEAN, built : BOOLEAN]
  /\ \A e \in Exprs \cup ListExprs : e.parses => e.built
  /\ Noops \cup Bad \subseteq Docs
  /\ MayRepeat \in BOOLEAN
  /\ MaxClauses \in Nat /\ MaxRows \in Nat

VARIABLES
  kind,
  clauses,        \* of the message: slot, placeholders, whether it has all
                  \* its required fields
  limits,         \* row_count and offset that are set
  placeholders,   \* names by position
  bound,          \* bound_values, by position
  docs,           \* what the PHP object keeps: docs, rows_zv, params
  op_docs,        \* docs of the driver's add operation
  rows,           \* rows (add, insert) or args (SQL) in the message
  result,         \* of the last call
  sent,           \* what the last call sent
  given,          \* history: placeholders of the accepted expressions
  last_bound,     \* history: the last value given to each name by bind()
  clean,          \* history: no call has failed
  awaited         \* history: placeholders to bind before the next execute()

clauseVars == <<kind, clauses, limits, placeholders, bound>>
rowVars == <<docs, op_docs, rows>>
history == <<given, last_bound, clean, awaited>>
vars == <<clauseVars, rowVars, result, sent, history>>

NoMessage == [clauses |-> << >>, args |-> << >>, rows |-> << >>]
Clause(slot, refs, built) == [slot |-> slot, refs |-> refs, built |-> built]
Ref(n, pos) == [name |-> n, pos |-> pos]

\* the call gives the object back ("ok"), false or null ("fail"), throws
\* ("exception"), sends ("sent"), or has no defined behaviour
Results == {"none", "ok", "fail", "exception", "sent", "undefined"}
Running == result # "undefined"
NothingSent == sent' = NoMessage

-----------------------------------------------------------------------------
(***************************************************************************)
(* The parser                                                              *)
(***************************************************************************)
\* mutant: positions start anew in every expression
conv_placeholder_Restarts(names, n) == [i \in DOMAIN names |-> Ref(names[i], i)]

\* Args_conv gives every occurrence the next position after the n known ones
conv_placeholder(names, n) == [i \in DOMAIN names |-> Ref(names[i], n + i)]

\* Bindings::add_placeholders
add_placeholders(known, names) ==
  LET added[i \in 0..Len(names)] ==
        IF i = 0 THEN known
        ELSE IF names[i] \in ToSet(added[i - 1]) THEN added[i - 1]
        ELSE Append(added[i - 1], names[i])
  IN added[Len(names)]

\* mutant: the values bound so far are lost
resize_Clears(b, n) == [i \in 1..n |-> Unbound]

\* vector::resize with nullptr
resize(b, n) == [i \in 1..n |-> IF i <= Len(b) THEN b[i] ELSE Unbound]

\* mutant: no copy
PlaceholdersAfter_NoCopy(e) ==
  IF kind \in Table \/ ~e.parses THEN placeholders \o e.names
  ELSE add_placeholders(placeholders, e.names)

\* collections parse with a copy of the placeholders, tables with their own
PlaceholdersAfter(e) ==
  IF kind \in Table THEN placeholders \o e.names
  ELSE IF e.parses THEN add_placeholders(placeholders, e.names)
  ELSE placeholders

-----------------------------------------------------------------------------
(***************************************************************************)
(* What an application gives the object                                    *)
(***************************************************************************)
Acceptable(e) ==
  \/ MayRepeat
  \/ /\ ToSet(e.names) \cap given = {}
     /\ IsInjective(e.names)

Accepted(e) ==
  /\ given' = IF e.parses THEN given \cup ToSet(e.names) ELSE given
  /\ clean' = (clean /\ e.parses)
  /\ result' = IF e.parses THEN "ok" ELSE "fail"
  /\ NothingSent

MayAdd ==
  /\ Running /\ kind \notin Adder
  /\ Len(clauses) < MaxClauses /\ Len(placeholders) < MaxClauses

\* the elements of s that are not in S
Without(s, S) ==
  LET kept[i \in 0..Len(s)] ==
        IF i = 0 THEN << >>
        ELSE IF s[i] \in S THEN kept[i - 1] ELSE Append(kept[i - 1], s[i])
  IN kept[Len(s)]

ReplaceClause(c) ==
  Append(Without(clauses, {d \in ToSet(clauses) : d.slot = c.slot}), c)

Parsed(slot, e) == Clause(slot, conv_placeholder(e.names, Len(placeholders)), TRUE)

HasCriteria == \E i \in DOMAIN clauses : clauses[i].slot = "criteria"

-----------------------------------------------------------------------------
(***************************************************************************)
(* Calls that build the clauses                                            *)
(***************************************************************************)
\* where() of a table forgets the values bound so far, but not the names
where(e) ==
  /\ MayAdd /\ kind \in Table
  /\ Acceptable(e)
  /\ placeholders' = PlaceholdersAfter(e)
  /\ IF e.parses
     THEN /\ clauses' = ReplaceClause(Parsed("criteria", e))
          /\ bound' = resize(<< >>, Len(placeholders'))
          /\ awaited' = given \cup ToSet(e.names)
     ELSE UNCHANGED <<clauses, bound, awaited>>
  /\ Accepted(e)
  /\ UNCHANGED <<kind, limits, rowVars, last_bound>>

\* set_having replaces the clause, add_grouping appends one
Grouped(slot, e, clausesAfter) ==
  /\ MayAdd /\ kind \in {"find", "select"}
  /\ Acceptable(e)
  /\ placeholders' = PlaceholdersAfter(e)
  /\ IF e.parses
     THEN /\ clauses' = clausesAfter
          /\ bound' = resize(bound, Len(placeholders'))
          /\ awaited' = awaited \cup ToSet(e.names)
     ELSE UNCHANGED <<clauses, bound, awaited>>
  /\ Accepted(e)
  /\ UNCHANGED <<kind, limits, rowVars, last_bound>>

having(e) == Grouped("having", e, ReplaceClause(Parsed("having", e)))
groupBy(e) == Grouped("group", e, Append(clauses, Parsed("group", e)))

\* sort(), orderby(), fields(): the element is added to the message before
\* the expression is parsed, with placeholders of its own
AddListElement(slot, e) ==
  /\ MayAdd
  /\ clauses' = Append(clauses, Clause(slot, conv_placeholder(e.names, 0), e.built))
  /\ clean' = (clean /\ e.parses)
  /\ result' = IF e.parses THEN "ok" ELSE "fail"
  /\ NothingSent
  /\ UNCHANGED <<kind, limits, placeholders, bound, rowVars, given, last_bound, awaited>>

sort(e) == AddListElement("sort", e)
fields(e) == kind = "find" /\ AddListElement("projection", e)

(***************************************************************************)
(* modify: set, unset, replace, patch, array_insert, array_append; update: *)
(* set.  The operation is added, then the path is parsed into its required *)
(* source, then the value: an expression, or a literal without             *)
(* placeholders.  set() of update makes no room for the values of its      *)
(* placeholders, only where() does: an application that adds one after     *)
(* where() is left out, by a guard.                                        *)
(***************************************************************************)
SetOperation(e) ==
  /\ placeholders' = PlaceholdersAfter(e)
  /\ bound' = IF kind = "modify" THEN resize(bound, Len(placeholders')) ELSE bound
  /\ clauses' = Append(clauses, IF e.parses THEN Parsed("operation", e)
                                ELSE Clause("operation", << >>, TRUE))
  /\ awaited' = IF e.parses THEN awaited \cup ToSet(e.names) ELSE awaited
  /\ Accepted(e)

\* the parser gives no expression for a path of a document with a placeholder
PathFails(path) ==
  /\ clauses' = Append(clauses, Clause("operation", << >>, FALSE))
  /\ clean' = FALSE
  /\ result' = IF path = "placeholder" /\ kind = "modify" THEN "undefined" ELSE "fail"
  /\ NothingSent
  /\ UNCHANGED <<placeholders, bound, given, awaited>>

add_operation(path, e) ==
  /\ MayAdd /\ kind \in {"modify", "update"}
  /\ Acceptable(e)
  /\ kind = "update" /\ HasCriteria => e.names = << >>
  /\ IF path = "right" THEN SetOperation(e) ELSE PathFails(path)
  /\ UNCHANGED <<kind, limits, rowVars, last_bound>>

\* a value of the wrong type is refused before anything is done
WrongType ==
  /\ Running /\ kind \notin Adder
  /\ clean' = FALSE
  /\ result' = "exception"
  /\ NothingSent
  /\ UNCHANGED <<clauseVars, rowVars, given, last_bound, awaited>>

Offsets == IF kind \in {"find", "select", "modify"} THEN {"rows", "offset"} ELSE {"rows"}

limit(which) ==
  /\ Running /\ kind \notin Adder
  /\ which \in Offsets
  /\ limits' = limits \cup {which}
  /\ result' = "ok"
  /\ NothingSent
  /\ UNCHANGED <<kind, clauses, placeholders, bound, rowVars, history>>

-----------------------------------------------------------------------------
(***************************************************************************)
(* bind                                                                    *)
(***************************************************************************)
Positions(n) == {i \in DOMAIN placeholders : placeholders[i] = n}
find_variable(n) == CHOOSE i \in Positions(n) : \A j \in Positions(n) : i <= j

Refuses(n) ==
  \/ Positions(n) = {}
  \/ kind \in Table /\ ~HasCriteria

BindFails ==
  /\ result' = "exception"
  /\ clean' = FALSE
  /\ UNCHANGED <<bound, last_bound, awaited>>

\* bound_values[offset] of a table is not checked against its size
bind(n, v) ==
  /\ Running /\ kind \notin Adder
  /\ \/ Refuses(n) /\ BindFails
     \/ /\ ~Refuses(n) /\ find_variable(n) > Len(bound)
        /\ result' = "undefined"
        /\ UNCHANGED <<bound, last_bound, clean, awaited>>
     \/ /\ ~Refuses(n) /\ find_variable(n) <= Len(bound)
        /\ bound' = [bound EXCEPT ![find_variable(n)] = v]
        /\ last_bound' = [last_bound EXCEPT ![n] = v]
        /\ awaited' = awaited \ {n}
        /\ result' = "ok"
        /\ clean' = clean
  /\ NothingSent
  /\ UNCHANGED <<kind, clauses, limits, placeholders, rowVars, given>>

-----------------------------------------------------------------------------
(***************************************************************************)
(* execute                                                                 *)
(***************************************************************************)
\* protobuf's IsInitialized: an offset needs a row_count, a clause all its
\* required fields
is_initialized ==
  /\ "offset" \in limits => "rows" \in limits
  /\ \A i \in DOMAIN clauses : clauses[i].built

AllBound == \A i \in DOMAIN bound : bound[i] # Unbound
CanFinalize == AllBound /\ (kind \in Table /\ placeholders # << >> => HasCriteria)

\* bind_values and the limit arguments that follow the values
Arguments ==
  bound \o (IF "rows" \in limits THEN <<Limit>> ELSE << >>)
        \o (IF "offset" \in limits THEN <<Limit>> ELSE << >>)

execute ==
  /\ Running /\ kind \notin Adder
  /\ IF ~is_initialized THEN result' = "exception" /\ NothingSent
     ELSE IF ~CanFinalize
     THEN /\ result' = IF kind \in Collection THEN "exception" ELSE "fail"
          /\ NothingSent
     ELSE /\ result' = "sent"
          /\ sent' = [clauses |-> clauses, args |-> Arguments, rows |-> << >>]
  /\ UNCHANGED <<clauseVars, rowVars, history>>

-----------------------------------------------------------------------------
(***************************************************************************)
(* add, insert and SQL: every execute() adds all that was given so far to  *)
(* the message again.                                                      *)
(***************************************************************************)
add(d) ==
  /\ Running /\ kind \in Adder
  /\ kind # "add" => d \notin Noops \cup Bad
  /\ Len(docs) < MaxClauses
  /\ docs' = Append(docs, d)
  /\ result' = "ok"
  /\ NothingSent
  /\ UNCHANGED <<clauseVars, op_docs, rows, history>>

Encoded(s) == Without(s, Noops)

\* the documents before the first one that cannot be encoded
BeforeBad(s) == LET n == SelectInSeq(s, LAMBDA d : d \in Bad)
                IN IF n = 0 THEN s ELSE SubSeq(s, 1, n - 1)

bind_docs(more) == rows \o more

SendRows(more) ==
  /\ rows' = bind_docs(more)
  /\ sent' = [clauses |-> << >>, args |-> << >>, rows |-> rows']
  /\ result' = "sent"

ExecuteAdd ==
  /\ Running /\ kind = "add"
  /\ docs # << >>
  /\ op_docs' = op_docs \o Encoded(BeforeBad(docs))
  /\ Len(rows) + Len(op_docs') <= MaxRows
  /\ \/ /\ ToSet(docs) \cap Bad # {}
        /\ result' = "exception"
        /\ NothingSent
        /\ UNCHANGED rows
     \/ /\ ToSet(docs) \cap Bad = {} /\ Encoded(docs) = << >>
        /\ result' = "fail"
        /\ NothingSent
        /\ UNCHANGED rows
     \/ /\ ToSet(docs) \cap Bad = {} /\ Encoded(docs) # << >>
        /\ SendRows(op_docs')
  /\ UNCHANGED <<clauseVars, docs, history>>

ExecuteRows ==
  /\ Running /\ kind \in {"insert", "sql"}
  /\ Len(rows) + Len(docs) <= MaxRows
  /\ SendRows(docs)
  /\ UNCHANGED <<clauseVars, docs, op_docs, history>>

-----------------------------------------------------------------------------
(***************************************************************************)
(* A collection's operation is created with its criteria (find: or none),  *)
(* select with its columns.  An expression that does not parse gives no    *)
(* object.                                                                 *)
(***************************************************************************)
Created(slot, names, known) ==
  /\ clauses = <<Clause(slot, conv_placeholder(names, 0), TRUE)>>
  /\ placeholders = known
  /\ given = ToSet(known)

CreatedEmpty == clauses = << >> /\ placeholders = << >> /\ given = {}

Init ==
  /\ kind \in Kinds
  /\ \/ kind \notin {"modify", "remove"} /\ CreatedEmpty
     \/ /\ kind \in Collection
        /\ \E e \in Exprs :
             /\ e.parses
             /\ MayRepeat \/ IsInjective(e.names)
             /\ Created("criteria", e.names, add_placeholders(<< >>, e.names))
     \/ kind = "select" /\ \E e \in ListExprs : e.parses /\ Created("projection", e.names, << >>)
  /\ limits = {}
  /\ bound = resize(<< >>, Len(placeholders))
  /\ docs = << >> /\ op_docs = << >> /\ rows = << >>
  /\ result = "none"
  /\ sent = NoMessage
  /\ last_bound = [n \in Names |-> Unbound]
  /\ clean = TRUE
  /\ awaited = given

Next ==
  \/ \E e \in Exprs : \/ where(e) \/ having(e) \/ groupBy(e)
                      \/ \E path \in {"right", "wrong", "placeholder"} : add_operation(path, e)
  \/ \E e \in ListExprs : sort(e) \/ fields(e)
  \/ WrongType
  \/ \E which \in {"rows", "offset"} : limit(which)
  \/ \E n \in Names, v \in Values : bind(n, v)
  \/ execute
  \/ \E d \in Docs : add(d)
  \/ ExecuteAdd
  \/ ExecuteRows

Spec == Init /\ [][Next]_vars

-----------------------------------------------------------------------------
(***************************************************************************)
(* Properties                                                              *)
(***************************************************************************)
\* The variables keep their types.  The placeholders of a collection's
\* operation are distinct and each has its place among the values; those of
\* a table's operation are never fewer than its values.
TypeOK ==
  /\ kind \in Kinds
  /\ limits \subseteq {"rows", "offset"}
  /\ placeholders \in Seq(Names)
  /\ bound \in Seq(Values \cup {Unbound})
  /\ Len(bound) <= Len(placeholders)
  /\ kind \in Collection => /\ Len(bound) = Len(placeholders)
                            /\ IsInjective(placeholders)
  /\ result \in Results

\* docbook/mysql_xdevapi/collectionmodify/bind.xml: bind is to "Bind a
\* parameter to the placeholder in the search condition".  In what execute()
\* sends every clause is complete, and at the position of every placeholder is
\* the value that bind() last gave its name, however the calls that added
\* clauses, replaced them, failed or bound values again were mixed; add, insert
\* and SQL send all that was given but the empty documents, in order (a second
\* execute() after what the first one left in the message).  For applications
\* that use a name in one expression only, give update its placeholders before
\* where(), and sort and projection none.
SentAsGiven ==
  result = "sent" =>
    /\ \A i \in DOMAIN sent.clauses :
         /\ sent.clauses[i].built
         /\ \A j \in DOMAIN sent.clauses[i].refs :
              LET ref == sent.clauses[i].refs[j] IN
              /\ ref.pos \in DOMAIN sent.args
              /\ sent.args[ref.pos] = last_bound[ref.name]
    /\ kind \in Adder =>
         IsSuffix(Encoded(docs), sent.rows)

\* An operation on which no call has failed is sent once all placeholders
\* of its expressions are bound: for a table since the last where(), which
\* forgets the values.  (A table's placeholders can only be bound after
\* where(), and an offset needs a limit.)
UsableWhenBound ==
  [][execute /\ clean /\ awaited = {} /\ ("offset" \in limits => "rows" \in limits)
       => result' = "sent"]_vars

=============================================================================
