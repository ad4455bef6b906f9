------------------------------ MODULE Startup -------------------------------
(***************************************************************************)
(* Bringing the database up to date when a process starts (init_db of      *)
(* db.py, called by the lifespan of main.py): missing tables are created   *)
(* with their indexes, missing columns added, the capability catalogue     *)
(* synchronised.  Every worker or serverless instance does it, before it   *)
(* serves, on the same database; nothing keeps two of them apart, and any  *)
(* of them may stop half way.                                              *)
(*                                                                         *)
(* Postgres runs DDL in the surrounding transaction, SQLite (as Python's   *)
(* driver opens it) commits each statement.  The indexes of columns with   *)
(* index=True are made by statements of their own, after that of their     *)
(* table, and only by the start that makes the table: no later one looks   *)
(* for them.  A statement that finds its table, column or row there        *)
(* already fails, as does a unique index over rows that clash, and with it *)
(* the start; the host starts the process again.  The rewriting of rows    *)
(* that exist and are unchanged is left out.                               *)
(***************************************************************************)
EXTENDS Naturals, FiniteSets

CONSTANTS
  Procs,      \* processes of the service
  Tables,     \* the tables of models.py
  CapTable,   \* the one of them that holds the catalogue
  Added,      \* columns added since the first release: pairs <<table, column>>
  Indexes,    \* indexes made apart from their tables: pairs <<table, column>>
  Unique,     \* the unique ones that no constraint of the table stands in for
  Caps,       \* the capabilities of the taxonomy
  Dialects,   \* the kinds of database: "sqlite", "postgres" or both
  MaxCrashes  \* bound on the crashes

ASSUME SchemaAssumption ==
  /\ CapTable \in Tables
  /\ Added \subseteq Tables \X {c[2] : c \in Added}
  /\ Indexes \subseteq Tables \X {i[2] : i \in Indexes}
  /\ Unique \subseteq Indexes
  /\ Dialects \subseteq {"sqlite", "postgres"}
  /\ MaxCrashes \in Nat

VARIABLES
  dialect,    \* the kind of database in use
  tables,     \* the tables it has
  columns,    \* the added columns it has
  indexes,    \* the indexes it has
  broken,     \* the unique indexes it lacks and whose columns have clashing rows
  catalogue,  \* the rows of capabilities
  jobs,       \* process -> how far init_db is, and what it has found missing
  raced,      \* processes whose start another one's writes overlapped: history
  crashes     \* how many crashes happened

vars == <<dialect, tables, columns, indexes, broken, catalogue, jobs, raced, crashes>>

Stages == {"down", "create", "alter", "sync", "serving"}

Job == [stage : Stages, tables : SUBSET Tables, columns : SUBSET Added,
        indexes : SUBSET Indexes, caps : SUBSET Caps]

At(stage) == [stage |-> stage, tables |-> {}, columns |-> {}, indexes |-> {}, caps |-> {}]

TypeOK ==
  /\ dialect \in Dialects
  /\ tables \subseteq Tables
  /\ columns \subseteq Added
  /\ indexes \subseteq Indexes
  /\ broken \subseteq Unique
  /\ catalogue \subseteq Caps
  /\ jobs \in [Procs -> Job]
  /\ raced \subseteq Procs
  /\ crashes \in Nat

ColumnsOf(T) == {c \in Added : c[1] \in T}

IndexesOf(T) == {i \in Indexes : i[1] \in T}

\* An empty database, or what an earlier release left: some of the tables,
\* some of their columns and, on SQLite, of their indexes, some of the catalogue.
Init ==
  /\ dialect \in Dialects
  /\ tables \in SUBSET Tables
  /\ columns \in SUBSET ColumnsOf(tables)
  /\ indexes \in SUBSET IndexesOf(tables)
  /\ dialect = "postgres" => indexes = IndexesOf(tables)
  /\ broken = {}
  /\ catalogue \in SUBSET Caps
  /\ CapTable \notin tables => catalogue = {}
  /\ jobs = [p \in Procs |-> At("down")]
  /\ raced = {}
  /\ crashes = 0

-----------------------------------------------------------------------------

Goto(p, job) == jobs' = [jobs EXCEPT ![p] = job]

\* p writes to the database while others may be starting.
Overlaps(p) == raced' = raced \cup {q \in Procs \ {p} : jobs[q].stage # "down"}

CreateUnchecked(p) ==   \* mutated: create_all with checkfirst off
  /\ jobs[p].stage = "down"
  /\ Goto(p, [At("create") EXCEPT !.tables = Tables])
  /\ raced' = raced \ {p}
  /\ UNCHANGED <<dialect, tables, columns, indexes, broken, catalogue, crashes>>

\* The host starts p.  create_all looks which tables there are, all at first.
Start(p) ==
  /\ jobs[p].stage = "down"
  /\ Goto(p, [At("create") EXCEPT !.tables = Tables \ tables])
  /\ raced' = raced \ {p}
  /\ UNCHANGED <<dialect, tables, columns, indexes, broken, catalogue, crashes>>

CreateStepwise(p) ==   \* mutated: Postgres commits each statement, too
  /\ jobs[p].stage = "create"
  /\ jobs[p].indexes = {}
  /\ \E t \in jobs[p].tables \ tables :
       /\ tables' = tables \cup {t}
       /\ columns' = columns \cup ColumnsOf({t})
       /\ Goto(p, [jobs[p] EXCEPT !.tables = @ \ {t}, !.indexes = IndexesOf({t})])
  /\ Overlaps(p)
  /\ UNCHANGED <<dialect, indexes, broken, catalogue, crashes>>

\* The CREATE statements: all at once on Postgres, indexes included, one at a
\* time on SQLite, where the indexes of a table come before the next table.
create_all(p) ==
  /\ jobs[p].stage = "create"
  /\ jobs[p].indexes = {}
  /\ \E new \in (SUBSET jobs[p].tables) \ {{}} :
       /\ IF dialect = "postgres" THEN new = jobs[p].tables ELSE Cardinality(new) = 1
       /\ new \cap tables = {}
       /\ tables' = tables \cup new
       /\ columns' = columns \cup ColumnsOf(new)
       /\ LET later == IF dialect = "postgres" THEN {} ELSE IndexesOf(new)
          IN  /\ indexes' = indexes \cup (IndexesOf(new) \ later)
              /\ Goto(p, [jobs[p] EXCEPT !.tables = @ \ new, !.indexes = later])
  /\ Overlaps(p)
  /\ UNCHANGED <<dialect, broken, catalogue, crashes>>

\* CREATE INDEX, on a table that p has made.
CreateIndex(p) ==
  /\ \E i \in jobs[p].indexes \ (indexes \cup broken) :
       /\ indexes' = indexes \cup {i}
       /\ Goto(p, [jobs[p] EXCEPT !.indexes = @ \ {i}])
  /\ Overlaps(p)
  /\ UNCHANGED <<dialect, tables, columns, broken, catalogue, crashes>>

\* _add_missing_columns lists the tables.
ListTables(p) ==
  /\ jobs[p].stage = "create"
  /\ jobs[p].tables = {}
  /\ jobs[p].indexes = {}
  /\ Goto(p, [At("alter") EXCEPT !.tables = tables])
  /\ UNCHANGED <<dialect, tables, columns, indexes, broken, catalogue, raced, crashes>>

\* ... and looks at the columns of each when its turn comes.
InspectTable(p) ==
  /\ jobs[p].stage = "alter"
  /\ dialect = "sqlite" => jobs[p].columns = {}
  /\ \E t \in jobs[p].tables :
       Goto(p, [jobs[p] EXCEPT !.tables = @ \ {t},
                               !.columns = @ \cup (ColumnsOf({t}) \ columns)])
  /\ UNCHANGED <<dialect, tables, columns, indexes, broken, catalogue, raced, crashes>>

\* The ALTER statements: on Postgres they take effect together, at the end.
AddColumns(p) ==
  /\ jobs[p].stage = "alter"
  /\ \E new \in (SUBSET jobs[p].columns) \ {{}} :
       /\ IF dialect = "postgres"
            THEN jobs[p].tables = {} /\ new = jobs[p].columns
            ELSE Cardinality(new) = 1
       /\ new \cap columns = {}
       /\ columns' = columns \cup new
       /\ Goto(p, [jobs[p] EXCEPT !.columns = @ \ new])
  /\ Overlaps(p)
  /\ UNCHANGED <<dialect, tables, indexes, broken, catalogue, crashes>>

\* sync_taxonomy looks each capability up.
ReadCatalogue(p) ==
  /\ jobs[p].stage = "alter"
  /\ jobs[p].tables = {}
  /\ jobs[p].columns = {}
  /\ Goto(p, [At("sync") EXCEPT !.caps = Caps \ catalogue])
  /\ UNCHANGED <<dialect, tables, columns, indexes, broken, catalogue, raced, crashes>>

\* ... and inserts the missing ones in one transaction.  Then p serves.
sync_taxonomy(p) ==
  /\ jobs[p].stage = "sync"
  /\ jobs[p].caps \cap catalogue = {}
  /\ catalogue' = catalogue \cup jobs[p].caps
  /\ Goto(p, At("serving"))
  /\ Overlaps(p)
  /\ UNCHANGED <<dialect, tables, columns, indexes, broken, crashes>>

\* Requests that p serves store rows that clash in a column without its index:
\* two of them look for a clash together and find none.
StoreClash(p) ==
  /\ jobs[p].stage = "serving"
  /\ \E i \in Unique \ (indexes \cup broken) : i[1] \in tables /\ broken' = broken \cup {i}
  /\ Overlaps(p)
  /\ UNCHANGED <<dialect, tables, columns, indexes, catalogue, jobs, crashes>>

\* Something p is about to make is there already, or cannot be made.
Conflict(p) ==
  \/ jobs[p].tables \cap tables # {} /\ jobs[p].stage = "create"
  \/ jobs[p].indexes \cap (indexes \cup broken) # {}
  \/ jobs[p].columns \cap columns # {}
  \/ jobs[p].caps \cap catalogue # {}

FailureIgnored(p) ==   \* mutated: a failed statement does not stop the start
  /\ Conflict(p)
  /\ Goto(p, At("serving"))
  /\ UNCHANGED <<dialect, tables, columns, indexes, broken, catalogue, raced, crashes>>

\* The statement fails, its transaction is rolled back, the start is over.
Fail(p) ==
  /\ Conflict(p)
  /\ Goto(p, At("down"))
  /\ UNCHANGED <<dialect, tables, columns, indexes, broken, catalogue, raced, crashes>>

\* p is stopped, half way or later: what it has committed stays.
Crash(p) ==
  /\ crashes < MaxCrashes
  /\ jobs[p].stage # "down"
  /\ Goto(p, At("down"))
  /\ crashes' = crashes + 1
  /\ UNCHANGED <<dialect, tables, columns, indexes, broken, catalogue, raced>>

Work(p) ==
  \/ create_all(p) \/ CreateIndex(p) \/ ListTables(p) \/ InspectTable(p)
  \/ AddColumns(p) \/ ReadCatalogue(p) \/ sync_taxonomy(p) \/ Fail(p)

Next == \E p \in Procs : Start(p) \/ Work(p) \/ StoreClash(p) \/ Crash(p)

\* A process runs on until it serves or fails; the host starts it again.
Fairness == \A p \in Procs : WF_vars(Start(p)) /\ WF_vars(Work(p))

Spec == Init /\ [][Next]_vars /\ Fairness

-----------------------------------------------------------------------------

\* A process that serves finds every table, column and capability its code
\* relies on, whatever the others did while it started and wherever an
\* earlier start was cut off; on Postgres every index, too.
ServingReady ==
  \A p \in Procs : jobs[p].stage = "serving" =>
    /\ tables = Tables /\ columns = Added /\ catalogue = Caps
    /\ dialect = "postgres" => indexes = Indexes

\* An index whose table is there, and that no start is going to make any more.
Orphaned ==
  {i \in IndexesOf(tables) \ indexes : \A p \in Procs : i \notin jobs[p].indexes}

\* A table is left without one of its indexes only on SQLite, by a start that ends
\* between the statements of create_all: it crashes, or another process that
\* serves already stores rows that clash.  (agents.did is unique by such an index.)
IndexesLostByCutOff ==
  [][\A i \in Orphaned' \ Orphaned :
       /\ dialect = "sqlite"
       /\ \E p \in Procs : i \in jobs[p].indexes /\ (Crash(p) \/ Fail(p))]_vars

\* Starting over is safe: a start fails only when another process wrote to the
\* database while it was under way, never over what a crash left behind.
FailsOnlyWhenRaced ==
  [][\A p \in Procs : Fail(p) => p \in raced]_vars

\* All processes end up serving: those that fail each other's start do so only
\* while the schema is incomplete, and the next start finds more of it done.
EventuallyServing == \A p \in Procs : <>[](jobs[p].stage = "serving")
=============================================================================
