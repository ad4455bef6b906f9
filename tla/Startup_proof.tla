---------------------------- MODULE Startup_proof ---------------------------
(***************************************************************************)
(* Proofs about Startup, for any processes, tables, columns, capabilities  *)
(* and any number of crashes: a serving process finds all it needs, a      *)
(* start fails only over what another process wrote meanwhile, and only on *)
(* SQLite, by a start that is cut off, does a table lose an index.         *)
(***************************************************************************)
EXTENDS Startup, TLAPS

\* What is still missing from the database is still on the list of every
\* process that has looked, and a process behind its first steps has seen the
\* earlier ones done.
Listed(p) ==
  /\ jobs[p].stage = "create" => Tables \ tables \subseteq jobs[p].tables
  /\ jobs[p].stage \in {"alter", "sync", "serving"} => tables = Tables
  /\ jobs[p].stage = "alter" =>
       \A c \in Added : c \in columns \/ c \in jobs[p].columns \/ c[1] \in jobs[p].tables
  /\ jobs[p].stage \in {"sync", "serving"} => columns = Added
  /\ jobs[p].stage = "sync" => Caps \ catalogue \subseteq jobs[p].caps
  /\ jobs[p].stage = "serving" => catalogue = Caps

\* A process holds nothing but the lists of its present stage, and indexes only on
\* SQLite, of tables that exist.
OneList(p) ==
  /\ \A i \in jobs[p].indexes : i[1] \in tables
  /\ jobs[p].indexes # {} => jobs[p].stage = "create" /\ dialect = "sqlite"
  /\ jobs[p].stage \in {"down", "sync", "serving"} => jobs[p].tables = {}
  /\ jobs[p].stage \in {"down", "create", "sync", "serving"} => jobs[p].columns = {}
  /\ jobs[p].stage # "sync" => jobs[p].caps = {}

\* Without an overlapping write, nothing on a list is there already.
Fresh(p) ==
  p \notin raced =>
    /\ jobs[p].stage = "create" => jobs[p].tables \cap tables = {}
    /\ jobs[p].indexes \cap (indexes \cup broken) = {}
    /\ jobs[p].columns \cap columns = {}
    /\ jobs[p].caps \cap catalogue = {}

\* Indexes, and rows that clash, are of tables that exist; Postgres has every
\* index of its tables.
Housed ==
  /\ \A i \in indexes \cup broken : i[1] \in tables
  /\ dialect = "postgres" => indexes = IndexesOf(tables)

IInv == TypeOK /\ Housed /\ \A p \in Procs : Listed(p) /\ OneList(p) /\ Fresh(p)

\* An added column belongs to a table.
LEMMA ColumnOfTable == \A c \in Added : c[1] \in Tables
  BY SchemaAssumption

\* The fields of a fresh list.
LEMMA AtFields ==
  ASSUME NEW stage \in Stages
  PROVE  /\ At(stage) \in Job
         /\ At(stage).stage = stage
         /\ At(stage).tables = {} /\ At(stage).columns = {}
         /\ At(stage).indexes = {} /\ At(stage).caps = {}
  BY DEF At, Job

LEMMA InitIInv == Init => IInv
<1> SUFFICES ASSUME Init PROVE IInv
  OBVIOUS
<1>1. "down" \in Stages
  BY DEF Stages
<1>2. TypeOK
  BY <1>1, AtFields, SchemaAssumption DEF Init, TypeOK, ColumnsOf, IndexesOf
<1>3. Housed
  BY DEF Init, Housed, IndexesOf
<1>4. ASSUME NEW p \in Procs PROVE Listed(p) /\ OneList(p) /\ Fresh(p)
  <2>1. jobs[p] = At("down")
    BY DEF Init
  <2> QED BY <2>1, <1>1, AtFields DEF Listed, OneList, Fresh
<1> QED BY <1>2, <1>3, <1>4 DEF IInv

-----------------------------------------------------------------------------
(* What a step of one process means for the lists of the others *)

\* The database only grows, so what the others have listed stays listed; and
\* those that are under way count as raced when it does.
LEMMA OthersKept ==
  ASSUME IInv, NEW p \in Procs, NEW q \in Procs, q # p,
         NEW job \in Job, Goto(p, job),
         tables \subseteq tables', tables' \subseteq Tables,
         columns \subseteq columns', columns' \subseteq Added,
         catalogue \subseteq catalogue', catalogue' \subseteq Caps, dialect' = dialect,
         (q \in raced => q \in raced'),
         \/ UNCHANGED <<tables, columns, indexes, broken, catalogue>>
         \/ Overlaps(p)
  PROVE  Listed(q)' /\ OneList(q)' /\ Fresh(q)'
<1>1. jobs[q]' = jobs[q] /\ jobs[q] \in Job
  BY DEF Goto, IInv, TypeOK
<1>2. Listed(q) /\ OneList(q) /\ Fresh(q)
  BY DEF IInv
<1>3. Listed(q)'
  BY <1>1, <1>2 DEF Listed
<1>4. OneList(q)'
  BY <1>1, <1>2 DEF OneList
<1>5. Fresh(q)'
  <2>1. CASE UNCHANGED <<tables, columns, indexes, broken, catalogue>>
    BY <2>1, <1>1, <1>2 DEF Fresh
  <2>2. CASE Overlaps(p) /\ jobs[q].stage # "down"
    <3>1. q \in raced'
      BY <2>2 DEF Overlaps
    <3> QED BY <3>1 DEF Fresh
  <2>3. CASE jobs[q].stage = "down"
    <3>1. jobs[q].columns = {} /\ jobs[q].indexes = {} /\ jobs[q].caps = {}
      BY <2>3, <1>2 DEF OneList
    <3> QED BY <3>1, <2>3, <1>1 DEF Fresh
  <2> QED BY <2>1, <2>2, <2>3
<1> QED BY <1>3, <1>4, <1>5

\* Hence it is enough to look at the types and at the process that moves.
LEMMA StepKept ==
  ASSUME IInv, NEW p \in Procs,
         NEW job \in Job, Goto(p, job),
         tables \subseteq tables', tables' \subseteq Tables,
         columns \subseteq columns', columns' \subseteq Added,
         catalogue \subseteq catalogue', catalogue' \subseteq Caps,
         indexes' \subseteq Indexes, broken' \subseteq Unique, Housed',
         raced' \subseteq Procs, raced \ {p} \subseteq raced',
         crashes' \in Nat, dialect' = dialect,
         \/ UNCHANGED <<tables, columns, indexes, broken, catalogue>>
         \/ Overlaps(p),
         jobs[p]' = job => Listed(p)' /\ OneList(p)' /\ Fresh(p)'
  PROVE  IInv'
<1>1. TypeOK'
  BY DEF IInv, TypeOK, Goto
<1>2. jobs[p]' = job
  BY DEF Goto, IInv, TypeOK
<1>3. ASSUME NEW q \in Procs, q # p PROVE Listed(q)' /\ OneList(q)' /\ Fresh(q)'
  <2>1. q \in raced => q \in raced'
    BY <1>3
  <2> QED BY <2>1, <1>3, OthersKept
<1> QED BY <1>1, <1>2, <1>3 DEF IInv

-----------------------------------------------------------------------------
(* The steps *)

\* Steps that make no table and no index.
LEMMA HousedKept ==
  ASSUME Housed, UNCHANGED <<dialect, tables, indexes, broken>> PROVE Housed'
BY DEF Housed, IndexesOf

LEMMA StartKeeps ==
  ASSUME IInv, NEW p \in Procs, Start(p) PROVE IInv'
<1> DEFINE job == [At("create") EXCEPT !.tables = Tables \ tables]
<1>1. job \in Job /\ job.stage = "create" /\ job.tables = Tables \ tables
      /\ job.columns = {} /\ job.indexes = {} /\ job.caps = {}
  BY DEF At, Job, Stages
<1>2. Goto(p, job) /\ UNCHANGED <<dialect, tables, columns, indexes, broken, catalogue, crashes>>
      /\ raced' = raced \ {p}
  BY DEF Start
<1> HIDE DEF job
<1>3. jobs[p]' = job => Listed(p)' /\ OneList(p)' /\ Fresh(p)'
  BY <1>1, <1>2 DEF Listed, OneList, Fresh
<1>4. TypeOK /\ Housed
  BY DEF IInv
<1>5. Housed'
  BY <1>2, <1>4, HousedKept
<1> QED BY <1>1, <1>2, <1>3, <1>4, <1>5, StepKept DEF TypeOK

LEMMA CreateKeeps ==
  ASSUME IInv, NEW p \in Procs, create_all(p) PROVE IInv'
<1> DEFINE later(new) == IF dialect = "postgres" THEN {} ELSE IndexesOf(new)
<1>1. PICK new \in (SUBSET jobs[p].tables) \ {{}} :
        /\ new \cap tables = {}
        /\ tables' = tables \cup new
        /\ columns' = columns \cup ColumnsOf(new)
        /\ indexes' = indexes \cup (IndexesOf(new) \ later(new))
        /\ Goto(p, [jobs[p] EXCEPT !.tables = @ \ new, !.indexes = later(new)])
  BY DEF create_all
<1> DEFINE job == [jobs[p] EXCEPT !.tables = @ \ new, !.indexes = later(new)]
<1>2. jobs[p] \in Job /\ TypeOK /\ Housed /\ Listed(p) /\ OneList(p) /\ Fresh(p)
  BY DEF IInv, TypeOK
<1>3. job \in Job /\ job.stage = jobs[p].stage /\ job.tables = jobs[p].tables \ new
      /\ job.columns = jobs[p].columns /\ job.indexes = later(new) /\ job.caps = jobs[p].caps
  BY <1>1, <1>2 DEF Job, IndexesOf
<1>4. jobs[p].stage = "create" /\ Overlaps(p)
      /\ UNCHANGED <<dialect, broken, catalogue, crashes>>
  BY DEF create_all
<1>5. p \in raced' <=> p \in raced
  BY <1>4 DEF Overlaps
<1>6. Goto(p, job)
  BY <1>1
<1> HIDE DEF job
<1>7. /\ later(new) \subseteq IndexesOf(new)
      /\ later(new) # {} => dialect = "sqlite"
      /\ dialect = "postgres" => later(new) = {}
  BY <1>2, SchemaAssumption DEF TypeOK
<1> HIDE DEF later
<1>8. later(new) \cap (indexes' \cup broken') = {}
  BY <1>1, <1>2, <1>4, <1>7 DEF Housed, IndexesOf
<1>9. jobs[p]' = job => Listed(p)' /\ OneList(p)' /\ Fresh(p)'
  <2> SUFFICES ASSUME jobs[p]' = job PROVE Listed(p)' /\ OneList(p)' /\ Fresh(p)'
    OBVIOUS
  <2>1. Listed(p)'
    BY <1>1, <1>2, <1>3, <1>4 DEF Listed
  <2>2. OneList(p)'
    BY <1>1, <1>2, <1>3, <1>4, <1>7 DEF OneList, IndexesOf
  <2>3. jobs[p].columns = {} /\ jobs[p].caps = {}
    BY <1>2, <1>4 DEF OneList
  <2>4. Fresh(p)'
    BY <1>1, <1>2, <1>3, <1>4, <1>5, <1>8, <2>3 DEF Fresh
  <2> QED BY <2>1, <2>2, <2>4
<1>10. tables' \subseteq Tables /\ columns' \subseteq Added /\ indexes' \subseteq Indexes
  BY <1>1, <1>2 DEF TypeOK, Job, ColumnsOf, IndexesOf
<1>11. raced' \subseteq Procs /\ raced \subseteq raced'
  BY <1>2, <1>4 DEF Overlaps, TypeOK
<1>12. Housed'
  BY <1>1, <1>2, <1>4, <1>7 DEF Housed, IndexesOf
<1> QED BY <1>1, <1>2, <1>3, <1>4, <1>6, <1>9, <1>10, <1>11, <1>12, StepKept DEF TypeOK

LEMMA IndexKeeps ==
  ASSUME IInv, NEW p \in Procs, CreateIndex(p) PROVE IInv'
<1>1. PICK i \in jobs[p].indexes \ (indexes \cup broken) :
        /\ indexes' = indexes \cup {i}
        /\ Goto(p, [jobs[p] EXCEPT !.indexes = @ \ {i}])
  BY DEF CreateIndex
<1> DEFINE job == [jobs[p] EXCEPT !.indexes = @ \ {i}]
<1>2. jobs[p] \in Job /\ TypeOK /\ Housed /\ Listed(p) /\ OneList(p) /\ Fresh(p)
  BY DEF IInv, TypeOK
<1>3. job \in Job /\ job.stage = jobs[p].stage /\ job.tables = jobs[p].tables
      /\ job.columns = jobs[p].columns /\ job.indexes = jobs[p].indexes \ {i}
      /\ job.caps = jobs[p].caps
  BY <1>1, <1>2 DEF Job
<1>4. Overlaps(p) /\ UNCHANGED <<dialect, tables, columns, broken, catalogue, crashes>>
  BY DEF CreateIndex
<1>5. jobs[p].stage = "create" /\ dialect = "sqlite"
  BY <1>1, <1>2 DEF OneList
<1>6. Goto(p, job) /\ (p \in raced' <=> p \in raced)
  BY <1>1, <1>4 DEF Overlaps
<1> HIDE DEF job
<1>7. jobs[p]' = job => Listed(p)' /\ OneList(p)' /\ Fresh(p)'
  <2> SUFFICES ASSUME jobs[p]' = job PROVE Listed(p)' /\ OneList(p)' /\ Fresh(p)'
    OBVIOUS
  <2>1. Listed(p)'
    BY <1>2, <1>3, <1>4 DEF Listed
  <2>2. OneList(p)'
    BY <1>2, <1>3, <1>4, <1>5 DEF OneList
  <2>3. Fresh(p)'
    BY <1>1, <1>2, <1>3, <1>4, <1>6 DEF Fresh
  <2> QED BY <2>1, <2>2, <2>3
<1>8. i[1] \in tables
  BY <1>1, <1>2 DEF OneList
<1>9. Housed'
  BY <1>1, <1>2, <1>4, <1>5, <1>8 DEF Housed, IndexesOf
<1>10. raced' \subseteq Procs /\ raced \subseteq raced' /\ indexes' \subseteq Indexes
  BY <1>1, <1>2, <1>4 DEF Overlaps, TypeOK, Job
<1> QED BY <1>2, <1>3, <1>4, <1>6, <1>7, <1>9, <1>10, StepKept DEF TypeOK

LEMMA ListKeeps ==
  ASSUME IInv, NEW p \in Procs, ListTables(p) PROVE IInv'
<1> DEFINE job == [At("alter") EXCEPT !.tables = tables]
<1>1. TypeOK /\ Housed /\ Listed(p)
  BY DEF IInv
<1>2. job \in Job /\ job.stage = "alter" /\ job.tables = tables
      /\ job.columns = {} /\ job.indexes = {} /\ job.caps = {}
  BY <1>1 DEF At, Job, Stages, TypeOK
<1>3. Goto(p, job)
      /\ UNCHANGED <<dialect, tables, columns, indexes, broken, catalogue, raced, crashes>>
      /\ jobs[p].stage = "create" /\ jobs[p].tables = {}
  BY DEF ListTables
<1> HIDE DEF job
<1>4. tables = Tables
  BY <1>1, <1>3 DEF Listed, TypeOK
<1>5. jobs[p]' = job => Listed(p)' /\ OneList(p)' /\ Fresh(p)'
  <2> SUFFICES ASSUME jobs[p]' = job PROVE Listed(p)' /\ OneList(p)' /\ Fresh(p)'
    OBVIOUS
  <2>1. Listed(p)'
    BY <1>2, <1>3, <1>4, ColumnOfTable DEF Listed
  <2> QED BY <2>1, <1>2, <1>3 DEF OneList, Fresh
<1>6. Housed'
  BY <1>1, <1>3, HousedKept
<1> QED BY <1>1, <1>2, <1>3, <1>5, <1>6, StepKept DEF TypeOK

LEMMA InspectKeeps ==
  ASSUME IInv, NEW p \in Procs, InspectTable(p) PROVE IInv'
<1>1. PICK t \in jobs[p].tables :
        Goto(p, [jobs[p] EXCEPT !.tables = @ \ {t},
                                !.columns = @ \cup (ColumnsOf({t}) \ columns)])
  BY DEF InspectTable
<1> DEFINE job == [jobs[p] EXCEPT !.tables = @ \ {t},
                                  !.columns = @ \cup (ColumnsOf({t}) \ columns)]
<1>2. jobs[p] \in Job /\ TypeOK /\ Housed /\ Listed(p) /\ OneList(p) /\ Fresh(p)
  BY DEF IInv, TypeOK
<1>3. job \in Job /\ job.stage = jobs[p].stage /\ job.tables = jobs[p].tables \ {t}
      /\ job.columns = jobs[p].columns \cup (ColumnsOf({t}) \ columns)
      /\ job.indexes = jobs[p].indexes /\ job.caps = jobs[p].caps
  BY <1>2 DEF Job, ColumnsOf
<1>4. jobs[p].stage = "alter"
      /\ UNCHANGED <<dialect, tables, columns, indexes, broken, catalogue, raced, crashes>>
  BY DEF InspectTable
<1>5. Goto(p, job)
  BY <1>1
<1> HIDE DEF job
<1>6. jobs[p]' = job => Listed(p)' /\ OneList(p)' /\ Fresh(p)'
  <2> SUFFICES ASSUME jobs[p]' = job PROVE Listed(p)' /\ OneList(p)' /\ Fresh(p)'
    OBVIOUS
  <2>1. ASSUME NEW c \in Added
        PROVE  c \in columns \/ c \in job.columns \/ c[1] \in job.tables
    BY <1>2, <1>3, <1>4 DEF Listed, ColumnsOf
  <2>2. Listed(p)'
    BY <1>2, <1>3, <1>4, <2>1 DEF Listed
  <2>3. OneList(p)'
    BY <1>2, <1>3, <1>4 DEF OneList
  <2>4. Fresh(p)'
    BY <1>2, <1>3, <1>4 DEF Fresh
  <2> QED BY <2>2, <2>3, <2>4
<1>7. Housed'
  BY <1>2, <1>4, HousedKept
<1> QED BY <1>2, <1>3, <1>4, <1>5, <1>6, <1>7, StepKept DEF TypeOK

LEMMA AddKeeps ==
  ASSUME IInv, NEW p \in Procs, AddColumns(p) PROVE IInv'
<1>1. PICK new \in (SUBSET jobs[p].columns) \ {{}} :
        /\ columns' = columns \cup new
        /\ Goto(p, [jobs[p] EXCEPT !.columns = @ \ new])
  BY DEF AddColumns
<1> DEFINE job == [jobs[p] EXCEPT !.columns = @ \ new]
<1>2. jobs[p] \in Job /\ TypeOK /\ Housed /\ Listed(p) /\ OneList(p) /\ Fresh(p)
  BY DEF IInv, TypeOK
<1>3. job \in Job /\ job.stage = jobs[p].stage /\ job.tables = jobs[p].tables
      /\ job.columns = jobs[p].columns \ new /\ job.indexes = jobs[p].indexes
      /\ job.caps = jobs[p].caps
  BY <1>1, <1>2 DEF Job
<1>4. jobs[p].stage = "alter" /\ Overlaps(p)
      /\ UNCHANGED <<dialect, tables, indexes, broken, catalogue, crashes>>
  BY DEF AddColumns
<1>5. p \in raced' <=> p \in raced
  BY <1>4 DEF Overlaps
<1>6. Goto(p, job)
  BY <1>1
<1> HIDE DEF job
<1>7. jobs[p]' = job => Listed(p)' /\ OneList(p)' /\ Fresh(p)'
  <2> SUFFICES ASSUME jobs[p]' = job PROVE Listed(p)' /\ OneList(p)' /\ Fresh(p)'
    OBVIOUS
  <2>1. Listed(p)'
    BY <1>1, <1>2, <1>3, <1>4 DEF Listed
  <2>2. OneList(p)'
    BY <1>2, <1>3, <1>4 DEF OneList
  <2>3. Fresh(p)'
    BY <1>1, <1>2, <1>3, <1>4, <1>5 DEF Fresh
  <2> QED BY <2>1, <2>2, <2>3
<1>8. columns' \subseteq Added
  BY <1>1, <1>2 DEF TypeOK, Job
<1>9. raced' \subseteq Procs /\ raced \subseteq raced'
  BY <1>2, <1>4 DEF Overlaps, TypeOK
<1>10. Housed'
  BY <1>2, <1>4, HousedKept
<1> QED BY <1>1, <1>2, <1>3, <1>4, <1>6, <1>7, <1>8, <1>9, <1>10, StepKept DEF TypeOK

LEMMA ReadKeeps ==
  ASSUME IInv, NEW p \in Procs, ReadCatalogue(p) PROVE IInv'
<1> DEFINE job == [At("sync") EXCEPT !.caps = Caps \ catalogue]
<1>1. TypeOK /\ Housed /\ Listed(p)
  BY DEF IInv
<1>2. job \in Job /\ job.stage = "sync" /\ job.tables = {}
      /\ job.columns = {} /\ job.indexes = {} /\ job.caps = Caps \ catalogue
  BY DEF At, Job, Stages
<1>3. Goto(p, job)
      /\ UNCHANGED <<dialect, tables, columns, indexes, broken, catalogue, raced, crashes>>
      /\ jobs[p].stage = "alter" /\ jobs[p].tables = {} /\ jobs[p].columns = {}
  BY DEF ReadCatalogue
<1> HIDE DEF job
<1>4. tables = Tables /\ columns = Added
  BY <1>1, <1>3 DEF Listed, TypeOK
<1>5. jobs[p]' = job => Listed(p)' /\ OneList(p)' /\ Fresh(p)'
  BY <1>2, <1>3, <1>4 DEF Listed, OneList, Fresh
<1>6. Housed'
  BY <1>1, <1>3, HousedKept
<1> QED BY <1>1, <1>2, <1>3, <1>5, <1>6, StepKept DEF TypeOK

LEMMA SyncKeeps ==
  ASSUME IInv, NEW p \in Procs, sync_taxonomy(p) PROVE IInv'
<1>1. jobs[p] \in Job /\ TypeOK /\ Housed /\ Listed(p)
  BY DEF IInv, TypeOK
<1>2. jobs[p].stage = "sync" /\ Overlaps(p) /\ Goto(p, At("serving"))
      /\ catalogue' = catalogue \cup jobs[p].caps
      /\ UNCHANGED <<dialect, tables, columns, indexes, broken, crashes>>
  BY DEF sync_taxonomy
<1>3. "serving" \in Stages
  BY DEF Stages
<1>4. catalogue' = Caps
  BY <1>1, <1>2 DEF Listed, TypeOK, Job
<1>5. jobs[p]' = At("serving") => Listed(p)' /\ OneList(p)' /\ Fresh(p)'
  <2> SUFFICES ASSUME jobs[p]' = At("serving") PROVE Listed(p)' /\ OneList(p)' /\ Fresh(p)'
    OBVIOUS
  <2>1. jobs[p]'.stage = "serving" /\ jobs[p]'.tables = {}
        /\ jobs[p]'.columns = {} /\ jobs[p]'.indexes = {} /\ jobs[p]'.caps = {}
    BY <1>3, AtFields
  <2>2. tables = Tables /\ columns = Added
    BY <1>1, <1>2 DEF Listed
  <2> QED BY <2>1, <2>2, <1>2, <1>4 DEF Listed, OneList, Fresh
<1>6. raced' \subseteq Procs /\ raced \subseteq raced'
  BY <1>1, <1>2 DEF Overlaps, TypeOK
<1>7. At("serving") \in Job
  BY <1>3, AtFields
<1>8. Housed'
  BY <1>1, <1>2, HousedKept
<1> QED BY <1>1, <1>2, <1>4, <1>5, <1>6, <1>7, <1>8, StepKept DEF TypeOK

LEMMA ClashKeeps ==
  ASSUME IInv, NEW p \in Procs, StoreClash(p) PROVE IInv'
<1>1. jobs[p] \in Job /\ TypeOK /\ Housed /\ Listed(p) /\ OneList(p) /\ Fresh(p)
  BY DEF IInv, TypeOK
<1>2. jobs[p].stage = "serving" /\ Overlaps(p)
      /\ UNCHANGED <<dialect, tables, columns, indexes, catalogue, jobs, crashes>>
  BY DEF StoreClash
<1>3. PICK i \in Unique : i[1] \in tables /\ broken' = broken \cup {i}
  BY DEF StoreClash
<1>4. Goto(p, jobs[p])
  BY <1>1, <1>2 DEF Goto, TypeOK
<1>5. jobs[p].indexes = {}
  BY <1>1, <1>2 DEF OneList
<1>6. Listed(p)' /\ OneList(p)' /\ Fresh(p)'
  BY <1>1, <1>2, <1>5 DEF Listed, OneList, Fresh, Overlaps
<1>7. Housed' /\ broken' \subseteq Unique
  BY <1>1, <1>2, <1>3 DEF Housed, TypeOK, IndexesOf
<1>8. raced' \subseteq Procs /\ raced \subseteq raced'
  BY <1>1, <1>2 DEF Overlaps, TypeOK
<1> QED BY <1>1, <1>2, <1>4, <1>6, <1>7, <1>8, StepKept DEF TypeOK

\* A process that goes down forgets its lists.
LEMMA DownKeeps ==
  ASSUME IInv, NEW p \in Procs, Goto(p, At("down")), crashes' \in Nat,
         UNCHANGED <<dialect, tables, columns, indexes, broken, catalogue, raced>>
  PROVE  IInv'
<1>1. "down" \in Stages
  BY DEF Stages
<1>2. TypeOK /\ Housed
  BY DEF IInv
<1>3. At("down") \in Job
  BY <1>1, AtFields
<1>4. jobs[p]' = At("down") => Listed(p)' /\ OneList(p)' /\ Fresh(p)'
  <2> SUFFICES ASSUME jobs[p]' = At("down") PROVE Listed(p)' /\ OneList(p)' /\ Fresh(p)'
    OBVIOUS
  <2>1. jobs[p]'.stage = "down" /\ jobs[p]'.tables = {}
        /\ jobs[p]'.columns = {} /\ jobs[p]'.indexes = {} /\ jobs[p]'.caps = {}
    BY <1>1, AtFields
  <2> QED BY <2>1 DEF Listed, OneList, Fresh
<1>5. Housed'
  BY <1>2, HousedKept
<1> QED BY <1>2, <1>3, <1>4, <1>5, StepKept DEF TypeOK

LEMMA NextIInv == IInv /\ [Next]_vars => IInv'
<1> SUFFICES ASSUME IInv, [Next]_vars PROVE IInv'
  OBVIOUS
<1>1. CASE UNCHANGED vars
  BY <1>1 DEF vars, IInv, TypeOK, Housed, IndexesOf, Listed, OneList, Fresh
<1>2. ASSUME NEW p \in Procs, Start(p) \/ Work(p) \/ StoreClash(p) \/ Crash(p) PROVE IInv'
  <2>1. CASE Fail(p)
    BY <2>1, DownKeeps DEF Fail, IInv, TypeOK
  <2>2. CASE Crash(p)
    <3>1. crashes' \in Nat
      BY <2>2 DEF Crash, IInv, TypeOK
    <3> QED BY <2>2, <3>1, DownKeeps DEF Crash
  <2> QED BY <1>2, <2>1, <2>2, StartKeeps, CreateKeeps, ListKeeps, InspectKeeps,
            AddKeeps, IndexKeeps, ReadKeeps, SyncKeeps, ClashKeeps DEF Work
<1> QED BY <1>1, <1>2 DEF Next

\* The lists are right in every reachable state.
THEOREM ListsRight == Spec => []IInv
  BY InitIInv, NextIInv, PTL DEF Spec

\* A serving process finds every table, column and capability, and on Postgres
\* every index (ServingReady), however starts, failures and crashes interleave.
THEOREM ServingIsReady == Spec => []ServingReady
<1>1. IInv => ServingReady
  <2> SUFFICES ASSUME IInv, NEW p \in Procs, jobs[p].stage = "serving"
               PROVE  /\ tables = Tables /\ columns = Added /\ catalogue = Caps
                      /\ dialect = "postgres" => indexes = Indexes
    BY DEF ServingReady
  <2>1. tables = Tables /\ columns = Added /\ catalogue = Caps
    BY DEF IInv, Listed
  <2>2. IndexesOf(Tables) = Indexes
    BY SchemaAssumption DEF IndexesOf
  <2> QED BY <2>1, <2>2 DEF IInv, Housed
<1> QED BY <1>1, ListsRight, PTL

\* init_db stumbles only over the writes of others (FailsOnlyWhenRaced), so a
\* process that starts alone comes up, whatever a crash has left.
THEOREM FailureIsRace == Spec => FailsOnlyWhenRaced
<1>1. IInv /\ [Next]_vars => [\A p \in Procs : Fail(p) => p \in raced]_vars
  <2> SUFFICES ASSUME IInv, NEW p \in Procs, Fail(p) PROVE p \in raced
    OBVIOUS
  <2> QED BY DEF IInv, Fresh, Fail, Conflict
<1> QED BY <1>1, ListsRight, PTL DEF Spec, FailsOnlyWhenRaced

\* A step makes the tables it adds together with their indexes, or with those
\* indexes on the list of the process.
LEMMA TablesComeWithIndexes ==
  ASSUME IInv, NEW p \in Procs, Start(p) \/ Work(p) \/ StoreClash(p) \/ Crash(p),
         NEW i \in Indexes, i[1] \in tables' \ tables
  PROVE  i \in indexes' \/ i \in jobs'[p].indexes
<1>1. create_all(p)
  BY DEF Start, Work, CreateIndex, ListTables, InspectTable, AddColumns, ReadCatalogue,
       sync_taxonomy, Fail, StoreClash, Crash
<1> DEFINE later(new) == IF dialect = "postgres" THEN {} ELSE IndexesOf(new)
<1>2. PICK new \in SUBSET jobs[p].tables :
        /\ tables' = tables \cup new
        /\ indexes' = indexes \cup (IndexesOf(new) \ later(new))
        /\ Goto(p, [jobs[p] EXCEPT !.tables = @ \ new, !.indexes = later(new)])
  BY <1>1 DEF create_all
<1> HIDE DEF later
<1>3. jobs'[p].indexes = later(new)
  BY <1>2 DEF Goto, IInv, TypeOK, Job
<1>4. i \in IndexesOf(new)
  BY <1>2 DEF IndexesOf
<1> QED BY <1>2, <1>3, <1>4

\* An index on a list is made, or stays on the list, unless the start ends.
LEMMA ListedIndexesStay ==
  ASSUME IInv, NEW p \in Procs, Start(p) \/ Work(p) \/ StoreClash(p) \/ Crash(p),
         NEW q \in Procs, NEW i \in jobs[q].indexes
  PROVE  \/ i \in indexes' \/ i \in jobs'[q].indexes
         \/ q = p /\ (Crash(p) \/ Fail(p))
<1>1. jobs[q].stage = "create" /\ jobs[q].indexes # {} /\ jobs \in [Procs -> Job]
  BY DEF IInv, OneList, TypeOK
<1>2. CASE p # q
  <2>1. jobs'[q] = jobs[q]
    BY <1>1, <1>2 DEF Start, Work, create_all, CreateIndex, ListTables, InspectTable,
         AddColumns, ReadCatalogue, sync_taxonomy, Fail, StoreClash, Crash, Goto
  <2> QED BY <2>1
<1>3. CASE p = q /\ CreateIndex(p)
  <2>1. PICK k \in jobs[p].indexes :
          /\ indexes' = indexes \cup {k}
          /\ Goto(p, [jobs[p] EXCEPT !.indexes = @ \ {k}])
    BY <1>3 DEF CreateIndex
  <2>2. jobs'[p].indexes = jobs[p].indexes \ {k}
    BY <2>1, <1>1 DEF Goto, Job
  <2> QED BY <2>1, <2>2, <1>3
<1>4. CASE p = q /\ ~CreateIndex(p)
  <2>1. Crash(p) \/ Fail(p)
    BY <1>1, <1>4 DEF Start, Work, create_all, ListTables, InspectTable, AddColumns,
         ReadCatalogue, sync_taxonomy, StoreClash
  <2> QED BY <2>1, <1>4
<1> QED BY <1>2, <1>3, <1>4

\* An index goes missing for good only on SQLite, when the start that was to make
\* it crashes or fails (IndexesLostByCutOff): no interleaving of starts that come
\* through leaves a table without its indexes.
THEOREM OnlyCutOffsLoseIndexes == Spec => IndexesLostByCutOff
<1> DEFINE CutOff(i) ==
             /\ dialect = "sqlite"
             /\ \E p \in Procs : i \in jobs[p].indexes /\ (Crash(p) \/ Fail(p))
           Lost == \A i \in Orphaned' \ Orphaned : CutOff(i)
<1>1. ASSUME IInv, Next PROVE Lost
  <2> SUFFICES ASSUME NEW i \in Orphaned' \ Orphaned PROVE CutOff(i)
    OBVIOUS
  <2> HIDE DEF CutOff
  <2>1. PICK p \in Procs : Start(p) \/ Work(p) \/ StoreClash(p) \/ Crash(p)
    BY <1>1 DEF Next
  <2>2. i \in Indexes /\ i[1] \in tables' /\ i \notin indexes'
        /\ \A q \in Procs : i \notin jobs'[q].indexes
    BY DEF Orphaned, IndexesOf
  <2>3. i[1] \in tables
    BY <1>1, <2>1, <2>2, TablesComeWithIndexes
  <2>4. i \notin indexes
    <3>1. indexes \subseteq indexes'
      BY <2>1 DEF Start, Work, create_all, CreateIndex, ListTables, InspectTable,
           AddColumns, ReadCatalogue, sync_taxonomy, Fail, StoreClash, Crash
    <3> QED BY <3>1, <2>2
  <2>5. PICK q \in Procs : i \in jobs[q].indexes
    BY <2>2, <2>3, <2>4 DEF Orphaned, IndexesOf
  <2>6. q = p /\ (Crash(p) \/ Fail(p))
    BY <1>1, <2>1, <2>2, <2>5, ListedIndexesStay
  <2>7. dialect = "sqlite"
    BY <1>1, <2>5 DEF IInv, OneList
  <2> QED BY <2>5, <2>6, <2>7 DEF CutOff
<1>2. IInv /\ [Next]_vars => [Lost]_vars
  BY <1>1
<1> QED BY <1>2, ListsRight, PTL DEF Spec, IndexesLostByCutOff
=============================================================================
