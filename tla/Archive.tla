-------------------------------- MODULE Archive --------------------------------
(***************************************************************************)
(* A field of a row that is kept in the archive or in the row itself:      *)
(* ArchiveField of utils/model_utils.py, as reports.ReportDetails uses it, *)
(* on top of services/archive.py.  The processes of the API and the worker *)
(* load the row, read and assign the field, and save the row.              *)
(*                                                                         *)
(* Assigning writes the file, before the row is saved.  What was read from *)
(* the archive last is cached in each process, under the primary key.      *)
(***************************************************************************)
EXTENDS Absent, FiniteSets, Integers

CONSTANTS
    Processes,
    Contents,       \* values of the field
    MaxAssigned     \* bound on assignments

\* What the constants must be
AssignedAssumption == MaxAssigned \in Nat /\ Nothing \notin Contents \cup {"default", "own", "old"}

VARIABLES
    row,        \* [db, path] in the database
    files,      \* the archive
    switch,     \* should_write_to_storage
    cache,      \* _get_value_from_archive of each process; Nothing: other, or empty
    object,     \* the instance of each process
    assigned,   \* how many assignments there were
    \* auxiliary
    recent,     \* what a reader may find
    stale,      \* processes whose cached value is another one's, or was written over
    torn        \* a process died between writing the file and saving the row

archiveVars == <<row, files, switch, cache, object, assigned, recent, stale, torn>>

\* The path of the row, and one that it had before (another hash of the repository).
Paths == {"own", "old"}
Default == "default"
Read == Contents \cup {Default}

Object == [step : {"none", "loaded", "read", "assigned"}, db : Contents \cup {Nothing},
           path : Paths \cup {Nothing}, value : Read \cup {Nothing},
           later : SUBSET Contents]     \* auxiliary: assigned by others since then
None == [step |-> "none", db |-> Nothing, path |-> Nothing, value |-> Nothing, later |-> {}]

ArchiveTypeOK ==
    /\ row \in [db : Contents \cup {Nothing}, path : Paths \cup {Nothing}]
    /\ files \in [Paths -> Contents \cup {Nothing}]
    /\ cache \in [Processes -> Read \cup {Nothing}]
    /\ object \in [Processes -> Object]
    /\ assigned \in 0..MaxAssigned
    /\ recent \subseteq Read /\ stale \subseteq Processes
    /\ switch \in BOOLEAN /\ torn \in BOOLEAN

\* the row has a value in the database, in a file of either path, or none yet
ArchiveInit ==
    /\ \E v \in Contents, where \in Paths \cup {"row", "nowhere"} :
        /\ row = [db |-> IF where = "row" THEN v ELSE Nothing,
                  path |-> IF where \in Paths THEN where ELSE Nothing]
        /\ files = [p \in Paths |-> IF p = where THEN v ELSE Nothing]
        /\ recent = IF where = "nowhere" THEN {Default} ELSE {v}
    /\ switch \in BOOLEAN
    /\ cache = [p \in Processes |-> Nothing]
    /\ object = [p \in Processes |-> None]
    /\ assigned = 0 /\ stale = {} /\ torn = FALSE

-----------------------------------------------------------------------------
Load(p) ==
    /\ object[p].step \in {"none", "read"}
    /\ object' = [object EXCEPT ![p] = [None EXCEPT !.step = "loaded", !.db = row.db,
                                                    !.path = row.path]]
    /\ UNCHANGED <<row, files, switch, cache, assigned, recent, stale, torn>>

\* _get_value_from_archive; a file that is missing gives the default, cached as well
FromArchive(o) ==
    IF o.path = Nothing \/ files[o.path] = Nothing THEN Default ELSE files[o.path]

\* auxiliary: the object is older than the row, or an assignment is under way
Outdated(o) ==
    \/ o.db # row.db \/ o.path # row.path
    \/ \E q \in Processes : object[q].step = "assigned"

\* __get__: the column first
Get(p) ==
    LET o == object[p] IN
    /\ o.step = "loaded"
    /\ IF o.db # Nothing
       THEN /\ object' = [object EXCEPT ![p].step = "read", ![p].value = o.db]
            /\ UNCHANGED <<cache, stale>>
       ELSE LET v == IF cache[p] = Nothing THEN FromArchive(o) ELSE cache[p] IN
            /\ object' = [object EXCEPT ![p].step = "read", ![p].value = v]
            /\ cache' = [cache EXCEPT ![p] = v]
            /\ stale' = IF cache[p] # Nothing THEN stale
                        ELSE IF Outdated(o) THEN stale \cup {p} ELSE stale \ {p}
    /\ UNCHANGED <<row, files, switch, assigned, recent, torn>>

\* bug: the cache is kept
KeptCache(p) == cache

Cleared(p) == [cache EXCEPT ![p] = Nothing]

\* bug: the file of the row before is deleted even if it was written again
AlwaysDeleted(o, v) ==
    [q \in Paths |-> IF q = o.path THEN Nothing ELSE IF q = "own" THEN v ELSE files[q]]

\* the file is written, and the one of another path deleted
Written(o, v) ==
    [q \in Paths |-> IF q = "own" THEN v ELSE IF q = o.path THEN Nothing ELSE files[q]]

\* __set__
Set(p, v) ==
    LET o == object[p] IN
    /\ o.step \in {"loaded", "read"} /\ assigned < MaxAssigned
    /\ assigned' = assigned + 1
    /\ object' = [q \in Processes |->
            IF q # p THEN [object[q] EXCEPT !.later = IF object[q].step = "assigned" THEN @ \cup {v} ELSE @]
            ELSE [o EXCEPT !.step = "assigned", !.value = v,
                           !.db = IF switch THEN Nothing ELSE v,
                           !.path = IF switch THEN "own" ELSE @]]
    /\ IF switch
       THEN /\ files' = Written(o, v)
            /\ cache' = Cleared(p)
            /\ stale' = (stale \cup {q \in Processes : cache[q] # Nothing}) \ {p}
            /\ recent' = recent \cup {v}
       ELSE UNCHANGED <<files, cache, stale, recent>>
    /\ UNCHANGED <<row, switch, torn>>

Save(p) ==
    LET o == object[p] IN
    /\ o.step = "assigned"
    /\ row' = [db |-> o.db, path |-> o.path]
    /\ recent' = {o.value} \cup o.later
    /\ stale' = stale \cup {q \in Processes \ {p} : cache[q] # Nothing}
    /\ object' = [object EXCEPT ![p] = None]
    /\ UNCHANGED <<files, switch, cache, assigned, torn>>

\* The process dies, or saving the row fails.
Die(p) ==
    /\ object[p].step = "assigned"
    /\ object' = [object EXCEPT ![p] = None]
    /\ cache' = [cache EXCEPT ![p] = Nothing] /\ stale' = stale \ {p}
    /\ torn' = TRUE
    /\ UNCHANGED <<row, files, switch, assigned, recent>>

\* The field of another row is read: the cache has one entry.
ReadOther(p) ==
    /\ cache[p] # Nothing /\ cache' = [cache EXCEPT ![p] = Nothing] /\ stale' = stale \ {p}
    /\ UNCHANGED <<row, files, switch, object, assigned, recent, torn>>

\* save_report_data_in_storage
Reconfigure ==
    /\ switch' = ~switch
    /\ UNCHANGED <<row, files, cache, object, assigned, recent, stale, torn>>

ArchiveNext ==
    \/ \E p \in Processes :
        Load(p) \/ Get(p) \/ (\E v \in Contents : Set(p, v)) \/ Save(p) \/ Die(p) \/ ReadOther(p)
    \/ Reconfigure

ArchiveSpec == ArchiveInit /\ [][ArchiveNext]_archiveVars

-----------------------------------------------------------------------------
\* While no assignment is between the file and the row and none was cut off there,
\* the file that the row names exists, and it or the column has a value that was
\* assigned since the row was last saved, or with it: whichever way the field moves
\* between the row and the archive.
RowHasItsValue ==
    ~torn /\ (\A p \in Processes : object[p].step # "assigned") =>
        LET v == IF row.db # Nothing THEN row.db ELSE FromArchive(row) IN
        /\ row.path # Nothing /\ row.db = Nothing => files[row.path] # Nothing
        /\ v \in recent

\* Of every step: a process whose cached value nobody else has written over reads back what it
\* assigned itself: after it has saved the row, alone, its next read has that value.
OwnWritesAreRead ==
    \A p \in Processes :
        object[p].step = "loaded" /\ object'[p].step = "read" =>
            \/ p \in stale \/ torn \/ Outdated(object[p])
            \/ object'[p].value \in recent

-----------------------------------------------------------------------------
(* The inductive invariant *)

\* The row that is about to be saved has its value, in the column or in the file, or a
\* value that was assigned since.
Assigned(o) ==
    /\ o.value \in Contents
    /\ o.db # Nothing => o.db = o.value
    /\ o.db = Nothing => o.path = "own" /\ files["own"] \in {o.value} \cup o.later

\* The cache of a process that nobody has overtaken has a value that a reader may find,
\* or is not asked as the column has one.
ArchiveInv ==
    /\ ArchiveTypeOK /\ RowHasItsValue
    /\ \A p \in Processes : object[p].step = "assigned" =>
          Assigned(object[p]) /\ (object[p].db = Nothing => cache[p] = Nothing)
    /\ ~torn => \A p \in Processes \ stale :
          cache[p] # Nothing => cache[p] \in recent \/ row.db # Nothing
=============================================================================
