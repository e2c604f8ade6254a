----------------------------- MODULE Migrations -----------------------------
(***************************************************************************)
(* The migration engine (tools/init_db.py), which the initializer, the     *)
(* crawler and both REST runtimes run when they start - at the same time,  *)
(* if they are started together - on one SQLite database.                  *)
(*                                                                         *)
(* executescript commits statement by statement; the schema_metadata row   *)
(* is written afterwards.  A statement is "create" when it says IF NOT     *)
(* EXISTS, and "alter" when it adds a column and fails if it is there.     *)
(***************************************************************************)
EXTENDS Naturals, Sequences

CONSTANTS
    Process,
    Script,       \* the statements of each migration, in file name order
    Unrecorded,   \* no row in schema_metadata
    Version,      \* contents a migration file may have, by their hash
    Original,     \* the one it is first released with
    Faults        \* what may go wrong in this instance

Migration == DOMAIN Script

FaultKinds == {"interrupt", "edit"}

ASSUME MigrationAssumption ==
    /\ Script \in Seq(Seq({"create", "alter"}))
    /\ \A m \in Migration : Script[m] # <<>>
    /\ Unrecorded \notin Version /\ Original \in Version
    /\ Faults \subseteq FaultKinds

VARIABLES
    disk,       \* the version of each migration file
    recorded,   \* schema_metadata
    schema,     \* <<m, i>>: the i-th statement of m has taken effect
    pc, at,     \* control point of each process, and the migration it is at
    line, hash  \* the statement it is at, and the hash it will record

vars == <<disk, recorded, schema, pc, at, line, hash>>

-----------------------------------------------------------------------------

Goto(p, point) == pc' = [pc EXCEPT ![p] = point]

Advance(p) == at' = [at EXCEPT ![p] = @ + 1]

\* A program starts and opens the database.
Start(p) ==
    /\ pc[p] \in {"off", "failed", "ready"}
    /\ Goto(p, "check")
    /\ at' = [at EXCEPT ![p] = 1]
    /\ UNCHANGED <<disk, recorded, schema, line, hash>>

\* The file is hashed and looked up: skip it, refuse it, or apply it.
Skip(p) ==
    /\ pc[p] = "check" /\ at[p] \in Migration
    /\ recorded[at[p]] = disk[at[p]]
    /\ Advance(p)
    /\ UNCHANGED <<disk, recorded, schema, pc, line, hash>>

\* Mutant: a migration that is applied already is refused, whatever its hash.
RefuseApplied(p) ==
    /\ pc[p] = "check" /\ at[p] \in Migration
    /\ recorded[at[p]] # Unrecorded
    /\ Goto(p, "failed")
    /\ UNCHANGED <<disk, recorded, schema, at, line, hash>>

Refuse(p) ==
    /\ pc[p] = "check" /\ at[p] \in Migration
    /\ recorded[at[p]] \notin {Unrecorded, disk[at[p]]}
    /\ Goto(p, "failed")
    /\ UNCHANGED <<disk, recorded, schema, at, line, hash>>

Apply(p) ==
    /\ pc[p] = "check" /\ at[p] \in Migration
    /\ recorded[at[p]] = Unrecorded
    /\ Goto(p, "script")
    /\ line' = [line EXCEPT ![p] = 1]
    /\ hash' = [hash EXCEPT ![p] = disk[at[p]]]
    /\ UNCHANGED <<disk, recorded, schema, at>>

\* Mutant: a migration counts as applied before its script has run.
RecordFirst(p) ==
    /\ pc[p] = "script" /\ line[p] = 1
    /\ recorded' = [recorded EXCEPT ![at[p]] = hash[p]]
    /\ Advance(p) /\ Goto(p, "check")
    /\ UNCHANGED <<disk, schema, line, hash>>

\* One statement of the script, committed at once.
Statement(p) ==
    /\ pc[p] = "script"
    /\ LET m == at[p]
           i == line[p]
           duplicate == Script[m][i] = "alter" /\ <<m, i>> \in schema
       IN  IF duplicate
           THEN Goto(p, "failed") /\ UNCHANGED <<schema, line>>
           ELSE /\ schema' = schema \cup {<<m, i>>}
                /\ Goto(p, IF i = Len(Script[m]) THEN "record" ELSE "script")
                /\ line' = [line EXCEPT ![p] = @ + 1]
    /\ UNCHANGED <<disk, recorded, at, hash>>

\* The row is inserted and committed, unless another process was faster.
Record(p) ==
    /\ pc[p] = "record"
    /\ IF recorded[at[p]] = Unrecorded
       THEN /\ recorded' = [recorded EXCEPT ![at[p]] = hash[p]]
            /\ Advance(p) /\ Goto(p, "check")
       ELSE Goto(p, "failed") /\ UNCHANGED <<recorded, at>>
    /\ UNCHANGED <<disk, schema, line, hash>>

\* Mutant: the loop ends one migration early.
ReadyEarly(p) ==
    /\ pc[p] = "check" /\ at[p] >= Len(Script)
    /\ Goto(p, "ready")
    /\ UNCHANGED <<disk, recorded, schema, at, line, hash>>

Ready(p) ==
    /\ pc[p] = "check" /\ at[p] \notin Migration
    /\ Goto(p, "ready")
    /\ UNCHANGED <<disk, recorded, schema, at, line, hash>>

\* Killed, or given up because the database was locked for too long: what was
\* committed stays, an insert that was not is rolled back.
Interrupt(p) ==
    /\ "interrupt" \in Faults
    /\ pc[p] \in {"check", "script", "record"}
    /\ Goto(p, "off")
    /\ UNCHANGED <<disk, recorded, schema, at, line, hash>>

\* A migration file changes under the database.
Edit(m, v) ==
    /\ "edit" \in Faults
    /\ disk' = [disk EXCEPT ![m] = v]
    /\ UNCHANGED <<recorded, schema, pc, at, line, hash>>

Init ==
    /\ disk = [m \in Migration |-> Original]
    /\ recorded = [m \in Migration |-> Unrecorded]
    /\ schema = {}
    /\ pc = [p \in Process |-> "off"]
    /\ at = [p \in Process |-> 1]
    /\ line = [p \in Process |-> 1]
    /\ hash = [p \in Process |-> Original]

Run(p) ==
    \/ Skip(p) \/ Refuse(p) \/ Apply(p) \/ Statement(p) \/ Record(p) \/ Ready(p)

Next ==
    \/ \E p \in Process : Start(p) \/ Run(p) \/ Interrupt(p)
    \/ \E m \in Migration, v \in Version : Edit(m, v)

Spec == Init /\ [][Next]_vars

FairSpec == Spec /\ \A p \in Process : WF_vars(Run(p))

-----------------------------------------------------------------------------
(* Properties.                                                             *)

\* A process that runs a script is at one of its statements, and the loop never
\* steps further than one past the last migration.
TypeOK ==
    /\ disk \in [Migration -> Version]
    /\ recorded \in [Migration -> Version \cup {Unrecorded}]
    /\ schema \subseteq {e \in Migration \X Nat : e[2] \in 1..Len(Script[e[1]])}
    /\ pc \in [Process -> {"off", "check", "script", "record", "ready", "failed"}]
    /\ at \in [Process -> 1..(Len(Script) + 1)]
    /\ line \in [Process -> Nat \ {0}]
    /\ hash \in [Process -> Version]
    /\ \A p \in Process : pc[p] = "script" => line[p] <= Len(Script[at[p]])
    /\ \A p \in Process : pc[p] \in {"script", "record"} => at[p] \in Migration

Installed(m) == \A i \in 1..Len(Script[m]) : <<m, i>> \in schema

\* Whatever starts together, crashes or is locked out, the database is always a
\* prefix of the migration chain, complete and recorded, and a part of at most
\* one migration more.
PrefixOfChain ==
    /\ \A m \in Migration : recorded[m] # Unrecorded => Installed(m)
    /\ \A e \in schema : \A k \in 1..(e[1] - 1) : recorded[k] # Unrecorded

\* A program goes on to its own work only on a database with the whole chain.
ReadyIsComplete ==
    \A p \in Process : pc[p] = "ready" => \A m \in Migration : recorded[m] # Unrecorded

\* A column was added by a process that did not live to record its migration,
\* and no process that runs the script is past it: ALTER TABLE fails from now on.
Stuck ==
    \E e \in schema :
        /\ recorded[e[1]] = Unrecorded /\ Script[e[1]][e[2]] = "alter"
        /\ \A p \in Process :
              ~(pc[p] \in {"script", "record"} /\ at[p] = e[1] /\ line[p] > e[2])

\* Programs started together may fail on each other's statements or rows, but
\* not all for ever: as long as each is started again, from some time on without
\* a kill or a lock that is held for too long, nobody has edited a script and no
\* added column was left unrecorded, the chain gets recorded.
StartupsConverge ==
    /\ \A p \in Process : []<><<Start(p)>>_vars
    /\ <>[][\A p \in Process : ~Interrupt(p)]_vars
    /\ [](~Stuck /\ disk = [m \in Migration |-> Original])
    => <>(\A m \in Migration : recorded[m] # Unrecorded)
=============================================================================
