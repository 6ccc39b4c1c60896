---------------------------- MODULE Migrations ----------------------------
(***************************************************************************)
(* migrations.Apply, which every API and worker process runs when it       *)
(* starts: under an advisory lock of its session it applies the files that *)
(* schema_migrations does not name, in order, each in a transaction that   *)
(* records it.  Several processes start at once, also after a deployment   *)
(* that adds files, and one whose Apply fails exits and is started again.  *)
(***************************************************************************)
EXTENDS Naturals

CONSTANTS
    LastFile,    \* migration files are numbered by the order of their names
    Starters,    \* API and worker processes
    NoStarter,   \* who has the lock when nobody has
    MaxBreaks    \* bound on failures in a behaviour

ASSUME MigrationsAssumption ==
    LastFile \in Nat /\ NoStarter \notin Starters /\ MaxBreaks \in Nat

VARIABLES
    advisory,  \* the session that has pg_advisory_lock
    recorded,  \* the files in schema_migrations
    effective, \* the files whose tables and columns are in the schema
    starter,   \* each process: where it is, and the file it is at
    struck,    \* history: the processes whose start met a failure of its own
    breaks     \* how many failures there have been

migrationVars == <<advisory, recorded, effective, starter, struck, breaks>>
-----------------------------------------------------------------------------
Files == 1..LastFile

Starter == [pc : {"waiting", "checking", "applying", "running", "exited"},
            file : 1..(LastFile + 1)]
Waiting == [pc |-> "waiting", file |-> 1]

(* compose.yaml lets psql run all files, without recording them, before    *)
(* the processes start; elsewhere the database is empty.                   *)
MigrationInit ==
    /\ advisory = NoStarter
    /\ recorded = {}
    /\ effective \in {{}, Files}
    /\ starter = [p \in Starters |-> Waiting]
    /\ struck = {}
    /\ breaks = 0

At(p, pc)    == starter[p].pc = pc
Goes(p, pc)  == starter' = [starter EXCEPT ![p].pc = pc]
NextFile(p)  == starter' = [starter EXCEPT ![p].pc = "checking", ![p].file = @ + 1]
Unlock(p)    == advisory' = IF advisory = p THEN NoStarter ELSE advisory

(* Mutant: no advisory lock.                                               *)
Lock_Shared(p) ==
    /\ At(p, "waiting")
    /\ advisory' = p
    /\ Goes(p, "checking")
    /\ UNCHANGED <<recorded, effective, struck, breaks>>

Lock(p) ==
    /\ At(p, "waiting")
    /\ advisory = NoStarter
    /\ advisory' = p
    /\ Goes(p, "checking")
    /\ UNCHANGED <<recorded, effective, struck, breaks>>

(* SELECT EXISTS(.. WHERE filename = $1).                                  *)
Check(p) ==
    /\ At(p, "checking")
    /\ starter[p].file \in Files
    /\ IF starter[p].file \in recorded THEN NextFile(p) ELSE Goes(p, "applying")
    /\ UNCHANGED <<advisory, recorded, effective, struck, breaks>>

(* The transaction of a file.  A file that another session has recorded is *)
(* refused by the table's primary key, which rolls the file back.  Every   *)
(* statement of the files is IF NOT EXISTS: where psql has been before,    *)
(* they change nothing.                                                    *)
ApplyFile(p) ==
    /\ At(p, "applying")
    /\ IF starter[p].file \in recorded
       THEN /\ Goes(p, "exited")
            /\ Unlock(p)
            /\ UNCHANGED <<recorded, effective>>
       ELSE /\ effective' = effective \cup {starter[p].file}
            /\ recorded' = recorded \cup {starter[p].file}
            /\ NextFile(p)
            /\ UNCHANGED advisory
    /\ UNCHANGED <<struck, breaks>>

(* All files are done: the lock is released and the process starts.        *)
Run(p) ==
    /\ At(p, "checking")
    /\ starter[p].file \notin Files
    /\ Goes(p, "running")
    /\ Unlock(p)
    /\ UNCHANGED <<recorded, effective, struck, breaks>>

(* A statement fails or the process dies, which rolls back an open         *)
(* transaction; or a commit takes effect and is reported as failed.  The   *)
(* lock goes with the session.                                             *)
Exit(p) ==
    /\ starter[p].pc \in {"waiting", "checking", "applying"}
    /\ breaks < MaxBreaks
    /\ breaks' = breaks + 1
    /\ \/ UNCHANGED <<recorded, effective>>
       \/ /\ At(p, "applying")
          /\ starter[p].file \notin recorded
          /\ effective' = effective \cup {starter[p].file}
          /\ recorded' = recorded \cup {starter[p].file}
    /\ Goes(p, "exited")
    /\ Unlock(p)
    /\ struck' = struck \cup {p}

(* A process is started again, or replaced.                                *)
Restart(p) ==
    /\ starter[p].pc \in {"running", "exited"}
    /\ starter' = [starter EXCEPT ![p] = Waiting]
    /\ struck' = struck \ {p}
    /\ UNCHANGED <<advisory, recorded, effective, breaks>>

MigrationNext ==
    \E p \in Starters :
        Lock(p) \/ Check(p) \/ ApplyFile(p) \/ Run(p) \/ Exit(p) \/ Restart(p)

MigrationSpec == MigrationInit /\ [][MigrationNext]_migrationVars
-----------------------------------------------------------------------------
(* Properties.                                                             *)

MigrationTypeOK ==
    /\ advisory \in Starters \cup {NoStarter}
    /\ recorded \in SUBSET Files
    /\ effective \in SUBSET Files
    /\ starter \in [Starters -> Starter]
    /\ struck \in SUBSET Starters
    /\ breaks \in 0..MaxBreaks

(* A process serves and works on the whole schema only; a file that is     *)
(* recorded has taken effect, and so have all before it; and a start fails *)
(* by a failure of its own only, never because another process starts at   *)
(* the same time or has failed in the middle.                              *)
StartsOnWholeSchema ==
    \A p \in Starters :
        /\ At(p, "running") => effective = Files
        /\ At(p, "exited") => p \in struck
        /\ \A f \in recorded : 1..f \subseteq effective
=============================================================================
