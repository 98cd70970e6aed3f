------------------------------- MODULE Backup -------------------------------
(***************************************************************************)
(* Backuper of internal/cleanup/cleanup.go with Backup and RetainBackups   *)
(* of internal/store/store.go.                                             *)
(*                                                                         *)
(* The directory is the sequence of its kvp-*.db files in the order of     *)
(* their names, which is that of the moments they were begun at.  A VACUUM *)
(* INTO that fails or dies may leave a file behind, which is incomplete    *)
(* and counts for the retention like any other.                            *)
(***************************************************************************)
EXTENDS Integers, Sequences, SequencesExt

CONSTANTS
    Retention,         \* KVP_BACKUP_RETENTION
    MaxFaults          \* bound of the model

ASSUME BackupAssumption == Retention \in Nat \ {0} /\ MaxFaults \in Nat

VARIABLES
    files,     \* the directory, by name: "latest", "older" or "partial"
    bk,        \* RunOnce: where it is, and how many files it will remove
    faults,    \* how many so far
    done       \* history: the backups that succeeded, counted up to Retention

bvars == <<files, bk, faults, done>>

IdleBackup == [pc |-> "idle", todo |-> 0]

BTypeOK ==
    /\ files \in Seq({"latest", "older", "partial"})
    /\ bk \in [pc : {"idle", "vacuum", "retain", "remove"}, todo : Nat]
    /\ faults \in 0..MaxFaults /\ done \in 0..Retention

BInit == files = <<>> /\ bk = IdleBackup /\ faults = 0 /\ done = 0

---------------------------------------------------------------------------
\* A tick of Run, and Backup sends its statement.
BackupStart ==
    /\ bk.pc = "idle"
    /\ bk' = [bk EXCEPT !.pc = "vacuum"]
    /\ UNCHANGED <<files, faults, done>>

\* VACUUM INTO 'kvp-<now>.db' succeeds.
Vacuum ==
    /\ bk.pc = "vacuum"
    /\ files' = Append(ReplaceAll(files, "latest", "older"), "latest")
    /\ bk' = [bk EXCEPT !.pc = "retain"]
    /\ done' = IF done < Retention THEN done + 1 ELSE done
    /\ UNCHANGED faults

\* It finds no database and fails before it writes.  RunOnce returns without a
\* look at the retention.
VacuumRefused ==
    /\ bk.pc = "vacuum"
    /\ bk' = IdleBackup
    /\ UNCHANGED <<files, faults, done>>

\* It fails or is cancelled in the middle.
VacuumAborted ==
    /\ bk.pc = "vacuum"
    /\ files' \in {files, Append(files, "partial")}
    /\ bk' = IdleBackup
    /\ UNCHANGED done

\* The directory cannot be made, the name is taken, the disk is full: the files
\* stay or one more is left behind.
VacuumFail ==
    /\ faults < MaxFaults /\ VacuumAborted
    /\ faults' = faults + 1

\* Mutant of Excess: one file more than the limit is tolerated.
ExcessTolerant == Len(files) - Retention - 1

Excess == Len(files) - Retention

\* RetainBackups: ReadDir, sort, and how many go.
Retain ==
    /\ bk.pc = "retain"
    /\ bk' = IF Excess <= 0 THEN IdleBackup ELSE [pc |-> "remove", todo |-> Excess]
    /\ UNCHANGED <<files, faults, done>>

\* Mutant of WithoutOldest: the files are sorted the other way.
WithoutNewest == Front(files)

\* The directory without the first name.
WithoutOldest == Tail(files)

\* os.Remove of the next of files[:excess].
RemoveFile ==
    /\ bk.pc = "remove"
    /\ files' = WithoutOldest
    /\ bk' = IF bk.todo = 1 THEN IdleBackup ELSE [bk EXCEPT !.todo = @ - 1]
    /\ UNCHANGED <<faults, done>>

\* ReadDir or Remove fails.
RetainFail ==
    /\ bk.pc \in {"retain", "remove"} /\ faults < MaxFaults
    /\ bk' = IdleBackup
    /\ faults' = faults + 1
    /\ UNCHANGED <<files, done>>

\* The process dies.
BackupCrash ==
    /\ \/ bk.pc = "vacuum" /\ files' \in {files, Append(files, "partial")}
       \/ bk.pc # "vacuum" /\ UNCHANGED files
    /\ bk' = IdleBackup
    /\ UNCHANGED done

---------------------------------------------------------------------------
(* Properties.                                                             *)

\* Once a backup has succeeded the directory never lacks the latest one, and
\* once the limit is reached it never has fewer files than that, whatever
\* failed, was cancelled or crashed since, and while files are being removed.
LatestBackupKept ==
    /\ done > 0 => "latest" \in ToSet(files)
    /\ Len(files) >= done
=============================================================================
