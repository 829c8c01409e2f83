----------------------------- MODULE ImportJobs -----------------------------
(***************************************************************************)
(* The queue of Jobs with its handler in detail: importing an uploaded     *)
(* file in the background.  The handler reads the file from storage,       *)
(* validates every row, applies them in one transaction and deletes the    *)
(* file.  The database and the storage share no transaction, so a fault    *)
(* between two steps leaves one written and the other not.                 *)
(*                                                                         *)
(* The rows of a file are abstracted to how often they were applied: for a *)
(* stock file every time adds its quantities again.                        *)
(***************************************************************************)
EXTENDS Jobs

VARIABLES
  file,     \* the upload of each job is in storage
  applied,  \* how often the rows of each job were committed
  late,     \* history: faults between that commit and deleting the file
  gone,     \* jobs whose error tells the user to import the file again
  step      \* where the handler of each slot is

importVars == <<file, applied, late, gone, step>>
allVars == <<vars, importVars>>

Steps == {"none", "read", "validate", "reject", "rejected",
          "apply", "clean", "done"}

ImportInit ==
  /\ Init
  /\ file = [j \in Job |-> FALSE]
  /\ applied = [j \in Job |-> 0]
  /\ late = [j \in Job |-> 0]
  /\ gone = {}
  /\ step = [s \in Slot |-> "none"]

-----------------------------------------------------------------------------
(* Users: the file is uploaded before its job exists *)

EnqueueImport(j) ==
  /\ Enqueue(j)
  /\ file' = [file EXCEPT ![j] = TRUE]
  /\ UNCHANGED <<applied, late, gone, step>>

\* Clears the error of the job; its file is where it was.
RetryImport(j) ==
  /\ Retry(j)
  /\ gone' = gone \ {j}
  /\ UNCHANGED <<file, applied, late, step>>

-----------------------------------------------------------------------------
(* The handler *)

StartImport(s) ==
  /\ Start(s)
  /\ step' = [step EXCEPT ![s] = "read"]
  /\ UNCHANGED <<file, applied, late, gone>>

Moves(s, from, to) ==
  /\ step[s] = from
  /\ step' = [step EXCEPT ![s] = to]

ReadFile(s) ==
  /\ Moves(s, "read", "validate")
  /\ file[slots[s].job]
  /\ Progress(s)
  /\ UNCHANGED <<file, applied, late, gone>>

\* The rows are valid, or some are not.
Validate(s) ==
  /\ Moves(s, "validate", "apply") \/ Moves(s, "validate", "reject")
  /\ Progress(s)
  /\ UNCHANGED <<file, applied, late, gone>>

Deleted(s) == file' = [file EXCEPT ![slots[s].job] = FALSE]

\* The report of the errors is stored and the upload deleted.
RejectRows(s) ==
  /\ Moves(s, "reject", "rejected")
  /\ Deleted(s)
  /\ UNCHANGED <<vars, applied, late, gone>>

Apply(s) ==
  /\ Moves(s, "apply", "clean")
  /\ Progress(s)
  /\ applied' = [applied EXCEPT ![slots[s].job] = @ + 1]
  /\ UNCHANGED <<file, late, gone>>

\* Mutated form of Clean: the file stays in storage.
CleanNothing(s) ==
  /\ Moves(s, "clean", "done")
  /\ UNCHANGED <<vars, file, applied, late, gone>>

Clean(s) ==
  /\ Moves(s, "clean", "done")
  /\ Deleted(s)
  /\ UNCHANGED <<vars, applied, late, gone>>

\* Mutated form of CompleteImport: the file would be deleted after the end.
CompleteBeforeCleaning(s) ==
  /\ Moves(s, "clean", "none")
  /\ Complete(s)
  /\ UNCHANGED <<file, applied, late, gone>>

CompleteImport(s) ==
  /\ Moves(s, "done", "none")
  /\ Complete(s)
  /\ UNCHANGED <<file, applied, late, gone>>

\* Mutated form of RefuseImport: nothing is thrown for rows with errors.
RefuseUnread(s) ==
  /\ \E at \in {"read", "validate"} : Moves(s, at, "none")
  /\ ThrowPermanent(s)
  /\ UNCHANGED <<file, applied, late, gone>>

\* No permission, an unreadable file, or rows with errors.
RefuseImport(s) ==
  /\ \E at \in {"read", "validate", "rejected"} : Moves(s, at, "none")
  /\ ThrowPermanent(s)
  /\ UNCHANGED <<file, applied, late, gone>>

\* Mutated form of FileGone: the job is read once the slot is free.
FileGoneAfter(s) ==
  /\ Moves(s, "read", "none")
  /\ ThrowPermanent(s)
  /\ gone' = gone \cup {slots'[s].job}
  /\ UNCHANGED <<file, applied, late>>

\* Any failure of storage.get is taken for a missing file.
FileGone(s) ==
  /\ Moves(s, "read", "none")
  /\ ThrowPermanent(s)
  /\ gone' = gone \cup {slots[s].job}
  /\ UNCHANGED <<file, applied, late>>

Late(s) ==
  late' = IF step[s] = "clean" THEN [late EXCEPT ![slots[s].job] = @ + 1]
                               ELSE late

\* The database or the storage fails, or the transaction runs out of time.
FailImport(s) ==
  /\ step[s] # "rejected"
  /\ Moves(s, step[s], "none")
  /\ Throw(s)
  /\ Late(s)
  /\ UNCHANGED <<file, applied, gone>>

CrashImport(s) ==
  /\ Moves(s, step[s], "none")
  /\ Crash(s)
  /\ Late(s)
  /\ UNCHANGED <<file, applied, gone>>

-----------------------------------------------------------------------------
Handle(s) ==
  \/ ReadFile(s) \/ Validate(s) \/ RejectRows(s) \/ Apply(s) \/ Clean(s)
  \/ CompleteImport(s) \/ RefuseImport(s) \/ FileGone(s) \/ FailImport(s)

Elsewhere ==
  \/ \E j \in Job : \/ Cancel(j) \/ BecomeDue(j) \/ LockExpires(j)
                    \/ \E s \in Slot : Claim(s, j)
  \/ \E s \in Slot : GiveUp(s)

ImportNext ==
  \/ \E j \in Job : EnqueueImport(j) \/ RetryImport(j)
  \/ Elsewhere /\ UNCHANGED importVars
  \/ \E s \in Slot : StartImport(s) \/ Handle(s) \/ CrashImport(s)

ImportSpec == ImportInit /\ [][ImportNext]_allVars

\* The fairness of Jobs, with the steps of this handler in place of "a run
\* comes to an end".
ImportFairness ==
  /\ \A j \in Job :
       /\ WF_allVars(BecomeDue(j) /\ UNCHANGED importVars)
       /\ WF_allVars(~Worked(j) /\ LockExpires(j) /\ UNCHANGED importVars)
       /\ WF_allVars(\E s \in Slot : Claim(s, j) /\ UNCHANGED importVars)
  /\ \A s \in Slot :
       /\ WF_allVars(StartImport(s) \/ (GiveUp(s) /\ UNCHANGED importVars))
       /\ WF_allVars(Handle(s))

ImportFairSpec == ImportSpec /\ ImportFairness

-----------------------------------------------------------------------------
(* Properties *)

ImportTypeOK ==
  /\ JobTypeOK
  /\ file \in [Job -> BOOLEAN]
  /\ applied \in [Job -> Nat]
  /\ late \in [Job -> Nat]
  /\ gone \subseteq Job
  /\ step \in [Slot -> Steps]

\* The queue keeps every promise of Jobs with this handler in it: the steps of
\* the import are runs that start, report progress and end.
RunsAsJob == FairSpec

\* The rows of a file are applied once, however its job is retried, but for one
\* more time per fault that hits between the commit and deleting the file.
AppliedOnce == \A j \in Job : applied[j] <= 1 + late[j]

\* A completed import wrote its rows and left no upload behind.
CompletedImports ==
  \A j \in Job : jobs[j].status = "completed" => applied[j] > 0 /\ ~file[j]

\* A file that was applied without a fault is never applied by a retry: what
\* keeps it from that is that the file is deleted before the job can end.
NoUploadAfterApply ==
  \A j \in Job : applied[j] > late[j] /\ file[j]
                   => \E s \in Slot : slots[s].job = j /\ step[s] = "clean"

\* An import that asks the user to import the file again wrote nothing.
AskedAgainWroteNothing == \A j \in gone : applied[j] = 0

=============================================================================
