-------------------------------- MODULE Jobs --------------------------------
(***************************************************************************)
(* The background job queue: the `jobs` table, the users who enqueue,      *)
(* retry and cancel, and the workers that claim due rows and run their     *)
(* handlers.  A handler is abstract here: it renews its lock, returns,     *)
(* throws, or dies with its process.  ImportJobs gives one in detail.      *)
(*                                                                         *)
(* Time is abstracted to what the claim compares: a queued job is due or   *)
(* not (runAt), a lock is absent, held or expired (lockedUntil).           *)
(***************************************************************************)
EXTENDS Integers, FiniteSets

CONSTANTS
  Job,          \* rows of the jobs table
  Handled,      \* those whose type the workers' registry knows
  Slot,         \* concurrent runs over all the worker processes
  NoJob,        \* what an idle slot runs
  MaxAttempts,  \* maxAttempts of every job
  MaxRetries,   \* bound: manual retries of one job
  MaxCrashes,   \* bound: runs lost with their process
  LocksHold     \* TRUE: no run outlives its lock without renewing it

ASSUME JobsAssumption ==
  /\ NoJob \notin Job
  /\ IsFiniteSet(Slot)
  /\ Handled \subseteq Job
  /\ {MaxAttempts, MaxRetries, MaxCrashes} \subseteq Nat
  /\ LocksHold \in BOOLEAN

VARIABLES
  jobs,     \* the table
  slots,    \* what each slot of a worker is doing
  starts,   \* history: how often the handler of a job was called
  retries,  \* history: manual retries of a job
  crashes   \* history: runs lost so far

vars == <<jobs, slots, starts, retries, crashes>>

-----------------------------------------------------------------------------
(* Rows and slots *)

Ended == {"completed", "failed", "cancelled"}
JobRow == [status : {"none", "queued", "running"} \cup Ended,
           attempts : Nat, due : BOOLEAN, lock : {"none", "held", "expired"}]
SlotState == [job : Job \cup {NoJob}, attempt : Nat,
              stage : {"idle", "claimed", "handling"}]

NoRow == [status |-> "none", attempts |-> 0, due |-> FALSE, lock |-> "none"]
Idle == [job |-> NoJob, attempt |-> 0, stage |-> "idle"]

Init ==
  /\ jobs = [j \in Job |-> NoRow]
  /\ slots = [s \in Slot |-> Idle]
  /\ starts = [j \in Job |-> 0]
  /\ retries = [j \in Job |-> 0]
  /\ crashes = 0

\* Some worker is between claiming j and recording how its run ended.
Worked(j) == \E s \in Slot : slots[s].job = j

-----------------------------------------------------------------------------
(* Users *)

\* runAt may be now or later.
Enqueue(j) ==
  /\ jobs[j].status = "none"
  /\ \E due \in BOOLEAN :
       jobs' = [jobs EXCEPT ![j].status = "queued", ![j].due = due]
  /\ UNCHANGED <<slots, starts, retries, crashes>>

\* Mutated form of Retry: the attempts are refunded instead of reset.
RetryRefunding(j) ==
  /\ jobs[j].status = "failed"
  /\ retries[j] < MaxRetries
  /\ jobs' = [jobs EXCEPT ![j].status = "queued", ![j].due = TRUE,
                          ![j].attempts = @ - MaxAttempts]
  /\ retries' = [retries EXCEPT ![j] = @ + 1]
  /\ UNCHANGED <<slots, starts, crashes>>

\* Mutated form of Retry: any job that ended is queued again.
RetryEnded(j) ==
  /\ jobs[j].status \in Ended
  /\ retries[j] < MaxRetries
  /\ jobs' = [jobs EXCEPT ![j].status = "queued", ![j].attempts = 0,
                          ![j].due = TRUE]
  /\ retries' = [retries EXCEPT ![j] = @ + 1]
  /\ UNCHANGED <<slots, starts, crashes>>

\* The lock column is left as it was.
Retry(j) ==
  /\ jobs[j].status = "failed"
  /\ retries[j] < MaxRetries
  /\ jobs' = [jobs EXCEPT ![j].status = "queued", ![j].attempts = 0,
                          ![j].due = TRUE]
  /\ retries' = [retries EXCEPT ![j] = @ + 1]
  /\ UNCHANGED <<slots, starts, crashes>>

\* Mutated form of Cancel: a running job is cancelled too.
CancelRunning(j) ==
  /\ jobs[j].status \in {"queued", "running"}
  /\ jobs' = [jobs EXCEPT ![j].status = "cancelled"]
  /\ UNCHANGED <<slots, starts, retries, crashes>>

Cancel(j) ==
  /\ jobs[j].status = "queued"
  /\ jobs' = [jobs EXCEPT ![j].status = "cancelled"]
  /\ UNCHANGED <<slots, starts, retries, crashes>>

-----------------------------------------------------------------------------
(* The clock *)

BecomeDue(j) ==
  /\ jobs[j].status = "queued" /\ ~jobs[j].due
  /\ jobs' = [jobs EXCEPT ![j].due = TRUE]
  /\ UNCHANGED <<slots, starts, retries, crashes>>

LockExpires(j) ==
  /\ jobs[j].lock = "held"
  /\ LocksHold => ~Worked(j)
  /\ jobs' = [jobs EXCEPT ![j].lock = "expired"]
  /\ UNCHANGED <<slots, starts, retries, crashes>>

-----------------------------------------------------------------------------
(* Workers *)

\* Mutated form of Claimable: a running job is claimed whatever its lock.
ClaimableRunning(j) ==
  \/ jobs[j].status = "queued" /\ jobs[j].due
  \/ jobs[j].status = "running"

\* Mutated form of Claimable: jobs of workers that died are not recovered.
ClaimableQueued(j) == jobs[j].status = "queued" /\ jobs[j].due

Claimable(j) ==
  \/ jobs[j].status = "queued" /\ jobs[j].due
  \/ jobs[j].status = "running" /\ jobs[j].lock = "expired"

\* One row of the UPDATE ... RETURNING; the slot keeps the row it returned.
Claim(s, j) ==
  /\ slots[s] = Idle
  /\ Claimable(j)
  /\ jobs' = [jobs EXCEPT ![j].status = "running", ![j].attempts = @ + 1,
                          ![j].lock = "held"]
  /\ slots' = [slots EXCEPT ![s] = [job |-> j, attempt |-> jobs[j].attempts + 1,
                                    stage |-> "claimed"]]
  /\ UNCHANGED <<starts, retries, crashes>>

At(s, stage) == slots[s].stage = stage

\* Every outcome is written by id: neither the status nor the lock is checked.
Finish(s, status) ==
  /\ jobs' = [jobs EXCEPT ![slots[s].job].status = status,
                          ![slots[s].job].lock = "none"]
  /\ slots' = [slots EXCEPT ![s] = Idle]

\* Mutated form of CanRun: one attempt too many.
CanRunOnceMore(s) ==
  slots[s].job \in Handled /\ slots[s].attempt <= MaxAttempts + 1

CanRun(s) == slots[s].job \in Handled /\ slots[s].attempt <= MaxAttempts

\* The type is unknown, or the attempts ran out with workers that died.
GiveUp(s) ==
  /\ At(s, "claimed")
  /\ ~CanRun(s)
  /\ Finish(s, "failed")
  /\ UNCHANGED <<starts, retries, crashes>>

Start(s) ==
  /\ At(s, "claimed")
  /\ CanRun(s)
  /\ slots' = [slots EXCEPT ![s].stage = "handling"]
  /\ starts' = [starts EXCEPT ![slots[s].job] = @ + 1]
  /\ UNCHANGED <<jobs, retries, crashes>>

Renewed(s) == jobs' = [jobs EXCEPT ![slots[s].job].lock = "held"]

\* The handler reports progress, which renews the lock whoever holds it.
Progress(s) ==
  /\ At(s, "handling")
  /\ Renewed(s)
  /\ UNCHANGED <<slots, starts, retries, crashes>>

Complete(s) ==
  /\ At(s, "handling")
  /\ Finish(s, "completed")
  /\ UNCHANGED <<starts, retries, crashes>>

\* The handler throws, or writing "completed" does: queued again while
\* attempts are left, with a delay.
Throw(s) ==
  /\ At(s, "handling")
  /\ \/ /\ slots[s].attempt < MaxAttempts
        /\ jobs' = [jobs EXCEPT ![slots[s].job].status = "queued",
                                ![slots[s].job].lock = "none",
                                ![slots[s].job].due = FALSE]
        /\ slots' = [slots EXCEPT ![s] = Idle]
     \/ slots[s].attempt >= MaxAttempts /\ Finish(s, "failed")
  /\ UNCHANGED <<starts, retries, crashes>>

ThrowPermanent(s) ==
  /\ At(s, "handling")
  /\ Finish(s, "failed")
  /\ UNCHANGED <<starts, retries, crashes>>

\* The process dies, or the write that ends the run fails, which ends it too.
\* Its slot serves again once the process is back.
Crash(s) ==
  /\ slots[s] # Idle
  /\ crashes < MaxCrashes
  /\ slots' = [slots EXCEPT ![s] = Idle]
  /\ crashes' = crashes + 1
  /\ UNCHANGED <<jobs, starts, retries>>

-----------------------------------------------------------------------------
Next ==
  \/ \E j \in Job : Enqueue(j) \/ Retry(j) \/ Cancel(j)
                    \/ BecomeDue(j) \/ LockExpires(j)
  \/ \E s \in Slot : \/ \E j \in Job : Claim(s, j)
                     \/ GiveUp(s) \/ Start(s) \/ Progress(s) \/ Complete(s)
                     \/ Throw(s) \/ ThrowPermanent(s) \/ Crash(s)

Spec == Init /\ [][Next]_vars

\* Time passes, workers poll, and a run that starts comes to an end.  Nothing
\* obliges a user to act, a handler to report, or a process to die; a lock is
\* only sure to expire once nobody is left to renew it.
Fairness ==
  /\ \A j \in Job : /\ WF_vars(BecomeDue(j))
                    /\ WF_vars(~Worked(j) /\ LockExpires(j))
                    /\ WF_vars(\E s \in Slot : Claim(s, j))
  /\ \A s \in Slot : /\ WF_vars(Start(s) \/ GiveUp(s))
                     /\ WF_vars(Complete(s) \/ Throw(s) \/ ThrowPermanent(s))

FairSpec == Spec /\ Fairness

-----------------------------------------------------------------------------
(* Properties *)

\* Every variable keeps the shape of the row or record it stands for.
JobTypeOK ==
  /\ jobs \in [Job -> JobRow]
  /\ slots \in [Slot -> SlotState]
  /\ starts \in [Job -> Nat]
  /\ retries \in [Job -> Nat]
  /\ crashes \in Nat

\* Two workers never run the same job at the same time: FOR UPDATE SKIP LOCKED,
\* the status and the lock together keep a claimed row from the others.
OneRunPerJob ==
  \A s, t \in Slot : slots[s].job = slots[t].job /\ slots[s] # Idle => s = t

\* What a worker is busy with is still running in the table: no user and no
\* other worker ended, cancelled or queued it behind the worker's back.
WorkedJobsRun ==
  \A s \in Slot : slots[s] # Idle => jobs[slots[s].job].status = "running"

\* A completed or cancelled job stays so: a late worker never reopens it.
FinishedStays ==
  [][\A j \in Job : jobs[j].status \in {"completed", "cancelled"}
                      => jobs'[j].status = jobs[j].status]_vars

\* However often workers die or lose their locks, the handler of a job is
\* called at most maxAttempts times for each time a user asked for it.
StartsBounded ==
  \A j \in Job : starts[j] <= MaxAttempts * (1 + retries[j])

\* A job that was enqueued ends, with workers that die and locks that expire.
EveryJobEnds ==
  \A j \in Job : jobs[j].status = "queued" ~> jobs[j].status \in Ended

=============================================================================
