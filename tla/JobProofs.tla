------------------------------ MODULE JobProofs ------------------------------
(***************************************************************************)
(* Theorems about the job queue, for any jobs, workers and bounds.         *)
(*                                                                         *)
(* That a handler is called a bounded number of times needs no assumption: *)
(* it counts the calls already made together with those that claimed slots *)
(* are about to make.  That a job is run by one worker at a time needs the *)
(* locks to hold: the queue checks nothing when a run ends.                *)
(*                                                                         *)
(* An import runs inside the queue, so what is shown of the queue holds    *)
(* for imports too; the last part is about their files and rows: whoever   *)
(* is past reading a file is alone with it while locks hold.               *)
(***************************************************************************)
EXTENDS ImportJobs, FiniteSetTheorems, TLAPS

-----------------------------------------------------------------------------
(* Types *)

\* A slot has a job exactly while it is busy.
SlotsOK ==
  \A s \in Slot : \/ slots[s] = Idle
                  \/ slots[s].job \in Job /\ slots[s].stage # "idle"

TypeInv == JobTypeOK /\ SlotsOK

LEMMA Bounds == MaxAttempts \in Nat /\ NoJob \notin Job /\ IsFiniteSet(Slot)
BY JobsAssumption

\* The fields of a row and of a slot, and what an idle slot holds.
LEMMA Fields ==
  ASSUME TypeInv
  PROVE  /\ \A j \in Job : /\ jobs[j] \in JobRow
                           /\ jobs[j].attempts \in Nat
         /\ \A s \in Slot : /\ slots[s] \in SlotState
                            /\ slots[s].attempt \in Nat
                            /\ slots[s].stage # "idle" => slots[s].job \in Job
                            /\ slots[s].job \in Job <=> slots[s] # Idle
BY Bounds DEF TypeInv, JobTypeOK, SlotsOK, JobRow, SlotState, Idle

\* What ends a run: one row ends or waits, one slot is free again.
Ends(s) ==
  /\ slots' = [slots EXCEPT ![s] = Idle]
  /\ jobs' \in [Job -> JobRow]
  /\ \A j \in Job : /\ jobs'[j].attempts = jobs[j].attempts
                    /\ j # slots[s].job => jobs'[j] = jobs[j]
  /\ UNCHANGED <<starts, retries>>

\* Recording an outcome ends the run.
LEMMA FinishEnds ==
  ASSUME TypeInv, NEW s \in Slot, slots[s].job \in Job,
         NEW status \in Ended, Finish(s, status), UNCHANGED <<starts, retries>>
  PROVE  Ends(s)
<1> DEFINE j == slots[s].job
           row == [[jobs[j] EXCEPT !.status = status] EXCEPT !.lock = "none"]
<1>1. jobs' = [jobs EXCEPT ![j] = row]
  BY DEF Finish, TypeInv, JobTypeOK, JobRow
<1>2. row \in JobRow /\ row.attempts = jobs[j].attempts
  BY Fields DEF JobRow, Ended
<1> HIDE DEF row
<1> QED BY <1>1, <1>2 DEF Finish, Ends, TypeInv, JobTypeOK

\* Every way a run ends does that.
LEMMA RunsEnd ==
  ASSUME TypeInv, NEW s \in Slot,
         GiveUp(s) \/ Complete(s) \/ Throw(s) \/ ThrowPermanent(s) \/ Crash(s)
  PROVE  Ends(s)
<1>1. CASE GiveUp(s) \/ Complete(s) \/ ThrowPermanent(s)
  BY <1>1, Fields, FinishEnds DEF GiveUp, Complete, ThrowPermanent, At, Ended
<1>2. CASE Throw(s)
  <2>1. slots[s].job \in Job
    BY <1>2, Fields DEF Throw, At
  <2>2. CASE Finish(s, "failed")
    BY <1>2, <2>1, <2>2, FinishEnds DEF Throw, Ended
  <2>3. CASE ~Finish(s, "failed")
    <3> DEFINE j == slots[s].job
               row == [[[jobs[j] EXCEPT !.status = "queued"]
                                 EXCEPT !.lock = "none"] EXCEPT !.due = FALSE]
    <3>1. jobs' = [jobs EXCEPT ![j] = row] /\ slots' = [slots EXCEPT ![s] = Idle]
      BY <1>2, <2>3 DEF Throw, TypeInv, JobTypeOK, JobRow
    <3>2. row \in JobRow /\ row.attempts = jobs[j].attempts
      BY <2>1, Fields DEF JobRow
    <3> HIDE DEF row
    <3> QED BY <1>2, <2>1, <3>1, <3>2 DEF Throw, Ends, TypeInv, JobTypeOK
  <2> QED BY <2>2, <2>3
<1>3. CASE Crash(s)
  BY <1>3 DEF Crash, Ends, TypeInv, JobTypeOK
<1> QED BY <1>1, <1>2, <1>3

\* What a step on a row does: one well-formed row takes the place of another.
Rewrites(j) ==
  /\ \E row \in JobRow : jobs' = [jobs EXCEPT ![j] = row]
  /\ slots' = slots
  /\ starts' = starts
  /\ retries' \in [Job -> Nat]
  /\ crashes' = crashes

\* Users and the clock only rewrite a row.
LEMMA RowsRewritten ==
  ASSUME TypeInv, NEW j \in Job,
         Enqueue(j) \/ Retry(j) \/ Cancel(j) \/ BecomeDue(j) \/ LockExpires(j)
  PROVE  Rewrites(j)
<1>1. CASE Enqueue(j)
  <2>1. PICK due \in BOOLEAN :
          jobs' = [jobs EXCEPT ![j].status = "queued", ![j].due = due]
    BY <1>1 DEF Enqueue
  <2> DEFINE row == [[jobs[j] EXCEPT !.status = "queued"] EXCEPT !.due = due]
  <2>2. jobs' = [jobs EXCEPT ![j] = row]
    BY <2>1 DEF TypeInv, JobTypeOK
  <2>3. row \in JobRow
    BY Fields DEF JobRow
  <2> HIDE DEF row
  <2> QED BY <1>1, <2>2, <2>3 DEF Enqueue, Rewrites, TypeInv, JobTypeOK
<1>2. CASE Retry(j)
  <2> DEFINE row == [[[jobs[j] EXCEPT !.status = "queued"] EXCEPT !.attempts = 0]
                               EXCEPT !.due = TRUE]
  <2>1. jobs' = [jobs EXCEPT ![j] = row]
    BY <1>2 DEF Retry, TypeInv, JobTypeOK
  <2>2. row \in JobRow
    BY Fields DEF JobRow
  <2>3. retries' \in [Job -> Nat]
    BY <1>2 DEF Retry, TypeInv, JobTypeOK
  <2> HIDE DEF row
  <2> QED BY <1>2, <2>1, <2>2, <2>3 DEF Retry, Rewrites
<1>3. CASE Cancel(j)
  <2>1. [jobs[j] EXCEPT !.status = "cancelled"] \in JobRow
    BY Fields DEF JobRow, Ended
  <2> QED BY <1>3, <2>1 DEF Cancel, Rewrites, TypeInv, JobTypeOK
<1>4. CASE BecomeDue(j)
  <2>1. [jobs[j] EXCEPT !.due = TRUE] \in JobRow
    BY Fields DEF JobRow
  <2> QED BY <1>4, <2>1 DEF BecomeDue, Rewrites, TypeInv, JobTypeOK
<1>5. CASE LockExpires(j)
  <2>1. [jobs[j] EXCEPT !.lock = "expired"] \in JobRow
    BY Fields DEF JobRow
  <2> QED BY <1>5, <2>1 DEF LockExpires, Rewrites, TypeInv, JobTypeOK
<1> QED BY <1>1, <1>2, <1>3, <1>4, <1>5

\* Every step on a row keeps the types.
LEMMA RowsTyped ==
  ASSUME TypeInv, NEW j \in Job,
         Enqueue(j) \/ Retry(j) \/ Cancel(j) \/ BecomeDue(j) \/ LockExpires(j)
  PROVE  TypeInv'
BY RowsRewritten DEF Rewrites, TypeInv, SlotsOK, JobTypeOK

\* A slot that is freed leaves the slots well formed.
LEMMA EndsTyped ==
  ASSUME TypeInv, NEW s \in Slot, Ends(s), crashes' \in Nat
  PROVE  TypeInv'
BY DEF TypeInv, SlotsOK, JobTypeOK, Ends, SlotState, Idle

\* Every step of a worker keeps the types.
LEMMA WorkersTyped ==
  ASSUME TypeInv, NEW s \in Slot,
         \/ \E j \in Job : Claim(s, j)
         \/ GiveUp(s) \/ Start(s) \/ Progress(s) \/ Complete(s)
         \/ Throw(s) \/ ThrowPermanent(s) \/ Crash(s)
  PROVE  TypeInv'
<1>1. ASSUME NEW j \in Job, Claim(s, j) PROVE TypeInv'
  <2> DEFINE row == [[[jobs[j] EXCEPT !.status = "running"]
                               EXCEPT !.attempts = jobs[j].attempts + 1]
                               EXCEPT !.lock = "held"]
             run == [job |-> j, attempt |-> jobs[j].attempts + 1, stage |-> "claimed"]
  <2>1. /\ jobs' = [jobs EXCEPT ![j] = row]
        /\ slots' = [slots EXCEPT ![s] = run]
        /\ UNCHANGED <<starts, retries, crashes>>
    BY <1>1, Fields DEF Claim, TypeInv, JobTypeOK, JobRow
  <2>2. row \in JobRow /\ run \in SlotState
    <3>1. jobs[j] \in JobRow /\ jobs[j].attempts + 1 \in Nat
      BY Fields
    <3>2. row \in JobRow
      BY <3>1 DEF JobRow
    <3>3. run \in SlotState
      BY <3>1 DEF SlotState
    <3> QED BY <3>2, <3>3
  <2>3. run.job \in Job /\ run.stage # "idle"
    OBVIOUS
  <2> HIDE DEF row, run
  <2> QED BY <2>1, <2>2, <2>3 DEF TypeInv, SlotsOK, JobTypeOK
<1>2. CASE Start(s)
  BY <1>2, Fields DEF TypeInv, SlotsOK, JobTypeOK, SlotState, Start, At, Idle
<1>3. CASE Progress(s)
  BY <1>3, Fields DEF TypeInv, SlotsOK, JobTypeOK, JobRow, Progress, Renewed
<1>4. CASE GiveUp(s) \/ Complete(s) \/ Throw(s) \/ ThrowPermanent(s) \/ Crash(s)
  <2>1. crashes' \in Nat
    BY <1>4 DEF TypeInv, JobTypeOK, GiveUp, Complete, Throw, ThrowPermanent, Crash
  <2> QED BY <1>4, <2>1, RunsEnd, EndsTyped
<1> QED BY <1>1, <1>2, <1>3, <1>4

LEMMA TypeStep == ASSUME TypeInv, [Next]_vars PROVE TypeInv'
<1>1. CASE Next
  BY <1>1, RowsTyped, WorkersTyped DEF Next
<1>2. CASE UNCHANGED vars
  BY <1>2 DEF vars, TypeInv, SlotsOK, JobTypeOK
<1> QED BY <1>1, <1>2

LEMMA TypeInit == Init => TypeInv
BY DEF Init, TypeInv, SlotsOK, JobTypeOK, JobRow, NoRow, SlotState, Idle

LEMMA TypesHold == Spec => []TypeInv
BY TypeInit, TypeStep, PTL DEF Spec

\* In every state the queue can reach, rows and slots are well formed.
THEOREM JobTypeCorrect == Spec => []JobTypeOK
<1>1. TypeInv => JobTypeOK
  BY DEF TypeInv
<1> QED BY <1>1, TypesHold, PTL

-----------------------------------------------------------------------------
(* How often a handler is called *)

\* The claims of j that will call its handler unless their worker dies.
Starting(j) ==
  {s \in Slot : /\ slots[s].job = j /\ slots[s].stage = "claimed"
                /\ slots[s].attempt <= MaxAttempts}

\* Attempts of the present round: those beyond the last call no handler.
Spent(j) == IF jobs[j].attempts < MaxAttempts THEN jobs[j].attempts ELSE MaxAttempts

\* Calls made and calls about to be made are paid for by the attempts of this
\* round and the whole rounds that manual retries closed.
StartsInv ==
  \A j \in Job :
    starts[j] + Cardinality(Starting(j)) <= MaxAttempts * retries[j] + Spent(j)

LEMMA Rounds ==
  /\ \A r \in Nat : /\ MaxAttempts * r \in Nat
                    /\ MaxAttempts * (r + 1) = MaxAttempts * r + MaxAttempts
                    /\ MaxAttempts * (1 + r) = MaxAttempts * r + MaxAttempts
  /\ MaxAttempts * 0 = 0
BY Bounds, SMT

LEMMA StartingFinite ==
  ASSUME NEW j
  PROVE  /\ IsFiniteSet(Starting(j)) /\ Cardinality(Starting(j)) \in Nat
         /\ IsFiniteSet(Starting(j))' /\ Cardinality(Starting(j))' \in Nat
<1>1. Starting(j) \in SUBSET Slot /\ Starting(j)' \in SUBSET Slot
  BY DEF Starting
<1> QED BY <1>1, Bounds, FS_Subset, FS_CardinalityType

LEMMA SpentNat == ASSUME TypeInv, NEW j \in Job PROVE Spent(j) \in Nat
BY Fields, Bounds DEF Spent

\* A step that claims nothing, calls no handler and starts no new round.
LEMMA NoNewStart ==
  ASSUME TypeInv, StartsInv, starts' = starts, retries' = retries,
         \A j \in Job : jobs'[j].attempts = jobs[j].attempts,
         \A j \in Job : Starting(j)' \subseteq Starting(j)
  PROVE  StartsInv'
<1> SUFFICES ASSUME NEW j \in Job
             PROVE  (starts[j] + Cardinality(Starting(j))
                       <= MaxAttempts * retries[j] + Spent(j))'
  BY DEF StartsInv
<1>1. Cardinality(Starting(j)') <= Cardinality(Starting(j))
  BY StartingFinite, FS_Subset
<1>2. Spent(j)' = Spent(j)
  BY DEF Spent
<1>3. /\ starts[j] \in Nat /\ MaxAttempts * retries[j] \in Nat /\ Spent(j) \in Nat
      /\ Cardinality(Starting(j)) \in Nat /\ Cardinality(Starting(j)') \in Nat
  BY Rounds, SpentNat, StartingFinite DEF TypeInv, JobTypeOK
<1>4. starts[j] + Cardinality(Starting(j)) <= MaxAttempts * retries[j] + Spent(j)
  BY DEF StartsInv
<1> QED BY <1>1, <1>2, <1>3, <1>4

\* A run that ends calls nothing more.
LEMMA EndsStarts ==
  ASSUME TypeInv, StartsInv, NEW s \in Slot, Ends(s) PROVE StartsInv'
<1>1. \A j \in Job : Starting(j)' \subseteq Starting(j)
  BY DEF Ends, Starting, Idle, TypeInv, JobTypeOK
<1> QED BY <1>1, NoNewStart DEF Ends

\* A claim spends an attempt, and will call the handler only if it was left.
LEMMA ClaimStarts ==
  ASSUME TypeInv, StartsInv, NEW s \in Slot, NEW j \in Job, Claim(s, j)
  PROVE  StartsInv'
<1> SUFFICES ASSUME NEW k \in Job
             PROVE  (starts[k] + Cardinality(Starting(k))
                       <= MaxAttempts * retries[k] + Spent(k))'
  BY DEF StartsInv
<1>1. /\ starts[k] \in Nat /\ MaxAttempts * retries[k] \in Nat /\ Spent(k) \in Nat
      /\ Cardinality(Starting(k)) \in Nat /\ Cardinality(Starting(k)') \in Nat
      /\ jobs[k].attempts \in Nat
  BY Rounds, SpentNat, StartingFinite, Fields DEF TypeInv, JobTypeOK
<1>2. starts[k] + Cardinality(Starting(k)) <= MaxAttempts * retries[k] + Spent(k)
  BY DEF StartsInv
<1>3. starts' = starts /\ retries' = retries
  BY DEF Claim
<1>4. CASE k # j
  <2>1. Starting(k)' = Starting(k)
    BY <1>4, Bounds DEF Claim, Starting, TypeInv, JobTypeOK, Idle
  <2>2. Spent(k)' = Spent(k)
    BY <1>4 DEF Claim, Spent, TypeInv, JobTypeOK
  <2> QED BY <1>1, <1>2, <1>3, <2>1, <2>2
<1>5. CASE k = j
  <2>1. jobs'[j].attempts = jobs[j].attempts + 1
    BY Fields DEF Claim, TypeInv, JobTypeOK, JobRow
  <2>2. s \notin Starting(j)
    BY DEF Claim, Starting, Idle
  <2>3. CASE jobs[j].attempts + 1 <= MaxAttempts
    <3>1. Starting(j)' = Starting(j) \cup {s}
      BY <2>3 DEF Claim, Starting, TypeInv, JobTypeOK
    <3>2. Cardinality(Starting(j)') = Cardinality(Starting(j)) + 1
      BY <2>2, <3>1, StartingFinite, FS_AddElement
    <3>3. Spent(j)' = Spent(j) + 1
      BY <1>1, <1>5, <2>1, <2>3, Bounds DEF Spent
    <3> QED BY <1>1, <1>2, <1>3, <1>5, <3>2, <3>3
  <2>4. CASE ~(jobs[j].attempts + 1 <= MaxAttempts)
    <3>1. Starting(j)' = Starting(j)
      BY <2>2, <2>4 DEF Claim, Starting, TypeInv, JobTypeOK
    <3>2. Spent(j)' = Spent(j)
      BY <1>1, <1>5, <2>1, <2>4, Bounds DEF Spent
    <3> QED BY <1>1, <1>2, <1>3, <1>5, <3>1, <3>2
  <2> QED BY <2>3, <2>4
<1> QED BY <1>4, <1>5

\* Calling the handler turns a call about to be made into one made.
LEMMA StartStarts ==
  ASSUME TypeInv, StartsInv, NEW s \in Slot, Start(s)
  PROVE  StartsInv'
<1>0. PICK j \in Job : j = slots[s].job
  BY Fields DEF Start, At
<1>1. s \in Starting(j)
  BY <1>0 DEF Start, At, CanRun, Starting
<1>2. Starting(j)' = Starting(j) \ {s}
  BY <1>0 DEF Start, Starting, TypeInv, JobTypeOK, SlotState
<1>3. Cardinality(Starting(j)') = Cardinality(Starting(j)) - 1
  BY <1>1, <1>2, StartingFinite, FS_RemoveElement
<1>4. \A k \in Job \ {j} : Starting(k)' = Starting(k)
  BY <1>0 DEF Start, Starting, TypeInv, JobTypeOK, SlotState
<1>5. \A k \in Job : Spent(k)' = Spent(k)
  BY DEF Start, Spent
<1>6. /\ retries' = retries
      /\ starts' = [starts EXCEPT ![j] = @ + 1]
  BY <1>0 DEF Start
<1> SUFFICES ASSUME NEW k \in Job
             PROVE  (starts[k] + Cardinality(Starting(k))
                       <= MaxAttempts * retries[k] + Spent(k))'
  BY DEF StartsInv
<1>7. /\ starts[k] \in Nat /\ MaxAttempts * retries[k] \in Nat /\ Spent(k) \in Nat
      /\ Cardinality(Starting(k)) \in Nat /\ Cardinality(Starting(k)') \in Nat
  BY Rounds, SpentNat, StartingFinite DEF TypeInv, JobTypeOK
<1>8. starts[k] + Cardinality(Starting(k)) <= MaxAttempts * retries[k] + Spent(k)
  BY DEF StartsInv
<1>9. starts'[k] = IF k = j THEN starts[k] + 1 ELSE starts[k]
  BY <1>1, <1>6 DEF TypeInv, JobTypeOK
<1>10. Spent(k)' = Spent(k) /\ MaxAttempts * retries'[k] = MaxAttempts * retries[k]
  BY <1>5, <1>6
<1>11. Cardinality(Starting(k)')
         = IF k = j THEN Cardinality(Starting(k)) - 1 ELSE Cardinality(Starting(k))
  BY <1>3, <1>4
<1>12. starts'[k] + Cardinality(Starting(k)') = starts[k] + Cardinality(Starting(k))
  BY <1>7, <1>9, <1>11
<1> QED BY <1>8, <1>10, <1>12

\* A manual retry opens a round of attempts, closing the one before.
LEMMA RetryStarts ==
  ASSUME TypeInv, StartsInv, NEW j \in Job, Retry(j)
  PROVE  StartsInv'
<1> SUFFICES ASSUME NEW k \in Job
             PROVE  (starts[k] + Cardinality(Starting(k))
                       <= MaxAttempts * retries[k] + Spent(k))'
  BY DEF StartsInv
<1>1. /\ starts[k] \in Nat /\ MaxAttempts * retries[k] \in Nat /\ Spent(k) \in Nat
      /\ Cardinality(Starting(k)) \in Nat /\ retries[k] \in Nat
  BY Rounds, SpentNat, StartingFinite DEF TypeInv, JobTypeOK
<1>2. starts[k] + Cardinality(Starting(k)) <= MaxAttempts * retries[k] + Spent(k)
  BY DEF StartsInv
<1>3. starts' = starts /\ Starting(k)' = Starting(k)
  BY DEF Retry, Starting
<1>4. CASE k # j
  BY <1>1, <1>2, <1>3, <1>4 DEF Retry, Spent, TypeInv, JobTypeOK
<1>5. CASE k = j
  <2>1. MaxAttempts * retries'[k] = MaxAttempts * retries[k] + MaxAttempts
    BY <1>1, <1>5, Rounds DEF Retry, TypeInv, JobTypeOK
  <2>2. Spent(k) <= MaxAttempts
    BY Fields, Bounds DEF Spent
  <2>3. Spent(k)' \in Nat
    BY TypeStep, SpentNat, RowsTyped, Bounds, Fields DEF Spent, TypeInv, JobTypeOK, JobRow
  <2> QED BY <1>1, <1>2, <1>3, <2>1, <2>2, <2>3, Bounds
<1> QED BY <1>4, <1>5

\* Every other step neither claims nor calls.
LEMMA OtherStarts ==
  ASSUME TypeInv, StartsInv,
         \/ \E j \in Job : Enqueue(j) \/ Cancel(j) \/ BecomeDue(j) \/ LockExpires(j)
         \/ \E s \in Slot : Progress(s)
         \/ UNCHANGED vars
  PROVE  StartsInv'
<1>1. starts' = starts /\ retries' = retries /\ slots' = slots
  BY DEF Enqueue, Cancel, BecomeDue, LockExpires, Progress, vars
<1>2. \A j \in Job : jobs'[j].attempts = jobs[j].attempts
  <2>1. ASSUME NEW k \in Job,
               Enqueue(k) \/ Cancel(k) \/ BecomeDue(k) \/ LockExpires(k)
        PROVE  \A j \in Job : jobs'[j].attempts = jobs[j].attempts
    <3> USE Fields DEF TypeInv, JobTypeOK, JobRow
    <3>1. CASE Enqueue(k)
      <4>1. PICK due \in BOOLEAN :
              jobs' = [jobs EXCEPT ![k].status = "queued", ![k].due = due]
        BY <3>1 DEF Enqueue
      <4> QED BY <4>1
    <3>2. CASE Cancel(k)
      BY <3>2 DEF Cancel
    <3>3. CASE BecomeDue(k)
      BY <3>3 DEF BecomeDue
    <3>4. CASE LockExpires(k)
      BY <3>4 DEF LockExpires
    <3> QED BY <2>1, <3>1, <3>2, <3>3, <3>4
  <2>2. ASSUME NEW s \in Slot, Progress(s)
        PROVE  \A j \in Job : jobs'[j].attempts = jobs[j].attempts
    BY <2>2, Fields DEF Progress, Renewed, TypeInv, JobTypeOK, JobRow
  <2>3. CASE UNCHANGED vars
    BY <2>3 DEF vars
  <2> QED BY <2>1, <2>2, <2>3
<1>3. \A j \in Job : Starting(j)' \subseteq Starting(j)
  BY <1>1 DEF Starting
<1> QED BY <1>1, <1>2, <1>3, NoNewStart

LEMMA StartsStep ==
  ASSUME TypeInv, StartsInv, [Next]_vars PROVE StartsInv'
<1>1. CASE UNCHANGED vars
  BY <1>1, OtherStarts
<1>2. ASSUME NEW j \in Job,
             Enqueue(j) \/ Retry(j) \/ Cancel(j) \/ BecomeDue(j) \/ LockExpires(j)
      PROVE  StartsInv'
  BY <1>2, RetryStarts, OtherStarts
<1>3. ASSUME NEW s \in Slot,
             \/ \E j \in Job : Claim(s, j)
             \/ GiveUp(s) \/ Start(s) \/ Progress(s) \/ Complete(s)
             \/ Throw(s) \/ ThrowPermanent(s) \/ Crash(s)
      PROVE  StartsInv'
  BY <1>3, ClaimStarts, StartStarts, OtherStarts, RunsEnd, EndsStarts
<1> QED BY <1>1, <1>2, <1>3 DEF Next

\* However workers die, lose their locks or overlap, the handler of a job is
\* called at most maxAttempts times for the first request and for each retry.
THEOREM HandlerCallsBounded == Spec => []StartsBounded
<1>1. Init => StartsInv
  <2> SUFFICES ASSUME Init PROVE StartsInv
    OBVIOUS
  <2>1. \A j \in Job : Starting(j) = {}
    BY DEF Init, Starting, Idle
  <2> QED BY <2>1, FS_EmptySet, Rounds, Bounds DEF Init, StartsInv, Spent, NoRow
<1>2. TypeInv /\ StartsInv => StartsBounded
  <2> SUFFICES ASSUME TypeInv, StartsInv, NEW j \in Job
               PROVE  starts[j] <= MaxAttempts * (1 + retries[j])
    BY DEF StartsBounded
  <2>1. /\ starts[j] \in Nat /\ retries[j] \in Nat
        /\ MaxAttempts * retries[j] \in Nat /\ Cardinality(Starting(j)) \in Nat
        /\ MaxAttempts * (1 + retries[j]) = MaxAttempts * retries[j] + MaxAttempts
    BY Rounds, StartingFinite DEF TypeInv, JobTypeOK
  <2>2. Spent(j) \in Nat /\ Spent(j) <= MaxAttempts
    BY Fields, Bounds DEF Spent
  <2>3. starts[j] + Cardinality(Starting(j)) <= MaxAttempts * retries[j] + Spent(j)
    BY DEF StartsInv
  <2> QED BY <2>1, <2>2, <2>3, Bounds
<1>3. TypeInv /\ StartsInv /\ [Next]_vars => StartsInv'
  BY StartsStep
<1> QED BY <1>1, <1>2, <1>3, TypesHold, PTL DEF Spec

-----------------------------------------------------------------------------
(* One worker per job, while locks hold *)

\* A busy slot holds the lock of a running job, and no other slot has that job.
LockInv ==
  /\ OneRunPerJob
  /\ \A s \in Slot : slots[s] # Idle => /\ jobs[slots[s].job].status = "running"
                                        /\ jobs[slots[s].job].lock = "held"

\* Steps on a row nobody works on.
LEMMA UnworkedRows ==
  ASSUME TypeInv, LockInv, NEW j \in Job, ~Worked(j), Rewrites(j)
  PROVE  LockInv'
BY Fields DEF LockInv, OneRunPerJob, Worked, Rewrites, TypeInv, JobTypeOK

\* Users and the clock only touch such rows: they want another status, and the
\* lock of a job does not expire under a worker.
LEMMA RowsLocked ==
  ASSUME TypeInv, LockInv, LocksHold, NEW j \in Job,
         Enqueue(j) \/ Retry(j) \/ Cancel(j) \/ BecomeDue(j) \/ LockExpires(j)
  PROVE  ~Worked(j) /\ LockInv'
<1>1. jobs[j].status # "running" \/ (jobs[j].lock = "held" /\ ~Worked(j))
  BY DEF Enqueue, Retry, Cancel, BecomeDue, LockExpires
<1>2. ~Worked(j)
  BY <1>1, Fields DEF Worked, LockInv
<1> QED BY <1>2, RowsRewritten, UnworkedRows

\* A run that ends leaves the rows of the others alone.
LEMMA EndsLocked ==
  ASSUME TypeInv, LockInv, NEW s \in Slot, Ends(s) PROVE LockInv'
<1>1. \A t \in Slot : slots'[t] = IF t = s THEN Idle ELSE slots[t]
  BY DEF Ends, TypeInv, JobTypeOK
<1>2. \A t \in Slot \ {s} : slots[t] # Idle => jobs'[slots[t].job] = jobs[slots[t].job]
  BY Fields DEF LockInv, OneRunPerJob, Ends
<1>3. Idle.job \notin Job
  BY Bounds DEF Idle
<1> QED BY <1>1, <1>2, <1>3, Fields DEF LockInv, OneRunPerJob

\* A row that can be claimed is nobody's: queued, or running with its lock expired.
LEMMA ClaimLocked ==
  ASSUME TypeInv, LockInv, NEW s \in Slot, NEW j \in Job, Claim(s, j)
  PROVE  ~Worked(j) /\ LockInv'
<1>1. ~Worked(j)
  BY Fields DEF Worked, LockInv, Claim, Claimable
<1>2. /\ jobs'[j].status = "running" /\ jobs'[j].lock = "held"
      /\ \A k \in Job \ {j} : jobs'[k] = jobs[k]
  BY Fields DEF Claim, TypeInv, JobTypeOK, JobRow
<1>3. \A t \in Slot : slots'[t] =
        IF t = s THEN [job |-> j, attempt |-> jobs[j].attempts + 1, stage |-> "claimed"]
                 ELSE slots[t]
  BY DEF Claim, TypeInv, JobTypeOK
<1> QED BY <1>1, <1>2, <1>3, Fields DEF LockInv, OneRunPerJob, Worked

\* Calling the handler and reporting progress keep the lock.
LEMMA RunsLocked ==
  ASSUME TypeInv, LockInv, NEW s \in Slot, Start(s) \/ Progress(s)
  PROVE  LockInv'
<1>1. slots[s].job \in Job /\ slots[s] # Idle
  BY Fields DEF Start, Progress, At
<1>2. CASE Start(s)
  <2>1. \A t \in Slot : slots'[t].job = slots[t].job /\ (slots'[t] # Idle => slots[t] # Idle)
    BY <1>1, <1>2 DEF Start, TypeInv, JobTypeOK, SlotState
  <2> QED BY <1>1, <1>2, <2>1, Fields DEF Start, LockInv, OneRunPerJob
<1>3. CASE Progress(s)
  <2>1. \A k \in Job : /\ jobs'[k].status = jobs[k].status
                       /\ jobs'[k].lock = "held" \/ jobs'[k].lock = jobs[k].lock
    BY <1>1, <1>3, Fields DEF Progress, Renewed, TypeInv, JobTypeOK, JobRow
  <2> QED BY <1>3, <2>1, Fields DEF Progress, LockInv, OneRunPerJob
<1> QED BY <1>2, <1>3

LEMMA LockStep ==
  ASSUME TypeInv, LockInv, LocksHold, [Next]_vars PROVE LockInv'
<1>1. CASE UNCHANGED vars
  BY <1>1 DEF vars, LockInv, OneRunPerJob
<1>2. CASE Next
  BY <1>2, RowsLocked, ClaimLocked, RunsLocked, RunsEnd, EndsLocked DEF Next
<1> QED BY <1>1, <1>2

LEMMA LockInit == Init => LockInv
BY DEF Init, LockInv, OneRunPerJob

LEMMA LocksKept == ASSUME LocksHold PROVE Spec => []LockInv
<1>1. TypeInv /\ LockInv /\ [Next]_vars => LockInv'
  BY LockStep
<1> QED BY <1>1, LockInit, TypesHold, PTL DEF Spec

\* Without runs that outlive their lock, two workers never run the same job.
THEOREM OneWorkerPerJob ==
  ASSUME LocksHold
  PROVE  Spec => []OneRunPerJob
<1>1. LockInv => OneRunPerJob
  BY DEF LockInv
<1> QED BY <1>1, LocksKept, PTL

\* Without such runs, what a worker is busy with is running in the table: no
\* user and no other worker ended, cancelled or queued it meanwhile.
THEOREM WorkersRunTheirJobs ==
  ASSUME LocksHold
  PROVE  Spec => []WorkedJobsRun
<1>1. LockInv => WorkedJobsRun
  BY DEF LockInv, WorkedJobsRun
<1> QED BY <1>1, LocksKept, PTL

\* Without such runs, a job that completed or was cancelled never changes again:
\* a worker that is late has nothing to reopen it with.
THEOREM FinishedForGood ==
  ASSUME LocksHold
  PROVE  Spec => FinishedStays
<1> DEFINE Stays == \A j \in Job : jobs[j].status \in {"completed", "cancelled"}
                                     => jobs'[j].status = jobs[j].status
<1>1. ASSUME TypeInv, LockInv, [Next]_vars PROVE [Stays]_vars
  <2> SUFFICES ASSUME Next, NEW j \in Job,
                      jobs[j].status \in {"completed", "cancelled"}
               PROVE  jobs'[j] = jobs[j] \/ jobs'[j].status = jobs[j].status
    BY <1>1
  <2>1. ~Worked(j)
    BY <1>1, Fields DEF Worked, LockInv
  <2>2. ASSUME NEW k \in Job,
               Enqueue(k) \/ Retry(k) \/ Cancel(k) \/ BecomeDue(k) \/ LockExpires(k)
        PROVE  jobs'[j].status = jobs[j].status
    <3>1. CASE k # j
      BY <1>1, <2>2, <3>1, RowsRewritten DEF Rewrites, TypeInv, JobTypeOK
    <3>2. CASE k = j
      <4>1. LockExpires(j)
        BY <2>2, <3>2 DEF Enqueue, Retry, Cancel, BecomeDue
      <4> QED BY <1>1, <4>1, Fields DEF LockExpires, TypeInv, JobTypeOK, JobRow
    <3> QED BY <3>1, <3>2
  <2>3. ASSUME NEW s \in Slot, NEW k \in Job, Claim(s, k)
        PROVE  jobs'[j] = jobs[j]
    BY <1>1, <2>3 DEF Claim, Claimable, TypeInv, JobTypeOK
  <2>4. ASSUME NEW s \in Slot, Start(s) \/ Progress(s)
        PROVE  jobs'[j] = jobs[j]
    BY <1>1, <2>1, <2>4 DEF Start, Progress, Renewed, Worked, TypeInv, JobTypeOK
  <2>5. ASSUME NEW s \in Slot, Ends(s)
        PROVE  jobs'[j] = jobs[j]
    BY <2>1, <2>5 DEF Ends, Worked
  <2> QED BY <1>1, <2>2, <2>3, <2>4, <2>5, RunsEnd DEF Next
<1> QED BY <1>1, LockStep, LockInit, TypesHold, PTL DEF Spec, FinishedStays

-----------------------------------------------------------------------------
(***************************************************************************)
(* Imports: how often the rows of a file are applied.                      *)
(***************************************************************************)

\* The columns of the import are well formed.
ImportTypes ==
  /\ file \in [Job -> BOOLEAN]
  /\ applied \in [Job -> Nat]
  /\ late \in [Job -> Nat]
  /\ step \in [Slot -> Steps]

\* A slot is at a step of the handler exactly while it runs one.
StepsMatch == \A s \in Slot : step[s] # "none" <=> slots[s].stage = "handling"

\* What a handler knows of its own file and rows at each step.
StepKnows ==
  \A s \in Slot :
    /\ step[s] \in {"validate", "reject", "apply", "clean"} => file[slots[s].job]
    /\ step[s] \in {"clean", "done"} => applied[slots[s].job] > 0
    /\ step[s] = "done" => ~file[slots[s].job]

\* A job that was never enqueued applied nothing.
NewApplied == \A j \in Job : jobs[j].status = "none" => applied[j] = 0

ImportInv ==
  /\ ImportTypes /\ StepsMatch /\ StepKnows /\ NewApplied
  /\ AppliedOnce /\ CompletedImports /\ NoUploadAfterApply

\* Each step of the import is a step of the queue, or none of its business.
LEMMA ImportIsJob == ASSUME [ImportNext]_allVars PROVE [Next]_vars
<1>1. ASSUME NEW s \in Slot, Handle(s) PROVE Next \/ UNCHANGED vars
  BY <1>1 DEF Handle, ReadFile, Validate, RejectRows, Apply, Clean, CompleteImport,
              RefuseImport, FileGone, FailImport, Next
<1>2. ASSUME NEW s \in Slot, StartImport(s) \/ CrashImport(s) PROVE Next
  BY <1>2 DEF StartImport, CrashImport, Next
<1>3. ASSUME NEW j \in Job, EnqueueImport(j) \/ RetryImport(j) PROVE Next
  BY <1>3 DEF EnqueueImport, RetryImport, Next
<1>4. ASSUME Elsewhere PROVE Next
  BY <1>4 DEF Elsewhere, Next
<1> QED BY <1>1, <1>2, <1>3, <1>4 DEF ImportNext, allVars

\* An import is a run of the queue: what holds of the queue holds of imports.
THEOREM ImportSpecIsSpec == ImportSpec => Spec
<1>1. ImportInit => Init
  BY DEF ImportInit
<1> QED BY <1>1, ImportIsJob, PTL DEF ImportSpec, Spec

\* Rows come from a request, and are completed by their own worker.
LEMMA StatusSteps ==
  ASSUME TypeInv, [Next]_vars, NEW j \in Job
  PROVE  /\ jobs'[j].status = "none" => jobs[j].status = "none"
         /\ jobs'[j].status = "completed" =>
              \/ jobs[j].status = "completed"
              \/ \E s \in Slot : Complete(s) /\ slots[s].job = j
<1> DEFINE Kept(k) == \/ jobs'[k].status = jobs[k].status
                      \/ jobs'[k].status \notin {"none", "completed"}
<1>1. ASSUME NEW k \in Job,
             Enqueue(k) \/ Retry(k) \/ Cancel(k) \/ BecomeDue(k) \/ LockExpires(k)
      PROVE  Kept(j)
  <2> USE Fields DEF TypeInv, JobTypeOK, JobRow
  <2>1. CASE Enqueue(k)
    <3>1. PICK due \in BOOLEAN :
            jobs' = [jobs EXCEPT ![k].status = "queued", ![k].due = due]
      BY <2>1 DEF Enqueue
    <3> QED BY <3>1
  <2>2. CASE Retry(k)
    BY <2>2 DEF Retry
  <2>3. CASE Cancel(k)
    BY <2>3 DEF Cancel
  <2>4. CASE BecomeDue(k)
    BY <2>4 DEF BecomeDue
  <2>5. CASE LockExpires(k)
    BY <2>5 DEF LockExpires
  <2> QED BY <1>1, <2>1, <2>2, <2>3, <2>4, <2>5
<1>2. ASSUME NEW s \in Slot, NEW k \in Job, Claim(s, k) PROVE Kept(j)
  BY <1>2 DEF Claim, TypeInv, JobTypeOK, JobRow
<1>3. ASSUME NEW s \in Slot, Start(s) \/ Progress(s) \/ Crash(s) PROVE Kept(j)
  BY <1>3, Fields DEF Start, Progress, Renewed, Crash, TypeInv, JobTypeOK, JobRow
<1>4. ASSUME NEW s \in Slot, GiveUp(s) \/ Throw(s) \/ ThrowPermanent(s) PROVE Kept(j)
  <2>1. CASE GiveUp(s) \/ ThrowPermanent(s)
    BY <2>1 DEF GiveUp, ThrowPermanent, Finish, TypeInv, JobTypeOK, JobRow
  <2>2. CASE Throw(s)
    BY <2>2 DEF Throw, Finish, TypeInv, JobTypeOK, JobRow
  <2> QED BY <1>4, <2>1, <2>2
<1>5. ASSUME NEW s \in Slot, Complete(s)
      PROVE  IF slots[s].job = j THEN jobs'[j].status = "completed" ELSE Kept(j)
  BY <1>5 DEF Complete, Finish, TypeInv, JobTypeOK, JobRow
<1>6. CASE UNCHANGED vars
  BY <1>6 DEF vars
<1> QED BY <1>1, <1>2, <1>3, <1>4, <1>5, <1>6 DEF Next

-----------------------------------------------------------------------------
(* The invariant, step by step *)

\* What all the steps assume, and what a slot past its claim knows.
Before == TypeInv /\ LockInv /\ ImportInv

LEMMA AtStep ==
  ASSUME Before, NEW s \in Slot, step[s] # "none"
  PROVE  /\ slots[s].job \in Job
         /\ slots[s].stage = "handling"
         /\ jobs[slots[s].job].status = "running"
         /\ \A t \in Slot \ {s} : slots[t].job # slots[s].job
BY Fields, Bounds DEF Before, ImportInv, StepsMatch, LockInv, OneRunPerJob

LEMMA ImportFields ==
  ASSUME Before
  PROVE  /\ \A j \in Job : applied[j] \in Nat /\ late[j] \in Nat /\ file[j] \in BOOLEAN
         /\ \A s \in Slot : step[s] \in Steps
BY DEF Before, ImportInv, ImportTypes

\* Steps of the queue that are not the handler's.
LEMMA QueueKeeps ==
  ASSUME Before, Elsewhere, UNCHANGED importVars
  PROVE  ImportInv'
<1> DEFINE Kept == \A s \in Slot :
              /\ slots'[s].stage = "handling" <=> slots[s].stage = "handling"
              /\ step[s] # "none" => slots'[s].job = slots[s].job
<1>1. Kept
  <2>1. ASSUME NEW s \in Slot, NEW j \in Job, Claim(s, j)
        PROVE  Kept
    BY <2>1 DEF Claim, Before, ImportInv, StepsMatch, TypeInv, JobTypeOK, Idle
  <2>2. ASSUME NEW s \in Slot, GiveUp(s)
        PROVE  Kept
    BY <2>2 DEF GiveUp, Finish, At, Before, ImportInv, StepsMatch, TypeInv, JobTypeOK, Idle
  <2>3. ASSUME NEW j \in Job, Cancel(j) \/ BecomeDue(j) \/ LockExpires(j)
        PROVE  Kept
    BY <2>3 DEF Cancel, BecomeDue, LockExpires
  <2> QED BY <2>1, <2>2, <2>3 DEF Elsewhere
<1>2. \A j \in Job : /\ jobs'[j].status = "none" => jobs[j].status = "none"
                     /\ jobs'[j].status = "completed" => jobs[j].status = "completed"
  <2>1. [Next]_vars
    BY ImportIsJob DEF ImportNext
  <2>2. \A s \in Slot : ~Complete(s)
    <3>1. ASSUME NEW s \in Slot, Complete(s) PROVE FALSE
      <4>1. slots[s].stage = "handling" /\ slots'[s] = Idle
        BY <3>1 DEF Complete, At, Finish, Before, TypeInv, JobTypeOK
      <4> QED BY <1>1, <4>1 DEF Idle
    <3> QED BY <3>1
  <2> QED BY <2>1, <2>2, StatusSteps DEF Before
<1>3. /\ file' = file /\ applied' = applied /\ late' = late /\ step' = step
  BY DEF importVars
<1> QED BY <1>1, <1>2, <1>3 DEF Before, ImportInv, ImportTypes, StepsMatch, StepKnows,
           NewApplied, AppliedOnce, CompletedImports, NoUploadAfterApply

\* Uploading a file for a new job, which applied nothing yet.
LEMMA EnqueueKeeps ==
  ASSUME Before, NEW j \in Job, EnqueueImport(j)
  PROVE  ImportInv'
<1>1. PICK due \in BOOLEAN :
        jobs' = [jobs EXCEPT ![j].status = "queued", ![j].due = due]
  BY DEF EnqueueImport, Enqueue
<1>2. /\ jobs'[j].status = "queued" /\ \A k \in Job \ {j} : jobs'[k] = jobs[k]
  BY <1>1 DEF Before, TypeInv, JobTypeOK, JobRow
<1>3. /\ slots' = slots /\ applied' = applied /\ late' = late /\ step' = step
      /\ file' = [file EXCEPT ![j] = TRUE] /\ jobs[j].status = "none"
  BY DEF EnqueueImport, Enqueue
<1>4. \A s \in Slot : step[s] # "none" => slots[s].job # j
  BY <1>3, AtStep
<1>5. applied[j] = 0
  BY <1>3 DEF Before, ImportInv, NewApplied
<1>6. ImportTypes' /\ StepsMatch'
  BY <1>3 DEF Before, ImportInv, ImportTypes, StepsMatch
<1>7. StepKnows'
  BY <1>3, <1>4, AtStep DEF Before, ImportInv, ImportTypes, StepKnows
<1> QED BY <1>2, <1>3, <1>5, <1>6, <1>7, ImportFields
        DEF Before, ImportInv, ImportTypes, NewApplied, AppliedOnce, CompletedImports,
            NoUploadAfterApply

\* A manual retry leaves the file and the rows alone.
LEMMA RetryKeeps ==
  ASSUME Before, NEW j \in Job, RetryImport(j)
  PROVE  ImportInv'
<1>1. /\ jobs'[j].status = "queued" /\ \A k \in Job \ {j} : jobs'[k] = jobs[k]
  BY DEF RetryImport, Retry, Before, TypeInv, JobTypeOK, JobRow
<1>2. /\ slots' = slots /\ applied' = applied /\ late' = late
      /\ step' = step /\ file' = file
  BY DEF RetryImport, Retry
<1> QED BY <1>1, <1>2
        DEF Before, ImportInv, ImportTypes, StepsMatch, StepKnows, NewApplied,
            AppliedOnce, CompletedImports, NoUploadAfterApply

\* A handler that starts knows nothing yet.
LEMMA StartKeeps ==
  ASSUME Before, NEW s \in Slot, StartImport(s)
  PROVE  ImportInv'
<1>1. /\ \A t \in Slot : /\ slots'[t].job = slots[t].job
                         /\ t # s => slots'[t] = slots[t]
      /\ slots'[s].stage = "handling" /\ slots[s].stage = "claimed"
  BY DEF StartImport, Start, At, Before, TypeInv, JobTypeOK, SlotState
<1>2. /\ jobs' = jobs /\ file' = file /\ applied' = applied /\ late' = late
      /\ step' = [step EXCEPT ![s] = "read"]
  BY DEF StartImport, Start
<1>3. step[s] = "none"
  BY <1>1 DEF Before, ImportInv, StepsMatch
<1>4. \A t \in Slot : step'[t] = IF t = s THEN "read" ELSE step[t]
  BY <1>2 DEF Before, ImportInv, ImportTypes
<1>5. ImportTypes' /\ StepsMatch'
  BY <1>1, <1>2, <1>4 DEF Before, ImportInv, ImportTypes, StepsMatch, Steps
<1>6. StepKnows'
  BY <1>1, <1>2, <1>4 DEF Before, ImportInv, StepKnows
<1> QED BY <1>1, <1>2, <1>3, <1>4, <1>5, <1>6
        DEF Before, ImportInv, NewApplied, AppliedOnce, CompletedImports,
            NoUploadAfterApply

\* What the end of a run changes.  A fault between the commit and the deletion
\* of the file is counted, and a run completes only once both are done.
Leaves(s) ==
  /\ slots' = [slots EXCEPT ![s] = Idle]
  /\ step' = [step EXCEPT ![s] = "none"]
  /\ file' = file
  /\ applied' = applied
  /\ late' = late \/ (step[s] = "clean" /\ late' = [late EXCEPT ![slots[s].job] = @ + 1])
  /\ step[s] = "clean" => late' # late
  /\ Complete(s) => step[s] = "done"

\* Only Complete writes "completed", for the job of its slot.
LEMMA LeavesKeeps ==
  ASSUME Before, NEW s \in Slot, Leaves(s), [Next]_vars
  PROVE  ImportInv'
<1>1. \A t \in Slot : /\ slots'[t] = IF t = s THEN Idle ELSE slots[t]
                      /\ step'[t] = IF t = s THEN "none" ELSE step[t]
  BY DEF Leaves, Before, ImportInv, ImportTypes, TypeInv, JobTypeOK
<1>2. /\ file' = file /\ applied' = applied
      /\ late' \in [Job -> Nat]
      /\ \A j \in Job : late'[j] >= late[j]
      /\ step[s] = "clean" => late'[slots[s].job] = late[slots[s].job] + 1
  <2>1. step[s] = "clean" => slots[s].job \in Job
    BY AtStep
  <2> QED BY <2>1 DEF Leaves, Before, ImportInv, ImportTypes
<1>3. ImportTypes' /\ StepsMatch'
  <2>1. step' \in [Slot -> Steps]
    BY DEF Leaves, Before, ImportInv, ImportTypes, Steps
  <2>2. ImportTypes'
    BY <1>2, <2>1 DEF Before, ImportInv, ImportTypes
  <2>3. StepsMatch'
    BY <1>1 DEF Before, ImportInv, StepsMatch, Idle
  <2> QED BY <2>2, <2>3
<1>4. StepKnows'
  BY <1>1, <1>2 DEF Before, ImportInv, StepKnows
<1>5. NewApplied' /\ AppliedOnce'
  BY <1>2, StatusSteps, ImportFields DEF Before, ImportInv, NewApplied, AppliedOnce
<1>6. CompletedImports'
  <2> SUFFICES ASSUME NEW j \in Job, jobs'[j].status = "completed"
               PROVE  applied[j] > 0 /\ ~file[j]
    BY <1>2 DEF CompletedImports
  <2>1. CASE jobs[j].status = "completed"
    BY <2>1 DEF Before, ImportInv, CompletedImports
  <2>2. ASSUME NEW t \in Slot, Complete(t), slots[t].job = j
        PROVE  applied[j] > 0 /\ ~file[j]
    <3>1. slots'[t] = Idle /\ slots[t] # Idle
      BY <2>2 DEF Complete, Finish, At, Idle, Before, TypeInv, JobTypeOK
    <3>2. t = s
      BY <1>1, <3>1
    <3> QED BY <2>2, <3>2 DEF Leaves, Before, ImportInv, StepKnows
  <2> QED BY <2>1, <2>2, StatusSteps DEF Before
<1>7. NoUploadAfterApply'
  <2> SUFFICES ASSUME NEW j \in Job, applied[j] > late'[j], file[j]
               PROVE  \E t \in Slot : slots'[t].job = j /\ step'[t] = "clean"
    BY <1>2 DEF NoUploadAfterApply
  <2>1. applied[j] > late[j]
    BY <1>2, ImportFields
  <2>2. PICK t \in Slot : slots[t].job = j /\ step[t] = "clean"
    BY <2>1 DEF Before, ImportInv, NoUploadAfterApply
  <2>3. t # s
    <3> SUFFICES ASSUME t = s PROVE FALSE
      OBVIOUS
    <3>1. late'[j] = late[j] + 1 /\ applied[j] <= 1 + late[j]
      BY <1>2, <2>2 DEF Before, ImportInv, AppliedOnce
    <3> QED BY <3>1, ImportFields
  <2> QED BY <1>1, <2>2, <2>3
<1> QED BY <1>3, <1>4, <1>5, <1>6, <1>7 DEF ImportInv

\* Every way out of the handler is one of those.
LEMMA EndsLeave ==
  ASSUME Before, NEW s \in Slot,
         \/ CompleteImport(s) \/ RefuseImport(s) \/ FileGone(s)
         \/ FailImport(s) \/ CrashImport(s)
  PROVE  Leaves(s)
<1>1. slots' = [slots EXCEPT ![s] = Idle]
  <2>1. Complete(s) \/ ThrowPermanent(s) \/ Throw(s) \/ Crash(s)
    BY DEF CompleteImport, RefuseImport, FileGone, FailImport, CrashImport
  <2> QED BY <2>1, RunsEnd DEF Ends, Before
<1>2. /\ step' = [step EXCEPT ![s] = "none"] /\ file' = file /\ applied' = applied
  BY DEF CompleteImport, RefuseImport, FileGone, FailImport, CrashImport, Moves
<1>3. CASE CompleteImport(s)
  BY <1>1, <1>2, <1>3 DEF CompleteImport, Moves, Leaves
<1>4. CASE RefuseImport(s) \/ FileGone(s)
  <2>1. step[s] \in {"read", "validate", "rejected"} /\ late' = late
    BY <1>4 DEF RefuseImport, FileGone, Moves
  <2>2. ~Complete(s)
    <3>1. jobs'[slots[s].job].status = "failed"
      BY <1>4, <2>1, AtStep DEF RefuseImport, FileGone, ThrowPermanent, Finish,
                                Before, TypeInv, JobTypeOK, JobRow
    <3>2. Complete(s) => jobs'[slots[s].job].status = "completed"
      BY <2>1, AtStep DEF Complete, Finish, Before, TypeInv, JobTypeOK, JobRow
    <3> QED BY <3>1, <3>2
  <2> QED BY <1>1, <1>2, <2>1, <2>2 DEF Leaves
<1>5. CASE FailImport(s) \/ CrashImport(s)
  <2>1. /\ step[s] = "clean" => late' = [late EXCEPT ![slots[s].job] = @ + 1]
        /\ step[s] # "clean" => late' = late
    BY <1>5 DEF FailImport, CrashImport, Late
  <2>2. step[s] = "clean" => late' # late
    <3> SUFFICES ASSUME step[s] = "clean" PROVE late' # late
      OBVIOUS
    <3>1. slots[s].job \in Job
      BY AtStep
    <3>2. late'[slots[s].job] = late[slots[s].job] + 1
      BY <2>1, <3>1 DEF Before, ImportInv, ImportTypes
    <3> QED BY <3>1, <3>2, ImportFields
  <2>3. ~Complete(s)
    <3> SUFFICES ASSUME Complete(s) PROVE FALSE
      OBVIOUS
    <3>1. slots[s].stage = "handling"
      BY DEF Complete, At
    <3>2. slots[s].job \in Job /\ jobs[slots[s].job].status = "running"
      BY <3>1, Fields DEF Before, LockInv, Idle
    <3>3. jobs'[slots[s].job].status = "completed"
      BY <3>2 DEF Complete, Finish, Before, TypeInv, JobTypeOK, JobRow
    <3>4. CASE FailImport(s)
      BY <3>2, <3>3, <3>4 DEF FailImport, Throw, Finish, Before, TypeInv, JobTypeOK, JobRow
    <3>5. CASE CrashImport(s)
      BY <3>2, <3>3, <3>5 DEF CrashImport, Crash
    <3> QED BY <1>5, <3>4, <3>5
  <2> QED BY <1>1, <1>2, <2>1, <2>2, <2>3 DEF Leaves
<1> QED BY <1>3, <1>4, <1>5

\* The steps inside a handler: its slot stays where it is, and its job running.
LEMMA RunKeepsRows ==
  ASSUME Before, NEW s \in Slot,
         ReadFile(s) \/ Validate(s) \/ RejectRows(s) \/ Apply(s) \/ Clean(s)
  PROVE  /\ slots' = slots
         /\ \A j \in Job : jobs'[j].status = jobs[j].status
<1>1. Progress(s) \/ UNCHANGED vars
  BY DEF ReadFile, Validate, RejectRows, Apply, Clean
<1>2. CASE Progress(s)
  <2>1. slots[s].job \in Job
    BY <1>2, Fields DEF Progress, At, Before
  <2> QED BY <1>2, <2>1, Fields DEF Progress, Renewed, Before, TypeInv, JobTypeOK, JobRow
<1> QED BY <1>1, <1>2 DEF vars

\* Reading and validating: nothing but the step changes.
LEMMA ReadKeeps ==
  ASSUME Before, NEW s \in Slot, ReadFile(s) \/ Validate(s)
  PROVE  ImportInv'
<1>1. /\ slots' = slots /\ file' = file /\ applied' = applied /\ late' = late
      /\ \A j \in Job : jobs'[j].status = jobs[j].status
  BY RunKeepsRows DEF ReadFile, Validate
<1>2. /\ step[s] \in {"read", "validate"} /\ file[slots[s].job]
      /\ \E to \in {"validate", "apply", "reject"} : step' = [step EXCEPT ![s] = to]
  BY DEF ReadFile, Validate, Moves, Before, ImportInv, StepKnows
<1>3. PICK to \in {"validate", "apply", "reject"} :
        \A t \in Slot : step'[t] = IF t = s THEN to ELSE step[t]
  BY <1>2 DEF Before, ImportInv, ImportTypes
<1>4. ImportTypes' /\ StepsMatch' /\ StepKnows'
  BY <1>1, <1>2, <1>3 DEF Before, ImportInv, ImportTypes, StepsMatch, StepKnows, Steps
<1>5. NoUploadAfterApply'
  BY <1>1, <1>2, <1>3 DEF Before, ImportInv, NoUploadAfterApply
<1> QED BY <1>1, <1>4, <1>5
        DEF Before, ImportInv, NewApplied, AppliedOnce, CompletedImports

\* Applying: the file is still there, so the rows were never applied without a
\* fault, and no other worker is at it.
LEMMA ApplyKeeps ==
  ASSUME Before, NEW s \in Slot, Apply(s)
  PROVE  ImportInv'
<1>1. /\ step[s] = "apply" /\ step' = [step EXCEPT ![s] = "clean"]
      /\ applied' = [applied EXCEPT ![slots[s].job] = @ + 1]
      /\ file' = file /\ late' = late
  BY DEF Apply, Moves
<1>2. /\ slots' = slots
      /\ \A j \in Job : jobs'[j].status = jobs[j].status
  BY RunKeepsRows
<1>3. PICK j \in Job : j = slots[s].job
  BY <1>1, AtStep
<1>4. /\ file[j] /\ jobs[j].status = "running"
      /\ \A t \in Slot \ {s} : slots[t].job # j
  BY <1>1, <1>3, AtStep DEF Before, ImportInv, StepKnows
<1>5. applied[j] <= late[j]
  <2> SUFFICES ASSUME applied[j] > late[j] PROVE FALSE
    BY ImportFields
  <2>1. PICK t \in Slot : slots[t].job = j /\ step[t] = "clean"
    BY <1>4 DEF Before, ImportInv, NoUploadAfterApply
  <2> QED BY <1>1, <1>4, <2>1
<1>6. /\ \A t \in Slot : step'[t] = IF t = s THEN "clean" ELSE step[t]
      /\ \A k \in Job : applied'[k] = IF k = j THEN applied[j] + 1 ELSE applied[k]
  BY <1>1, <1>3 DEF Before, ImportInv, ImportTypes
<1>7. ImportTypes' /\ StepsMatch'
  BY <1>1, <1>2, <1>6 DEF Before, ImportInv, ImportTypes, StepsMatch, Steps
<1>8. StepKnows'
  BY <1>1, <1>2, <1>3, <1>4, <1>6, ImportFields DEF Before, ImportInv, StepKnows
<1>9. NewApplied' /\ CompletedImports'
  BY <1>1, <1>2, <1>4, <1>6 DEF Before, ImportInv, NewApplied, CompletedImports
<1>10. AppliedOnce'
  BY <1>1, <1>5, <1>6, ImportFields DEF Before, ImportInv, AppliedOnce
<1>11. NoUploadAfterApply'
  <2> SUFFICES ASSUME NEW k \in Job, applied'[k] > late[k], file[k]
               PROVE  \E t \in Slot : slots[t].job = k /\ step'[t] = "clean"
    BY <1>1, <1>2 DEF NoUploadAfterApply
  <2>1. CASE k = j
    BY <1>3, <1>6, <2>1
  <2>2. CASE k # j
    <3>1. PICK t \in Slot : slots[t].job = k /\ step[t] = "clean"
      BY <1>6, <2>2 DEF Before, ImportInv, NoUploadAfterApply
    <3> QED BY <1>6, <3>1
  <2> QED BY <2>1, <2>2
<1> QED BY <1>7, <1>8, <1>9, <1>10, <1>11 DEF ImportInv

\* Deleting the file, after the rows were applied or after they were rejected.
LEMMA DeleteKeeps ==
  ASSUME Before, NEW s \in Slot, RejectRows(s) \/ Clean(s)
  PROVE  ImportInv'
<1>1. \/ step[s] = "reject" /\ step' = [step EXCEPT ![s] = "rejected"]
      \/ step[s] = "clean" /\ step' = [step EXCEPT ![s] = "done"]
  BY DEF RejectRows, Clean, Moves
<1>2. /\ file' = [file EXCEPT ![slots[s].job] = FALSE]
      /\ applied' = applied /\ late' = late /\ slots' = slots /\ jobs' = jobs
  BY DEF RejectRows, Clean, Deleted, vars
<1>3. PICK j \in Job : j = slots[s].job
  BY <1>1, AtStep
<1>4. \A t \in Slot \ {s} : slots[t].job # j
  BY <1>1, <1>3, AtStep
<1>5. /\ \A k \in Job : file'[k] = IF k = j THEN FALSE ELSE file[k]
      /\ \A t \in Slot \ {s} : step'[t] = step[t]
      /\ \/ step'[s] = "rejected"
         \/ step'[s] = "done" /\ applied[j] > 0
  BY <1>1, <1>2, <1>3 DEF Before, ImportInv, ImportTypes, StepKnows
<1>6. ImportTypes'
  BY <1>1, <1>2 DEF Before, ImportInv, ImportTypes, Steps
<1>7. StepsMatch'
  BY <1>1, <1>2, <1>5 DEF Before, ImportInv, StepsMatch
<1>8. StepKnows'
  <2> SUFFICES ASSUME NEW t \in Slot
               PROVE  /\ step'[t] \in {"validate", "reject", "apply", "clean"}
                           => file'[slots[t].job]
                      /\ step'[t] \in {"clean", "done"} => applied[slots[t].job] > 0
                      /\ step'[t] = "done" => ~file'[slots[t].job]
    BY <1>2 DEF StepKnows
  <2>1. CASE t = s
    BY <1>3, <1>5, <2>1
  <2>2. CASE t # s
    <3>1. step'[t] = step[t] /\ slots[t].job # j
      BY <1>4, <1>5, <2>2
    <3>2. step[t] # "none" => slots[t].job \in Job
      BY AtStep
    <3> QED BY <1>5, <3>1, <3>2 DEF Before, ImportInv, StepKnows
  <2> QED BY <2>1, <2>2
<1>9. NoUploadAfterApply'
  <2> SUFFICES ASSUME NEW k \in Job, applied[k] > late[k], file'[k]
               PROVE  \E t \in Slot : slots[t].job = k /\ step'[t] = "clean"
    BY <1>2 DEF NoUploadAfterApply
  <2>1. PICK t \in Slot : slots[t].job = k /\ step[t] = "clean"
    BY <1>5 DEF Before, ImportInv, NoUploadAfterApply
  <2> QED BY <1>3, <1>5, <2>1
<1>10. NewApplied' /\ AppliedOnce' /\ CompletedImports'
  BY <1>2, <1>5 DEF Before, ImportInv, NewApplied, AppliedOnce, CompletedImports
<1> QED BY <1>6, <1>7, <1>8, <1>9, <1>10 DEF ImportInv

-----------------------------------------------------------------------------
LEMMA ImportStep ==
  ASSUME TypeInv, LockInv, ImportInv, [ImportNext]_allVars PROVE ImportInv'
<1> USE DEF Before
<1>1. CASE UNCHANGED allVars
  BY <1>1 DEF allVars, vars, importVars, ImportInv, ImportTypes, StepsMatch, StepKnows,
              NewApplied, AppliedOnce, CompletedImports, NoUploadAfterApply
<1>2. ASSUME NEW s \in Slot, Handle(s) PROVE ImportInv'
  BY <1>2, ReadKeeps, DeleteKeeps, ApplyKeeps, EndsLeave, LeavesKeeps, ImportIsJob
     DEF Handle
<1>3. ASSUME NEW s \in Slot, StartImport(s) \/ CrashImport(s) PROVE ImportInv'
  BY <1>3, StartKeeps, EndsLeave, LeavesKeeps, ImportIsJob
<1> QED BY <1>1, <1>2, <1>3, EnqueueKeeps, RetryKeeps, QueueKeeps DEF ImportNext

LEMMA ImportStart == ImportInit => ImportInv
BY DEF ImportInit, Init, ImportInv, ImportTypes, StepsMatch, StepKnows, NewApplied,
       AppliedOnce, CompletedImports, NoUploadAfterApply, Idle, NoRow, Steps

LEMMA ImportKept == ASSUME LocksHold PROVE ImportSpec => []ImportInv
<1>1. TypeInv /\ LockInv /\ ImportInv /\ [ImportNext]_allVars => ImportInv'
  BY ImportStep
<1> QED BY <1>1, ImportStart, LocksKept, TypesHold, ImportSpecIsSpec, PTL DEF ImportSpec

\* The jobs whose error asks for the file again are jobs, locks or not.
LEMMA GoneStep ==
  ASSUME TypeInv, gone \subseteq Job, [ImportNext]_allVars PROVE (gone \subseteq Job)'
<1>1. CASE gone' \subseteq gone
  BY <1>1
<1>2. ASSUME NEW s \in Slot, FileGone(s) PROVE gone' \subseteq Job
  <2>1. slots[s].job \in Job
    BY <1>2, Fields DEF FileGone, ThrowPermanent, At
  <2> QED BY <1>2, <2>1 DEF FileGone
<1>3. ASSUME NEW s \in Slot, Handle(s), ~FileGone(s) PROVE gone' = gone
  BY <1>3 DEF Handle, ReadFile, Validate, RejectRows, Apply, Clean, CompleteImport,
              RefuseImport, FailImport
<1>4. ASSUME NEW s \in Slot, StartImport(s) \/ CrashImport(s) PROVE gone' = gone
  BY <1>4 DEF StartImport, CrashImport
<1>5. ASSUME NEW j \in Job, EnqueueImport(j) \/ RetryImport(j) PROVE gone' \subseteq gone
  BY <1>5 DEF EnqueueImport, RetryImport
<1> QED BY <1>1, <1>2, <1>3, <1>4, <1>5 DEF ImportNext, allVars, importVars

\* Whichever job a slot names, one more is a number.
LEMMA OneMore ==
  ASSUME NEW f \in [Job -> Nat], NEW j
  PROVE  [f EXCEPT ![j] = @ + 1] \in [Job -> Nat]
<1> DEFINE g == [f EXCEPT ![j] = @ + 1]
<1>1. g = [k \in Job |-> IF k = j THEN f[k] + 1 ELSE f[k]]
  <2>1. DOMAIN f = Job
    OBVIOUS
  <2> QED BY <2>1, Zenon
<1>2. \A k \in Job : (IF k = j THEN f[k] + 1 ELSE f[k]) \in Nat
  OBVIOUS
<1> QED BY <1>1, <1>2

\* The columns of the import stay well formed, also if a run outlives its lock.
LEMMA ColumnsStep ==
  ASSUME ImportTypes, [ImportNext]_allVars PROVE ImportTypes'
<1> USE DEF ImportTypes
<1>1. CASE UNCHANGED importVars
  BY <1>1 DEF importVars
<1>2. ASSUME NEW j \in Job, EnqueueImport(j) \/ RetryImport(j) PROVE ImportTypes'
  BY <1>2 DEF EnqueueImport, RetryImport
<1>3. ASSUME NEW s \in Slot, NEW to \in Steps, Moves(s, step[s], to) PROVE step' \in [Slot -> Steps]
  BY <1>3 DEF Moves
<1>4. ASSUME NEW s \in Slot, Late(s) PROVE late' \in [Job -> Nat]
  <2>1. CASE late' = late
    BY <2>1
  <2>2. CASE late' = [late EXCEPT ![slots[s].job] = @ + 1]
    BY <2>2, OneMore
  <2> QED BY <1>4, <2>1, <2>2 DEF Late
<1>5. ASSUME NEW s \in Slot, StartImport(s) \/ Handle(s) \/ CrashImport(s)
      PROVE  step' \in [Slot -> Steps]
  <2>1. \A from, to : Moves(s, from, to) => Moves(s, step[s], to)
    BY DEF Moves
  <2>2. StartImport(s) => step' \in [Slot -> Steps]
    BY DEF StartImport, Steps
  <2>3. Handle(s) \/ CrashImport(s) => \E to \in Steps : Moves(s, step[s], to)
    BY <2>1 DEF Handle, ReadFile, Validate, RejectRows, Apply, Clean, CompleteImport, RefuseImport,
                FileGone, FailImport, CrashImport, Steps
  <2> QED BY <1>3, <1>5, <2>2, <2>3
<1>6. ASSUME NEW s \in Slot, StartImport(s) \/ Handle(s) \/ CrashImport(s)
      PROVE  file' \in [Job -> BOOLEAN] /\ applied' \in [Job -> Nat] /\ late' \in [Job -> Nat]
  <2>1. CASE FailImport(s) \/ CrashImport(s)
    BY <1>4, <2>1 DEF FailImport, CrashImport
  <2>2. CASE RejectRows(s) \/ Clean(s)
    BY <2>2 DEF RejectRows, Clean, Deleted
  <2>3. CASE Apply(s)
    BY <2>3, OneMore DEF Apply
  <2>4. CASE \/ StartImport(s) \/ ReadFile(s) \/ Validate(s)
             \/ CompleteImport(s) \/ RefuseImport(s) \/ FileGone(s)
    BY <2>4 DEF StartImport, ReadFile, Validate, CompleteImport, RefuseImport, FileGone
  <2> QED BY <1>6, <2>1, <2>2, <2>3, <2>4 DEF Handle
<1> QED BY <1>1, <1>2, <1>5, <1>6 DEF ImportNext, allVars

\* In every state an import can reach, its rows, its file and its step are well
\* formed, also if a run outlives its lock.
THEOREM ImportTypeCorrect == ImportSpec => []ImportTypeOK
<1> DEFINE Inv == ImportTypes /\ gone \subseteq Job
<1>1. ImportInit => Inv
  BY DEF ImportInit, ImportTypes, Steps
<1>2. TypeInv /\ Inv /\ [ImportNext]_allVars => Inv'
  BY GoneStep, ColumnsStep
<1>3. TypeInv /\ Inv => ImportTypeOK
  BY DEF TypeInv, ImportTypes, ImportTypeOK
<1> QED BY <1>1, <1>2, <1>3, TypesHold, ImportSpecIsSpec, PTL DEF ImportSpec

\* While locks hold, the rows of an import are applied once, and once more at
\* most per fault between the commit and the deletion of the file.
THEOREM ImportsAppliedOnce ==
  ASSUME LocksHold
  PROVE  ImportSpec => []AppliedOnce
<1>1. ImportInv => AppliedOnce
  BY DEF ImportInv
<1> QED BY <1>1, ImportKept, PTL

\* A completed import applied its rows and left no file in storage.
THEOREM CompletedImportsDone ==
  ASSUME LocksHold
  PROVE  ImportSpec => []CompletedImports
<1>1. ImportInv => CompletedImports
  BY DEF ImportInv
<1> QED BY <1>1, ImportKept, PTL

\* A file is left only to a job that may still need it: a retry never applies
\* again what was applied without a fault.
THEOREM NothingToApplyAgain ==
  ASSUME LocksHold
  PROVE  ImportSpec => []NoUploadAfterApply
<1>1. ImportInv => NoUploadAfterApply
  BY DEF ImportInv
<1> QED BY <1>1, ImportKept, PTL

===============================================================================
