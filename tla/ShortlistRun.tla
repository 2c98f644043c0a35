---------------------------- MODULE ShortlistRun ----------------------------
(***************************************************************************)
(* The AI live review of one user (AI/AiGlobalShortlistService.cs): its     *)
(* rows in the database, its entry in the in-memory progress store, and the *)
(* HTTP requests that work on them concurrently.  Every query of the        *)
(* service filters by the owner, so users do not interact and one user is   *)
(* enough.                                                                  *)
(*                                                                          *)
(* A request is a task.  Each task holds its own EF Core context: it loads  *)
(* a run row (`snap'), changes it in memory and later saves it.  No row of  *)
(* these tables carries a concurrency token and EF writes only the columns  *)
(* whose value differs from the loaded one, so a save is modelled column by *)
(* column (SaveRun, SaveItem).  One action is what happens between two      *)
(* awaits that another request can see.                                     *)
(*                                                                          *)
(* Left out: CompletedAtUtc, Summary, model and prompt names, token counts, *)
(* scores and texts (no branch of the service reads them), the delays and   *)
(* the retries inside one gateway call.                                     *)
(***************************************************************************)
EXTENDS Integers, FiniteSets

CONSTANTS
    Runs,               \* identifiers of the runs that may be created (a bound)
    Jobs,               \* the user's jobs with a description and a detail sync
    Tasks,              \* concurrent HTTP requests (a bound)
    None,               \* no run, no job
    MaxCandidateCount,  \* jobs per run; 0 when not configured: no cap
    FallbackPerItemCap, \* fallback scorings one ResumeAsync call may use
    AiDecisions,        \* the decisions the scores of the model classify to
    MaxRestarts,        \* process restarts (a bound)
    Faults              \* whether database errors and other exceptions occur

Decisions == {"Accepted", "Rejected", "NeedsReview"}

ASSUME ConstantsAssumption ==
    /\ None \notin Runs
    /\ None \notin Jobs
    /\ IsFiniteSet(Jobs)
    /\ MaxCandidateCount \in Nat
    /\ FallbackPerItemCap \in Nat
    /\ AiDecisions \subseteq Decisions
    /\ MaxRestarts \in Nat
    /\ Faults \in BOOLEAN

VARIABLES
    run,        \* run rows, by run id; status "Absent" when there is no row
    seq,        \* SequenceNumber of each job's candidate row in a run; 0: no row
    cstat,      \* Status of each job's candidate row in a run
    item,       \* item rows, by run and job; rank 0 when there is no row
    published,  \* runs with an entry in the in-memory progress store
    task,       \* what each request is doing
    restarts,   \* process restarts so far
    overlapped, \* history: runs that ever had two executors at once
    late        \* history: candidates decided since the run's cancellation
                \* was requested

vars == <<run, seq, cstat, item, published, task, restarts, overlapped, late>>
rows == <<run, seq, cstat, item, late>>

-----------------------------------------------------------------------------
(* Rows and task states *)

Active   == {"Pending", "Running"}
Terminal == {"Completed", "Failed", "Cancelled"}

Row == [status : Active \cup Terminal \cup {"Absent"}, cancel : BOOLEAN,
        count : Nat, processed : Nat, next : Nat,
        accepted : Nat, review : Nat, failed : Nat]

NoRow == [status |-> "Absent", cancel |-> FALSE, count |-> 0, processed |-> 0,
          next |-> 1, accepted |-> 0, review |-> 0, failed |-> 0]

CandidateStatus == Decisions \cup {"Pending"}

Item == [rank : Nat, decision : CandidateStatus, error : BOOLEAN]

NoItem == [rank |-> 0, decision |-> "Pending", error |-> FALSE]

Outcome == [decision : CandidateStatus, error : BOOLEAN]

NoOutcome == [decision |-> "Pending", error |-> FALSE]

\* Where a request stands: before the try block of ResumeAsync ...
Starting == {"recoverPoll", "recoverGenerate", "check", "select", "insert",
             "load", "start", "stop"}
\* ... about to publish to the progress store ...
Publishing == {"publishNew", "publishStop"}
\* ... or executing a run, from the save that makes it Running to the end.
Executing == {"announce", "loop", "pick", "evaluate", "save", "finish",
              "cancel", "abort"}

Task == [pc : Starting \cup Publishing \cup Executing \cup {"idle"},
         run : Runs \cup {None}, snap : Row, job : Jobs \cup {None},
         found : Item, outcome : Outcome, fallback : Nat,
         orphans : SUBSET Runs, asked : SUBSET Runs, plan : [Jobs -> Nat]]

Idle == [pc |-> "idle", run |-> None, snap |-> NoRow, job |-> None,
         found |-> NoItem, outcome |-> NoOutcome, fallback |-> 0,
         orphans |-> {}, asked |-> {}, plan |-> [j \in Jobs |-> 0]]

TypeOK ==
    /\ run \in [Runs -> Row]
    /\ seq \in [Runs -> [Jobs -> Nat]]
    /\ cstat \in [Runs -> [Jobs -> CandidateStatus]]
    /\ item \in [Runs -> [Jobs -> Item]]
    /\ published \in SUBSET Runs
    /\ task \in [Tasks -> Task]
    /\ restarts \in Nat
    /\ overlapped \in [Runs -> BOOLEAN]
    /\ late \in [Runs -> Nat]

-----------------------------------------------------------------------------
(* What EF Core writes *)

\* A column is written when its value differs from the one that was loaded.
Column(db, loaded, new) == IF new = loaded THEN db ELSE new

SaveRun(db, loaded, new) ==
    [status    |-> Column(db.status, loaded.status, new.status),
     cancel    |-> Column(db.cancel, loaded.cancel, new.cancel),
     count     |-> Column(db.count, loaded.count, new.count),
     processed |-> Column(db.processed, loaded.processed, new.processed),
     next      |-> Column(db.next, loaded.next, new.next),
     accepted  |-> Column(db.accepted, loaded.accepted, new.accepted),
     review    |-> Column(db.review, loaded.review, new.review),
     failed    |-> Column(db.failed, loaded.failed, new.failed)]

\* Mutant of SaveItem: a new item is not added to the context.
SaveItemNotAdded(db, loaded, new) == IF loaded.rank = 0 THEN db ELSE new

\* An item that was not found is inserted, one that was found is updated.
SaveItem(db, loaded, new) ==
    IF loaded.rank = 0
    THEN new
    ELSE [rank     |-> Column(db.rank, loaded.rank, new.rank),
          decision |-> Column(db.decision, loaded.decision, new.decision),
          error    |-> Column(db.error, loaded.error, new.error)]

\* Mutant of NextSequence: the checkpoint stays at the candidate.
SameSequence(s) == s

\* The checkpoint moves behind the candidate numbered s.
NextSequence(s) == s + 1

\* The run after the candidate numbered s was decided with outcome o.
Advance(row, s, o) ==
    [status    |-> row.status, cancel |-> row.cancel, count |-> row.count,
     processed |-> row.processed + 1,
     next      |-> NextSequence(s),
     accepted  |-> IF o.decision = "Accepted" THEN row.accepted + 1 ELSE row.accepted,
     review    |-> IF o.decision = "NeedsReview" THEN row.review + 1 ELSE row.review,
     failed    |-> IF o.error THEN row.failed + 1 ELSE row.failed]

\* The item of the candidate a task has decided: its rank is one more than
\* the number of candidates the task believes processed.
Decided(tk) == [rank |-> tk.snap.processed + 1, decision |-> tk.outcome.decision,
                error |-> tk.outcome.error]

\* The unique indexes (RunId, JobRecordId) and (RunId, Rank) refuse the save.
Conflict(tk) ==
    \/ tk.found.rank = 0 /\ item[tk.run][tk.job].rank # 0
    \/ /\ tk.found.rank # tk.snap.processed + 1
       /\ \E j \in Jobs \ {tk.job} : item[tk.run][j].rank = tk.snap.processed + 1

-----------------------------------------------------------------------------
(* Starting a run: GenerateAsync, and the recovery that precedes it *)

Init ==
    /\ run = [r \in Runs |-> NoRow]
    /\ seq = [r \in Runs |-> [j \in Jobs |-> 0]]
    /\ cstat = [r \in Runs |-> [j \in Jobs |-> "Pending"]]
    /\ item = [r \in Runs |-> [j \in Jobs |-> NoItem]]
    /\ published = {}
    /\ task = [t \in Tasks |-> Idle]
    /\ restarts = 0
    /\ overlapped = [r \in Runs |-> FALSE]
    /\ late = [r \in Runs |-> 0]

\* Active runs without an entry in the progress store: left by a process that
\* is gone, or so RecoverOrphanedActiveRunsAsync assumes.
Orphans == {r \in Runs : run[r].status \in Active /\ r \notin published}

\* The recovery has loaded the active runs and found these orphans; the ones
\* with a cancellation request keep it as it was loaded.
Recovering(pc) == [Idle EXCEPT !.pc = pc, !.orphans = Orphans,
                               !.asked = {r \in Orphans : run[r].cancel}]

GenerateRequest(t) ==
    /\ task[t].pc = "idle"
    /\ task' = [task EXCEPT ![t] =
                   Recovering(IF Orphans = {} THEN "check" ELSE "recoverGenerate")]
    /\ UNCHANGED <<rows, published, restarts, overlapped>>

\* GetRunAsync and GetLatestRunAsync (a page load, a progress poll) change
\* nothing but what the recovery changes.
Poll(t) ==
    /\ task[t].pc = "idle"
    /\ Orphans # {}
    /\ task' = [task EXCEPT ![t] = Recovering("recoverPoll")]
    /\ UNCHANGED <<rows, published, restarts, overlapped>>

RecoverOrphans(t) ==
    /\ task[t].pc \in {"recoverGenerate", "recoverPoll"}
    /\ run' = [r \in Runs |-> IF r \in task[t].orphans
                              THEN [run[r] EXCEPT !.status = "Cancelled",
                                       !.cancel = IF r \in task[t].asked THEN @ ELSE TRUE]
                              ELSE run[r]]
    /\ task' = [task EXCEPT ![t] = IF task[t].pc = "recoverPoll" THEN Idle
                                   ELSE [Idle EXCEPT !.pc = "check"]]
    /\ UNCHANGED <<seq, cstat, item, published, restarts, overlapped, late>>

\* 409 when the user has an active run.
GenerateCheck(t) ==
    /\ task[t].pc = "check"
    /\ task' = [task EXCEPT ![t] =
                   IF \E r \in Runs : run[r].status \in Active
                   THEN Idle ELSE [Idle EXCEPT !.pc = "select"]]
    /\ UNCHANGED <<rows, published, restarts, overlapped>>

Reviewed == {j \in Jobs : \E r \in Runs : item[r][j].rank # 0}

\* The ways to number the first k jobs of a pool; the order (by LinkedIn's
\* timestamps) is left open.
Numberings(pool, k) ==
    {p \in [Jobs -> 0..k] :
        /\ \A j \in Jobs : p[j] # 0 => j \in pool
        /\ \A i \in 1..k : \E j \in Jobs : p[j] = i
        /\ \A i, j \in Jobs : p[i] = p[j] /\ p[i] # 0 => i = j}

SnapshotSize(pool) ==
    IF MaxCandidateCount > 0 /\ MaxCandidateCount < Cardinality(pool)
    THEN MaxCandidateCount ELSE Cardinality(pool)

\* The bound on runs: an identifier is left for every run about to be saved.
SpareRun ==
    Cardinality({t \in Tasks : task[t].pc = "insert"})
        < Cardinality({r \in Runs : run[r].status = "Absent"})

\* SelectCandidatesAsync; 409 when no job is left to review.
GenerateSelect(t) ==
    /\ task[t].pc = "select"
    /\ LET pool == Jobs \ Reviewed IN
       IF pool = {}
       THEN task' = [task EXCEPT ![t] = Idle]
       ELSE /\ SpareRun
            /\ \E p \in Numberings(pool, SnapshotSize(pool)) :
                  task' = [task EXCEPT ![t] =
                     [Idle EXCEPT !.pc = "insert", !.plan = p,
                                  !.snap = [NoRow EXCEPT !.status = "Pending",
                                                         !.count = SnapshotSize(pool)]]]
    /\ UNCHANGED <<rows, published, restarts, overlapped>>

\* The run row and its candidate rows in one SaveChanges.
GenerateInsert(t) ==
    /\ task[t].pc = "insert"
    /\ \E r \in Runs :
        /\ run[r].status = "Absent"
        /\ run' = [run EXCEPT ![r] = task[t].snap]
        /\ seq' = [seq EXCEPT ![r] = task[t].plan]
        /\ task' = [task EXCEPT ![t] = [Idle EXCEPT !.pc = "publishNew", !.run = r]]
    /\ UNCHANGED <<cstat, item, published, restarts, overlapped, late>>

\* Append creates the run's entry in the progress store when there is none.
Publish(t) ==
    /\ task[t].pc \in {"publishNew", "publishStop", "announce"}
    /\ published' = published \cup {task[t].run}
    /\ task' = [task EXCEPT ![t] =
                   CASE task[t].pc = "publishNew"  -> [task[t] EXCEPT !.pc = "load"]
                     [] task[t].pc = "announce"    -> [task[t] EXCEPT !.pc = "loop"]
                     [] task[t].pc = "publishStop" -> Idle]
    /\ UNCHANGED <<rows, restarts, overlapped>>

-----------------------------------------------------------------------------
(* Executing a run: ResumeAsync *)

Load(t, r) ==
    /\ run[r].status # "Absent"
    /\ task' = [task EXCEPT ![t] =
                   IF run[r].status = "Completed" THEN Idle
                   ELSE [Idle EXCEPT !.pc = "start", !.run = r, !.snap = run[r]]]
    /\ UNCHANGED <<rows, published, restarts, overlapped>>

\* POST runs/{runId}/resume.
ResumeRequest(t, r) == task[t].pc = "idle" /\ Load(t, r)

\* GenerateAsync ends by resuming the run it created.
GenerateResume(t) == task[t].pc = "load" /\ Load(t, task[t].run)

Executors(r) == {t \in Tasks : task[t].pc \in Executing /\ task[t].run = r}

\* The run becomes Running whatever its state was, and a cancellation that
\* was pending when the run was loaded is cleared.
ResumeStart(t) ==
    LET r   == task[t].run
        new == [task[t].snap EXCEPT !.status = "Running", !.cancel = FALSE,
                                    !.next = IF task[t].snap.next < 1 THEN 1
                                             ELSE task[t].snap.next] IN
    /\ task[t].pc = "start"
    /\ run' = [run EXCEPT ![r] = SaveRun(run[r], task[t].snap, new)]
    /\ task' = [task EXCEPT ![t] = [task[t] EXCEPT !.pc = "announce", !.snap = new,
                                                   !.fallback = FallbackPerItemCap]]
    /\ overlapped' = [overlapped EXCEPT ![r] = @ \/ Executors(r) # {}]
    /\ late' = [late EXCEPT ![r] = IF task[t].snap.cancel THEN 0 ELSE @]
    /\ UNCHANGED <<seq, cstat, item, published, restarts>>

\* Mutant of AllProcessed: the loop stops one candidate early.
AllButOneProcessed(tk) == tk.snap.processed + 1 >= tk.snap.count

\* The condition that ends the loop.
AllProcessed(tk) == tk.snap.processed >= tk.snap.count

\* The run row as the database has it now.
Reloaded(tk) == run[tk.run]

\* The checkpoint at the head of the loop: reload the run, look for a
\* cancellation request.
Checkpoint(t) ==
    LET row == Reloaded(task[t]) IN
    /\ task[t].pc = "loop"
    /\ ~AllProcessed(task[t])
    /\ task' = [task EXCEPT ![t] =
                   [task[t] EXCEPT !.snap = row,
                                   !.pc = IF row.cancel THEN "cancel" ELSE "pick"]]
    /\ UNCHANGED <<rows, published, restarts, overlapped>>

\* Mutant of Open: neither the checkpoint nor the status is looked at.
OpenAlways(tk, j) == seq[tk.run][j] # 0

\* Job j is a Pending candidate at or after the run's NextSequenceNumber.
Open(tk, j) == seq[tk.run][j] >= tk.snap.next /\ cstat[tk.run][j] = "Pending"

\* The first of them.
NextPending(tk) ==
    {j \in Jobs : /\ Open(tk, j)
                  /\ \A i \in Jobs : Open(tk, i) => seq[tk.run][j] <= seq[tk.run][i]}

\* Mutant of PickCandidate: without a candidate the loop goes on.
PickCandidateOrLoop(t) ==
    /\ task[t].pc = "pick"
    /\ \/ \E j \in NextPending(task[t]) :
             task' = [task EXCEPT ![t] = [task[t] EXCEPT !.pc = "evaluate", !.job = j]]
       \/ /\ NextPending(task[t]) = {}
          /\ task' = [task EXCEPT ![t] = [task[t] EXCEPT !.pc = "loop"]]
    /\ UNCHANGED <<rows, published, restarts, overlapped>>

\* Without a candidate the loop ends.
PickCandidate(t) ==
    /\ task[t].pc = "pick"
    /\ \/ \E j \in NextPending(task[t]) :
             task' = [task EXCEPT ![t] = [task[t] EXCEPT !.pc = "evaluate", !.job = j]]
       \/ /\ NextPending(task[t]) = {}
          /\ task' = [task EXCEPT ![t] = [task[t] EXCEPT !.pc = "finish"]]
    /\ UNCHANGED <<rows, published, restarts, overlapped>>

\* The evaluation is in memory, and the item of this job in this run has been
\* looked up.
Evaluated(t, decision, error, fallbackLeft) ==
    task' = [task EXCEPT ![t] =
                [task[t] EXCEPT !.pc = "save", !.fallback = fallbackLeft,
                                !.outcome = [decision |-> decision, error |-> error],
                                !.found = item[task[t].run][task[t].job]]]

\* Mutant of MayFallBack: the cap on fallback scorings is ignored.
FallBackAlways(tk) == TRUE

\* Fallback scoring is allowed while the cap is not used up.
MayFallBack(tk) == tk.fallback > 0

\* EvaluateCandidateAsync, the long await of the loop: a ranking, a fallback
\* score (recorded with an error code) or nothing usable.
EvaluateCandidate(t) ==
    /\ task[t].pc = "evaluate"
    /\ \/ \E d \in AiDecisions : Evaluated(t, d, FALSE, task[t].fallback)
       \/ /\ MayFallBack(task[t])
          /\ \E d \in AiDecisions : Evaluated(t, d, TRUE, task[t].fallback - 1)
       \/ Evaluated(t, "NeedsReview", TRUE, task[t].fallback)
    /\ UNCHANGED <<rows, published, restarts, overlapped>>

\* One SaveChanges for the item, the candidate and the run whose loaded and
\* new columns are given.
SaveDecision(tk, new) ==
    /\ ~Conflict(tk)
    /\ run' = [run EXCEPT ![tk.run] = SaveRun(run[tk.run], tk.snap, new)]
    /\ item' = [item EXCEPT ![tk.run][tk.job] =
                   SaveItem(item[tk.run][tk.job], tk.found, Decided(tk))]
    /\ cstat' = [cstat EXCEPT ![tk.run][tk.job] = tk.outcome.decision]
    /\ late' = [late EXCEPT ![tk.run] = IF run[tk.run].cancel THEN @ + 1 ELSE @]
    /\ UNCHANGED seq

Advanced(tk) == Advance(tk.snap, seq[tk.run][tk.job], tk.outcome)

SaveCandidate(t) ==
    /\ task[t].pc = "save"
    /\ SaveDecision(task[t], Advanced(task[t]))
    /\ task' = [task EXCEPT ![t] =
                   [task[t] EXCEPT !.pc = "loop", !.snap = Advanced(task[t]),
                                   !.job = None, !.found = NoItem, !.outcome = NoOutcome]]
    /\ UNCHANGED <<published, restarts, overlapped>>

\* Only the run's status changes; the request then answers.
EndRun(t, status) ==
    /\ run' = [run EXCEPT ![task[t].run] =
                  SaveRun(@, task[t].snap, [task[t].snap EXCEPT !.status = status])]
    /\ task' = [task EXCEPT ![t] = Idle]
    /\ UNCHANGED <<seq, cstat, item, published, restarts, overlapped, late>>

CompleteRun(t) ==
    /\ \/ task[t].pc = "loop" /\ AllProcessed(task[t])
       \/ task[t].pc = "finish"
    /\ EndRun(t, "Completed")

MarkRunCancelled(t) ==
    /\ task[t].pc = "cancel"
    /\ EndRun(t, "Cancelled")

\* An exception in the try block.  The entities changed in memory (pc
\* "save") stay changed in the same context.
Abort(t) ==
    /\ task' = [task EXCEPT ![t] =
                   IF task[t].pc = "save" THEN [task[t] EXCEPT !.pc = "abort"]
                   ELSE [task[t] EXCEPT !.pc = "abort", !.job = None]]
    /\ UNCHANGED <<rows, published, restarts, overlapped>>

SaveRefused(t) ==
    /\ task[t].pc = "save"
    /\ Conflict(task[t])
    /\ Abort(t)

\* A database error, or any other exception.
ExecutionFails(t) ==
    /\ Faults
    /\ task[t].pc \in Executing \ {"announce", "abort"}
    /\ Abort(t)

\* The catch block saves the Failed status together with whatever was still
\* unsaved in the context.
PersistFailed(t) ==
    /\ task[t].pc = "abort"
    /\ IF task[t].job = None
       THEN EndRun(t, "Failed")
       ELSE /\ SaveDecision(task[t], [Advanced(task[t]) EXCEPT !.status = "Failed"])
            /\ task' = [task EXCEPT ![t] = Idle]
            /\ UNCHANGED <<published, restarts, overlapped>>

\* That save fails too, which nothing but the log records.
PersistFailedFails(t) ==
    /\ task[t].pc = "abort"
    /\ Faults \/ (task[t].job # None /\ Conflict(task[t]))
    /\ task' = [task EXCEPT ![t] = Idle]
    /\ UNCHANGED <<rows, published, restarts, overlapped>>

-----------------------------------------------------------------------------
(* Cancelling a run, requests that end early, restarts *)

\* RequestCancelAsync loads the run; a terminal run is left alone.
CancelRequest(t, r) ==
    /\ task[t].pc = "idle"
    /\ run[r].status \in Active
    /\ task' = [task EXCEPT ![t] = [Idle EXCEPT !.pc = "stop", !.run = r]]
    /\ UNCHANGED <<rows, published, restarts, overlapped>>

\* The time stamp is new, so the column is always written.
CancelSave(t) ==
    /\ task[t].pc = "stop"
    /\ run' = [run EXCEPT ![task[t].run].cancel = TRUE]
    /\ task' = [task EXCEPT ![t] = [task[t] EXCEPT !.pc = "publishStop"]]
    /\ UNCHANGED <<seq, cstat, item, published, restarts, overlapped, late>>

\* The AI service is not ready (503): the request ends, and the run that
\* GenerateAsync has just saved stays Pending.
NotReady(t) ==
    /\ task[t].pc \in {"select", "start"}
    /\ task' = [task EXCEPT ![t] = Idle]
    /\ UNCHANGED <<rows, published, restarts, overlapped>>

\* An exception outside the try block (500); what was saved so far stays.
RequestFails(t) ==
    /\ Faults
    /\ task[t].pc \in Starting
    /\ task' = [task EXCEPT ![t] = Idle]
    /\ UNCHANGED <<rows, published, restarts, overlapped>>

\* The process stops and starts again: requests and progress store are gone.
Restart ==
    /\ restarts < MaxRestarts
    /\ restarts' = restarts + 1
    /\ published' = {}
    /\ task' = [t \in Tasks |-> Idle]
    /\ UNCHANGED <<rows, overlapped>>

-----------------------------------------------------------------------------

\* What a request does once it has begun.
Step(t) ==
    \/ RecoverOrphans(t) \/ GenerateCheck(t) \/ GenerateSelect(t) \/ GenerateInsert(t)
    \/ Publish(t) \/ GenerateResume(t) \/ ResumeStart(t)
    \/ Checkpoint(t) \/ PickCandidate(t) \/ EvaluateCandidate(t)
    \/ SaveCandidate(t) \/ SaveRefused(t)
    \/ CompleteRun(t) \/ MarkRunCancelled(t) \/ PersistFailed(t) \/ PersistFailedFails(t)
    \/ CancelSave(t)

\* What the user's browsers do.
Arrive(t) ==
    \/ GenerateRequest(t) \/ Poll(t)
    \/ \E r \in Runs : ResumeRequest(t, r) \/ CancelRequest(t, r)

Fail(t) == ExecutionFails(t) \/ NotReady(t) \/ RequestFails(t)

Next ==
    \/ \E t \in Tasks : Arrive(t) \/ Step(t) \/ Fail(t)
    \/ Restart

Spec == Init /\ [][Next]_vars

\* A request that has begun goes on: the server keeps running it even when the
\* browser is gone (Start and Resume pass CancellationToken.None).
FairSpec == Spec /\ \A t \in Tasks : WF_vars(Step(t))

-----------------------------------------------------------------------------
(* Properties *)

Candidates(r) == {j \in Jobs : seq[r][j] # 0}

\* Whatever requests overlap, a candidate has a decision exactly when the run
\* has an item for its job: the two are saved together and never taken back.
DecisionsRecorded ==
    \A r \in Runs, j \in Jobs :
        /\ cstat[r][j] \in Decisions <=> item[r][j].rank # 0
        /\ item[r][j].rank # 0 => j \in Candidates(r) /\ item[r][j].rank <= run[r].count

\* Whatever requests overlap and however stale the values an executor writes
\* back, the counter and the checkpoint of a run stay within its snapshot and
\* never claim more processed candidates than lie before the checkpoint.
CheckpointInSnapshot ==
    \A r \in Runs : run[r].processed < run[r].next /\ run[r].next <= run[r].count + 1

\* While a run has had one executor at a time, its checkpoint is exact: the
\* candidates before NextSequenceNumber are the decided ones, each recorded
\* with its own sequence number as rank and its own decision, and
\* ProcessedCount counts them, through failures, cancellations and restarts.
CheckpointExact ==
    \A r \in Runs : ~overlapped[r] =>
        /\ run[r].next = run[r].processed + 1
        /\ \A j \in Candidates(r) :
              /\ cstat[r][j] \in Decisions <=> seq[r][j] < run[r].next
              /\ cstat[r][j] \in Decisions => /\ item[r][j].rank = seq[r][j]
                                              /\ item[r][j].decision = cstat[r][j]

\* While a run has had one executor at a time, the totals in its row are the
\* totals of its items.
TotalsExact ==
    \A r \in Runs : ~overlapped[r] =>
        /\ run[r].accepted = Cardinality({j \in Jobs : item[r][j].decision = "Accepted"})
        /\ run[r].review   = Cardinality({j \in Jobs : item[r][j].decision = "NeedsReview"})
        /\ run[r].failed   = Cardinality({j \in Jobs : item[r][j].error})

\* A run that had one executor at a time is Completed only when every
\* candidate of its snapshot has been reviewed.
CompletedIsReviewed ==
    \A r \in Runs : run[r].status = "Completed" /\ ~overlapped[r] =>
        \A j \in Candidates(r) : item[r][j].rank # 0

\* A stop request takes effect at the next checkpoint: the only executor of
\* the run decides at most the candidate it was evaluating.
StopsAtCheckpoint ==
    \A r \in Runs : run[r].cancel /\ ~overlapped[r] => late[r] <= 1

\* What holds of a run while it has one executor at a time: its checkpoint, its
\* totals, its completion and its stop.
SoleExecutorIsExact ==
    CheckpointExact /\ TotalsExact /\ CompletedIsReviewed /\ StopsAtCheckpoint

\* A decision is never undone, and while the run has one executor at a time
\* it is never changed either: a resume continues behind what was decided.
DecisionsFinal ==
    [][\A r \in Runs, j \in Jobs : item[r][j].rank # 0 =>
           /\ item'[r][j].rank # 0 /\ cstat'[r][j] \in Decisions
           /\ ~overlapped'[r] => item'[r][j] = item[r][j]]_vars

\* Every execution of a run comes to its end, even when another executor of
\* the same run keeps moving the checkpoint under it.
ExecutionEnds ==
    \A t \in Tasks : task[t].pc \in Executing ~> task[t].pc = "idle"

-----------------------------------------------------------------------------
(* The inductive invariant of the safety proofs *)

\* p numbers some jobs 1..n, each number once.
Numbers(p, n) ==
    /\ \A j \in Jobs : p[j] <= n
    /\ \A i \in 1..n : \E j \in Jobs : p[j] = i
    /\ \A i, j \in Jobs : p[i] = p[j] /\ p[i] # 0 => i = j

\* The rows of a run fit together.
RowsInv ==
    \A r \in Runs :
        /\ run[r].status = "Absent" => run[r] = NoRow
        /\ Numbers(seq[r], run[r].count)
        /\ run[r].processed < run[r].next /\ run[r].next <= run[r].count + 1
        /\ \A j \in Jobs :
              /\ cstat[r][j] \in Decisions <=> item[r][j].rank # 0
              /\ item[r][j].rank # 0 => seq[r][j] # 0
              /\ item[r][j].rank <= run[r].count

\* A task has a decision in memory that it has not saved.
Unsaved(tk) == tk.pc = "save" \/ (tk.pc = "abort" /\ tk.job # None)

\* What a task holds in memory fits the rows it was read from.
TaskOK(tk) ==
    /\ tk.pc = "insert" => /\ Numbers(tk.plan, tk.snap.count)
                           /\ tk.snap = [NoRow EXCEPT !.status = "Pending",
                                                      !.count = tk.snap.count]
    /\ \A r \in tk.orphans : run[r].status # "Absent"
    /\ tk.pc \in Publishing \cup Executing \cup {"load", "start", "stop"} =>
          /\ tk.run \in Runs
          /\ run[tk.run].status # "Absent"
    /\ tk.pc \in Executing \cup {"start"} =>
          /\ tk.snap.status # "Absent"
          /\ tk.snap.count = run[tk.run].count
          /\ tk.snap.processed < tk.snap.next
          /\ tk.snap.next <= tk.snap.count + 1
    /\ tk.pc = "evaluate" \/ Unsaved(tk) =>
          /\ tk.job \in Jobs
          /\ seq[tk.run][tk.job] >= tk.snap.next
    /\ Unsaved(tk) =>
          /\ tk.outcome.decision \in Decisions
          /\ tk.found.rank # 0 => item[tk.run][tk.job].rank # 0

TasksInv == \A t \in Tasks : TaskOK(task[t])

\* A candidate without an item has nothing recorded, and nothing counts as
\* late when no stop is requested.
TraceInv ==
    \A r \in Runs :
        /\ ~run[r].cancel => late[r] = 0
        /\ \A j \in Jobs : item[r][j].rank = 0 => item[r][j] = NoItem

\* The row of a run and its items say the same.
ExactRow(r) ==
    /\ run[r].next = run[r].processed + 1
    /\ \A j \in Jobs :
          /\ cstat[r][j] \in Decisions <=> seq[r][j] # 0 /\ seq[r][j] < run[r].next
          /\ cstat[r][j] \in Decisions => /\ item[r][j].rank = seq[r][j]
                                          /\ item[r][j].decision = cstat[r][j]
    /\ run[r].accepted = Cardinality({j \in Jobs : item[r][j].decision = "Accepted"})
    /\ run[r].review   = Cardinality({j \in Jobs : item[r][j].decision = "NeedsReview"})
    /\ run[r].failed   = Cardinality({j \in Jobs : item[r][j].error})
    /\ run[r].status = "Completed" => run[r].processed = run[r].count
    /\ late[r] <= 1

\* A task is between the checkpoint that let it go on and the save.
Deciding(tk) == tk.pc \in {"pick", "evaluate"} \/ Unsaved(tk)

\* What a task that loaded run r knows of its row: never more than there is,
\* and all of it from the checkpoint to the save, where the candidate is the
\* one the checkpoint names and no earlier one was decided late.
SnapFits(tk, r) ==
    /\ tk.snap.processed <= run[r].processed
    /\ tk.pc = "finish" => run[r].processed = run[r].count
    /\ Deciding(tk) =>
          /\ late[r] = 0
          /\ tk.snap.processed = run[r].processed /\ tk.snap.next = run[r].next
          /\ tk.snap.accepted = run[r].accepted /\ tk.snap.review = run[r].review
          /\ tk.snap.failed = run[r].failed
    /\ tk.pc = "evaluate" \/ Unsaved(tk) => seq[r][tk.job] = run[r].next

\* A run that never had two executors at once has none or one, its row is
\* exact, and the tasks that loaded it fit.
SoleRun(r) ==
    /\ ExactRow(r)
    /\ \A s, t \in Executors(r) : s = t
    /\ \A t \in Tasks : task[t].run = r /\ task[t].pc \in Executing \cup {"start"}
                        => SnapFits(task[t], r)

SoleInv == \A r \in Runs : ~overlapped[r] => SoleRun(r)

-----------------------------------------------------------------------------
(* What the documentation says and the code does not keep *)

\* "Processing is strict sequential (concurrency=1)": a run never has two
\* executors.
OneExecutorPerRun == \A r \in Runs : Cardinality(Executors(r)) <= 1

\* "Stop or finish that run before starting a new one": a user never has two
\* active runs.
OneActiveRun == Cardinality({r \in Runs : run[r].status \in Active}) <= 1

\* "Cancellation is requested and run stops at next checkpoint": an active run
\* with a cancellation request stops, unless a resume clears the request.
CancelTakesEffect ==
    \A r \in Runs : run[r].status \in Active /\ run[r].cancel
                    ~> run[r].status \notin Active \/ ~run[r].cancel

=============================================================================
