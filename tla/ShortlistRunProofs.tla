------------------------- MODULE ShortlistRunProofs -------------------------
(***************************************************************************)
(* Proofs about ShortlistRun, for every set of runs, jobs and requests and  *)
(* every configuration: type correctness, then the invariants of the rows,  *)
(* then those of a run that has one executor at a time.                     *)
(***************************************************************************)
EXTENDS ShortlistRun, FiniteSetTheorems, TLAPS

-----------------------------------------------------------------------------
(* Types of the operators *)

LEMMA IdleType == Idle \in Task /\ NoRow \in Row /\ NoItem \in Item
BY ConstantsAssumption DEF Idle, Task, NoRow, Row, NoItem, Item, NoOutcome, Outcome,
   CandidateStatus, Active, Terminal

\* What a recovery holds in memory.
LEMMA RecoveringOK ==
    ASSUME NEW pc \in {"check", "recoverGenerate", "recoverPoll"}
    PROVE  /\ Recovering(pc) \in Task
           /\ Recovering(pc).pc = pc /\ Recovering(pc).orphans = Orphans
<1>1. Orphans \in SUBSET Runs /\ {r \in Orphans : run[r].cancel} \in SUBSET Runs
  BY DEF Orphans
<1> QED BY <1>1, IdleType DEF Recovering, Task, Starting

LEMMA SaveRunType ==
    ASSUME NEW db \in Row, NEW loaded \in Row, NEW new \in Row
    PROVE  SaveRun(db, loaded, new) \in Row
BY DEF SaveRun, Column, Row

LEMMA SaveItemType ==
    ASSUME NEW db \in Item, NEW loaded \in Item, NEW new \in Item
    PROVE  SaveItem(db, loaded, new) \in Item
BY DEF SaveItem, Column, Item

LEMMA AdvanceType ==
    ASSUME NEW row \in Row, NEW s \in Nat, NEW o \in Outcome
    PROVE  Advance(row, s, o) \in Row
BY DEF Advance, NextSequence, Row, Outcome

LEMMA DecidedType ==
    ASSUME NEW tk \in Task
    PROVE  Decided(tk) \in Item
BY DEF Decided, Task, Item, Row, Outcome

LEMMA SnapshotSizeType ==
    ASSUME NEW pool \in SUBSET Jobs
    PROVE  SnapshotSize(pool) \in Nat
<1>1. Cardinality(pool) \in Nat
  BY ConstantsAssumption, FS_Subset, FS_CardinalityType
<1> QED BY <1>1, ConstantsAssumption DEF SnapshotSize

LEMMA NumberingsType ==
    ASSUME NEW pool \in SUBSET Jobs, NEW k \in Nat, NEW p \in Numberings(pool, k)
    PROVE  p \in [Jobs -> Nat] /\ Numbers(p, k)
BY DEF Numberings, Numbers

-----------------------------------------------------------------------------
(* Type correctness *)

\* The only requests that change a run row replace it by what SaveRun yields.
LEMMA EndRunType ==
    ASSUME TypeOK, NEW t \in Tasks, task[t].run \in Runs,
           NEW status \in Active \cup Terminal, EndRun(t, status)
    PROVE  TypeOK'
<1> DEFINE r   == task[t].run
           new == [task[t].snap EXCEPT !.status = status]
<1>1. task[t].snap \in Row /\ run[r] \in Row
  BY DEF TypeOK, Task
<1>2. new \in Row
  BY <1>1 DEF Row
<1>3. SaveRun(run[r], task[t].snap, new) \in Row
  BY <1>1, <1>2, SaveRunType
<1>4. run' \in [Runs -> Row]
  BY <1>3 DEF EndRun, TypeOK
<1> QED BY <1>4, IdleType DEF EndRun, TypeOK

LEMMA SaveDecisionType ==
    ASSUME TypeOK, NEW t \in Tasks, task[t].run \in Runs, task[t].job \in Jobs,
           NEW new \in Row, SaveDecision(task[t], new)
    PROVE  /\ run' \in [Runs -> Row]
           /\ seq' \in [Runs -> [Jobs -> Nat]]
           /\ cstat' \in [Runs -> [Jobs -> CandidateStatus]]
           /\ item' \in [Runs -> [Jobs -> Item]]
           /\ late' \in [Runs -> Nat]
<1> DEFINE r == task[t].run
           j == task[t].job
<1>1. /\ task[t] \in Task /\ task[t].snap \in Row /\ run[r] \in Row
      /\ task[t].found \in Item /\ item[r][j] \in Item
      /\ task[t].outcome.decision \in CandidateStatus
  BY DEF TypeOK, Task, Outcome
<1>2. SaveRun(run[r], task[t].snap, new) \in Row
  BY <1>1, SaveRunType
<1>3. SaveItem(item[r][j], task[t].found, Decided(task[t])) \in Item
  BY <1>1, SaveItemType, DecidedType
<1>4. run' \in [Runs -> Row]
  BY <1>2 DEF SaveDecision, TypeOK
<1>5. item' \in [Runs -> [Jobs -> Item]]
  BY <1>3 DEF SaveDecision, TypeOK
<1>6. cstat' \in [Runs -> [Jobs -> CandidateStatus]]
  BY <1>1 DEF SaveDecision, TypeOK
<1>7. late' \in [Runs -> Nat]
  BY DEF SaveDecision, TypeOK
<1> QED BY <1>4, <1>5, <1>6, <1>7 DEF SaveDecision, TypeOK

LEMMA AdvancedType ==
    ASSUME TypeOK, NEW t \in Tasks, task[t].run \in Runs, task[t].job \in Jobs
    PROVE  /\ Advanced(task[t]) \in Row
           /\ [Advanced(task[t]) EXCEPT !.status = "Failed"] \in Row
<1>1. /\ task[t].snap \in Row /\ task[t].outcome \in Outcome
      /\ seq[task[t].run][task[t].job] \in Nat
  BY DEF TypeOK, Task
<1>2. Advanced(task[t]) \in Row
  BY <1>1, AdvanceType DEF Advanced
<1> QED BY <1>2 DEF Row, Terminal

\* The three disjuncts of EvaluateCandidate, as one.
LEMMA EvaluatedCases ==
    ASSUME TypeOK, NEW t \in Tasks, EvaluateCandidate(t)
    PROVE  \E d \in Decisions, e \in BOOLEAN, n \in Nat : Evaluated(t, d, e, n)
<1>1. task[t].fallback \in Nat
  BY DEF TypeOK, Task
<1>2. ASSUME NEW d \in AiDecisions, Evaluated(t, d, FALSE, task[t].fallback)
      PROVE  \E dd \in Decisions, e \in BOOLEAN, n \in Nat : Evaluated(t, dd, e, n)
  <2>1. d \in Decisions
    BY ConstantsAssumption
  <2> QED BY <1>1, <1>2, <2>1, Zenon
<1>3. ASSUME NEW d \in AiDecisions, MayFallBack(task[t]),
             Evaluated(t, d, TRUE, task[t].fallback - 1)
      PROVE  \E dd \in Decisions, e \in BOOLEAN, n \in Nat : Evaluated(t, dd, e, n)
  <2>1. d \in Decisions
    BY ConstantsAssumption
  <2>2. task[t].fallback - 1 \in Nat
    BY <1>1, <1>3 DEF MayFallBack
  <2> QED BY <1>3, <2>1, <2>2, Zenon
<1>4. ASSUME Evaluated(t, "NeedsReview", TRUE, task[t].fallback)
      PROVE  \E dd \in Decisions, e \in BOOLEAN, n \in Nat : Evaluated(t, dd, e, n)
  <2>1. "NeedsReview" \in Decisions
    BY DEF Decisions
  <2> QED BY <1>1, <1>4, <2>1, Zenon
<1> QED BY <1>2, <1>3, <1>4, Zenon DEF EvaluateCandidate

\* What TypeOK needs of a task beyond its type: the executing ones have a run
\* and, when they are about to save a decision, a job.
LEMMA TypeStep ==
    ASSUME TypeOK, TasksInv, [Next]_vars
    PROVE  TypeOK'
<1> USE IdleType
<1>0. \A t \in Tasks : task[t] \in Task
  BY DEF TypeOK
<1>00. \A t \in Tasks : TaskOK(task[t])
  BY DEF TasksInv
<1>1. ASSUME NEW t \in Tasks, GenerateRequest(t) PROVE TypeOK'
  <2>1. Recovering(IF Orphans = {} THEN "check" ELSE "recoverGenerate") \in Task
    BY RecoveringOK
  <2> QED BY <1>1, <2>1 DEF GenerateRequest, TypeOK, rows
<1>2. ASSUME NEW t \in Tasks, Poll(t) PROVE TypeOK'
  <2>1. Recovering("recoverPoll") \in Task
    BY RecoveringOK
  <2> QED BY <1>2, <2>1 DEF Poll, TypeOK, rows
<1>3. ASSUME NEW t \in Tasks, RecoverOrphans(t) PROVE TypeOK'
  <2>1. [Idle EXCEPT !.pc = "check"] \in Task
    BY DEF Task, Starting
  <2>2. \A r \in Runs :
           [run[r] EXCEPT !.status = "Cancelled",
                          !.cancel = IF r \in task[t].asked THEN @ ELSE TRUE] \in Row
    BY DEF TypeOK, Row, Terminal
  <2>3. run' \in [Runs -> Row]
    BY <1>3, <2>2 DEF RecoverOrphans, TypeOK
  <2> QED BY <1>3, <2>1, <2>3 DEF RecoverOrphans, TypeOK
<1>4. ASSUME NEW t \in Tasks, GenerateCheck(t) PROVE TypeOK'
  <2>1. [Idle EXCEPT !.pc = "select"] \in Task
    BY DEF Task, Starting
  <2> QED BY <1>4, <2>1 DEF GenerateCheck, TypeOK, rows
<1>5. ASSUME NEW t \in Tasks, GenerateSelect(t) PROVE TypeOK'
  <2> DEFINE pool == Jobs \ Reviewed
             k    == SnapshotSize(pool)
  <2>1. k \in Nat
    BY SnapshotSizeType
  <2>2. [NoRow EXCEPT !.status = "Pending", !.count = k] \in Row
    BY <2>1 DEF Row, Active
  <2>3. ASSUME NEW p \in Numberings(pool, k)
        PROVE  [Idle EXCEPT !.pc = "insert", !.plan = p,
                   !.snap = [NoRow EXCEPT !.status = "Pending", !.count = k]] \in Task
    <3>1. p \in [Jobs -> Nat]
      BY <2>1, NumberingsType
    <3> QED BY <2>2, <3>1 DEF Task, Starting
  <2>4. task' \in [Tasks -> Task]
    BY <1>5, <2>3 DEF GenerateSelect, TypeOK
  <2> QED BY <1>5, <2>4 DEF GenerateSelect, TypeOK, rows
<1>6. ASSUME NEW t \in Tasks, GenerateInsert(t) PROVE TypeOK'
  <2>1. PICK r \in Runs :
          /\ run' = [run EXCEPT ![r] = task[t].snap]
          /\ seq' = [seq EXCEPT ![r] = task[t].plan]
          /\ task' = [task EXCEPT ![t] = [Idle EXCEPT !.pc = "publishNew", !.run = r]]
    BY <1>6 DEF GenerateInsert
  <2>2. task[t].snap \in Row /\ task[t].plan \in [Jobs -> Nat]
    BY DEF TypeOK, Task
  <2>3. [Idle EXCEPT !.pc = "publishNew", !.run = r] \in Task
    BY DEF Task, Publishing
  <2> QED BY <1>6, <2>1, <2>2, <2>3 DEF GenerateInsert, TypeOK
<1>7. ASSUME NEW t \in Tasks, Publish(t) PROVE TypeOK'
  <2>1. task[t].run \in Runs
    BY <1>7, <1>00 DEF Publish, TaskOK, Publishing, Executing
  <2>2. /\ [task[t] EXCEPT !.pc = "load"] \in Task
        /\ [task[t] EXCEPT !.pc = "loop"] \in Task
    BY <1>0 DEF Task, Starting, Executing
  <2>3. task' \in [Tasks -> Task]
    BY <1>7, <2>2 DEF Publish, TypeOK
  <2> QED BY <1>7, <2>1, <2>3 DEF Publish, TypeOK, rows
<1>8. ASSUME NEW t \in Tasks, NEW r \in Runs, Load(t, r) PROVE TypeOK'
  <2>1. run[r] \in Row
    BY DEF TypeOK
  <2>2. [Idle EXCEPT !.pc = "start", !.run = r, !.snap = run[r]] \in Task
    BY <2>1 DEF Task, Starting
  <2> QED BY <1>8, <2>2 DEF Load, TypeOK, rows
<1>9. ASSUME NEW t \in Tasks, GenerateResume(t) PROVE TypeOK'
  <2>1. task[t].run \in Runs
    BY <1>9, <1>00 DEF GenerateResume, TaskOK
  <2> QED BY <1>8, <1>9, <2>1 DEF GenerateResume
<1>10. ASSUME NEW t \in Tasks, ResumeStart(t) PROVE TypeOK'
  <2> DEFINE r   == task[t].run
             new == [task[t].snap EXCEPT !.status = "Running", !.cancel = FALSE,
                                         !.next = IF task[t].snap.next < 1 THEN 1
                                                  ELSE task[t].snap.next]
  <2>1. r \in Runs
    BY <1>10, <1>00 DEF ResumeStart, TaskOK
  <2>2. task[t].snap \in Row /\ run[r] \in Row
    BY <1>0, <2>1 DEF TypeOK, Task
  <2>3. new \in Row
    BY <2>2 DEF Row, Active
  <2>4. SaveRun(run[r], task[t].snap, new) \in Row
    BY <2>2, <2>3, SaveRunType
  <2>5. [task[t] EXCEPT !.pc = "announce", !.snap = new,
                        !.fallback = FallbackPerItemCap] \in Task
    BY <1>0, <2>3, ConstantsAssumption, ZenonT(30) DEF Task, Executing
  <2>6. run' \in [Runs -> Row]
    BY <1>10, <2>4 DEF ResumeStart, TypeOK
  <2>7. task' \in [Tasks -> Task]
    BY <1>10, <2>5 DEF ResumeStart, TypeOK
  <2>8. overlapped' \in [Runs -> BOOLEAN]
    BY <1>10 DEF ResumeStart, TypeOK
  <2>9. late' \in [Runs -> Nat]
    BY <1>10 DEF ResumeStart, TypeOK
  <2> QED BY <1>10, <2>6, <2>7, <2>8, <2>9 DEF ResumeStart, TypeOK
<1>11. ASSUME NEW t \in Tasks, Checkpoint(t) PROVE TypeOK'
  <2>1. task[t].run \in Runs
    BY <1>11, <1>00 DEF Checkpoint, TaskOK, Executing
  <2>2. run[task[t].run] \in Row
    BY <2>1 DEF TypeOK
  <2>3. [task[t] EXCEPT !.snap = run[task[t].run],
                        !.pc = IF run[task[t].run].cancel THEN "cancel" ELSE "pick"] \in Task
    BY <1>0, <2>2, ZenonT(30) DEF Task, Executing
  <2> QED BY <1>11, <2>3 DEF Checkpoint, Reloaded, TypeOK, rows
<1>12. ASSUME NEW t \in Tasks, PickCandidate(t) PROVE TypeOK'
  <2>1. /\ \A j \in Jobs : [task[t] EXCEPT !.pc = "evaluate", !.job = j] \in Task
        /\ [task[t] EXCEPT !.pc = "finish"] \in Task
    BY <1>0 DEF Task, Executing
  <2>2. ASSUME NEW j \in NextPending(task[t]),
               task' = [task EXCEPT ![t] = [task[t] EXCEPT !.pc = "evaluate", !.job = j]]
        PROVE  task' \in [Tasks -> Task]
    <3>1. j \in Jobs
      BY DEF NextPending
    <3>2. [task[t] EXCEPT !.pc = "evaluate", !.job = j] \in Task
      BY <2>1, <3>1
    <3> QED BY <2>2, <3>2 DEF TypeOK
  <2>3. ASSUME task' = [task EXCEPT ![t] = [task[t] EXCEPT !.pc = "finish"]]
        PROVE  task' \in [Tasks -> Task]
    BY <2>1, <2>3 DEF TypeOK
  <2> QED BY <1>12, <2>2, <2>3 DEF PickCandidate, TypeOK, rows
<1>13. ASSUME NEW t \in Tasks, EvaluateCandidate(t) PROVE TypeOK'
  <2>1. task[t].run \in Runs /\ task[t].job \in Jobs
    BY <1>13, <1>00 DEF EvaluateCandidate, TaskOK, Executing
  <2>2. item[task[t].run][task[t].job] \in Item
    BY <2>1 DEF TypeOK
  <2>3. ASSUME NEW d \in Decisions, NEW e \in BOOLEAN, NEW n \in Nat, Evaluated(t, d, e, n)
        PROVE  task' \in [Tasks -> Task]
    <3>1. [decision |-> d, error |-> e] \in Outcome
      BY DEF Outcome, CandidateStatus
    <3>2. [task[t] EXCEPT !.pc = "save", !.fallback = n,
                          !.outcome = [decision |-> d, error |-> e],
                          !.found = item[task[t].run][task[t].job]] \in Task
      BY <1>0, <2>2, <3>1 DEF Task, Executing
    <3> QED BY <2>3, <3>2 DEF Evaluated, TypeOK
  <2>4. task' \in [Tasks -> Task]
    BY <1>13, <2>3, EvaluatedCases
  <2> QED BY <1>13, <2>4 DEF EvaluateCandidate, TypeOK, rows
<1>14. ASSUME NEW t \in Tasks, SaveCandidate(t) PROVE TypeOK'
  <2>1. task[t].run \in Runs /\ task[t].job \in Jobs
    BY <1>14, <1>00 DEF SaveCandidate, TaskOK, Executing, Unsaved
  <2>2. Advanced(task[t]) \in Row
    BY <2>1, AdvancedType
  <2>3. NoOutcome \in Outcome
    BY DEF NoOutcome, Outcome, CandidateStatus
  <2>4. [task[t] EXCEPT !.pc = "loop", !.snap = Advanced(task[t]),
                        !.job = None, !.found = NoItem, !.outcome = NoOutcome] \in Task
    BY <1>0, <2>2, <2>3 DEF Task, Executing
  <2>5. task' \in [Tasks -> Task]
    BY <1>14, <2>4 DEF SaveCandidate, TypeOK
  <2>6. SaveDecision(task[t], Advanced(task[t]))
    BY <1>14 DEF SaveCandidate
  <2>7. /\ run' \in [Runs -> Row] /\ seq' \in [Runs -> [Jobs -> Nat]]
        /\ cstat' \in [Runs -> [Jobs -> CandidateStatus]]
        /\ item' \in [Runs -> [Jobs -> Item]] /\ late' \in [Runs -> Nat]
    BY <2>1, <2>2, <2>6, SaveDecisionType
  <2> QED BY <1>14, <2>5, <2>7 DEF SaveCandidate, TypeOK
<1>15. ASSUME NEW t \in Tasks, CompleteRun(t) PROVE TypeOK'
  <2>1. task[t].run \in Runs
    BY <1>15, <1>00 DEF CompleteRun, TaskOK, Executing
  <2> QED BY <1>15, <2>1, EndRunType DEF CompleteRun, Terminal
<1>16. ASSUME NEW t \in Tasks, MarkRunCancelled(t) PROVE TypeOK'
  <2>1. task[t].run \in Runs
    BY <1>16, <1>00 DEF MarkRunCancelled, TaskOK, Executing
  <2> QED BY <1>16, <2>1, EndRunType DEF MarkRunCancelled, Terminal
<1>17. ASSUME NEW t \in Tasks, Abort(t) PROVE TypeOK'
  <2>1. /\ [task[t] EXCEPT !.pc = "abort"] \in Task
        /\ [task[t] EXCEPT !.pc = "abort", !.job = None] \in Task
    BY <1>0 DEF Task, Executing
  <2>2. task' \in [Tasks -> Task]
    BY <1>17, <2>1 DEF Abort, TypeOK
  <2> QED BY <1>17, <2>2 DEF Abort, TypeOK, rows
<1>18. ASSUME NEW t \in Tasks, PersistFailed(t) PROVE TypeOK'
  <2>1. task[t].run \in Runs
    BY <1>18, <1>00 DEF PersistFailed, TaskOK, Executing
  <2>2. CASE task[t].job = None
    BY <1>18, <2>1, <2>2, EndRunType DEF PersistFailed, Terminal
  <2>3. CASE task[t].job # None
    <3>1. task[t].job \in Jobs
      BY <1>18, <1>00, <2>3 DEF PersistFailed, TaskOK, Unsaved
    <3>2. [Advanced(task[t]) EXCEPT !.status = "Failed"] \in Row
      BY <2>1, <3>1, AdvancedType
    <3>3. SaveDecision(task[t], [Advanced(task[t]) EXCEPT !.status = "Failed"])
      BY <1>18, <2>3 DEF PersistFailed
    <3>4. /\ run' \in [Runs -> Row] /\ seq' \in [Runs -> [Jobs -> Nat]]
          /\ cstat' \in [Runs -> [Jobs -> CandidateStatus]]
          /\ item' \in [Runs -> [Jobs -> Item]] /\ late' \in [Runs -> Nat]
      BY <2>1, <3>1, <3>2, <3>3, SaveDecisionType
    <3> QED BY <1>18, <2>3, <3>4 DEF PersistFailed, TypeOK
  <2> QED BY <2>2, <2>3
<1>19. ASSUME NEW t \in Tasks, PersistFailedFails(t) \/ NotReady(t) \/ RequestFails(t)
       PROVE TypeOK'
  BY <1>19 DEF PersistFailedFails, NotReady, RequestFails, TypeOK, rows
<1>20. ASSUME NEW t \in Tasks, NEW r \in Runs, CancelRequest(t, r) PROVE TypeOK'
  <2>1. [Idle EXCEPT !.pc = "stop", !.run = r] \in Task
    BY DEF Task, Starting
  <2> QED BY <1>20, <2>1 DEF CancelRequest, TypeOK, rows
<1>21. ASSUME NEW t \in Tasks, CancelSave(t) PROVE TypeOK'
  <2>1. task[t].run \in Runs
    BY <1>21, <1>00 DEF CancelSave, TaskOK
  <2>2. [task[t] EXCEPT !.pc = "publishStop"] \in Task
    BY <1>0 DEF Task, Publishing
  <2>3. run' \in [Runs -> Row]
    BY <1>21, <2>1 DEF CancelSave, TypeOK, Row
  <2> QED BY <1>21, <2>2, <2>3 DEF CancelSave, TypeOK
<1>22. CASE Restart
  BY <1>22 DEF Restart, TypeOK, rows
<1>23. CASE UNCHANGED vars
  BY <1>23 DEF vars, TypeOK
<1> QED
  BY <1>1, <1>2, <1>3, <1>4, <1>5, <1>6, <1>7, <1>8, <1>9, <1>10, <1>11, <1>12, <1>13,
     <1>14, <1>15, <1>16, <1>17, <1>18, <1>19, <1>20, <1>21, <1>22, <1>23
  DEF Next, Arrive, Step, Fail, ResumeRequest, SaveRefused, ExecutionFails

-----------------------------------------------------------------------------
(* The rows and the tasks fit together *)

\* Rows are only ever added: a run that exists keeps its snapshot, an item
\* that exists stays.
Grows ==
    /\ \A r \in Runs : run[r].status # "Absent" =>
          /\ run'[r].status # "Absent"
          /\ run'[r].count = run[r].count
          /\ seq'[r] = seq[r]
    /\ \A r \in Runs, j \in Jobs : item[r][j].rank # 0 => item'[r][j].rank # 0

\* A task that does not move is not disturbed by rows that only grow.
LEMMA OthersKept ==
    ASSUME TypeOK, TasksInv, Grows, NEW u \in Tasks, task'[u] = task[u]
    PROVE  TaskOK(task[u])'
<1>1. TaskOK(task[u]) /\ task[u] \in Task
  BY DEF TasksInv, TypeOK
<1>2. task[u].orphans \subseteq Runs
  BY <1>1 DEF Task
<1>3. \A r \in task[u].orphans : run'[r].status # "Absent"
  BY <1>1, <1>2 DEF TaskOK, Grows
<1>4. task[u].pc \in Publishing \cup Executing \cup {"load", "start", "stop"} =>
         /\ task[u].run \in Runs
         /\ run[task[u].run].status # "Absent"
  BY <1>1 DEF TaskOK
<1>5. task[u].pc = "evaluate" \/ Unsaved(task[u]) =>
         task[u].pc \in Executing /\ task[u].job \in Jobs
  BY <1>1 DEF TaskOK, Unsaved, Executing
<1> QED BY <1>1, <1>3, <1>4, <1>5 DEF TaskOK, Grows, Unsaved

LEMMA IdleOK == ASSUME NEW t \in Tasks, task'[t] = Idle PROVE TaskOK(task[t])'
BY DEF TaskOK, Idle, Unsaved, Publishing, Executing

\* A save that changed only the status, the cancellation or a checkpoint that
\* was already at least one leaves the counters of the row alone.
LEMMA SaveRunKeeps ==
    ASSUME NEW db \in Row, NEW loaded \in Row, NEW new \in Row,
           db.status # "Absent", new.status # "Absent",
           new.count = loaded.count, new.processed = loaded.processed,
           new.next = loaded.next
    PROVE  LET saved == SaveRun(db, loaded, new) IN
           /\ saved.status # "Absent" /\ saved.count = db.count
           /\ saved.processed = db.processed /\ saved.next = db.next
BY DEF SaveRun, Column, Row

\* RowsInv survives a step that touches neither the candidates nor the items
\* and changes of one run's row neither the counters nor its existence.
LEMMA RowsKept ==
    ASSUME TypeOK, RowsInv, NEW r \in Runs, NEW row \in Row,
           run[r].status # "Absent", row.status # "Absent", row.count = run[r].count,
           row.processed = run[r].processed, row.next = run[r].next,
           run' = [run EXCEPT ![r] = row], UNCHANGED <<seq, cstat, item>>
    PROVE  RowsInv' /\ Grows
<1>1. \A q \in Runs : /\ run'[q].count = run[q].count
                      /\ run'[q].processed = run[q].processed
                      /\ run'[q].next = run[q].next
                      /\ q # r => run'[q] = run[q]
                      /\ q = r => run'[q] = row
  BY DEF TypeOK
<1>2. RowsInv'
  BY <1>1 DEF RowsInv
<1>3. Grows
  BY <1>1 DEF Grows
<1> QED BY <1>2, <1>3

\* The two invariants survive the save of a decision.
LEMMA SaveDecisionInv ==
    ASSUME TypeOK, RowsInv, NEW t \in Tasks, TaskOK(task[t]), Unsaved(task[t]),
           NEW new \in Row,
           new.status # "Absent", new.count = task[t].snap.count,
           new.processed = task[t].snap.processed + 1,
           new.next = seq[task[t].run][task[t].job] + 1,
           SaveDecision(task[t], new)
    PROVE  RowsInv' /\ Grows
<1> DEFINE r == task[t].run
           j == task[t].job
           snap == task[t].snap
<1>1. /\ r \in Runs /\ j \in Jobs /\ run[r].status # "Absent"
      /\ snap.count = run[r].count /\ snap.processed < snap.next
      /\ seq[r][j] >= snap.next
      /\ task[t].outcome.decision \in Decisions
      /\ task[t].found.rank # 0 => item[r][j].rank # 0
  BY DEF TaskOK, Unsaved, Executing
<1>2. /\ snap \in Row /\ run[r] \in Row /\ seq[r][j] \in Nat
      /\ snap.processed \in Nat /\ snap.next \in Nat /\ snap.count \in Nat
      /\ task[t].found \in Item /\ item[r][j] \in Item /\ task[t] \in Task
  BY <1>1 DEF TypeOK, Task, Row
<1>3. seq[r][j] <= run[r].count
  BY <1>1 DEF RowsInv, Numbers
<1>4. /\ run'[r].processed = snap.processed + 1
      /\ run'[r].next = seq[r][j] + 1
      /\ run'[r].count = run[r].count
      /\ run'[r].status # "Absent"
      /\ \A q \in Runs \ {r} : run'[q] = run[q]
  <2>1. run' = [run EXCEPT ![r] = SaveRun(run[r], snap, new)]
    BY DEF SaveDecision
  <2>2. run'[r] = SaveRun(run[r], snap, new) /\ \A q \in Runs \ {r} : run'[q] = run[q]
    BY <1>1, <2>1 DEF TypeOK
  <2>3. /\ SaveRun(run[r], snap, new).processed = new.processed
        /\ SaveRun(run[r], snap, new).next = new.next
        /\ SaveRun(run[r], snap, new).count = run[r].count
        /\ SaveRun(run[r], snap, new).status # "Absent"
    BY <1>1, <1>2 DEF SaveRun, Column
  <2> QED BY <2>2, <2>3
<1>5. /\ item'[r][j].rank # 0
      /\ item'[r][j].rank <= run[r].count
      /\ \A q \in Runs, i \in Jobs : q # r \/ i # j => item'[q][i] = item[q][i]
  <2>1. item' = [item EXCEPT ![r][j] = SaveItem(item[r][j], task[t].found, Decided(task[t]))]
    BY DEF SaveDecision
  <2>2. /\ item'[r][j] = SaveItem(item[r][j], task[t].found, Decided(task[t]))
        /\ \A q \in Runs, i \in Jobs : q # r \/ i # j => item'[q][i] = item[q][i]
    BY <1>1, <2>1 DEF TypeOK
  <2>3. Decided(task[t]).rank = snap.processed + 1
    BY DEF Decided
  <2>4. item[r][j].rank <= run[r].count /\ item[r][j].rank \in Nat
    BY <1>1, <1>2 DEF RowsInv, Item
  <2>5. CASE task[t].found.rank = 0
    BY <1>1, <1>2, <1>3, <2>2, <2>3, <2>5 DEF SaveItem
  <2>6. CASE task[t].found.rank # 0
    <3>1. SaveItem(item[r][j], task[t].found, Decided(task[t])).rank
            = Column(item[r][j].rank, task[t].found.rank, snap.processed + 1)
      BY <2>3, <2>6 DEF SaveItem
    <3> QED BY <1>1, <1>2, <1>3, <2>2, <2>4, <2>6, <3>1 DEF Column
  <2> QED BY <2>2, <2>5, <2>6
<1>6. /\ cstat'[r][j] \in Decisions
      /\ \A q \in Runs, i \in Jobs : q # r \/ i # j => cstat'[q][i] = cstat[q][i]
      /\ seq' = seq
  BY <1>1 DEF SaveDecision, TypeOK
<1>7. Grows
  BY <1>1, <1>4, <1>5, <1>6 DEF Grows
<1>8. RowsInv'
  <2> SUFFICES ASSUME NEW q \in Runs
               PROVE  /\ run'[q].status = "Absent" => run'[q] = NoRow
                      /\ Numbers(seq'[q], run'[q].count)
                      /\ run'[q].processed < run'[q].next
                      /\ run'[q].next <= run'[q].count + 1
                      /\ \A i \in Jobs :
                            /\ cstat'[q][i] \in Decisions <=> item'[q][i].rank # 0
                            /\ item'[q][i].rank # 0 => seq'[q][i] # 0
                            /\ item'[q][i].rank <= run'[q].count
    BY DEF RowsInv
  <2>1. CASE q # r
    <3>1. /\ run'[q] = run[q] /\ seq'[q] = seq[q]
          /\ \A i \in Jobs : cstat'[q][i] = cstat[q][i] /\ item'[q][i] = item[q][i]
      BY <1>4, <1>5, <1>6, <2>1
    <3> QED BY <3>1 DEF RowsInv
  <2>2. CASE q = r
    <3>1. Numbers(seq'[q], run'[q].count)
      BY <1>4, <1>6, <2>2 DEF RowsInv
    <3>2. run'[q].processed < run'[q].next /\ run'[q].next <= run'[q].count + 1
      BY <1>1, <1>2, <1>3, <1>4, <2>2
    <3>3. ASSUME NEW i \in Jobs, i # j
          PROVE  /\ cstat'[q][i] \in Decisions <=> item'[q][i].rank # 0
                 /\ item'[q][i].rank # 0 => seq'[q][i] # 0
                 /\ item'[q][i].rank <= run'[q].count
      BY <1>4, <1>5, <1>6, <2>2, <3>3 DEF RowsInv
    <3>4. /\ cstat'[q][j] \in Decisions <=> item'[q][j].rank # 0
          /\ item'[q][j].rank # 0 => seq'[q][j] # 0
          /\ item'[q][j].rank <= run'[q].count
      BY <1>1, <1>2, <1>4, <1>5, <1>6, <2>2
    <3> QED BY <1>4, <2>2, <3>1, <3>2, <3>3, <3>4
  <2> QED BY <2>1, <2>2
<1> QED BY <1>7, <1>8


LEMMA RowsSame ==
    ASSUME RowsInv, UNCHANGED rows
    PROVE  RowsInv' /\ Grows
BY DEF RowsInv, Grows, rows

LEMMA OneMoves ==
    ASSUME TypeOK, TasksInv, Grows, NEW t \in Tasks, TaskOK(task[t])',
           NEW tk, task' = [task EXCEPT ![t] = tk]
    PROVE  TasksInv'
<1>1. \A u \in Tasks \ {t} : task'[u] = task[u]
  BY DEF TypeOK
<1> QED BY <1>1, OthersKept DEF TasksInv

\* EndRun leaves everything the invariants speak of as it was.
LEMMA EndRunInv ==
    ASSUME TypeOK, RowsInv, TasksInv, NEW t \in Tasks, task[t].pc \in Executing,
           NEW status \in Terminal, EndRun(t, status)
    PROVE  RowsInv' /\ TasksInv'
<1> DEFINE r   == task[t].run
           new == [task[t].snap EXCEPT !.status = status]
           row == SaveRun(run[r], task[t].snap, new)
<1>1. r \in Runs /\ run[r].status # "Absent"
  BY DEF TasksInv, TaskOK
<1>20. task[t].snap \in Row /\ run[r] \in Row
  BY <1>1 DEF TypeOK, Task
<1>2. task[t].snap \in Row /\ run[r] \in Row /\ new \in Row
  BY <1>20 DEF Row, Terminal
<1>3. /\ new.status # "Absent" /\ new.count = task[t].snap.count
      /\ new.processed = task[t].snap.processed /\ new.next = task[t].snap.next
  BY <1>2 DEF Row, Terminal
<1>4. /\ row \in Row /\ row.status # "Absent" /\ row.count = run[r].count
      /\ row.processed = run[r].processed /\ row.next = run[r].next
  BY <1>1, <1>2, <1>3, SaveRunKeeps, SaveRunType, ZenonT(30)
<1>5. run' = [run EXCEPT ![r] = row] /\ UNCHANGED <<seq, cstat, item>>
  BY DEF EndRun
<1> HIDE DEF row
<1>6. RowsInv' /\ Grows
  BY <1>1, <1>4, <1>5, RowsKept
<1>7. task' = [task EXCEPT ![t] = Idle] /\ task'[t] = Idle
  BY DEF EndRun, TypeOK
<1>8. TaskOK(task[t])'
  BY <1>7, IdleOK
<1> QED BY <1>6, <1>7, <1>8, OneMoves

\* A request that stops, or stays at a step that needs nothing of the rows.
LEMMA GoesIdle ==
    ASSUME TypeOK, RowsInv, TasksInv, NEW t \in Tasks, UNCHANGED rows,
           task' = [task EXCEPT ![t] = Idle]
    PROVE  RowsInv' /\ TasksInv'
<1>1. RowsInv' /\ Grows
  BY RowsSame
<1>2. task'[t] = Idle
  BY DEF TypeOK
<1> QED BY <1>1, <1>2, IdleOK, OneMoves

LEMMA InitInv == Init => TypeOK /\ RowsInv /\ TasksInv
<1> SUFFICES ASSUME Init PROVE TypeOK /\ RowsInv /\ TasksInv
  OBVIOUS
<1>1. TypeOK
  BY IdleType DEF Init, TypeOK, Item, CandidateStatus
<1>2. RowsInv
  BY DEF Init, RowsInv, NoRow, NoItem, Numbers, Decisions
<1>3. TasksInv
  BY DEF Init, TasksInv, TaskOK, Idle, Unsaved, Publishing, Executing
<1> QED BY <1>1, <1>2, <1>3

LEMMA InvStep ==
    ASSUME TypeOK, RowsInv, TasksInv, [Next]_vars
    PROVE  RowsInv' /\ TasksInv'
<1>0. \A t \in Tasks : task[t] \in Task
  BY DEF TypeOK
<1>00. \A t \in Tasks : TaskOK(task[t])
  BY DEF TasksInv
<1>000. UNCHANGED rows => RowsInv' /\ Grows
  BY RowsSame
<1>1. ASSUME NEW t \in Tasks, GenerateRequest(t) PROVE RowsInv' /\ TasksInv'
  <2> DEFINE pc == IF Orphans = {} THEN "check" ELSE "recoverGenerate"
             tk == Recovering(pc)
  <2>1. \A r \in Orphans : r \in Runs /\ run[r].status # "Absent"
    BY DEF Orphans, Active
  <2>2. task' = [task EXCEPT ![t] = tk] /\ UNCHANGED rows /\ task'[t] = tk
    BY <1>1 DEF GenerateRequest, TypeOK
  <2>3. pc \in {"check", "recoverGenerate", "recoverPoll"}
    OBVIOUS
  <2> HIDE DEF pc
  <2>4. tk.pc = pc /\ tk.orphans = Orphans
    BY <2>3, RecoveringOK
  <2> HIDE DEF tk
  <2>5. TaskOK(task[t])'
    BY <2>1, <2>2, <2>3, <2>4 DEF TaskOK, Unsaved, Publishing, Executing, rows
  <2> QED BY <1>000, <2>2, <2>5, OneMoves
<1>2. ASSUME NEW t \in Tasks, Poll(t) PROVE RowsInv' /\ TasksInv'
  <2> DEFINE pc == "recoverPoll"
             tk == Recovering(pc)
  <2>1. \A r \in Orphans : r \in Runs /\ run[r].status # "Absent"
    BY DEF Orphans, Active
  <2>2. task' = [task EXCEPT ![t] = tk] /\ UNCHANGED rows /\ task'[t] = tk
    BY <1>2 DEF Poll, TypeOK
  <2>3. pc \in {"check", "recoverGenerate", "recoverPoll"}
    OBVIOUS
  <2> HIDE DEF pc
  <2>4. tk.pc = pc /\ tk.orphans = Orphans
    BY <2>3, RecoveringOK
  <2> HIDE DEF tk
  <2>5. TaskOK(task[t])'
    BY <2>1, <2>2, <2>3, <2>4 DEF TaskOK, Unsaved, Publishing, Executing, rows
  <2> QED BY <1>000, <2>2, <2>5, OneMoves
<1>3. ASSUME NEW t \in Tasks, RecoverOrphans(t) PROVE RowsInv' /\ TasksInv'
  <2>1. task[t].orphans \subseteq Runs /\ \A r \in task[t].orphans : run[r].status # "Absent"
    BY <1>0, <1>00 DEF Task, TaskOK
  <2>2. \A r \in Runs : /\ run'[r].count = run[r].count
                        /\ run'[r].processed = run[r].processed
                        /\ run'[r].next = run[r].next
                        /\ run[r].status # "Absent" => run'[r].status # "Absent"
                        /\ run[r].status = "Absent" => run'[r] = run[r]
    BY <1>3, <2>1, ZenonT(30) DEF RecoverOrphans, TypeOK, Row
  <2>3. UNCHANGED <<seq, cstat, item>>
    BY <1>3 DEF RecoverOrphans
  <2>4. RowsInv' /\ Grows
    BY <2>2, <2>3 DEF RowsInv, Grows
  <2>5. CASE task[t].pc = "recoverPoll"
    <3>1. task' = [task EXCEPT ![t] = Idle] /\ task'[t] = Idle
      BY <1>3, <2>5 DEF RecoverOrphans, TypeOK
    <3> QED BY <2>4, <3>1, IdleOK, OneMoves
  <2>6. CASE task[t].pc # "recoverPoll"
    <3> DEFINE tk == [Idle EXCEPT !.pc = "check"]
    <3>1. task' = [task EXCEPT ![t] = tk] /\ task'[t] = tk
      BY <1>3, <2>6 DEF RecoverOrphans, TypeOK
    <3>2. tk.pc = "check" /\ tk.orphans = {}
      BY DEF Idle
    <3> HIDE DEF tk
    <3>3. TaskOK(task[t])'
      BY <3>1, <3>2 DEF TaskOK, Unsaved, Publishing, Executing
    <3> QED BY <2>4, <3>1, <3>3, OneMoves
  <2> QED BY <2>5, <2>6
<1>4. ASSUME NEW t \in Tasks, GenerateCheck(t) PROVE RowsInv' /\ TasksInv'
  <2> DEFINE tk == [Idle EXCEPT !.pc = "select"]
  <2>1. UNCHANGED rows /\ (task' = [task EXCEPT ![t] = Idle] \/ task' = [task EXCEPT ![t] = tk])
    BY <1>4 DEF GenerateCheck
  <2>2. CASE task' = [task EXCEPT ![t] = Idle]
    BY <2>1, <2>2, GoesIdle
  <2>3. CASE task' = [task EXCEPT ![t] = tk]
    <3>1. task'[t] = tk /\ tk.pc = "select" /\ tk.orphans = {}
      BY <2>3 DEF Idle, TypeOK
    <3>2. TaskOK(task[t])'
      BY <3>1 DEF TaskOK, Unsaved, Publishing, Executing
    <3> QED BY <1>000, <2>1, <2>3, <3>2, OneMoves
  <2> QED BY <2>1, <2>2, <2>3
<1>5. ASSUME NEW t \in Tasks, GenerateSelect(t) PROVE RowsInv' /\ TasksInv'
  <2> DEFINE pool == Jobs \ Reviewed
             k    == SnapshotSize(pool)
             row  == [NoRow EXCEPT !.status = "Pending", !.count = k]
  <2>0. UNCHANGED rows
    BY <1>5 DEF GenerateSelect
  <2>1. k \in Nat
    BY SnapshotSizeType
  <2>2. ASSUME task' = [task EXCEPT ![t] = Idle] PROVE RowsInv' /\ TasksInv'
    BY <2>0, <2>2, GoesIdle
  <2>3. ASSUME NEW p \in Numberings(pool, k),
               task' = [task EXCEPT ![t] =
                           [Idle EXCEPT !.pc = "insert", !.plan = p, !.snap = row]]
        PROVE  RowsInv' /\ TasksInv'
    <3>1. Numbers(p, k)
      BY <2>1, NumberingsType
    <3>2. row.count = k /\ row = [NoRow EXCEPT !.status = "Pending", !.count = row.count]
      BY DEF NoRow
    <3> HIDE DEF row
    <3>3. /\ task'[t].pc = "insert" /\ task'[t].plan = p /\ task'[t].snap = row
          /\ task'[t].orphans = {}
      BY <2>3 DEF Idle, TypeOK
    <3>4. TaskOK(task[t])'
      BY <3>1, <3>2, <3>3 DEF TaskOK, Unsaved, Publishing, Executing
    <3> QED BY <1>000, <2>0, <2>3, <3>4, OneMoves
  <2> QED BY <1>5, <2>2, <2>3 DEF GenerateSelect
<1>6. ASSUME NEW t \in Tasks, GenerateInsert(t) PROVE RowsInv' /\ TasksInv'
  <2>1. PICK r \in Runs :
          /\ run[r].status = "Absent"
          /\ run' = [run EXCEPT ![r] = task[t].snap]
          /\ seq' = [seq EXCEPT ![r] = task[t].plan]
          /\ task' = [task EXCEPT ![t] = [Idle EXCEPT !.pc = "publishNew", !.run = r]]
    BY <1>6 DEF GenerateInsert
  <2>2. task[t].pc = "insert" /\ UNCHANGED <<cstat, item>>
    BY <1>6 DEF GenerateInsert
  <2>3. /\ Numbers(task[t].plan, task[t].snap.count)
        /\ task[t].snap = [NoRow EXCEPT !.status = "Pending", !.count = task[t].snap.count]
        /\ task[t].snap.count \in Nat
    BY <1>0, <1>00, <2>2 DEF TaskOK, Task, Row
  <2>4. task[t].snap.status = "Pending" /\ task[t].snap.processed = 0 /\ task[t].snap.next = 1
    BY <2>3 DEF NoRow
  <2>5. /\ run'[r] = task[t].snap /\ seq'[r] = task[t].plan
        /\ \A q \in Runs \ {r} : run'[q] = run[q] /\ seq'[q] = seq[q]
    BY <2>1 DEF TypeOK
  \* No candidate of an absent run has an item.
  <2>6. \A j \in Jobs : item[r][j].rank = 0 /\ cstat[r][j] \notin Decisions
    <3>1. run[r].count = 0
      BY <2>1 DEF RowsInv, NoRow
    <3>2. \A j \in Jobs : item[r][j].rank \in Nat /\ item[r][j].rank <= 0
      BY <3>1 DEF RowsInv, TypeOK, Item
    <3> QED BY <3>2 DEF RowsInv
  <2>7. Grows
    BY <2>1, <2>2, <2>5 DEF Grows
  <2>8. RowsInv'
    <3>1. ASSUME NEW q \in Runs, q # r
          PROVE  run'[q] = run[q] /\ seq'[q] = seq[q]
      BY <2>5, <3>1
    <3>2. /\ run'[r].processed < run'[r].next /\ run'[r].next <= run'[r].count + 1
          /\ run'[r].status # "Absent" /\ Numbers(seq'[r], run'[r].count)
          /\ run'[r].count \in Nat
      BY <2>3, <2>4, <2>5
    <3> QED BY <2>2, <2>6, <3>1, <3>2 DEF RowsInv
  <2>9. task'[t].pc = "publishNew" /\ task'[t].run = r /\ task'[t].orphans = {}
    BY <2>1 DEF Idle, TypeOK
  <2>10. TaskOK(task[t])'
    BY <2>4, <2>5, <2>9 DEF TaskOK, Unsaved, Publishing, Executing
  <2> QED BY <2>1, <2>7, <2>8, <2>10, OneMoves
<1>7. ASSUME NEW t \in Tasks, Publish(t) PROVE RowsInv' /\ TasksInv'
  <2>1. UNCHANGED rows /\ task[t].pc \in {"publishNew", "publishStop", "announce"}
    BY <1>7 DEF Publish
  <2>2. TaskOK(task[t]) /\ task[t] \in Task
    BY <1>0, <1>00
  <2>3. CASE task[t].pc = "publishStop"
    <3>1. task' = [task EXCEPT ![t] = Idle]
      BY <1>7, <2>3 DEF Publish
    <3> QED BY <2>1, <3>1, GoesIdle
  <2>4. CASE task[t].pc = "publishNew"
    <3> DEFINE tk == [task[t] EXCEPT !.pc = "load"]
    <3>1. task' = [task EXCEPT ![t] = tk] /\ task'[t] = tk
      BY <1>7, <2>4 DEF Publish, TypeOK
    <3>2. tk.pc = "load" /\ tk.run = task[t].run /\ tk.orphans = task[t].orphans
      BY <2>2 DEF Task
    <3> HIDE DEF tk
    <3>3. TaskOK(task[t])'
      BY <2>1, <2>2, <2>4, <3>1, <3>2 DEF TaskOK, Unsaved, Publishing, Executing, rows
    <3> QED BY <1>000, <2>1, <3>1, <3>3, OneMoves
  <2>5. CASE task[t].pc = "announce"
    <3> DEFINE tk == [task[t] EXCEPT !.pc = "loop"]
    <3>1. task' = [task EXCEPT ![t] = tk] /\ task'[t] = tk
      BY <1>7, <2>5 DEF Publish, TypeOK
    <3>2. /\ tk.pc = "loop" /\ tk.run = task[t].run /\ tk.orphans = task[t].orphans
          /\ tk.snap = task[t].snap
      BY <2>2 DEF Task
    <3> HIDE DEF tk
    <3>3. TaskOK(task[t])'
      BY <2>1, <2>2, <2>5, <3>1, <3>2 DEF TaskOK, Unsaved, Publishing, Executing, rows
    <3> QED BY <1>000, <2>1, <3>1, <3>3, OneMoves
  <2> QED BY <2>1, <2>3, <2>4, <2>5
<1>8. ASSUME NEW t \in Tasks, NEW r \in Runs, Load(t, r) PROVE RowsInv' /\ TasksInv'
  <2> DEFINE tk == [Idle EXCEPT !.pc = "start", !.run = r, !.snap = run[r]]
  <2>1. UNCHANGED rows /\ run[r].status # "Absent" /\ run[r] \in Row
    BY <1>8 DEF Load, TypeOK
  <2>2. ASSUME task' = [task EXCEPT ![t] = Idle] PROVE RowsInv' /\ TasksInv'
    BY <2>1, <2>2, GoesIdle
  <2>3. ASSUME task' = [task EXCEPT ![t] = tk] PROVE RowsInv' /\ TasksInv'
    <3>1. /\ task'[t].pc = "start" /\ task'[t].run = r /\ task'[t].snap = run[r]
          /\ task'[t].orphans = {}
      BY <2>3 DEF Idle, TypeOK
    <3>2. run[r].processed < run[r].next /\ run[r].next <= run[r].count + 1
      BY DEF RowsInv
    <3>3. TaskOK(task[t])'
      BY <2>1, <3>1, <3>2 DEF TaskOK, Unsaved, Publishing, Executing, rows
    <3> QED BY <1>000, <2>1, <2>3, <3>3, OneMoves
  <2> QED BY <1>8, <2>2, <2>3 DEF Load
<1>9. ASSUME NEW t \in Tasks, GenerateResume(t) PROVE RowsInv' /\ TasksInv'
  <2>1. task[t].run \in Runs
    BY <1>9, <1>00 DEF GenerateResume, TaskOK
  <2> QED BY <1>8, <1>9, <2>1 DEF GenerateResume
<1>10. ASSUME NEW t \in Tasks, ResumeStart(t) PROVE RowsInv' /\ TasksInv'
  <2> DEFINE r   == task[t].run
             snap == task[t].snap
             new == [snap EXCEPT !.status = "Running", !.cancel = FALSE,
                                 !.next = IF snap.next < 1 THEN 1 ELSE snap.next]
             row == SaveRun(run[r], snap, new)
             tk  == [task[t] EXCEPT !.pc = "announce", !.snap = new,
                                    !.fallback = FallbackPerItemCap]
  <2>1. /\ task[t].pc = "start" /\ task[t] \in Task /\ snap \in Row
        /\ r \in Runs /\ run[r].status # "Absent" /\ run[r] \in Row
        /\ snap.count = run[r].count /\ snap.processed < snap.next
        /\ snap.next <= snap.count + 1
        /\ \A q \in task[t].orphans : run[q].status # "Absent"
    BY <1>10, <1>0, <1>00 DEF ResumeStart, TaskOK, Task, TypeOK
  <2>2. snap.processed \in Nat /\ snap.next \in Nat
    BY <2>1 DEF Row
  <2>3. /\ new \in Row /\ new.status # "Absent" /\ new.count = snap.count
        /\ new.processed = snap.processed /\ new.next = snap.next
    <3>1. ~(snap.next < 1)
      BY <2>1, <2>2
    <3>2. new \in Row
      BY <2>1 DEF Row, Active
    <3>3. /\ new.status = "Running" /\ new.count = snap.count
          /\ new.processed = snap.processed /\ new.next = snap.next
      BY <2>1, <3>1 DEF Row
    <3> QED BY <3>2, <3>3
  <2>4. run' = [run EXCEPT ![r] = row] /\ task' = [task EXCEPT ![t] = tk]
        /\ UNCHANGED <<seq, cstat, item>>
    BY <1>10 DEF ResumeStart
  <2>5. /\ tk.pc = "announce" /\ tk.run = r /\ tk.orphans = task[t].orphans
        /\ tk.snap = new
    BY <2>1 DEF Task
  <2>6. task'[t] = tk
    BY <2>4 DEF TypeOK
  <2> HIDE DEF tk, new
  <2>7. /\ row \in Row /\ row.status # "Absent" /\ row.count = run[r].count
        /\ row.processed = run[r].processed /\ row.next = run[r].next
    BY <2>1, <2>3, SaveRunKeeps, SaveRunType, Zenon
  <2> HIDE DEF row
  <2>8. RowsInv' /\ Grows
    BY <2>1, <2>4, <2>7, RowsKept
  <2>9. run'[r].status # "Absent" /\ run'[r].count = run[r].count
    BY <2>1, <2>4, <2>7 DEF TypeOK
  <2>10. \A q \in task[t].orphans : q \in Runs /\ run'[q].status # "Absent"
    BY <2>1, <2>8 DEF Grows, Task
  <2>11. TaskOK(task[t])'
    BY <2>1, <2>3, <2>5, <2>6, <2>9, <2>10 DEF TaskOK, Unsaved, Publishing, Executing
  <2> QED BY <2>4, <2>8, <2>11, OneMoves
<1>11. ASSUME NEW t \in Tasks, Checkpoint(t) PROVE RowsInv' /\ TasksInv'
  <2> DEFINE r  == task[t].run
             tk == [task[t] EXCEPT !.snap = run[r],
                                   !.pc = IF run[r].cancel THEN "cancel" ELSE "pick"]
  <2>1. /\ r \in Runs /\ run[r].status # "Absent"
        /\ \A q \in task[t].orphans : run[q].status # "Absent"
    BY <1>11, <1>00 DEF Checkpoint, TaskOK, Executing
  <2>2. task' = [task EXCEPT ![t] = tk] /\ task'[t] = tk /\ UNCHANGED rows
    BY <1>11 DEF Checkpoint, Reloaded, TypeOK
  <2>3. /\ tk.pc \in {"cancel", "pick"} /\ tk.run = r /\ tk.orphans = task[t].orphans
        /\ tk.snap = run[r]
    BY <1>0 DEF Task
  <2> HIDE DEF tk
  <2>4. run[r].processed < run[r].next /\ run[r].next <= run[r].count + 1
    BY <2>1 DEF RowsInv
  <2>5. TaskOK(task[t])'
    BY <2>1, <2>2, <2>3, <2>4 DEF TaskOK, Unsaved, Publishing, Executing, rows
  <2> QED BY <1>000, <2>2, <2>5, OneMoves
<1>12. ASSUME NEW t \in Tasks, PickCandidate(t) PROVE RowsInv' /\ TasksInv'
  <2>1. UNCHANGED rows /\ task[t].pc = "pick" /\ task[t] \in Task /\ TaskOK(task[t])
    BY <1>12, <1>0, <1>00 DEF PickCandidate
  <2>2. ASSUME NEW j \in NextPending(task[t]),
               task' = [task EXCEPT ![t] = [task[t] EXCEPT !.pc = "evaluate", !.job = j]]
        PROVE  RowsInv' /\ TasksInv'
    <3> DEFINE tk == [task[t] EXCEPT !.pc = "evaluate", !.job = j]
    <3>1. j \in Jobs /\ seq[task[t].run][j] >= task[t].snap.next
      BY DEF NextPending, Open
    <3>2. /\ tk.pc = "evaluate" /\ tk.run = task[t].run /\ tk.orphans = task[t].orphans
          /\ tk.snap = task[t].snap /\ tk.job = j
      BY <2>1 DEF Task
    <3>3. task'[t] = tk /\ task' = [task EXCEPT ![t] = tk]
      BY <2>2 DEF TypeOK
    <3> HIDE DEF tk
    <3>4. TaskOK(task[t])'
      BY <2>1, <3>1, <3>2, <3>3 DEF TaskOK, Unsaved, Publishing, Executing, rows
    <3> QED BY <1>000, <2>1, <3>3, <3>4, OneMoves
  <2>3. ASSUME task' = [task EXCEPT ![t] = [task[t] EXCEPT !.pc = "finish"]]
        PROVE  RowsInv' /\ TasksInv'
    <3> DEFINE tk == [task[t] EXCEPT !.pc = "finish"]
    <3>2. /\ tk.pc = "finish" /\ tk.run = task[t].run /\ tk.orphans = task[t].orphans
          /\ tk.snap = task[t].snap
      BY <2>1 DEF Task
    <3>3. task'[t] = tk /\ task' = [task EXCEPT ![t] = tk]
      BY <2>3 DEF TypeOK
    <3> HIDE DEF tk
    <3>4. TaskOK(task[t])'
      BY <2>1, <3>2, <3>3 DEF TaskOK, Unsaved, Publishing, Executing, rows
    <3> QED BY <1>000, <2>1, <3>3, <3>4, OneMoves
  <2> QED BY <1>12, <2>2, <2>3 DEF PickCandidate
<1>13. ASSUME NEW t \in Tasks, EvaluateCandidate(t) PROVE RowsInv' /\ TasksInv'
  <2>1. UNCHANGED rows /\ task[t].pc = "evaluate" /\ task[t] \in Task /\ TaskOK(task[t])
    BY <1>13, <1>0, <1>00 DEF EvaluateCandidate
  <2>2. ASSUME NEW d \in Decisions, NEW e \in BOOLEAN, NEW n \in Nat, Evaluated(t, d, e, n)
        PROVE  RowsInv' /\ TasksInv'
    <3> DEFINE found == item[task[t].run][task[t].job]
               tk == [task[t] EXCEPT !.pc = "save", !.fallback = n,
                         !.outcome = [decision |-> d, error |-> e], !.found = found]
    <3>1. /\ tk.pc = "save" /\ tk.run = task[t].run /\ tk.orphans = task[t].orphans
          /\ tk.snap = task[t].snap /\ tk.job = task[t].job
          /\ tk.outcome.decision = d /\ tk.found = found
      BY <2>1 DEF Task
    <3>2. task'[t] = tk /\ task' = [task EXCEPT ![t] = tk]
      BY <2>2 DEF Evaluated, TypeOK
    <3> HIDE DEF tk
    <3>3. TaskOK(task[t])'
      BY <2>1, <3>1, <3>2 DEF TaskOK, Unsaved, Publishing, Executing, rows
    <3> QED BY <1>000, <2>1, <3>2, <3>3, OneMoves
  <2> QED BY <1>13, <2>2, EvaluatedCases
<1>14. ASSUME NEW t \in Tasks, SaveCandidate(t) PROVE RowsInv' /\ TasksInv'
  <2> DEFINE r   == task[t].run
             j   == task[t].job
             new == Advanced(task[t])
             tk  == [task[t] EXCEPT !.pc = "loop", !.snap = new,
                        !.job = None, !.found = NoItem, !.outcome = NoOutcome]
  <2>1. /\ Unsaved(task[t]) /\ TaskOK(task[t]) /\ task[t] \in Task
        /\ task[t].pc = "save"
    BY <1>14, <1>0, <1>00 DEF SaveCandidate, Unsaved
  <2>2. /\ r \in Runs /\ j \in Jobs /\ run[r].status # "Absent"
        /\ task[t].snap.count = run[r].count
        /\ task[t].snap.processed < task[t].snap.next
        /\ seq[r][j] >= task[t].snap.next
        /\ \A q \in task[t].orphans : q \in Runs /\ run[q].status # "Absent"
    BY <2>1 DEF TaskOK, Executing, Task
  <2>3. /\ task[t].snap \in Row /\ seq[r][j] \in Nat
        /\ task[t].snap.processed \in Nat /\ task[t].snap.next \in Nat
        /\ task[t].snap.count \in Nat
    BY <2>1, <2>2 DEF TypeOK, Task, Row
  <2>4. /\ new \in Row /\ new.count = task[t].snap.count
        /\ new.processed = task[t].snap.processed + 1 /\ new.next = seq[r][j] + 1
        /\ new.status = task[t].snap.status
    BY <2>2, AdvancedType DEF Advanced, Advance, NextSequence
  <2>5. task' = [task EXCEPT ![t] = tk] /\ task'[t] = tk /\ SaveDecision(task[t], new)
    BY <1>14 DEF SaveCandidate, TypeOK
  <2>6. /\ tk.pc = "loop" /\ tk.run = r /\ tk.orphans = task[t].orphans /\ tk.snap = new
    BY <2>1 DEF Task
  <2> HIDE DEF new, tk
  <2>7. seq[r][j] <= run[r].count
    BY <2>2 DEF RowsInv, Numbers
  <2>8. task[t].snap.status # "Absent"
    BY <2>1 DEF TaskOK, Executing
  <2>9. RowsInv' /\ Grows
    BY <2>1, <2>2, <2>4, <2>5, <2>8, SaveDecisionInv
  <2>10. TaskOK(task[t])'
    <3>1. run'[r].status # "Absent" /\ run'[r].count = run[r].count
      BY <2>2, <2>9 DEF Grows
    <3>2. \A q \in task[t].orphans : run'[q].status # "Absent"
      BY <2>2, <2>9 DEF Grows
    <3>3. new.count = run[r].count /\ new.processed < new.next /\ new.next <= new.count + 1
      BY <2>2, <2>3, <2>4, <2>7
    <3> QED BY <2>2, <2>4, <2>5, <2>6, <2>8, <3>1, <3>2, <3>3
            DEF TaskOK, Unsaved, Publishing, Executing
  <2> QED BY <2>5, <2>9, <2>10, OneMoves
<1>15. ASSUME NEW t \in Tasks, CompleteRun(t) PROVE RowsInv' /\ TasksInv'
  BY <1>15, EndRunInv DEF CompleteRun, Executing, Terminal
<1>16. ASSUME NEW t \in Tasks, MarkRunCancelled(t) PROVE RowsInv' /\ TasksInv'
  BY <1>16, EndRunInv DEF MarkRunCancelled, Executing, Terminal
<1>17. ASSUME NEW t \in Tasks, task[t].pc \in Executing, Abort(t)
       PROVE  RowsInv' /\ TasksInv'
  <2>1. UNCHANGED rows /\ task[t] \in Task /\ TaskOK(task[t])
    BY <1>17, <1>0, <1>00 DEF Abort
  <2>2. CASE task[t].pc = "save"
    <3> DEFINE tk == [task[t] EXCEPT !.pc = "abort"]
    <3>1. /\ tk.pc = "abort" /\ tk.run = task[t].run /\ tk.orphans = task[t].orphans
          /\ tk.snap = task[t].snap /\ tk.job = task[t].job
          /\ tk.outcome = task[t].outcome /\ tk.found = task[t].found
      BY <2>1 DEF Task
    <3>2. task'[t] = tk /\ task' = [task EXCEPT ![t] = tk]
      BY <1>17, <2>2 DEF Abort, TypeOK
    <3> HIDE DEF tk
    <3>3. TaskOK(task[t])'
      BY <2>1, <2>2, <3>1, <3>2 DEF TaskOK, Unsaved, Publishing, Executing, rows
    <3> QED BY <1>000, <2>1, <3>2, <3>3, OneMoves
  <2>3. CASE task[t].pc # "save"
    <3> DEFINE tk == [task[t] EXCEPT !.pc = "abort", !.job = None]
    <3>1. /\ tk.pc = "abort" /\ tk.run = task[t].run /\ tk.orphans = task[t].orphans
          /\ tk.snap = task[t].snap /\ tk.job = None
      BY <2>1 DEF Task
    <3>2. task'[t] = tk /\ task' = [task EXCEPT ![t] = tk]
      BY <1>17, <2>3 DEF Abort, TypeOK
    <3> HIDE DEF tk
    <3>3. TaskOK(task[t])'
      BY <1>17, <2>1, <3>1, <3>2 DEF TaskOK, Unsaved, Publishing, Executing, rows
    <3> QED BY <1>000, <2>1, <3>2, <3>3, OneMoves
  <2> QED BY <2>2, <2>3
<1>18. ASSUME NEW t \in Tasks, PersistFailed(t) PROVE RowsInv' /\ TasksInv'
  <2>1. CASE task[t].job = None
    BY <1>18, <2>1, EndRunInv DEF PersistFailed, Executing, Terminal
  <2>2. CASE task[t].job # None
    <3> DEFINE new == [Advanced(task[t]) EXCEPT !.status = "Failed"]
    <3>1. /\ Unsaved(task[t]) /\ TaskOK(task[t]) /\ task[t].pc = "abort"
          /\ SaveDecision(task[t], new) /\ task' = [task EXCEPT ![t] = Idle]
      BY <1>18, <1>00, <2>2 DEF PersistFailed, Unsaved
    <3>2. task[t].run \in Runs /\ task[t].job \in Jobs
      BY <3>1 DEF TaskOK, Executing
    <3>3. new \in Row /\ Advanced(task[t]) \in Row
      BY <3>2, AdvancedType
    <3>4. /\ new.status # "Absent" /\ new.count = task[t].snap.count
          /\ new.processed = task[t].snap.processed + 1
          /\ new.next = seq[task[t].run][task[t].job] + 1
      BY <3>3 DEF Advanced, Advance, NextSequence, Row
    <3> HIDE DEF new
    <3>5. RowsInv' /\ Grows
      BY <3>1, <3>3, <3>4, SaveDecisionInv
    <3>6. task'[t] = Idle
      BY <3>1 DEF TypeOK
    <3> QED BY <3>1, <3>5, <3>6, IdleOK, OneMoves
  <2> QED BY <2>1, <2>2
<1>19. ASSUME NEW t \in Tasks, PersistFailedFails(t) \/ NotReady(t) \/ RequestFails(t)
       PROVE RowsInv' /\ TasksInv'
  BY <1>19, GoesIdle DEF PersistFailedFails, NotReady, RequestFails
<1>20. ASSUME NEW t \in Tasks, NEW r \in Runs, CancelRequest(t, r)
       PROVE  RowsInv' /\ TasksInv'
  <2>1. /\ UNCHANGED rows /\ run[r].status # "Absent"
        /\ task' = [task EXCEPT ![t] = [Idle EXCEPT !.pc = "stop", !.run = r]]
    BY <1>20 DEF CancelRequest, Active
  <2>2. task'[t].pc = "stop" /\ task'[t].run = r /\ task'[t].orphans = {}
    BY <2>1 DEF Idle, TypeOK
  <2>3. TaskOK(task[t])'
    BY <2>1, <2>2 DEF TaskOK, Unsaved, Publishing, Executing, rows
  <2> QED BY <1>000, <2>1, <2>3, OneMoves
<1>21. ASSUME NEW t \in Tasks, CancelSave(t) PROVE RowsInv' /\ TasksInv'
  <2> DEFINE r   == task[t].run
             row == [run[r] EXCEPT !.cancel = TRUE]
             tk  == [task[t] EXCEPT !.pc = "publishStop"]
  <2>1. /\ task[t] \in Task /\ TaskOK(task[t]) /\ task[t].pc = "stop"
        /\ r \in Runs /\ run[r].status # "Absent" /\ run[r] \in Row
    BY <1>21, <1>0, <1>00 DEF CancelSave, TaskOK, TypeOK
  <2>2. /\ row \in Row /\ row.status = run[r].status /\ row.count = run[r].count
        /\ row.processed = run[r].processed /\ row.next = run[r].next
    BY <2>1 DEF Row
  <2>3. /\ run' = [run EXCEPT ![r] = row] /\ UNCHANGED <<seq, cstat, item>>
        /\ task' = [task EXCEPT ![t] = tk] /\ task'[t] = tk
    BY <1>21 DEF CancelSave, TypeOK
  <2>4. tk.pc = "publishStop" /\ tk.run = r /\ tk.orphans = task[t].orphans
    BY <2>1 DEF Task
  <2> HIDE DEF row, tk
  <2>5. RowsInv' /\ Grows
    BY <2>1, <2>2, <2>3, RowsKept
  <2>6. \A q \in task[t].orphans : q \in Runs /\ run'[q].status # "Absent"
    BY <2>1, <2>5 DEF Grows, TaskOK, Task
  <2>7. run'[r].status # "Absent"
    BY <2>1, <2>5 DEF Grows
  <2>8. TaskOK(task[t])'
    BY <2>1, <2>3, <2>4, <2>6, <2>7 DEF TaskOK, Unsaved, Publishing, Executing
  <2> QED BY <2>3, <2>5, <2>8, OneMoves
<1>22. CASE Restart
  <2>1. RowsInv'
    BY <1>000, <1>22 DEF Restart
  <2>2. \A t \in Tasks : task'[t] = Idle
    BY <1>22 DEF Restart
  <2> QED BY <2>1, <2>2, IdleOK DEF TasksInv
<1>23. CASE UNCHANGED vars
  BY <1>23 DEF vars, RowsInv, TasksInv, TaskOK
<1> QED
  BY <1>1, <1>2, <1>3, <1>4, <1>5, <1>6, <1>7, <1>8, <1>9, <1>10, <1>11, <1>12, <1>13,
     <1>14, <1>15, <1>16, <1>17, <1>18, <1>19, <1>20, <1>21, <1>22, <1>23
  DEF Next, Arrive, Step, Fail, ResumeRequest, SaveRefused, ExecutionFails, Executing

-----------------------------------------------------------------------------
(* A run with one executor at a time *)

\* One more element in a set of jobs.
LEMMA CountAdd ==
    ASSUME NEW S \in SUBSET Jobs, NEW j \in Jobs, j \notin S
    PROVE  Cardinality(S \cup {j}) = Cardinality(S) + 1
<1>1. IsFiniteSet(S)
  BY ConstantsAssumption, FS_Subset
<1> QED BY <1>1, FS_AddElement

\* What a step may do to a run whose decisions it does not touch: the columns
\* that count stay, and the status becomes Completed when all is processed.
SameRow(r) ==
    /\ run'[r].count = run[r].count /\ run'[r].processed = run[r].processed
    /\ run'[r].next = run[r].next /\ run'[r].accepted = run[r].accepted
    /\ run'[r].review = run[r].review /\ run'[r].failed = run[r].failed
    /\ run'[r].status = "Completed" =>
          run[r].status = "Completed" \/ run[r].processed = run[r].count
    /\ seq'[r] = seq[r] /\ cstat'[r] = cstat[r] /\ item'[r] = item[r]
    /\ late'[r] = late[r] \/ late'[r] = 0

LEMMA ExactKept ==
    ASSUME NEW r \in Runs, ExactRow(r), SameRow(r)
    PROVE  ExactRow(r)'
<1>1. run'[r].next = run'[r].processed + 1
  BY DEF ExactRow, SameRow
<1>2. \A j \in Jobs :
          /\ cstat'[r][j] \in Decisions <=> seq'[r][j] # 0 /\ seq'[r][j] < run'[r].next
          /\ cstat'[r][j] \in Decisions => /\ item'[r][j].rank = seq'[r][j]
                                           /\ item'[r][j].decision = cstat'[r][j]
  BY DEF ExactRow, SameRow
<1>3. /\ run'[r].accepted = Cardinality({j \in Jobs : item'[r][j].decision = "Accepted"})
      /\ run'[r].review   = Cardinality({j \in Jobs : item'[r][j].decision = "NeedsReview"})
      /\ run'[r].failed   = Cardinality({j \in Jobs : item'[r][j].error})
  BY DEF ExactRow, SameRow
<1>4. run'[r].status = "Completed" => run'[r].processed = run'[r].count
  BY DEF ExactRow, SameRow
<1>5. late'[r] <= 1
  BY DEF ExactRow, SameRow
<1> QED BY <1>1, <1>2, <1>3, <1>4, <1>5 DEF ExactRow

\* A run stays one with a single executor when one task moves that works on
\* another run, was its executor already, or finds it without one.
LEMMA SoleKept ==
    ASSUME NEW r \in Runs, SoleRun(r), SameRow(r), NEW t \in Tasks,
           \A u \in Tasks \ {t} : task'[u] = task[u],
           task'[t].run = r /\ task'[t].pc \in Executing =>
               t \in Executors(r) \/ Executors(r) = {},
           task'[t].run = r /\ task'[t].pc \in Executing \cup {"start"} =>
               SnapFits(task[t], r)'
    PROVE  SoleRun(r)'
<1>1. ExactRow(r)'
  BY ExactKept DEF SoleRun
<1>2. ASSUME NEW s \in Executors(r)', NEW u \in Executors(r)' PROVE s = u
  <2>1. \A v \in Executors(r) : v \in Tasks
    BY DEF Executors
  <2>2. \A v \in Executors(r)' : v = t \/ v \in Executors(r)
    BY DEF Executors
  <2>3. t \in Executors(r)' => t \in Executors(r) \/ Executors(r) = {}
    BY DEF Executors
  <2>4. \A v, w \in Executors(r) : v = w
    BY DEF SoleRun
  <2> QED BY <1>2, <2>2, <2>3, <2>4
<1>3. ASSUME NEW u \in Tasks, task'[u].run = r, task'[u].pc \in Executing \cup {"start"}
      PROVE  SnapFits(task[u], r)'
  <2>1. CASE u = t
    BY <1>3, <2>1
  <2>2. CASE u # t
    <3>1. task'[u] = task[u] /\ SnapFits(task[u], r)
      BY <1>3, <2>2 DEF SoleRun
    <3>2. /\ task'[u].snap.processed <= run'[r].processed
          /\ task'[u].pc = "finish" => run'[r].processed = run'[r].count
          /\ task'[u].pc = "evaluate" \/ Unsaved(task'[u]) =>
                seq'[r][task'[u].job] = run'[r].next
      BY <3>1 DEF SnapFits, SameRow
    <3>3. Deciding(task'[u]) =>
              /\ late'[r] = 0
              /\ task'[u].snap.processed = run'[r].processed
              /\ task'[u].snap.next = run'[r].next
              /\ task'[u].snap.accepted = run'[r].accepted
              /\ task'[u].snap.review = run'[r].review
              /\ task'[u].snap.failed = run'[r].failed
      BY <3>1 DEF SnapFits, SameRow
    <3> QED BY <3>2, <3>3 DEF SnapFits, Deciding, Unsaved
  <2> QED BY <2>1, <2>2
<1> QED BY <1>1, <1>2, <1>3 DEF SoleRun

\* What the save of a decision does to the rows.
LEMMA SaveSole ==
    ASSUME TypeOK, RowsInv, TasksInv, TraceInv, NEW t \in Tasks, Unsaved(task[t]),
           NEW r \in Runs, r = task[t].run, NEW j \in Jobs, j = task[t].job,
           NEW new \in Row, SaveDecision(task[t], new),
           new.count = task[t].snap.count,
           new.processed = Advanced(task[t]).processed,
           new.next = Advanced(task[t]).next,
           new.accepted = Advanced(task[t]).accepted,
           new.review = Advanced(task[t]).review,
           new.failed = Advanced(task[t]).failed,
           new.status \in {task[t].snap.status, "Failed"},
           SoleRun(r)
    PROVE  ExactRow(r)' /\ run'[r].processed = new.processed /\ item[r][j].rank = 0
<1> DEFINE tk == task[t]
           snap == tk.snap
           o == tk.outcome
           row == SaveRun(run[r], snap, new)
<1>1. /\ TaskOK(tk) /\ tk \in Task /\ snap \in Row /\ o \in Outcome /\ tk.found \in Item
  BY DEF TasksInv, TypeOK, Task
<1>2. /\ r \in Runs /\ j \in Jobs /\ run[r].status # "Absent"
      /\ snap.count = run[r].count
      /\ o.decision \in Decisions
      /\ tk.found.rank # 0 => item[r][j].rank # 0
      /\ tk.pc \in Executing
  BY <1>1 DEF TaskOK, Unsaved, Executing
<1>3. /\ run[r] \in Row /\ seq[r][j] \in Nat /\ item[r][j] \in Item
      /\ late[r] \in Nat
  BY <1>2 DEF TypeOK
<1>4. ExactRow(r) /\ SnapFits(tk, r)
  BY <1>2 DEF SoleRun
<1>5. /\ late[r] = 0 /\ seq[r][j] = run[r].next
      /\ snap.processed = run[r].processed /\ snap.next = run[r].next
      /\ snap.accepted = run[r].accepted /\ snap.review = run[r].review
      /\ snap.failed = run[r].failed
  BY <1>4 DEF SnapFits, Deciding
<1>6. /\ run[r].next = run[r].processed + 1
      /\ run[r].processed \in Nat /\ run[r].next \in Nat /\ run[r].count \in Nat
      /\ run[r].accepted \in Nat /\ run[r].review \in Nat /\ run[r].failed \in Nat
  BY <1>3, <1>4 DEF ExactRow, Row
\* The candidate the checkpoint names has no decision yet.
<1>7. cstat[r][j] \notin Decisions /\ item[r][j].rank = 0
  <2>1. ~(seq[r][j] < run[r].next)
    BY <1>5, <1>6
  <2>2. cstat[r][j] \notin Decisions
    BY <1>2, <1>4, <2>1 DEF ExactRow
  <2> QED BY <1>2, <2>2 DEF RowsInv
<1>8. item[r][j] = NoItem /\ tk.found.rank = 0
  BY <1>2, <1>7 DEF TraceInv
<1>9. /\ run' = [run EXCEPT ![r] = row]
      /\ item' = [item EXCEPT ![r][j] = SaveItem(item[r][j], tk.found, Decided(tk))]
      /\ cstat' = [cstat EXCEPT ![r][j] = o.decision]
      /\ late' = [late EXCEPT ![r] = IF run[r].cancel THEN @ + 1 ELSE @]
      /\ seq' = seq
  BY DEF SaveDecision
<1>10. run'[r] = row /\ seq'[r] = seq[r]
  BY <1>2, <1>9 DEF TypeOK
<1>11. late'[r] = IF run[r].cancel THEN 1 ELSE 0
  BY <1>2, <1>5, <1>9 DEF TypeOK
<1>12. \A i \in Jobs \ {j} : item'[r][i] = item[r][i] /\ cstat'[r][i] = cstat[r][i]
  BY <1>2, <1>9 DEF TypeOK
<1>13. item'[r][j] = Decided(tk) /\ cstat'[r][j] = o.decision
  <2>1. item'[r][j] = SaveItem(item[r][j], tk.found, Decided(tk)) /\ cstat'[r][j] = o.decision
    BY <1>2, <1>9 DEF TypeOK
  <2> QED BY <1>8, <2>1 DEF SaveItem
<1>14. /\ new.processed = snap.processed + 1 /\ new.next = seq[r][j] + 1
       /\ new.accepted = IF o.decision = "Accepted" THEN snap.accepted + 1 ELSE snap.accepted
       /\ new.review = IF o.decision = "NeedsReview" THEN snap.review + 1 ELSE snap.review
       /\ new.failed = IF o.error THEN snap.failed + 1 ELSE snap.failed
  BY DEF Advanced, Advance, NextSequence
<1>15. /\ run'[r].count = run[r].count /\ run'[r].processed = new.processed
       /\ run'[r].next = new.next /\ run'[r].accepted = new.accepted
       /\ run'[r].review = new.review /\ run'[r].failed = new.failed
       /\ run'[r].status \in {run[r].status, "Failed"}
  BY <1>2, <1>5, <1>10 DEF SaveRun, Column
<1>16. run'[r].processed = run[r].processed + 1 /\ run'[r].next = run[r].next + 1
  BY <1>5, <1>14, <1>15
<1>17. run'[r].accepted = IF o.decision = "Accepted" THEN run[r].accepted + 1 ELSE run[r].accepted
  BY <1>5, <1>14, <1>15
<1>18. run'[r].review = IF o.decision = "NeedsReview" THEN run[r].review + 1 ELSE run[r].review
  BY <1>5, <1>14, <1>15
<1>19. run'[r].failed = IF o.error THEN run[r].failed + 1 ELSE run[r].failed
  BY <1>5, <1>14, <1>15
<1> HIDE DEF row
<1>20. item'[r][j].rank = seq[r][j]
  BY <1>5, <1>6, <1>13 DEF Decided
<1>21. item'[r][j].decision = o.decision /\ item'[r][j].error = o.error
  BY <1>13 DEF Decided
<1>22. run'[r].next = run'[r].processed + 1
  BY <1>6, <1>16
<1>23. ASSUME NEW i \in Jobs
       PROVE  /\ cstat'[r][i] \in Decisions <=> seq'[r][i] # 0 /\ seq'[r][i] < run'[r].next
              /\ cstat'[r][i] \in Decisions => /\ item'[r][i].rank = seq'[r][i]
                                               /\ item'[r][i].decision = cstat'[r][i]
  <2>1. seq[r][i] \in Nat /\ seq'[r][i] = seq[r][i]
    BY <1>2, <1>10 DEF TypeOK
  <2>2. CASE i = j
    <3>1. cstat'[r][i] \in Decisions /\ item'[r][i].decision = cstat'[r][i]
      BY <1>2, <1>13, <1>21, <2>2
    <3>2. seq'[r][i] # 0 /\ seq'[r][i] < run'[r].next
      BY <1>5, <1>6, <1>16, <2>1, <2>2
    <3> QED BY <1>20, <2>1, <2>2, <3>1, <3>2
  <2>3. CASE i # j
    <3>1. /\ cstat[r][i] \in Decisions <=> seq[r][i] # 0 /\ seq[r][i] < run[r].next
          /\ cstat[r][i] \in Decisions => /\ item[r][i].rank = seq[r][i]
                                          /\ item[r][i].decision = cstat[r][i]
      BY <1>4 DEF ExactRow
    \* The numbers are distinct.
    <3>2. seq[r][i] # seq[r][j]
      <4>1. seq[r][j] # 0
        BY <1>5, <1>6
      <4> QED BY <1>2, <2>3, <4>1 DEF RowsInv, Numbers
    <3>4. cstat'[r][i] = cstat[r][i] /\ item'[r][i] = item[r][i]
      BY <1>12, <2>3
    <3>5. seq[r][i] < run'[r].next <=> seq[r][i] < run[r].next
      BY <1>5, <1>6, <1>16, <2>1, <3>2
    <3> QED BY <2>1, <3>1, <3>4, <3>5
  <2> QED BY <2>2, <2>3
<1>24. NoItem.decision = "Pending" /\ NoItem.error = FALSE
  BY DEF NoItem
<1>25. run'[r].accepted = Cardinality({i \in Jobs : item'[r][i].decision = "Accepted"})
  <2> DEFINE S == {i \in Jobs : item[r][i].decision = "Accepted"}
             T == {i \in Jobs : item'[r][i].decision = "Accepted"}
  <2>1. run[r].accepted = Cardinality(S)
    BY <1>4 DEF ExactRow
  <2>2. j \notin S
    BY <1>8, <1>24
  <2>3. o.decision = "Accepted" => T = S \cup {j}
    <3> SUFFICES ASSUME o.decision = "Accepted" PROVE T = S \cup {j}
      OBVIOUS
    <3>1. item'[r][j].decision = "Accepted"
      BY <1>21
    <3>2. \A i \in Jobs \ {j} : i \in T <=> i \in S
      BY <1>12
    <3> QED BY <1>2, <3>1, <3>2, Zenon
  <2>4. o.decision # "Accepted" => T = S
    <3> SUFFICES ASSUME o.decision # "Accepted" PROVE T = S
      OBVIOUS
    <3>1. j \notin T
      BY <1>21
    <3>2. \A i \in Jobs \ {j} : i \in T <=> i \in S
      BY <1>12
    <3> QED BY <1>2, <2>2, <3>1, <3>2, Zenon
  <2>5. S \in SUBSET Jobs
    OBVIOUS
  <2> SUFFICES run'[r].accepted = Cardinality(T)
    OBVIOUS
  <2> HIDE DEF S, T
  <2>6. o.decision = "Accepted" => Cardinality(T) = Cardinality(S) + 1
    BY <1>2, <2>2, <2>3, <2>5, CountAdd
  <2> QED BY <1>17, <2>1, <2>4, <2>6
<1>26. run'[r].review = Cardinality({i \in Jobs : item'[r][i].decision = "NeedsReview"})
  <2> DEFINE S == {i \in Jobs : item[r][i].decision = "NeedsReview"}
             T == {i \in Jobs : item'[r][i].decision = "NeedsReview"}
  <2>1. run[r].review = Cardinality(S)
    BY <1>4 DEF ExactRow
  <2>2. j \notin S
    BY <1>8, <1>24
  <2>3. o.decision = "NeedsReview" => T = S \cup {j}
    <3> SUFFICES ASSUME o.decision = "NeedsReview" PROVE T = S \cup {j}
      OBVIOUS
    <3>1. item'[r][j].decision = "NeedsReview"
      BY <1>21
    <3>2. \A i \in Jobs \ {j} : i \in T <=> i \in S
      BY <1>12
    <3> QED BY <1>2, <3>1, <3>2, Zenon
  <2>4. o.decision # "NeedsReview" => T = S
    <3> SUFFICES ASSUME o.decision # "NeedsReview" PROVE T = S
      OBVIOUS
    <3>1. j \notin T
      BY <1>21
    <3>2. \A i \in Jobs \ {j} : i \in T <=> i \in S
      BY <1>12
    <3> QED BY <1>2, <2>2, <3>1, <3>2, Zenon
  <2>5. S \in SUBSET Jobs
    OBVIOUS
  <2> SUFFICES run'[r].review = Cardinality(T)
    OBVIOUS
  <2> HIDE DEF S, T
  <2>6. o.decision = "NeedsReview" => Cardinality(T) = Cardinality(S) + 1
    BY <1>2, <2>2, <2>3, <2>5, CountAdd
  <2> QED BY <1>18, <2>1, <2>4, <2>6
<1>27. run'[r].failed = Cardinality({i \in Jobs : item'[r][i].error})
  <2> DEFINE S == {i \in Jobs : item[r][i].error}
             T == {i \in Jobs : item'[r][i].error}
  <2>1. run[r].failed = Cardinality(S)
    BY <1>4 DEF ExactRow
  <2>2. j \notin S
    BY <1>8, <1>24
  <2>3. o.error => T = S \cup {j}
    <3> SUFFICES ASSUME o.error PROVE T = S \cup {j}
      OBVIOUS
    <3>1. item'[r][j].error
      BY <1>21
    <3>2. \A i \in Jobs \ {j} : i \in T <=> i \in S
      BY <1>12
    <3> QED BY <1>2, <3>1, <3>2, Zenon
  <2>4. ~o.error => T = S
    <3> SUFFICES ASSUME ~o.error PROVE T = S
      OBVIOUS
    <3>1. j \notin T
      BY <1>21
    <3>2. \A i \in Jobs \ {j} : i \in T <=> i \in S
      BY <1>12
    <3> QED BY <1>2, <2>2, <3>1, <3>2, Zenon
  <2>5. S \in SUBSET Jobs
    OBVIOUS
  <2> SUFFICES run'[r].failed = Cardinality(T)
    OBVIOUS
  <2> HIDE DEF S, T
  <2>6. o.error => Cardinality(T) = Cardinality(S) + 1
    BY <1>2, <2>2, <2>3, <2>5, CountAdd
  <2> QED BY <1>19, <2>1, <2>4, <2>6
\* A Completed run has no candidate left to decide.
<1>28. run'[r].status = "Completed" => run'[r].processed = run'[r].count
  <2>1. seq[r][j] <= run[r].count
    BY <1>2 DEF RowsInv, Numbers
  <2>2. run[r].processed # run[r].count
    BY <1>5, <1>6, <2>1
  <2>3. run[r].status # "Completed"
    BY <1>4, <2>2 DEF ExactRow
  <2> QED BY <1>15, <2>3
<1>29. late'[r] <= 1
  BY <1>11
<1> QED BY <1>7, <1>15, <1>22, <1>23, <1>25, <1>26, <1>27, <1>28, <1>29 DEF ExactRow

\* A decision is never undone, and not changed either while its run has one
\* executor at a time: what DecisionsFinal says of a step.
FinalStep ==
    \A r \in Runs, j \in Jobs : item[r][j].rank # 0 =>
        /\ item'[r][j].rank # 0 /\ cstat'[r][j] \in Decisions
        /\ ~overlapped'[r] => item'[r][j] = item[r][j]

\* The three facts a step has to keep.
Exactness == TraceInv' /\ SoleInv' /\ FinalStep

\* A step that decides nothing and creates no run.
LEMMA RowsSteady ==
    ASSUME TypeOK, RowsInv, TraceInv, SoleInv, NEW t \in Tasks,
           UNCHANGED <<cstat, item>>,
           \A r \in Runs : overlapped[r] => overlapped'[r],
           \A r \in Runs : ~overlapped'[r] => SameRow(r),
           \A r \in Runs : \/ late'[r] = 0
                           \/ late'[r] = late[r] /\ (run[r].cancel => run'[r].cancel),
           \A u \in Tasks \ {t} : task'[u] = task[u],
           \A r \in Runs :
               ~overlapped'[r] /\ task'[t].run = r /\ task'[t].pc \in Executing =>
                   t \in Executors(r) \/ Executors(r) = {},
           \A r \in Runs :
               ~overlapped'[r] /\ task'[t].run = r /\ task'[t].pc \in Executing \cup {"start"}
                   => SnapFits(task[t], r)'
    PROVE  Exactness
<1>1. TraceInv'
  BY DEF TraceInv
<1>2. ASSUME NEW r \in Runs, ~overlapped'[r] PROVE SoleRun(r)'
  <2>1. SoleRun(r) /\ SameRow(r)
    BY <1>2 DEF SoleInv
  <2> QED BY <1>2, <2>1, SoleKept
<1>3. FinalStep
  BY DEF FinalStep, RowsInv
<1> QED BY <1>1, <1>2, <1>3 DEF Exactness, SoleInv

\* A step that changes no row.
LEMMA RowsStay ==
    ASSUME TypeOK, RowsInv, TraceInv, SoleInv, NEW t \in Tasks,
           UNCHANGED <<rows, overlapped>>, NEW tk, task' = [task EXCEPT ![t] = tk],
           \A r \in Runs : tk.run = r /\ tk.pc \in Executing => t \in Executors(r),
           \A r \in Runs :
               ~overlapped[r] /\ tk.run = r /\ tk.pc \in Executing \cup {"start"}
                   => SnapFits(tk, r)
    PROVE  Exactness
<1>1. task'[t] = tk /\ \A u \in Tasks \ {t} : task'[u] = task[u]
  BY DEF TypeOK
<1>2. \A r \in Runs : SameRow(r)
  BY DEF rows, SameRow
<1>3. ASSUME NEW r \in Runs, ~overlapped'[r], task'[t].run = r,
             task'[t].pc \in Executing \cup {"start"}
      PROVE  SnapFits(task[t], r)'
  <2>1. SnapFits(tk, r)
    BY <1>1, <1>3
  <2> QED BY <1>1, <2>1 DEF SnapFits, Deciding, Unsaved, rows
<1> QED BY <1>1, <1>2, <1>3, RowsSteady DEF rows

\* A request that is, afterwards, neither executing nor about to.
LEMMA Leaves ==
    ASSUME TypeOK, RowsInv, TraceInv, SoleInv, NEW t \in Tasks,
           UNCHANGED <<rows, overlapped>>, NEW tk, task' = [task EXCEPT ![t] = tk],
           tk.pc \notin Executing \cup {"start"}
    PROVE  Exactness
BY RowsStay

LEMMA IdleLeaves ==
    ASSUME TypeOK, RowsInv, TraceInv, SoleInv, NEW t \in Tasks,
           UNCHANGED <<rows, overlapped>>, task' = [task EXCEPT ![t] = Idle]
    PROVE  Exactness
<1>1. Idle.pc \notin Executing \cup {"start"}
  BY DEF Idle, Executing
<1> QED BY <1>1, Leaves

\* The candidate the loop picks is the one the checkpoint names, and the loop
\* finds none only when all are decided.
LEMMA PickFirst ==
    ASSUME TypeOK, RowsInv, NEW tk \in Task, NEW r \in Runs, tk.run = r,
           ExactRow(r), tk.snap.next = run[r].next
    PROVE  /\ \A j \in NextPending(tk) : j \in Jobs /\ seq[r][j] = run[r].next
           /\ NextPending(tk) = {} => run[r].processed = run[r].count
<1>1. /\ run[r].next \in Nat /\ run[r].processed \in Nat /\ run[r].count \in Nat
      /\ \A j \in Jobs : seq[r][j] \in Nat /\ cstat[r][j] \in CandidateStatus
  BY DEF TypeOK, Row
<1>2. /\ Numbers(seq[r], run[r].count) /\ run[r].next = run[r].processed + 1
      /\ run[r].next <= run[r].count + 1
  BY DEF RowsInv, ExactRow
<1>3. \A j \in Jobs : Open(tk, j) => seq[r][j] >= run[r].next
  BY DEF Open
<1>4. ASSUME NEW i \in Jobs, seq[r][i] = run[r].next PROVE Open(tk, i)
  <2>1. ~(seq[r][i] < run[r].next)
    BY <1>1, <1>4
  <2>2. cstat[r][i] \notin Decisions
    BY <2>1 DEF ExactRow
  <2>3. cstat[r][i] = "Pending"
    BY <1>1, <2>2 DEF CandidateStatus
  <2> QED BY <1>1, <1>4, <2>3 DEF Open
<1>5. run[r].next <= run[r].count => \E i \in Jobs : seq[r][i] = run[r].next
  BY <1>1, <1>2 DEF Numbers
<1>6. ASSUME NEW j \in NextPending(tk) PROVE j \in Jobs /\ seq[r][j] = run[r].next
  <2>1. /\ j \in Jobs /\ Open(tk, j)
        /\ \A i \in Jobs : Open(tk, i) => seq[r][j] <= seq[r][i]
    BY <1>6 DEF NextPending
  <2>2. seq[r][j] >= run[r].next /\ seq[r][j] <= run[r].count
    BY <1>2, <1>3, <2>1 DEF Numbers
  <2>3. PICK i \in Jobs : seq[r][i] = run[r].next
    BY <1>1, <1>5, <2>1, <2>2
  <2>4. seq[r][j] <= run[r].next
    BY <1>4, <2>1, <2>3
  <2> QED BY <1>1, <2>1, <2>2, <2>4
<1>7. ASSUME NextPending(tk) = {} PROVE run[r].processed = run[r].count
  <2>1. ASSUME run[r].next <= run[r].count PROVE FALSE
    <3>1. PICK i \in Jobs : seq[r][i] = run[r].next
      BY <1>5, <2>1
    <3>2. Open(tk, i)
      BY <1>4, <3>1
    <3>3. i \in NextPending(tk)
      BY <1>1, <1>3, <3>1, <3>2 DEF NextPending
    <3> QED BY <1>7, <3>3
  <2> QED BY <1>1, <1>2, <2>1
<1> QED BY <1>6, <1>7

\* A row saved with nothing but another status.
LEMMA EndRunSole ==
    ASSUME TypeOK, RowsInv, TasksInv, TraceInv, SoleInv, NEW t \in Tasks,
           task[t].pc \in Executing, NEW status \in Terminal, EndRun(t, status),
           status = "Completed" /\ ~overlapped[task[t].run] =>
               run[task[t].run].processed = run[task[t].run].count
    PROVE  Exactness
<1> DEFINE r == task[t].run
           snap == task[t].snap
           new == [snap EXCEPT !.status = status]
           row == SaveRun(run[r], snap, new)
<1>1. r \in Runs /\ snap \in Row /\ run[r] \in Row
  BY DEF TasksInv, TaskOK, TypeOK, Task
<1>2. /\ new.status = status /\ new.cancel = snap.cancel /\ new.count = snap.count
      /\ new.processed = snap.processed /\ new.next = snap.next
      /\ new.accepted = snap.accepted /\ new.review = snap.review /\ new.failed = snap.failed
  BY <1>1 DEF Row
<1> HIDE DEF new
<1>3. /\ row.status \in {run[r].status, status} /\ row.cancel = run[r].cancel
      /\ row.count = run[r].count /\ row.processed = run[r].processed
      /\ row.next = run[r].next /\ row.accepted = run[r].accepted
      /\ row.review = run[r].review /\ row.failed = run[r].failed
  BY <1>2 DEF SaveRun, Column
<1>4. /\ run' = [run EXCEPT ![r] = row] /\ task' = [task EXCEPT ![t] = Idle]
      /\ UNCHANGED <<seq, cstat, item, overlapped, late>>
  BY DEF EndRun, new
<1> HIDE DEF row
<1>5. /\ run'[r] = row /\ \A q \in Runs \ {r} : run'[q] = run[q]
      /\ task'[t] = Idle /\ \A u \in Tasks \ {t} : task'[u] = task[u]
  BY <1>1, <1>4 DEF TypeOK
<1>6. ASSUME NEW q \in Runs, ~overlapped'[q] PROVE SameRow(q)
  BY <1>3, <1>4, <1>5, <1>6 DEF SameRow
<1>7. \A q \in Runs : late'[q] = late[q] /\ run'[q].cancel = run[q].cancel
  BY <1>3, <1>4, <1>5
<1>8. task'[t].pc \notin Executing \cup {"start"}
  BY <1>5 DEF Idle, Executing
<1> QED BY <1>4, <1>5, <1>6, <1>7, <1>8, RowsSteady

\* The save of a decision: to a run with one executor it adds the candidate the
\* checkpoint names.
LEMMA DecisionSole ==
    ASSUME TypeOK, RowsInv, TasksInv, TraceInv, SoleInv, NEW t \in Tasks,
           NEW r \in Runs, r = task[t].run, NEW j \in Jobs, j = task[t].job,
           Unsaved(task[t]), NEW new \in Row, SaveDecision(task[t], new),
           new.count = task[t].snap.count, new.cancel = task[t].snap.cancel,
           new.processed = Advanced(task[t]).processed,
           new.next = Advanced(task[t]).next,
           new.accepted = Advanced(task[t]).accepted,
           new.review = Advanced(task[t]).review,
           new.failed = Advanced(task[t]).failed,
           new.status \in {task[t].snap.status, "Failed"},
           \A u \in Tasks \ {t} : task'[u] = task[u], overlapped' = overlapped,
           \/ task'[t].pc = "idle"
           \/ /\ task'[t].pc = "loop" /\ task'[t].run = task[t].run
              /\ task'[t].snap.processed = new.processed
    PROVE  Exactness
<1> DEFINE row == SaveRun(run[r], task[t].snap, new)
<1>0. TaskOK(task[t]) /\ task[t].snap \in Row /\ seq[r][j] \in Nat
  BY DEF TasksInv, TypeOK, Task
<1>1. /\ TaskOK(task[t]) /\ task[t].snap \in Row /\ seq[r][j] \in Nat
      /\ task[t].pc \in Executing /\ task[t].snap.status # "Absent"
  BY <1>0 DEF TaskOK, Unsaved, Executing
<1>2. new.status # "Absent"
  BY <1>1
<1>3. new.processed = task[t].snap.processed + 1 /\ new.next = seq[r][j] + 1
  BY DEF Advanced, Advance, NextSequence
<1>4. RowsInv' /\ Grows
  BY <1>1, <1>2, <1>3, SaveDecisionInv
<1>5. /\ run' = [run EXCEPT ![r] = row] /\ seq' = seq
      /\ item' = [item EXCEPT ![r][j] =
                     SaveItem(item[r][j], task[t].found, Decided(task[t]))]
      /\ cstat' = [cstat EXCEPT ![r][j] = task[t].outcome.decision]
      /\ late' = [late EXCEPT ![r] = IF run[r].cancel THEN @ + 1 ELSE @]
  BY DEF SaveDecision
<1>6. row.cancel = run[r].cancel
  BY DEF SaveRun, Column
<1> HIDE DEF row
<1>7. /\ run'[r] = row /\ \A q \in Runs \ {r} : run'[q] = run[q] /\ late'[q] = late[q]
                                              /\ cstat'[q] = cstat[q] /\ item'[q] = item[q]
      /\ \A i \in Jobs \ {j} : item'[r][i] = item[r][i]
      /\ late'[r] = IF run[r].cancel THEN late[r] + 1 ELSE late[r]
  BY <1>1, <1>5 DEF TypeOK
<1>8. cstat'[r][j] \in Decisions
  <2>1. task[t].outcome.decision \in Decisions
    BY <1>1 DEF TaskOK
  <2> QED BY <1>1, <1>5, <2>1 DEF TypeOK
<1>9. TraceInv'
  <2>1. ASSUME NEW q \in Runs, ~run'[q].cancel PROVE late'[q] = 0
    BY <1>6, <1>7, <2>1 DEF TraceInv
  <2>2. item'[r][j].rank # 0
    BY <1>1, <1>4, <1>8 DEF RowsInv
  <2>3. ASSUME NEW q \in Runs, NEW i \in Jobs, item'[q][i].rank = 0
        PROVE  item'[q][i] = NoItem
    <3>1. q # r \/ i # j
      BY <2>2, <2>3
    <3>2. item'[q][i] = item[q][i]
      BY <1>7, <3>1
    <3> QED BY <2>3, <3>2 DEF TraceInv
  <2> QED BY <2>1, <2>3 DEF TraceInv
<1>10. ASSUME ~overlapped[r]
       PROVE  ExactRow(r)' /\ run'[r].processed = new.processed /\ item[r][j].rank = 0
  <2>1. SoleRun(r)
    BY <1>1, <1>10 DEF SoleInv
  <2> QED BY <1>1, <2>1, SaveSole
<1>11. ASSUME NEW q \in Runs, ~overlapped'[q] PROVE SoleRun(q)'
  <2>0. SoleRun(q)
    BY <1>11 DEF SoleInv
  <2>1. CASE q # r
    <3>1. SameRow(q)
      BY <1>5, <1>7, <2>1 DEF SameRow
    <3>2. ~(task'[t].run = q /\ task'[t].pc \in Executing \cup {"start"})
      BY <2>1 DEF Executing
    <3> QED BY <2>0, <3>1, <3>2, SoleKept
  <2>2. CASE q = r
    <3>1. ExactRow(r)' /\ run'[r].processed = new.processed
      BY <1>10, <1>11, <2>2
    <3>2. t \in Executors(r) /\ \A u \in Executors(r) : u = t
      BY <1>1, <2>0, <2>2 DEF SoleRun, Executors
    <3>3. \A u \in Executors(r)' : u = t
      BY <3>2 DEF Executors
    <3>4. ASSUME NEW u \in Tasks, task'[u].run = r, task'[u].pc \in Executing \cup {"start"}
          PROVE  SnapFits(task[u], r)'
      <4>1. CASE u = t
        <5>1. task'[t].pc = "loop" /\ task'[t].snap.processed = run'[r].processed
          BY <3>1, <3>4, <4>1 DEF Executing
        <5> QED BY <1>1, <3>1, <4>1, <5>1 DEF SnapFits, Deciding, Unsaved, Row
      <4>2. CASE u # t
        <5>1. task'[u] = task[u]
          BY <4>2
        <5>2. task[u].pc = "start"
          BY <3>2, <3>4, <4>2, <5>1 DEF Executors
        <5>3. SnapFits(task[u], r) /\ SnapFits(task[t], r)
          BY <1>1, <2>0, <2>2, <3>4, <5>1 DEF SoleRun
        <5>4. /\ task[u].snap.processed <= run[r].processed
              /\ task[t].snap.processed = run[r].processed
          BY <5>3 DEF SnapFits, Deciding
        <5>5. task[u].snap.processed \in Nat /\ run[r].processed \in Nat
          BY <1>1 DEF TypeOK, Task, Row
        <5>6. task'[u].snap.processed <= run'[r].processed
          BY <1>3, <3>1, <5>1, <5>4, <5>5
        <5> QED BY <5>1, <5>2, <5>6 DEF SnapFits, Deciding, Unsaved
      <4> QED BY <4>1, <4>2
    <3> QED BY <2>2, <3>1, <3>3, <3>4 DEF SoleRun
  <2> QED BY <2>1, <2>2
<1>12. ASSUME NEW q \in Runs, NEW i \in Jobs, item[q][i].rank # 0
       PROVE  /\ item'[q][i].rank # 0 /\ cstat'[q][i] \in Decisions
              /\ ~overlapped'[q] => item'[q][i] = item[q][i]
  <2>1. item'[q][i].rank # 0
    BY <1>4, <1>12 DEF Grows
  <2>2. cstat'[q][i] \in Decisions
    BY <1>4, <2>1 DEF RowsInv
  <2>3. CASE q # r
    BY <1>7, <2>1, <2>2, <2>3
  <2>4. CASE q = r
    BY <1>7, <1>10, <1>12, <2>1, <2>2, <2>4
  <2> QED BY <2>3, <2>4
<1> QED BY <1>9, <1>11, <1>12 DEF Exactness, SoleInv, FinalStep

LEMMA SoleStep ==
    ASSUME TypeOK, RowsInv, TasksInv, TraceInv, SoleInv, [Next]_vars
    PROVE  Exactness
<1>0. \A t \in Tasks : task[t] \in Task /\ TaskOK(task[t])
  BY DEF TypeOK, TasksInv
\* A task that executes a run with one executor at a time fits its row.
<1>00. \A t \in Tasks, r \in Runs :
          ~overlapped[r] /\ task[t].run = r /\ task[t].pc \in Executing \cup {"start"} =>
              ExactRow(r) /\ SnapFits(task[t], r)
  BY DEF SoleInv, SoleRun
<1>1. ASSUME NEW t \in Tasks, GenerateRequest(t) \/ Poll(t) PROVE Exactness
  <2> DEFINE gen == IF Orphans = {} THEN "check" ELSE "recoverGenerate"
  <2>1. UNCHANGED <<rows, overlapped>>
    BY <1>1 DEF GenerateRequest, Poll
  <2>2. PICK pc \in {"check", "recoverGenerate", "recoverPoll"} :
           task' = [task EXCEPT ![t] = Recovering(pc)]
    BY <1>1 DEF GenerateRequest, Poll
  <2>3. Recovering(pc).pc \notin Executing \cup {"start"}
    BY RecoveringOK DEF Executing
  <2> HIDE DEF gen
  <2> QED BY <2>1, <2>2, <2>3, Leaves
<1>3. ASSUME NEW t \in Tasks, RecoverOrphans(t) PROVE Exactness
  <2>1. ASSUME NEW r \in Runs
        PROVE  /\ run'[r].count = run[r].count /\ run'[r].processed = run[r].processed
               /\ run'[r].next = run[r].next /\ run'[r].accepted = run[r].accepted
               /\ run'[r].review = run[r].review /\ run'[r].failed = run[r].failed
               /\ run'[r].status \in {run[r].status, "Cancelled"}
               /\ run[r].cancel => run'[r].cancel
    <3> DEFINE row == [run[r] EXCEPT !.status = "Cancelled",
                             !.cancel = IF r \in task[t].asked THEN @ ELSE TRUE]
    <3>1. run'[r] = run[r] \/ run'[r] = row
      BY <1>3 DEF RecoverOrphans
    <3>2. run[r] \in Row
      BY DEF TypeOK
    <3>3. /\ row.count = run[r].count /\ row.processed = run[r].processed
          /\ row.next = run[r].next /\ row.accepted = run[r].accepted
          /\ row.review = run[r].review /\ row.failed = run[r].failed
          /\ row.status = "Cancelled"
      BY <3>2 DEF Row
    <3>4. run[r].cancel => row.cancel
      BY <3>2 DEF Row
    <3> HIDE DEF row
    <3> QED BY <3>1, <3>3, <3>4
  <2>2. UNCHANGED <<seq, cstat, item, overlapped, late>>
    BY <1>3 DEF RecoverOrphans
  <2>3. \A r \in Runs : SameRow(r)
    BY <2>1, <2>2 DEF SameRow
  <2>4. /\ task'[t].pc \in {"idle", "check"}
        /\ \A u \in Tasks \ {t} : task'[u] = task[u]
    BY <1>3 DEF RecoverOrphans, TypeOK, Idle
  <2>5. task'[t].pc \notin Executing \cup {"start"}
    BY <2>4 DEF Executing
  <2> QED BY <2>1, <2>2, <2>3, <2>4, <2>5, RowsSteady
<1>4. ASSUME NEW t \in Tasks, GenerateCheck(t) PROVE Exactness
  <2>1. UNCHANGED <<rows, overlapped>>
    BY <1>4 DEF GenerateCheck
  <2>2. [Idle EXCEPT !.pc = "select"].pc \notin Executing \cup {"start"}
    BY DEF Idle, Executing
  <2>3. \/ task' = [task EXCEPT ![t] = Idle]
        \/ task' = [task EXCEPT ![t] = [Idle EXCEPT !.pc = "select"]]
    BY <1>4 DEF GenerateCheck
  <2> QED BY <2>1, <2>2, <2>3, Leaves, IdleLeaves
<1>5. ASSUME NEW t \in Tasks, GenerateSelect(t) PROVE Exactness
  <2>1. UNCHANGED <<rows, overlapped>>
    BY <1>5 DEF GenerateSelect
  <2>2. ASSUME NEW p, NEW row,
               task' = [task EXCEPT ![t] =
                           [Idle EXCEPT !.pc = "insert", !.plan = p, !.snap = row]]
        PROVE  Exactness
    <3>1. [Idle EXCEPT !.pc = "insert", !.plan = p, !.snap = row].pc
              \notin Executing \cup {"start"}
      BY DEF Idle, Executing
    <3> QED BY <2>1, <2>2, <3>1, Leaves
  <2>3. ASSUME task' = [task EXCEPT ![t] = Idle] PROVE Exactness
    BY <2>1, <2>3, IdleLeaves
  <2> QED BY <1>5, <2>2, <2>3 DEF GenerateSelect
<1>6. ASSUME NEW t \in Tasks, GenerateInsert(t) PROVE Exactness
  <2>1. PICK r \in Runs :
          /\ run[r].status = "Absent"
          /\ run' = [run EXCEPT ![r] = task[t].snap]
          /\ seq' = [seq EXCEPT ![r] = task[t].plan]
          /\ task' = [task EXCEPT ![t] = [Idle EXCEPT !.pc = "publishNew", !.run = r]]
    BY <1>6 DEF GenerateInsert
  <2>2. task[t].pc = "insert" /\ UNCHANGED <<cstat, item, overlapped, late>>
    BY <1>6 DEF GenerateInsert
  <2>3. task[t].snap = [NoRow EXCEPT !.status = "Pending", !.count = task[t].snap.count]
    BY <1>0, <2>2 DEF TaskOK
  <2>4. /\ task[t].snap.status = "Pending" /\ task[t].snap.processed = 0
        /\ task[t].snap.next = 1 /\ task[t].snap.accepted = 0
        /\ task[t].snap.review = 0 /\ task[t].snap.failed = 0
    BY <2>3 DEF NoRow
  <2>5. /\ run'[r] = task[t].snap /\ seq'[r] = task[t].plan
        /\ \A q \in Runs \ {r} : run'[q] = run[q] /\ seq'[q] = seq[q]
        /\ \A u \in Tasks \ {t} : task'[u] = task[u]
        /\ task'[t].pc = "publishNew"
    BY <2>1 DEF TypeOK, Idle
  \* An absent run has recorded nothing.
  <2>6. run[r] = NoRow /\ late[r] = 0
    <3>1. run[r] = NoRow /\ ~NoRow.cancel
      BY <2>1 DEF RowsInv, NoRow
    <3> QED BY <3>1 DEF TraceInv
  <2>7. \A j \in Jobs : item[r][j] = NoItem /\ cstat[r][j] \notin Decisions
    <3>1. run[r].count = 0
      BY <2>6 DEF NoRow
    <3>2. \A j \in Jobs : item[r][j].rank \in Nat /\ item[r][j].rank <= 0
      BY <3>1 DEF RowsInv, TypeOK, Item
    <3>3. \A j \in Jobs : item[r][j].rank = 0
      BY <3>2
    <3> QED BY <3>3 DEF RowsInv, TraceInv
  <2>8. ExactRow(r)'
    <3>1. /\ {j \in Jobs : item'[r][j].decision = "Accepted"} = {}
          /\ {j \in Jobs : item'[r][j].decision = "NeedsReview"} = {}
          /\ {j \in Jobs : item'[r][j].error} = {}
      BY <2>2, <2>7 DEF NoItem
    <3>2. /\ \A j \in Jobs : seq'[r][j] \in Nat /\ cstat'[r][j] \notin Decisions
          /\ run'[r].next = 1 /\ run'[r].processed = 0 /\ run'[r].status = "Pending"
          /\ late'[r] = 0
      BY <1>0, <2>2, <2>4, <2>5, <2>6, <2>7 DEF Task
    <3>3. /\ run'[r].accepted = 0 /\ run'[r].review = 0 /\ run'[r].failed = 0
      BY <2>4, <2>5
    <3>4. /\ run'[r].accepted = Cardinality({j \in Jobs : item'[r][j].decision = "Accepted"})
          /\ run'[r].review = Cardinality({j \in Jobs : item'[r][j].decision = "NeedsReview"})
          /\ run'[r].failed = Cardinality({j \in Jobs : item'[r][j].error})
      BY <3>1, <3>3, FS_EmptySet
    <3>5. \A j \in Jobs : ~(seq'[r][j] # 0 /\ seq'[r][j] < run'[r].next)
      BY <3>2
    <3> QED BY <3>2, <3>4, <3>5 DEF ExactRow
  <2>9. ASSUME NEW u \in Tasks, task'[u].run = r, task'[u].pc \in Executing \cup {"start"}
        PROVE  FALSE
    <3>1. CASE u = t
      BY <2>5, <2>9, <3>1 DEF Executing
    <3>2. CASE u # t
      <4>1. task[u].run = r /\ task[u].pc \in Executing \cup {"start"}
        BY <2>5, <2>9, <3>2
      <4> QED BY <1>0, <2>1, <4>1 DEF TaskOK
    <3> QED BY <3>1, <3>2
  <2>10. SoleRun(r)'
    BY <2>8, <2>9 DEF SoleRun, Executors
  <2>11. ASSUME NEW q \in Runs, q # r, ~overlapped'[q] PROVE SoleRun(q)'
    <3>1. SoleRun(q)
      BY <2>2, <2>11 DEF SoleInv
    <3>2. SameRow(q)
      BY <2>2, <2>5, <2>11 DEF SameRow
    <3>3. task'[t].pc \notin Executing \cup {"start"}
      BY <2>5 DEF Executing
    <3> QED BY <2>5, <3>1, <3>2, <3>3, SoleKept
  <2>12. TraceInv'
    BY <2>2, <2>5, <2>6 DEF TraceInv
  <2>13. FinalStep
    BY <2>2 DEF FinalStep, RowsInv
  <2> QED BY <2>10, <2>11, <2>12, <2>13 DEF Exactness, SoleInv
<1>7. ASSUME NEW t \in Tasks, Publish(t) PROVE Exactness
  <2>1. UNCHANGED <<rows, overlapped>>
    BY <1>7 DEF Publish
  <2>2. CASE task[t].pc = "publishStop"
    <3>1. task' = [task EXCEPT ![t] = Idle]
      BY <1>7, <2>2 DEF Publish
    <3> QED BY <2>1, <3>1, IdleLeaves
  <2>3. CASE task[t].pc = "publishNew"
    <3>1. task' = [task EXCEPT ![t] = [task[t] EXCEPT !.pc = "load"]]
      BY <1>7, <2>3 DEF Publish
    <3>2. [task[t] EXCEPT !.pc = "load"].pc \notin Executing \cup {"start"}
      BY <1>0 DEF Task, Executing
    <3> QED BY <2>1, <3>1, <3>2, Leaves
  <2>4. CASE task[t].pc = "announce"
    <3> DEFINE tk == [task[t] EXCEPT !.pc = "loop"]
    <3>1. task' = [task EXCEPT ![t] = tk]
      BY <1>7, <2>4 DEF Publish
    <3>2. tk.pc = "loop" /\ tk.run = task[t].run /\ tk.snap = task[t].snap
      BY <1>0 DEF Task
    <3> HIDE DEF tk
    <3>3. \A r \in Runs : tk.run = r => t \in Executors(r)
      BY <2>4, <3>2 DEF Executors, Executing
    <3>4. ASSUME NEW r \in Runs, ~overlapped[r], tk.run = r PROVE SnapFits(tk, r)
      <4>1. SnapFits(task[t], r)
        BY <1>00, <2>4, <3>2, <3>4 DEF Executing
      <4> QED BY <3>2, <4>1 DEF SnapFits, Deciding, Unsaved
    <3> QED BY <2>1, <3>1, <3>3, <3>4, RowsStay
  <2> QED BY <1>7, <2>2, <2>3, <2>4 DEF Publish
<1>8. ASSUME NEW t \in Tasks, NEW r \in Runs, Load(t, r) PROVE Exactness
  <2> DEFINE tk == [Idle EXCEPT !.pc = "start", !.run = r, !.snap = run[r]]
  <2>1. UNCHANGED <<rows, overlapped>>
    BY <1>8 DEF Load
  <2>2. task' = [task EXCEPT ![t] = Idle] \/ task' = [task EXCEPT ![t] = tk]
    BY <1>8 DEF Load
  <2>3. tk.pc = "start" /\ tk.run = r /\ tk.snap = run[r]
    BY DEF Idle
  <2> HIDE DEF tk
  <2>4. "start" \notin Executing
    BY DEF Executing
  <2>5. SnapFits(tk, r)
    BY <2>3 DEF SnapFits, Deciding, Unsaved, TypeOK, Row
  <2>6. ASSUME task' = [task EXCEPT ![t] = tk] PROVE Exactness
    BY <2>1, <2>3, <2>4, <2>5, <2>6, RowsStay
  <2> QED BY <2>1, <2>2, <2>6, IdleLeaves
<1>9. ASSUME NEW t \in Tasks, GenerateResume(t) PROVE Exactness
  <2>1. task[t].run \in Runs
    BY <1>0, <1>9 DEF GenerateResume, TaskOK
  <2> QED BY <1>8, <1>9, <2>1 DEF GenerateResume
<1>10. ASSUME NEW t \in Tasks, ResumeStart(t) PROVE Exactness
  <2> DEFINE snap == task[t].snap
             new == [snap EXCEPT !.status = "Running", !.cancel = FALSE,
                                 !.next = IF snap.next < 1 THEN 1 ELSE snap.next]
             tk  == [task[t] EXCEPT !.pc = "announce", !.snap = new,
                                    !.fallback = FallbackPerItemCap]
  <2>1. PICK r \in Runs : r = task[t].run
    BY <1>0, <1>10 DEF ResumeStart, TaskOK
  <2> DEFINE row == SaveRun(run[r], snap, new)
  <2>2. /\ task[t].pc = "start" /\ task[t] \in Task /\ snap \in Row
        /\ snap.processed < snap.next /\ run[r] \in Row
    BY <1>0, <1>10, <2>1 DEF ResumeStart, TaskOK, Task, TypeOK
  <2>3. ~(snap.next < 1)
    BY <2>2 DEF Row
  <2>4. /\ new.status = "Running" /\ new.cancel = FALSE /\ new.count = snap.count
        /\ new.processed = snap.processed /\ new.next = snap.next
        /\ new.accepted = snap.accepted /\ new.review = snap.review
        /\ new.failed = snap.failed
    BY <2>2, <2>3 DEF Row
  <2>5. /\ run' = [run EXCEPT ![r] = row] /\ task' = [task EXCEPT ![t] = tk]
        /\ overlapped' = [overlapped EXCEPT ![r] = @ \/ Executors(r) # {}]
        /\ late' = [late EXCEPT ![r] = IF snap.cancel THEN 0 ELSE @]
        /\ UNCHANGED <<seq, cstat, item>>
    BY <1>10, <2>1 DEF ResumeStart
  <2>6. tk.pc = "announce" /\ tk.run = r /\ tk.snap = new
    BY <2>1, <2>2 DEF Task
  <2> HIDE DEF new, tk
  <2>7. /\ row.status \in {run[r].status, "Running"}
        /\ row.count = run[r].count /\ row.processed = run[r].processed
        /\ row.next = run[r].next /\ row.accepted = run[r].accepted
        /\ row.review = run[r].review /\ row.failed = run[r].failed
        /\ ~snap.cancel => row.cancel = run[r].cancel
    BY <2>2, <2>4 DEF SaveRun, Column, Row
  <2> HIDE DEF row
  <2>8. /\ run'[r] = row /\ \A q \in Runs \ {r} : run'[q] = run[q] /\ late'[q] = late[q]
        /\ late'[r] = IF snap.cancel THEN 0 ELSE late[r]
        /\ \A u \in Tasks \ {t} : task'[u] = task[u]
        /\ task'[t] = tk
        /\ \A q \in Runs \ {r} : overlapped'[q] = overlapped[q]
        /\ overlapped'[r] = (overlapped[r] \/ Executors(r) # {})
    BY <2>5 DEF TypeOK
  <2>9. \A q \in Runs : SameRow(q)
    BY <2>5, <2>7, <2>8 DEF SameRow
  <2>10. \A q \in Runs : \/ late'[q] = 0
                         \/ late'[q] = late[q] /\ (run[q].cancel => run'[q].cancel)
    BY <2>7, <2>8
  <2>11. \A q \in Runs : overlapped[q] => overlapped'[q]
    BY <2>8
  <2>12. ~overlapped'[r] => Executors(r) = {}
    BY <2>8
  <2>13. ASSUME ~overlapped'[r] PROVE SnapFits(task[t], r)'
    <3>1. SnapFits(task[t], r)
      BY <1>00, <2>1, <2>2, <2>11, <2>13
    <3>2. new.processed <= row.processed
      BY <2>4, <2>7, <3>1 DEF SnapFits
    <3> QED BY <2>6, <2>8, <3>2 DEF SnapFits, Deciding, Unsaved
  <2>14. \A q \in Runs :
           ~overlapped'[q] /\ task'[t].run = q /\ task'[t].pc \in Executing =>
               t \in Executors(q) \/ Executors(q) = {}
    BY <2>6, <2>8, <2>12
  <2>15. \A q \in Runs : task'[t].run = q => q = r
    BY <2>6, <2>8
  <2>16. \A q \in Runs :
           ~overlapped'[q] /\ task'[t].run = q /\ task'[t].pc \in Executing \cup {"start"}
               => SnapFits(task[t], q)'
    BY <2>13, <2>15
  <2> QED BY <2>5, <2>8, <2>9, <2>10, <2>11, <2>14, <2>16, RowsSteady
<1>11. ASSUME NEW t \in Tasks, Checkpoint(t) PROVE Exactness
  <2>1. PICK r \in Runs : r = task[t].run
    BY <1>0, <1>11 DEF Checkpoint, TaskOK, Executing
  <2> DEFINE tk == [task[t] EXCEPT !.snap = run[r],
                                   !.pc = IF run[r].cancel THEN "cancel" ELSE "pick"]
  <2>2. /\ task[t].pc = "loop" /\ task' = [task EXCEPT ![t] = tk]
        /\ UNCHANGED <<rows, overlapped>>
    BY <1>11, <2>1 DEF Checkpoint, Reloaded
  <2>3. /\ tk.pc = IF run[r].cancel THEN "cancel" ELSE "pick"
        /\ tk.run = r /\ tk.snap = run[r]
    BY <1>0, <2>1 DEF Task
  <2> HIDE DEF tk
  <2>4. \A q \in Runs : tk.run = q => t \in Executors(q)
    BY <2>1, <2>2, <2>3 DEF Executors, Executing
  <2>5. run[r] \in Row /\ (~run[r].cancel => late[r] = 0)
    BY DEF TypeOK, TraceInv
  <2>6. SnapFits(tk, r)
    BY <2>3, <2>5 DEF SnapFits, Deciding, Unsaved, Row
  <2> QED BY <2>2, <2>3, <2>4, <2>6, RowsStay
<1>12. ASSUME NEW t \in Tasks, PickCandidate(t) PROVE Exactness
  <2>1. PICK r \in Runs : r = task[t].run
    BY <1>0, <1>12 DEF PickCandidate, TaskOK, Executing
  <2>2. /\ task[t].pc = "pick" /\ UNCHANGED <<rows, overlapped>> /\ task[t] \in Task
        /\ t \in Executors(r)
    BY <1>0, <1>12, <2>1 DEF PickCandidate, Executors, Executing
  <2>3. ~overlapped[r] => ExactRow(r) /\ SnapFits(task[t], r)
    BY <1>00, <2>1, <2>2 DEF Executing
  <2>4. ~overlapped[r] =>
           /\ \A j \in NextPending(task[t]) : j \in Jobs /\ seq[r][j] = run[r].next
           /\ NextPending(task[t]) = {} => run[r].processed = run[r].count
    <3>1. ~overlapped[r] => task[t].snap.next = run[r].next
      BY <2>2, <2>3 DEF SnapFits, Deciding
    <3> QED BY <2>1, <2>2, <2>3, <3>1, PickFirst
  <2>5. ASSUME NEW j \in NextPending(task[t]),
               task' = [task EXCEPT ![t] = [task[t] EXCEPT !.pc = "evaluate", !.job = j]]
        PROVE  Exactness
    <3> DEFINE tk == [task[t] EXCEPT !.pc = "evaluate", !.job = j]
    <3>1. tk.pc = "evaluate" /\ tk.run = r /\ tk.snap = task[t].snap /\ tk.job = j
      BY <2>1, <2>2 DEF Task
    <3>2. task' = [task EXCEPT ![t] = tk]
      BY <2>5
    <3> HIDE DEF tk
    <3>3. ~overlapped[r] => SnapFits(tk, r)
      BY <2>2, <2>3, <2>4, <3>1 DEF SnapFits, Deciding, Unsaved
    <3> QED BY <2>2, <3>1, <3>2, <3>3, RowsStay
  <2>6. ASSUME NextPending(task[t]) = {},
               task' = [task EXCEPT ![t] = [task[t] EXCEPT !.pc = "finish"]]
        PROVE  Exactness
    <3> DEFINE tk == [task[t] EXCEPT !.pc = "finish"]
    <3>1. tk.pc = "finish" /\ tk.run = r /\ tk.snap = task[t].snap
      BY <2>1, <2>2 DEF Task
    <3>2. task' = [task EXCEPT ![t] = tk]
      BY <2>6
    <3> HIDE DEF tk
    <3>3. ~overlapped[r] => SnapFits(tk, r)
      BY <2>2, <2>3, <2>4, <2>6, <3>1 DEF SnapFits, Deciding, Unsaved
    <3> QED BY <2>2, <3>1, <3>2, <3>3, RowsStay
  <2> QED BY <1>12, <2>5, <2>6 DEF PickCandidate
<1>13. ASSUME NEW t \in Tasks, EvaluateCandidate(t) PROVE Exactness
  <2>1. PICK r \in Runs : r = task[t].run
    BY <1>0, <1>13 DEF EvaluateCandidate, TaskOK, Executing
  <2>2. /\ task[t].pc = "evaluate" /\ UNCHANGED <<rows, overlapped>> /\ task[t] \in Task
        /\ t \in Executors(r)
    BY <1>0, <1>13, <2>1 DEF EvaluateCandidate, Executors, Executing
  <2>3. ~overlapped[r] => SnapFits(task[t], r)
    BY <1>00, <2>1, <2>2 DEF Executing
  <2>4. ASSUME NEW d \in Decisions, NEW e \in BOOLEAN, NEW n \in Nat, Evaluated(t, d, e, n)
        PROVE  Exactness
    <3> DEFINE tk == [task[t] EXCEPT !.pc = "save", !.fallback = n,
                         !.outcome = [decision |-> d, error |-> e],
                         !.found = item[task[t].run][task[t].job]]
    <3>1. /\ tk.pc = "save" /\ tk.run = r /\ tk.snap = task[t].snap
          /\ tk.job = task[t].job
      BY <2>1, <2>2 DEF Task
    <3>2. task' = [task EXCEPT ![t] = tk]
      BY <2>4 DEF Evaluated
    <3> HIDE DEF tk
    <3>3. ~overlapped[r] => SnapFits(tk, r)
      BY <2>2, <2>3, <3>1 DEF SnapFits, Deciding, Unsaved
    <3> QED BY <2>2, <3>1, <3>2, <3>3, RowsStay
  <2> QED BY <1>13, <2>4, EvaluatedCases
<1>14. ASSUME NEW t \in Tasks, SaveCandidate(t) PROVE Exactness
  <2> DEFINE new == Advanced(task[t])
             tk  == [task[t] EXCEPT !.pc = "loop", !.snap = new,
                        !.job = None, !.found = NoItem, !.outcome = NoOutcome]
  <2>1. Unsaved(task[t]) /\ TaskOK(task[t]) /\ task[t] \in Task
    BY <1>0, <1>14 DEF SaveCandidate, Unsaved
  <2>2. task[t].run \in Runs /\ task[t].job \in Jobs
    BY <2>1 DEF TaskOK, Unsaved, Executing
  <2>3. /\ new \in Row /\ new.count = task[t].snap.count
        /\ new.cancel = task[t].snap.cancel /\ new.status = task[t].snap.status
    BY <2>2, AdvancedType DEF Advanced, Advance
  <2>4. /\ task' = [task EXCEPT ![t] = tk] /\ SaveDecision(task[t], new)
        /\ overlapped' = overlapped
    BY <1>14 DEF SaveCandidate
  <2>5. tk.pc = "loop" /\ tk.run = task[t].run /\ tk.snap = new
    BY <2>1 DEF Task
  <2> HIDE DEF tk
  <2>6. task'[t] = tk /\ \A u \in Tasks \ {t} : task'[u] = task[u]
    BY <2>4 DEF TypeOK
  <2>7. task'[t].pc = "loop" /\ task'[t].run = task[t].run /\ task'[t].snap.processed = new.processed
    BY <2>5, <2>6
  <2> QED BY <2>1, <2>2, <2>3, <2>4, <2>6, <2>7, DecisionSole
<1>15. ASSUME NEW t \in Tasks, CompleteRun(t) PROVE Exactness
  <2>1. task[t].pc \in Executing /\ EndRun(t, "Completed")
    BY <1>15 DEF CompleteRun, Executing
  <2>2. PICK r \in Runs : r = task[t].run
    BY <1>0, <2>1 DEF TaskOK
  \* The loop's condition, seen on a row that may be stale, holds of the row.
  <2>3. ASSUME ~overlapped[r] PROVE run[r].processed = run[r].count
    <3>1. SnapFits(task[t], r)
      BY <1>00, <2>1, <2>2, <2>3
    <3>2. CASE task[t].pc = "finish"
      BY <3>1, <3>2 DEF SnapFits
    <3>3. CASE task[t].pc = "loop" /\ AllProcessed(task[t])
      <4>1. /\ task[t].snap.processed >= task[t].snap.count
            /\ task[t].snap.processed <= run[r].processed
            /\ task[t].snap.count = run[r].count
        BY <1>0, <2>1, <2>2, <3>1, <3>3 DEF SnapFits, AllProcessed, TaskOK
      <4>2. run[r].processed < run[r].next /\ run[r].next <= run[r].count + 1
        BY DEF RowsInv
      <4>3. /\ task[t].snap.processed \in Nat /\ run[r].processed \in Nat
            /\ run[r].next \in Nat /\ run[r].count \in Nat
        BY <1>0 DEF TypeOK, Task, Row
      <4> QED BY <4>1, <4>2, <4>3
    <3> QED BY <1>15, <3>2, <3>3 DEF CompleteRun
  <2> QED BY <2>1, <2>2, <2>3, EndRunSole DEF Terminal
<1>16. ASSUME NEW t \in Tasks, MarkRunCancelled(t) PROVE Exactness
  BY <1>16, EndRunSole DEF MarkRunCancelled, Executing, Terminal
<1>17. ASSUME NEW t \in Tasks, task[t].pc \in Executing, Abort(t) PROVE Exactness
  <2>1. PICK r \in Runs : r = task[t].run
    BY <1>0, <1>17 DEF TaskOK
  <2>2. UNCHANGED <<rows, overlapped>> /\ task[t] \in Task /\ t \in Executors(r)
    BY <1>0, <1>17, <2>1 DEF Abort, Executors
  <2>3. ~overlapped[r] => SnapFits(task[t], r)
    BY <1>00, <1>17, <2>1
  <2>4. CASE task[t].pc = "save"
    <3> DEFINE tk == [task[t] EXCEPT !.pc = "abort"]
    <3>1. /\ tk.pc = "abort" /\ tk.run = r /\ tk.snap = task[t].snap
          /\ tk.job = task[t].job
      BY <2>1, <2>2 DEF Task
    <3>2. task' = [task EXCEPT ![t] = tk]
      BY <1>17, <2>4 DEF Abort
    <3> HIDE DEF tk
    <3>3. ~overlapped[r] => SnapFits(tk, r)
      BY <2>3, <2>4, <3>1 DEF SnapFits, Deciding, Unsaved
    <3> QED BY <2>2, <3>1, <3>2, <3>3, RowsStay
  <2>5. CASE task[t].pc # "save"
    <3> DEFINE tk == [task[t] EXCEPT !.pc = "abort", !.job = None]
    <3>1. tk.pc = "abort" /\ tk.run = r /\ tk.snap = task[t].snap /\ tk.job = None
      BY <2>1, <2>2 DEF Task
    <3>2. task' = [task EXCEPT ![t] = tk]
      BY <1>17, <2>5 DEF Abort
    <3> HIDE DEF tk
    <3>3. ~overlapped[r] => SnapFits(tk, r)
      BY <2>3, <3>1 DEF SnapFits, Deciding, Unsaved
    <3> QED BY <2>2, <3>1, <3>2, <3>3, RowsStay
  <2> QED BY <2>4, <2>5
<1>18. ASSUME NEW t \in Tasks, PersistFailed(t) PROVE Exactness
  <2>1. task[t].pc = "abort" /\ task[t].pc \in Executing
    BY <1>18 DEF PersistFailed, Executing
  <2>2. CASE task[t].job = None
    BY <1>18, <2>1, <2>2, EndRunSole DEF PersistFailed, Terminal
  <2>3. CASE task[t].job # None
    <3> DEFINE new == [Advanced(task[t]) EXCEPT !.status = "Failed"]
    <3>1. /\ Unsaved(task[t]) /\ TaskOK(task[t])
          /\ SaveDecision(task[t], new) /\ task' = [task EXCEPT ![t] = Idle]
          /\ overlapped' = overlapped
      BY <1>0, <1>18, <2>1, <2>3 DEF PersistFailed, Unsaved
    <3>2. task[t].run \in Runs /\ task[t].job \in Jobs
      BY <3>1 DEF TaskOK, Unsaved, Executing
    <3>3. new \in Row /\ Advanced(task[t]) \in Row
      BY <3>2, AdvancedType
    <3>4. /\ new.status = "Failed" /\ new.count = task[t].snap.count
          /\ new.cancel = task[t].snap.cancel
      BY <3>3 DEF Advanced, Advance
    <3>5. /\ new.processed = Advanced(task[t]).processed
          /\ new.next = Advanced(task[t]).next
          /\ new.accepted = Advanced(task[t]).accepted
          /\ new.review = Advanced(task[t]).review
          /\ new.failed = Advanced(task[t]).failed
      BY <3>3 DEF Row
    <3> HIDE DEF new
    <3>6. task'[t].pc = "idle" /\ \A u \in Tasks \ {t} : task'[u] = task[u]
      BY <3>1 DEF TypeOK, Idle
    <3> QED BY <3>1, <3>2, <3>3, <3>4, <3>5, <3>6, DecisionSole
  <2> QED BY <2>2, <2>3
<1>19. ASSUME NEW t \in Tasks, PersistFailedFails(t) \/ NotReady(t) \/ RequestFails(t)
       PROVE Exactness
  BY <1>19, IdleLeaves DEF PersistFailedFails, NotReady, RequestFails
<1>20. ASSUME NEW t \in Tasks, NEW r \in Runs, CancelRequest(t, r) PROVE Exactness
  <2>1. /\ UNCHANGED <<rows, overlapped>>
        /\ task' = [task EXCEPT ![t] = [Idle EXCEPT !.pc = "stop", !.run = r]]
    BY <1>20 DEF CancelRequest
  <2>2. [Idle EXCEPT !.pc = "stop", !.run = r].pc \notin Executing \cup {"start"}
    BY DEF Idle, Executing
  <2> QED BY <2>1, <2>2, Leaves
<1>21. ASSUME NEW t \in Tasks, CancelSave(t) PROVE Exactness
  <2>1. ASSUME NEW r \in Runs
        PROVE  /\ run'[r].count = run[r].count /\ run'[r].processed = run[r].processed
               /\ run'[r].next = run[r].next /\ run'[r].accepted = run[r].accepted
               /\ run'[r].review = run[r].review /\ run'[r].failed = run[r].failed
               /\ run'[r].status = run[r].status
               /\ run[r].cancel => run'[r].cancel
    <3> DEFINE row == [run[r] EXCEPT !.cancel = TRUE]
    <3>1. run'[r] = run[r] \/ run'[r] = row
      BY <1>21 DEF CancelSave, TypeOK
    <3>2. run[r] \in Row
      BY DEF TypeOK
    <3>3. /\ row.count = run[r].count /\ row.processed = run[r].processed
          /\ row.next = run[r].next /\ row.accepted = run[r].accepted
          /\ row.review = run[r].review /\ row.failed = run[r].failed
          /\ row.status = run[r].status /\ row.cancel
      BY <3>2 DEF Row
    <3> HIDE DEF row
    <3> QED BY <3>1, <3>3
  <2>2. UNCHANGED <<seq, cstat, item, overlapped, late>>
    BY <1>21 DEF CancelSave
  <2>3. \A r \in Runs : SameRow(r)
    BY <2>1, <2>2 DEF SameRow
  <2>4. /\ task'[t].pc = "publishStop"
        /\ \A u \in Tasks \ {t} : task'[u] = task[u]
    BY <1>0, <1>21 DEF CancelSave, TypeOK, Task
  <2>5. task'[t].pc \notin Executing \cup {"start"}
    BY <2>4 DEF Executing
  <2> QED BY <2>1, <2>2, <2>3, <2>4, <2>5, RowsSteady
<1>22. CASE Restart
  <2>1. UNCHANGED <<rows, overlapped>> /\ \A t \in Tasks : task'[t] = Idle
    BY <1>22 DEF Restart
  <2>2. \A t \in Tasks : task'[t].pc \notin Executing \cup {"start"}
    BY <2>1 DEF Idle, Executing
  <2>3. ASSUME NEW r \in Runs, ~overlapped'[r] PROVE SoleRun(r)'
    <3>1. ExactRow(r)
      BY <2>1, <2>3 DEF SoleInv, SoleRun
    <3>2. SameRow(r)
      BY <2>1 DEF SameRow, rows
    <3>3. ExactRow(r)'
      BY <3>1, <3>2, ExactKept
    <3> QED BY <2>2, <3>3 DEF SoleRun, Executors
  <2>4. TraceInv' /\ FinalStep
    BY <2>1 DEF TraceInv, FinalStep, RowsInv, rows
  <2> QED BY <2>3, <2>4 DEF Exactness, SoleInv
<1>23. CASE UNCHANGED vars
  <2>1. TraceInv' /\ FinalStep
    BY <1>23 DEF vars, TraceInv, FinalStep, RowsInv
  <2>2. ASSUME NEW r \in Runs, ~overlapped'[r] PROVE SoleRun(r)'
    <3>1. SoleRun(r)
      BY <1>23, <2>2 DEF SoleInv, vars
    <3> QED BY <1>23, <3>1 DEF vars, SoleRun, ExactRow, SnapFits, Executors
  <2> QED BY <2>1, <2>2 DEF Exactness, SoleInv
<1> QED
  BY <1>1, <1>3, <1>4, <1>5, <1>6, <1>7, <1>8, <1>9, <1>10, <1>11, <1>12, <1>13,
     <1>14, <1>15, <1>16, <1>17, <1>18, <1>19, <1>20, <1>21, <1>22, <1>23
  DEF Next, Arrive, Step, Fail, ResumeRequest, SaveRefused, ExecutionFails, Executing

LEMMA InitSole == Init => TraceInv /\ SoleInv
<1> SUFFICES ASSUME Init PROVE TraceInv /\ SoleInv
  OBVIOUS
<1>1. TraceInv
  BY DEF Init, TraceInv, NoRow
<1>2. ASSUME NEW r \in Runs PROVE SoleRun(r)
  <2>1. /\ {j \in Jobs : item[r][j].decision = "Accepted"} = {}
        /\ {j \in Jobs : item[r][j].decision = "NeedsReview"} = {}
        /\ {j \in Jobs : item[r][j].error} = {}
    BY DEF Init, NoItem
  <2>0. /\ run[r].accepted = 0 /\ run[r].review = 0 /\ run[r].failed = 0
        /\ run[r].next = 1 /\ run[r].processed = 0 /\ run[r].status = "Absent"
        /\ late[r] = 0
        /\ \A j \in Jobs : seq[r][j] = 0 /\ cstat[r][j] = "Pending"
    BY DEF Init, NoRow
  <2>2. ExactRow(r)
    <3>1. /\ run[r].accepted = Cardinality({j \in Jobs : item[r][j].decision = "Accepted"})
          /\ run[r].review = Cardinality({j \in Jobs : item[r][j].decision = "NeedsReview"})
          /\ run[r].failed = Cardinality({j \in Jobs : item[r][j].error})
      BY <2>0, <2>1, FS_EmptySet
    <3> QED BY <2>0, <3>1 DEF ExactRow, Decisions
  <2>3. \A t \in Tasks : task[t].pc \notin Executing \cup {"start"}
    BY DEF Init, Idle, Executing
  <2> QED BY <2>2, <2>3 DEF SoleRun, Executors
<1> QED BY <1>1, <1>2 DEF SoleInv

-----------------------------------------------------------------------------
(* Theorems *)

\* The run rows, the snapshots, the items and what the requests hold in memory
\* fit together in every reachable state.
THEOREM Invariance == Spec => [](TypeOK /\ RowsInv /\ TasksInv)
<1>1. Init => TypeOK /\ RowsInv /\ TasksInv
  BY InitInv
<1>2. TypeOK /\ RowsInv /\ TasksInv /\ [Next]_vars => (TypeOK /\ RowsInv /\ TasksInv)'
  BY TypeStep, InvStep
<1> QED BY <1>1, <1>2, PTL DEF Spec

\* Every value the service keeps has its type; the checkpoint and the counters
\* of a run are never negative and the run of an execution always exists.
THEOREM TypeCorrect == Spec => []TypeOK
BY Invariance, PTL

\* However many requests work on a run, a candidate has a decision exactly when
\* the run has an item for its job.
THEOREM Recorded == Spec => []DecisionsRecorded
<1>1. TypeOK /\ RowsInv => DecisionsRecorded
  BY DEF RowsInv, DecisionsRecorded, Candidates
<1> QED BY <1>1, Invariance, PTL

\* However many requests work on a run, its counter and its checkpoint stay
\* within the snapshot.
THEOREM InSnapshot == Spec => []CheckpointInSnapshot
<1>1. RowsInv => CheckpointInSnapshot
  BY DEF RowsInv, CheckpointInSnapshot
<1> QED BY <1>1, Invariance, PTL

\* Both invariants hold in every reachable state.
THEOREM SoleInvariance == Spec => [](TypeOK /\ RowsInv /\ TasksInv /\ TraceInv /\ SoleInv)
<1> DEFINE Inv == TypeOK /\ RowsInv /\ TasksInv /\ TraceInv /\ SoleInv
<1>1. Init => Inv
  BY InitInv, InitSole
<1>2. Inv /\ [Next]_vars => Inv'
  BY TypeStep, InvStep, SoleStep DEF Exactness
<1> QED BY <1>1, <1>2, PTL DEF Spec

\* While a run has had one executor at a time, its checkpoint, its totals, its
\* completion and its stop are exact, through failures, cancellations, stale
\* loads and restarts.
THEOREM SoleExecutor == Spec => []SoleExecutorIsExact
<1>1. TypeOK /\ RowsInv /\ SoleInv => SoleExecutorIsExact
  <2> SUFFICES ASSUME TypeOK, RowsInv, SoleInv PROVE SoleExecutorIsExact
    OBVIOUS
  <2>1. \A r \in Runs : ~overlapped[r] => ExactRow(r)
    BY DEF SoleInv, SoleRun
  <2>2. CheckpointExact
    BY <2>1 DEF CheckpointExact, Candidates, ExactRow
  <2>3. TotalsExact
    BY <2>1 DEF TotalsExact, ExactRow
  <2>4. CompletedIsReviewed
    <3> SUFFICES ASSUME NEW r \in Runs, run[r].status = "Completed", ~overlapped[r],
                        NEW j \in Jobs, seq[r][j] # 0
                 PROVE  item[r][j].rank # 0
      BY DEF CompletedIsReviewed, Candidates
    <3>0. ExactRow(r)
      BY <2>1
    <3>1. run[r].next = run[r].count + 1
      BY <3>0 DEF ExactRow
    <3>2. seq[r][j] <= run[r].count /\ seq[r][j] \in Nat /\ run[r].count \in Nat
      BY DEF RowsInv, Numbers, TypeOK, Row
    <3>3. cstat[r][j] \in Decisions
      BY <3>0, <3>1, <3>2 DEF ExactRow
    <3> QED BY <3>3 DEF RowsInv
  <2>5. StopsAtCheckpoint
    BY <2>1 DEF StopsAtCheckpoint, ExactRow
  <2> QED BY <2>2, <2>3, <2>4, <2>5 DEF SoleExecutorIsExact
<1> QED BY <1>1, SoleInvariance, PTL

\* A decision is never undone, and while the run has one executor at a time it
\* is never changed: a resume continues behind what was decided.
THEOREM Final == Spec => DecisionsFinal
<1> DEFINE Inv == TypeOK /\ RowsInv /\ TasksInv /\ TraceInv /\ SoleInv
<1>1. Inv /\ [Next]_vars => [FinalStep]_vars
  BY SoleStep DEF Exactness
<1>2. Spec => []Inv
  BY SoleInvariance
<1>3. Spec => [][FinalStep]_vars
  <2> HIDE DEF Inv
  <2> QED BY <1>1, <1>2, PTL DEF Spec
<1> QED BY <1>3 DEF DecisionsFinal, FinalStep

=============================================================================
