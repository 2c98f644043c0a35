---------------------------- MODULE JobsWorkflow ----------------------------
(***************************************************************************)
(* The fetch-and-score workflow of one user: the in-memory state store      *)
(* (Jobs/JobsWorkflowTracking.cs) and the requests that run                 *)
(* RunFetchAndScoreAsync (Jobs/JobsDashboardService.cs) on it.  Keys of the *)
(* store contain the user, so one user is enough.                           *)
(*                                                                          *)
(* A workflow is identified by the id its page chose for the request, a     *)
(* fresh UUID, so the request and the workflow have one name.  One action   *)
(* is what happens between two awaits.                                      *)
(*                                                                          *)
(* Left out: messages, percentages, correlation ids and the counts shown to *)
(* the user.  Of the counts of the enrichment only what branches read is    *)
(* kept: how many jobs were attempted, whether any was enriched, whether    *)
(* any failed.  Sending to a SignalR connection is taken not to throw.      *)
(***************************************************************************)
EXTENDS Integers, Sequences, FiniteSets

CONSTANTS
    Workflows,      \* the ids of the requests (a bound)
    None,           \* no workflow
    Candidates,     \* the numbers of jobs there may be to enrich (a bound)
    BatchSize,      \* EnrichmentBatchSize
    Reporting,      \* the requests whose stages report progress (a bound)
    MaxProgress,    \* updates of a stage up to which it reports progress (a bound)
    MaxRestarts,    \* process restarts (a bound)
    Faults          \* whether exceptions other than cancellations occur

ASSUME ConstantsAssumption ==
    /\ None \notin Workflows
    /\ Candidates \subseteq Nat
    /\ Reporting \subseteq Workflows
    /\ BatchSize \in Nat \ {0}
    /\ MaxProgress \in Nat
    /\ MaxRestarts \in Nat
    /\ Faults \in BOOLEAN

VARIABLES
    active,     \* the user's entry in _activeWorkflowIds
    known,      \* ids with an entry in _workflows
    cancelled,  \* entries whose cancellation was requested
    events,     \* the updates appended to each entry, oldest first
    wf,         \* what each request is doing
    restarts    \* process restarts so far

vars == <<active, known, cancelled, events, wf, restarts>>
store == <<active, known, cancelled, events>>

-----------------------------------------------------------------------------
(* Updates and requests *)

Update == [state : {"running", "warning", "completed", "failed", "cancelled"},
           stage : {"fetch", "enrichment", "completed"}]

\* IsTerminalState: the states that free the user's slot.
TerminalStates == {"completed", "failed", "cancelled"}

\* isTerminalWorkflowUpdate: the updates that end the tracking in a page.
Ends(u) == u.state \in TerminalStates \/ (u.state = "warning" /\ u.stage = "completed")

\* Between the registration and the terminal update or the exception ...
Working == {"accepted", "calling", "importing", "imported", "counting", "loop",
            "preparing", "batch", "enriching", "enriched", "finishing",
            "importFailed", "interrupted"}

\* ... and before the finally block has released the slot.  "ending": the
\* terminal update is appended and Append is about to release the slot.
Holding == Working \cup {"ending", "leaving"}

Phases == Holding \cup {"new", "arrived", "answered", "gone"}

Answers == {"none", "success", "cancelled", "busy", "blocked", "problem"}

Request == [pc : Phases,
            accepted : BOOLEAN,                 \* it got the slot
            total : Nat, attempted : Nat,       \* enrichment candidates
            enriched : BOOLEAN, failed : BOOLEAN,
            answer : Answers,
            other : Workflows \cup {None},      \* ActiveWorkflowId of the answer
            dry : BOOLEAN,                      \* history: a batch selected no job
            stopAt : Int]                       \* history: attempted at the stop
                                                \* request; -1: none

\* A request nothing is known of but these two.
Blank(pc, accepted) ==
    [pc |-> pc, accepted |-> accepted, total |-> 0, attempted |-> 0,
     enriched |-> FALSE, failed |-> FALSE, answer |-> "none",
     other |-> None, dry |-> FALSE, stopAt |-> -1]

NewRequest == Blank("new", FALSE)

TypeOK ==
    /\ active \in Workflows \cup {None}
    /\ known \in SUBSET Workflows
    /\ cancelled \in SUBSET known
    /\ events \in [Workflows -> Seq(Update)]
    /\ wf \in [Workflows -> Request]
    /\ restarts \in Nat

-----------------------------------------------------------------------------
(* The state store *)

\* Mutant of Freed: the slot is freed whoever holds it.
FreedAnyway(holder, w) == None

\* ReleaseWorkflow: only the holder frees the slot.
Freed(holder, w) == IF holder = w THEN None ELSE holder

\* The first half of Append, under the lock of the entry: the slot is
\* released after it, under another lock, when the state is terminal.
Publish(w, state, stage) ==
    /\ events' = [events EXCEPT ![w] = Append(@, [state |-> state, stage |-> stage])]
    /\ known' = known \cup {w}
    /\ UNCHANGED <<active, cancelled>>

Set(w, r) == wf' = [wf EXCEPT ![w] = r]

Goto(w, pc) == Set(w, [wf[w] EXCEPT !.pc = pc])

\* A stage of w publishes an update and goes on at pc.
Report(w, from, state, stage, pc) ==
    /\ wf[w].pc = from
    /\ Publish(w, state, stage)
    /\ Goto(w, pc)
    /\ UNCHANGED restarts

-----------------------------------------------------------------------------
(* The request up to the import *)

Init ==
    /\ active = None
    /\ known = {}
    /\ cancelled = {}
    /\ events = [w \in Workflows |-> <<>>]
    /\ wf = [w \in Workflows |-> NewRequest]
    /\ restarts = 0

\* A page sends the request.
Submit(w) ==
    /\ wf[w].pc = "new"
    /\ Goto(w, "arrived")
    /\ UNCHANGED <<store, restarts>>

\* 409 without a workflow id: LinkedIn requires a session reset first.
Blocked(w) ==
    /\ wf[w].pc = "arrived"
    /\ Set(w, [wf[w] EXCEPT !.pc = "answered", !.answer = "blocked"])
    /\ UNCHANGED <<store, restarts>>

\* Mutant of SlotTaken: the registration does not look at the slot.
SlotNeverTaken == FALSE

SlotTaken == active # None

\* RegisterWorkflow refuses: 409 with the id of the active workflow.
Rejected(w) ==
    /\ wf[w].pc = "arrived"
    /\ SlotTaken
    /\ Set(w, [wf[w] EXCEPT !.pc = "answered", !.answer = "busy", !.other = active])
    /\ UNCHANGED <<store, restarts>>

\* RegisterWorkflow accepts: a new entry replaces whatever there was.
Register(w) ==
    /\ wf[w].pc = "arrived"
    /\ ~SlotTaken
    /\ active' = w
    /\ known' = known \cup {w}
    /\ cancelled' = cancelled \ {w}
    /\ events' = [events EXCEPT ![w] = <<>>]
    /\ Set(w, [wf[w] EXCEPT !.pc = "accepted", !.accepted = TRUE])
    /\ UNCHANGED restarts

Announce(w) == Report(w, "accepted", "running", "fetch", "calling")

CallLinkedIn(w) == Report(w, "calling", "running", "fetch", "importing")

\* The bounds on the progress updates of a stage.
Reports(w, stage) ==
    /\ w \in Reporting
    /\ Cardinality({i \in DOMAIN events[w] : events[w][i].stage = stage}) < MaxProgress

\* The progress callbacks of the import and of the enrichment.
StageProgress(w) ==
    \/ /\ Reports(w, "fetch")
       /\ Report(w, "importing", "running", "fetch", "importing")
    \/ /\ Reports(w, "enrichment")
       /\ Report(w, "enriching", "running", "enrichment", "enriching")

\* ImportCurrentSearchAsync returns.
ImportReturns(w) ==
    /\ wf[w].pc = "importing"
    /\ \E pc \in {"imported", "importFailed"} : Goto(w, pc)
    /\ UNCHANGED <<store, restarts>>

\* The workflow ends with an update and an answer.
End(w, from, state, stage, answer) ==
    /\ wf[w].pc = from
    /\ Publish(w, state, stage)
    /\ Set(w, [wf[w] EXCEPT !.pc = IF state \in TerminalStates THEN "ending" ELSE "leaving",
                            !.answer = answer])
    /\ UNCHANGED restarts

\* Mutant of ReportImportFailed: the return is missing.
ReportImportFailedAndGoesOn(w) ==
    Report(w, "importFailed", "failed", "fetch", "counting")

ReportImportFailed(w) == End(w, "importFailed", "failed", "fetch", "problem")

ReportImported(w) == Report(w, "imported", "running", "fetch", "counting")

-----------------------------------------------------------------------------
(* Enrichment in batches *)

CountCandidates(w) ==
    /\ wf[w].pc = "counting"
    /\ \E n \in Candidates : Set(w, [wf[w] EXCEPT !.pc = "loop", !.total = n])
    /\ UNCHANGED <<store, restarts>>

\* Mutant of MoreBatches: one candidate is left over.
MoreBatchesButOne(w) == w \notin cancelled /\ wf[w].attempted + 1 < wf[w].total

\* Mutant of MoreBatches: the token is not looked at.
MoreBatchesAlthough(w) == wf[w].attempted < wf[w].total

\* The condition of the batch loop.
MoreBatches(w) == w \notin cancelled /\ wf[w].attempted < wf[w].total

\* Mutant of BatchLoop: a stopped loop continues where it should break.
BatchLoopSpins(w) ==
    /\ wf[w].pc = "loop"
    /\ MoreBatches(w) \/ wf[w].attempted = wf[w].total
    /\ Goto(w, IF MoreBatches(w) THEN "preparing" ELSE "enriched")
    /\ UNCHANGED <<store, restarts>>

BatchLoop(w) ==
    /\ wf[w].pc = "loop"
    /\ Goto(w, IF MoreBatches(w) THEN "preparing" ELSE "enriched")
    /\ UNCHANGED <<store, restarts>>

PrepareBatch(w) == Report(w, "preparing", "running", "enrichment", "batch")

CallDetails(w) == Report(w, "batch", "running", "enrichment", "enriching")

\* Mutant of BatchLimit: the last batch is not cut.
BatchLimitUncut(w) == BatchSize

\* The size of the batch asked for.
BatchLimit(w) ==
    IF BatchSize < wf[w].total - wf[w].attempted
    THEN BatchSize ELSE wf[w].total - wf[w].attempted

\* EnrichIncompleteJobsAsync returns.  It selected n jobs not attempted
\* before, fewer when others have completed or removed some meanwhile; each
\* of them was enriched or failed.  An empty batch ends the loop.
EnrichmentReturns(w) ==
    /\ wf[w].pc = "enriching"
    /\ \E n \in 0..BatchLimit(w), someEnriched, someFailed \in BOOLEAN :
          /\ n = 0 <=> ~someEnriched /\ ~someFailed
          /\ n = 1 => ~(someEnriched /\ someFailed)
          /\ Set(w, [wf[w] EXCEPT !.pc = IF n = 0 THEN "enriched" ELSE "loop",
                                  !.attempted = @ + n,
                                  !.enriched = @ \/ someEnriched,
                                  !.failed = @ \/ someFailed,
                                  !.dry = @ \/ n = 0])
    /\ UNCHANGED <<store, restarts>>

\* enrichmentResult.Success
EnrichmentOK(w) == wf[w].enriched \/ ~wf[w].failed

ReportEnriched(w) ==
    Report(w, "enriched", IF EnrichmentOK(w) THEN "running" ELSE "warning",
           "enrichment", "finishing")

-----------------------------------------------------------------------------
(* The ends *)

ReportCompleted(w) ==
    End(w, "finishing", IF EnrichmentOK(w) THEN "completed" ELSE "warning",
        "completed", "success")

\* The steps that take the workflow's token throw OperationCanceledException.
Interrupt(w) ==
    /\ wf[w].pc \in {"importing", "counting", "enriching"}
    /\ w \in cancelled
    /\ Goto(w, "interrupted")
    /\ UNCHANGED <<store, restarts>>

ReportCancelled(w) == End(w, "interrupted", "cancelled", "completed", "cancelled")

\* Any other exception (a network error, a row version conflict, a timeout)
\* passes the catch clause: no update is published.
Throws(w) ==
    /\ Faults
    /\ wf[w].pc \in {"importing", "counting", "enriching"}
    /\ Set(w, [wf[w] EXCEPT !.pc = "leaving", !.answer = "problem"])
    /\ UNCHANGED <<store, restarts>>

\* The second half of Append.
ReleaseAtEnd(w) ==
    /\ wf[w].pc = "ending"
    /\ active' = Freed(active, w)
    /\ Goto(w, "leaving")
    /\ UNCHANGED <<known, cancelled, events, restarts>>

\* The finally block.
Leave(w) ==
    /\ wf[w].pc = "leaving"
    /\ active' = Freed(active, w)
    /\ Goto(w, "answered")
    /\ UNCHANGED <<known, cancelled, events, restarts>>

-----------------------------------------------------------------------------
(* Stop requests, restarts *)

\* Mutant of CancelWorkflow: the entry is not looked up.
CancelUnknownWorkflow(w) ==
    /\ w \notin cancelled
    /\ cancelled' = cancelled \cup {w}
    /\ Set(w, [wf[w] EXCEPT !.stopAt = wf[w].attempted])
    /\ UNCHANGED <<active, known, events, restarts>>

\* RequestCancellation: 404 for an unknown id; nothing for a second request.
CancelWorkflow(w) ==
    /\ w \in known \ cancelled
    /\ cancelled' = cancelled \cup {w}
    /\ Set(w, [wf[w] EXCEPT !.stopAt = wf[w].attempted])
    /\ UNCHANGED <<active, known, events, restarts>>

\* The process stops and starts again: the store is empty, the requests that
\* had reached it are gone.
Restart ==
    /\ restarts < MaxRestarts
    /\ restarts' = restarts + 1
    /\ active' = None
    /\ known' = {}
    /\ cancelled' = {}
    /\ events' = [w \in Workflows |-> <<>>]
    /\ wf' = [w \in Workflows |->
                 IF wf[w].pc \in {"new", "answered"} THEN wf[w]
                 ELSE Blank("gone", wf[w].accepted)]

-----------------------------------------------------------------------------

\* What the server does with a request it has received.
Step(w) ==
    \/ Rejected(w) \/ Register(w)
    \/ Announce(w) \/ CallLinkedIn(w) \/ ImportReturns(w)
    \/ ReportImportFailed(w) \/ ReportImported(w)
    \/ CountCandidates(w) \/ BatchLoop(w) \/ PrepareBatch(w) \/ CallDetails(w)
    \/ EnrichmentReturns(w) \/ ReportEnriched(w) \/ ReportCompleted(w)
    \/ ReportCancelled(w) \/ ReleaseAtEnd(w) \/ Leave(w)

Serve(w) == Step(w) \/ Blocked(w) \/ StageProgress(w) \/ Interrupt(w) \/ Throws(w)

Next ==
    \/ \E w \in Workflows : Serve(w) \/ Submit(w) \/ CancelWorkflow(w)
    \/ Restart

Spec == Init /\ [][Next]_vars

\* The executor passes CancellationToken.None, so a request that has arrived
\* is served to its end even when its page is gone.
FairSpec == Spec /\ \A w \in Workflows : WF_vars(Step(w))

-----------------------------------------------------------------------------
(* Properties *)

\* A workflow holds the user's slot until its terminal update is out: at no
\* time do two workflows of a user import or enrich, although the slot is
\* released twice, the second time when another workflow may have it.
WorkingHoldsSlot ==
    \A w \in Workflows : wf[w].pc \in Working => active = w

\* The slot is never leaked: whoever has it still runs and will release it.
\* A slot nobody releases would refuse every later fetch of the user.
SlotIsHeld == active # None => wf[active].pc \in Holding

\* The slot of a user is neither shared nor leaked.
SlotIsExclusive == WorkingHoldsSlot /\ SlotIsHeld

\* An update that ends the tracking in the pages is the last one of its
\* workflow: a page that stops reading there misses nothing.
EndIsLast ==
    [][ \A w \in Workflows :
          (/\ restarts' = restarts
           /\ events[w] # <<>>
           /\ Ends(events[w][Len(events[w])])) => events'[w] = events[w] ]_vars

\* After a stop request at most the batch under way is finished.
StopsWithinBatch ==
    \A w \in Workflows :
        wf[w].stopAt >= 0 => wf[w].attempted <= wf[w].stopAt + BatchSize

\* The batches together never try more jobs than were counted, the cap on
\* refreshes of stale details included.
WithinTotal == \A w \in Workflows : wf[w].attempted <= wf[w].total

\* A workflow nobody stopped succeeds only when each counted job was tried or
\* the selection had run dry.
SuccessCoversCandidates ==
    \A w \in Workflows :
        /\ wf[w].answer = "success"
        /\ wf[w].stopAt = -1
        /\ ~wf[w].dry
        => wf[w].attempted = wf[w].total

\* Every request that reaches the server is answered, unless the process stops.
RequestEnds ==
    \A w \in Workflows : wf[w].pc = "arrived" ~> wf[w].pc \in {"answered", "gone"}

-----------------------------------------------------------------------------
(* Implementation of the abstract specification *)

served == {w \in Workflows : wf[w].accepted} \ {active}

Slot == INSTANCE WorkflowSlot WITH holder <- active

\* The store and the workflows keep what WorkflowSlot promises: the slot is
\* taken only while it is free, and no workflow gets it twice.
SlotSpec == Slot!Spec

\* They also give the slot back, always.
SlotFairSpec == Slot!FairSpec

=============================================================================
