------------------------- MODULE JobsWorkflowProofs -------------------------
(***************************************************************************)
(* Proofs about JobsWorkflow.                                               *)
(***************************************************************************)
EXTENDS JobsWorkflow, TLAPS

\* Phases a request passes before its first enrichment batch.
BeforeBatches == {"new", "arrived", "accepted", "calling", "importing", "imported",
                  "counting", "importFailed"}

Over == {"ending", "leaving", "answered", "gone"}

\* The slot belongs to an accepted request that is not yet over, and whoever
\* works has it.
SlotInv ==
    /\ WorkingHoldsSlot
    /\ SlotIsHeld
    /\ \A w \in Workflows :
          /\ wf[w].pc \in Holding => wf[w].accepted
          /\ wf[w].pc \in {"new", "arrived"} => ~wf[w].accepted

\* What the list of updates of w says about its phase.
ListInv(w) ==
    /\ wf[w].pc \in {"new", "arrived"} => w \notin known /\ events[w] = <<>>
    /\ wf[w].pc \in Working /\ events[w] # <<>> => ~Ends(events[w][Len(events[w])])

\* How far the batches of w are.
BatchInv(w) ==
    /\ wf[w].pc \in BeforeBatches => wf[w].attempted = 0
    /\ wf[w].attempted <= wf[w].total
    /\ wf[w].answer # "none" => wf[w].pc \in Over
    /\ (wf[w].pc \in {"enriched", "finishing"} \/ wf[w].answer = "success")
          /\ wf[w].stopAt = -1 /\ ~wf[w].dry => wf[w].attempted = wf[w].total

\* How a stop request and the batches of w relate.
StopInv(w) ==
    /\ wf[w].pc \in {"new", "arrived"} => wf[w].stopAt = -1
    /\ w \in cancelled => wf[w].stopAt >= 0
    /\ wf[w].stopAt >= 0 =>
          /\ wf[w].pc \in Holding => w \in cancelled
          /\ wf[w].pc \in BeforeBatches \cup {"preparing", "batch", "enriching"} =>
                wf[w].attempted = wf[w].stopAt
          /\ wf[w].attempted <= wf[w].stopAt + BatchSize

Inv ==
    /\ TypeOK
    /\ SlotInv
    /\ \A w \in Workflows : ListInv(w) /\ BatchInv(w) /\ StopInv(w)

-----------------------------------------------------------------------------
(* Type correctness *)

StoreTypeOK ==
    /\ active \in Workflows \cup {None}
    /\ known \in SUBSET Workflows
    /\ cancelled \in SUBSET known
    /\ events \in [Workflows -> Seq(Update)]

LEMMA InitTypeOK == Init => TypeOK
<1>1. NewRequest \in Request
  BY DEF NewRequest, Blank, Request, Phases, Answers
<1> QED BY <1>1 DEF Init, TypeOK

LEMMA GotoType ==
    ASSUME TypeOK, NEW w \in Workflows, NEW pc \in Phases, Goto(w, pc)
    PROVE  wf' \in [Workflows -> Request]
<1>1. [wf[w] EXCEPT !.pc = pc] \in Request
  <2>1. wf[w] \in Request  BY DEF TypeOK
  <2> QED BY <2>1 DEF Request
<1> QED BY <1>1 DEF TypeOK, Goto, Set

LEMMA PublishType ==
    ASSUME TypeOK, NEW w \in Workflows,
           NEW state \in {"running", "warning", "completed", "failed", "cancelled"},
           NEW stage \in {"fetch", "enrichment", "completed"},
           Publish(w, state, stage)
    PROVE  StoreTypeOK'
<1>1. [state |-> state, stage |-> stage] \in Update
  BY DEF Update
<1>2. events[w] \in Seq(Update)
  BY DEF TypeOK
<1>3. Append(events[w], [state |-> state, stage |-> stage]) \in Seq(Update)
  BY <1>1, <1>2
<1> QED BY <1>3 DEF Publish, TypeOK, StoreTypeOK

LEMMA ReportType ==
    ASSUME TypeOK, NEW w \in Workflows, NEW from,
           NEW state \in {"running", "warning", "completed", "failed", "cancelled"},
           NEW stage \in {"fetch", "enrichment", "completed"}, NEW pc \in Phases,
           Report(w, from, state, stage, pc)
    PROVE  TypeOK'
<1>1. Publish(w, state, stage) /\ Goto(w, pc) /\ restarts' = restarts
  BY DEF Report
<1> QED BY <1>1, GotoType, PublishType DEF TypeOK, StoreTypeOK

LEMMA WithAnswer ==
    ASSUME NEW r \in Request, NEW pc \in Phases, NEW answer \in Answers
    PROVE  [r EXCEPT !.pc = pc, !.answer = answer] \in Request
BY DEF Request

LEMMA EndType ==
    ASSUME TypeOK, NEW w \in Workflows, NEW from,
           NEW state \in {"running", "warning", "completed", "failed", "cancelled"},
           NEW stage \in {"fetch", "enrichment", "completed"}, NEW answer \in Answers,
           End(w, from, state, stage, answer)
    PROVE  TypeOK'
<1>1. StoreTypeOK' /\ restarts' = restarts
  BY PublishType DEF End
<1> DEFINE pc == IF state \in TerminalStates THEN "ending" ELSE "leaving"
<1>2. pc \in Phases
  BY DEF Phases, Holding
<1>3. [wf[w] EXCEPT !.pc = pc, !.answer = answer] \in Request
  <2>1. wf[w] \in Request  BY DEF TypeOK
  <2> QED BY <1>2, <2>1, WithAnswer
<1>4. wf' \in [Workflows -> Request]
  BY <1>3 DEF End, Set, TypeOK
<1> QED BY <1>1, <1>4 DEF TypeOK, StoreTypeOK

\* What a restart leaves of a request.
LEMMA BlankRequest ==
    ASSUME NEW pc \in Phases, NEW accepted \in BOOLEAN
    PROVE  /\ Blank(pc, accepted) \in Request
           /\ Blank(pc, accepted).pc = pc
           /\ Blank(pc, accepted).accepted = accepted
           /\ Blank(pc, accepted).attempted = 0 /\ Blank(pc, accepted).total = 0
           /\ Blank(pc, accepted).answer = "none" /\ Blank(pc, accepted).stopAt = -1
<1>1. "none" \in Answers /\ None \in Workflows \cup {None} /\ -1 \in Int
  BY DEF Answers
<1> QED BY <1>1 DEF Blank, Request

LEMMA GoneRequest ==
    ASSUME TypeOK, NEW w \in Workflows
    PROVE  LET r == Blank("gone", wf[w].accepted)
           IN /\ r \in Request
              /\ r.pc = "gone"
              /\ r.accepted = wf[w].accepted
              /\ r.attempted = 0 /\ r.total = 0
              /\ r.answer = "none" /\ r.stopAt = -1
<1>1. wf[w].accepted \in BOOLEAN /\ "gone" \in Phases
  BY DEF TypeOK, Request, Phases
<1> QED BY <1>1, BlankRequest

LEMMA TypeStep == TypeOK /\ [Next]_vars => TypeOK'
<1> SUFFICES ASSUME TypeOK, [Next]_vars PROVE TypeOK'
  OBVIOUS
<1>t. \A w \in Workflows : wf[w] \in Request
  BY DEF TypeOK
<1>0. CASE UNCHANGED vars
  BY <1>0 DEF vars, TypeOK
<1>1. CASE Restart
  <2>1. \A w \in Workflows : Blank("gone", wf[w].accepted) \in Request
    BY GoneRequest
  <2>2. wf' \in [Workflows -> Request]
    BY <1>1, <1>t, <2>1 DEF Restart
  <2>3. events' \in [Workflows -> Seq(Update)]
    BY <1>1 DEF Restart
  <2>4. active' = None /\ known' = {} /\ cancelled' = {} /\ restarts' \in Nat
    BY <1>1, ConstantsAssumption DEF Restart, TypeOK
  <2> QED BY <2>2, <2>3, <2>4 DEF TypeOK
<1>2. ASSUME NEW w \in Workflows, Submit(w) PROVE TypeOK'
  BY <1>2, GotoType DEF Submit, store, TypeOK, Phases, Holding, Working
<1>3. ASSUME NEW w \in Workflows, Blocked(w) PROVE TypeOK'
  <2>1. [wf[w] EXCEPT !.pc = "answered", !.answer = "blocked"] \in Request
    BY <1>t, WithAnswer DEF Phases, Answers
  <2>2. wf' \in [Workflows -> Request]
    BY <1>3, <2>1 DEF Blocked, Set, TypeOK
  <2> QED BY <1>3, <2>2 DEF Blocked, store, TypeOK
<1>4. ASSUME NEW w \in Workflows, Rejected(w) PROVE TypeOK'
  <2>1. "answered" \in Phases /\ "busy" \in Answers /\ active \in Workflows \cup {None}
    BY DEF Phases, Answers, TypeOK
  <2>2. [wf[w] EXCEPT !.pc = "answered", !.answer = "busy", !.other = active] \in Request
    BY <1>t, <2>1 DEF Request
  <2>3. wf' \in [Workflows -> Request]
    BY <1>4, <2>2 DEF Rejected, Set, TypeOK
  <2> QED BY <1>4, <2>3 DEF Rejected, store, TypeOK
<1>5. ASSUME NEW w \in Workflows, Register(w) PROVE TypeOK'
  <2>1. "accepted" \in Phases /\ wf[w] \in Request
    BY <1>t DEF Phases, Holding, Working
  <2>2. [wf[w] EXCEPT !.pc = "accepted", !.accepted = TRUE] \in Request
    BY <2>1, Zenon DEF Request
  <2>3. wf' \in [Workflows -> Request]
    BY <1>5, <2>2 DEF Register, Set, TypeOK
  <2>4. <<>> \in Seq(Update)
    OBVIOUS
  <2>5. events' \in [Workflows -> Seq(Update)]
    BY <1>5, <2>4 DEF Register, TypeOK
  <2>6. active' = w /\ known' = known \cup {w} /\ cancelled' = cancelled \ {w} /\ restarts' = restarts
    BY <1>5 DEF Register
  <2> QED BY <2>3, <2>5, <2>6 DEF TypeOK
<1>6. ASSUME NEW w \in Workflows, Announce(w) PROVE TypeOK'
  BY <1>6, ReportType DEF Announce, Phases, Holding, Working
<1>7. ASSUME NEW w \in Workflows, CallLinkedIn(w) PROVE TypeOK'
  BY <1>7, ReportType DEF CallLinkedIn, Phases, Holding, Working
<1>8. ASSUME NEW w \in Workflows, StageProgress(w) PROVE TypeOK'
  BY <1>8, ReportType DEF StageProgress, Phases, Holding, Working
<1>9. ASSUME NEW w \in Workflows, ImportReturns(w) PROVE TypeOK'
  BY <1>9, GotoType DEF ImportReturns, store, TypeOK, Phases, Holding, Working
<1>10. ASSUME NEW w \in Workflows, ReportImportFailed(w) PROVE TypeOK'
  BY <1>10, EndType DEF ReportImportFailed, Answers
<1>11. ASSUME NEW w \in Workflows, ReportImported(w) PROVE TypeOK'
  BY <1>11, ReportType DEF ReportImported, Phases, Holding, Working
<1>12. ASSUME NEW w \in Workflows, CountCandidates(w) PROVE TypeOK'
  <2>1. PICK n \in Candidates : Set(w, [wf[w] EXCEPT !.pc = "loop", !.total = n])
    BY <1>12 DEF CountCandidates
  <2>2. n \in Nat /\ "loop" \in Phases
    BY ConstantsAssumption DEF Phases, Holding, Working
  <2>3. [wf[w] EXCEPT !.pc = "loop", !.total = n] \in Request
    BY <1>t, <2>2 DEF Request
  <2> QED BY <1>12, <2>1, <2>3 DEF CountCandidates, Set, store, TypeOK
<1>13. ASSUME NEW w \in Workflows, BatchLoop(w) PROVE TypeOK'
  BY <1>13, GotoType DEF BatchLoop, store, TypeOK, Phases, Holding, Working
<1>14. ASSUME NEW w \in Workflows, PrepareBatch(w) PROVE TypeOK'
  BY <1>14, ReportType DEF PrepareBatch, Phases, Holding, Working
<1>15. ASSUME NEW w \in Workflows, CallDetails(w) PROVE TypeOK'
  BY <1>15, ReportType DEF CallDetails, Phases, Holding, Working
<1>16. ASSUME NEW w \in Workflows, EnrichmentReturns(w) PROVE TypeOK'
  <2>1. PICK n \in 0..BatchLimit(w), e \in BOOLEAN, f \in BOOLEAN :
          Set(w, [wf[w] EXCEPT !.pc = IF n = 0 THEN "enriched" ELSE "loop",
                               !.attempted = @ + n, !.enriched = @ \/ e,
                               !.failed = @ \/ f, !.dry = @ \/ n = 0])
    BY <1>16, ZenonT(30) DEF EnrichmentReturns
  <2> DEFINE pc == IF n = 0 THEN "enriched" ELSE "loop"
  <2>2. pc \in Phases
    BY DEF Phases, Holding, Working
  <2>3. n \in Nat
    BY <1>t, ConstantsAssumption DEF BatchLimit, Request
  <2>4. wf[w].attempted + n \in Nat
    BY <1>t, <2>3 DEF Request
  <2>5. /\ (wf[w].enriched \/ e) \in BOOLEAN
        /\ (wf[w].failed \/ f) \in BOOLEAN
        /\ (wf[w].dry \/ n = 0) \in BOOLEAN
    OBVIOUS
  <2> HIDE DEF pc
  <2>6. [wf[w] EXCEPT !.pc = pc, !.attempted = wf[w].attempted + n,
                      !.enriched = wf[w].enriched \/ e, !.failed = wf[w].failed \/ f,
                      !.dry = wf[w].dry \/ n = 0] \in Request
    BY <1>t, <2>2, <2>4, <2>5, ZenonT(30) DEF Request
  <2>7. wf' \in [Workflows -> Request]
    BY <2>1, <2>6 DEF Set, TypeOK, pc
  <2> QED BY <1>16, <2>7 DEF EnrichmentReturns, store, TypeOK
<1>17. ASSUME NEW w \in Workflows, ReportEnriched(w) PROVE TypeOK'
  BY <1>17, ReportType DEF ReportEnriched, Phases, Holding, Working
<1>18. ASSUME NEW w \in Workflows, ReportCompleted(w) PROVE TypeOK'
  BY <1>18, EndType DEF ReportCompleted, Answers
<1>19. ASSUME NEW w \in Workflows, Interrupt(w) PROVE TypeOK'
  BY <1>19, GotoType DEF Interrupt, store, TypeOK, Phases, Holding, Working
<1>20. ASSUME NEW w \in Workflows, ReportCancelled(w) PROVE TypeOK'
  BY <1>20, EndType DEF ReportCancelled, Answers
<1>21. ASSUME NEW w \in Workflows, Throws(w) PROVE TypeOK'
  <2>1. [wf[w] EXCEPT !.pc = "leaving", !.answer = "problem"] \in Request
    BY <1>t, WithAnswer DEF Phases, Answers, Holding
  <2>2. wf' \in [Workflows -> Request]
    BY <1>21, <2>1 DEF Throws, Set, TypeOK
  <2> QED BY <1>21, <2>2 DEF Throws, store, TypeOK
<1>22. ASSUME NEW w \in Workflows, ReleaseAtEnd(w) PROVE TypeOK'
  BY <1>22, GotoType DEF ReleaseAtEnd, store, TypeOK, Phases, Holding, Working, Freed
<1>23. ASSUME NEW w \in Workflows, Leave(w) PROVE TypeOK'
  BY <1>23, GotoType DEF Leave, store, TypeOK, Phases, Holding, Working, Freed
<1>24. ASSUME NEW w \in Workflows, CancelWorkflow(w) PROVE TypeOK'
  <2>1. wf[w].attempted \in Int
    BY <1>t DEF Request
  <2>2. [wf[w] EXCEPT !.stopAt = wf[w].attempted] \in Request
    BY <1>t, <2>1 DEF Request
  <2>3. wf' \in [Workflows -> Request]
    BY <1>24, <2>2 DEF CancelWorkflow, Set, TypeOK
  <2> QED BY <1>24, <2>3 DEF CancelWorkflow, TypeOK
<1>25. QED
  BY <1>0, <1>1, <1>2, <1>3, <1>4, <1>5, <1>6, <1>7, <1>8, <1>9, <1>10, <1>11, <1>12,
     <1>13, <1>14, <1>15, <1>16, <1>17, <1>18, <1>19, <1>20, <1>21, <1>22, <1>23, <1>24
     DEF Next, Serve, Step

-----------------------------------------------------------------------------
(* The slot *)

LEMMA SlotStep == TypeOK /\ SlotInv /\ [Next]_vars => SlotInv'
<1> SUFFICES ASSUME TypeOK, SlotInv, [Next]_vars PROVE SlotInv'
  OBVIOUS
<1>t. None \notin Workflows /\ active \in Workflows \cup {None} /\ wf \in [Workflows -> Request]
  BY ConstantsAssumption DEF TypeOK
<1> USE DEF SlotInv, WorkingHoldsSlot, SlotIsHeld, Holding, Working
<1>0. CASE UNCHANGED vars
  BY <1>0 DEF vars
<1>1. CASE Restart
  BY <1>1, <1>t, GoneRequest DEF Restart
<1>2. ASSUME NEW w \in Workflows, Submit(w) PROVE SlotInv'
  BY <1>2, <1>t DEF Submit, Goto, Set, store, Request
<1>3. ASSUME NEW w \in Workflows, Blocked(w) PROVE SlotInv'
  BY <1>3, <1>t DEF Blocked, Set, store, Request
<1>4. ASSUME NEW w \in Workflows, Rejected(w) PROVE SlotInv'
  BY <1>4, <1>t DEF Rejected, Set, store, SlotTaken, Request
<1>5. ASSUME NEW w \in Workflows, Register(w) PROVE SlotInv'
  BY <1>5, <1>t DEF Register, Set, SlotTaken, Request
<1>6. ASSUME NEW w \in Workflows, Announce(w) PROVE SlotInv'
  BY <1>6, <1>t DEF Announce, Report, Publish, Goto, Set, Request
<1>7. ASSUME NEW w \in Workflows, CallLinkedIn(w) PROVE SlotInv'
  BY <1>7, <1>t DEF CallLinkedIn, Report, Publish, Goto, Set, Request
<1>8. ASSUME NEW w \in Workflows, StageProgress(w) PROVE SlotInv'
  BY <1>8, <1>t DEF StageProgress, Report, Publish, Goto, Set, Request
<1>9. ASSUME NEW w \in Workflows, ImportReturns(w) PROVE SlotInv'
  BY <1>9, <1>t DEF ImportReturns, Goto, Set, store, Request
<1>10. ASSUME NEW w \in Workflows, ReportImportFailed(w) PROVE SlotInv'
  BY <1>10, <1>t DEF ReportImportFailed, End, Publish, Set, Request
<1>11. ASSUME NEW w \in Workflows, ReportImported(w) PROVE SlotInv'
  BY <1>11, <1>t DEF ReportImported, Report, Publish, Goto, Set, Request
<1>12. ASSUME NEW w \in Workflows, CountCandidates(w) PROVE SlotInv'
  BY <1>12, <1>t DEF CountCandidates, Set, store, Request
<1>13. ASSUME NEW w \in Workflows, BatchLoop(w) PROVE SlotInv'
  BY <1>13, <1>t DEF BatchLoop, Goto, Set, store, Request
<1>14. ASSUME NEW w \in Workflows, PrepareBatch(w) PROVE SlotInv'
  BY <1>14, <1>t DEF PrepareBatch, Report, Publish, Goto, Set, Request
<1>15. ASSUME NEW w \in Workflows, CallDetails(w) PROVE SlotInv'
  BY <1>15, <1>t DEF CallDetails, Report, Publish, Goto, Set, Request
<1>16. ASSUME NEW w \in Workflows, EnrichmentReturns(w) PROVE SlotInv'
  BY <1>16, <1>t DEF EnrichmentReturns, Set, store, Request
<1>17. ASSUME NEW w \in Workflows, ReportEnriched(w) PROVE SlotInv'
  BY <1>17, <1>t DEF ReportEnriched, Report, Publish, Goto, Set, Request
<1>18. ASSUME NEW w \in Workflows, ReportCompleted(w) PROVE SlotInv'
  BY <1>18, <1>t DEF ReportCompleted, End, Publish, Set, Request
<1>19. ASSUME NEW w \in Workflows, Interrupt(w) PROVE SlotInv'
  BY <1>19, <1>t DEF Interrupt, Goto, Set, store, Request
<1>20. ASSUME NEW w \in Workflows, ReportCancelled(w) PROVE SlotInv'
  BY <1>20, <1>t DEF ReportCancelled, End, Publish, Set, Request
<1>21. ASSUME NEW w \in Workflows, Throws(w) PROVE SlotInv'
  BY <1>21, <1>t DEF Throws, Set, store, Request
<1>22. ASSUME NEW w \in Workflows, ReleaseAtEnd(w) PROVE SlotInv'
  BY <1>22, <1>t DEF ReleaseAtEnd, Goto, Set, Freed, Request
<1>23. ASSUME NEW w \in Workflows, Leave(w) PROVE SlotInv'
  BY <1>23, <1>t DEF Leave, Goto, Set, Freed, Request
<1>24. ASSUME NEW w \in Workflows, CancelWorkflow(w) PROVE SlotInv'
  BY <1>24, <1>t DEF CancelWorkflow, Set, Request
<1>25. QED
  BY <1>0, <1>1, <1>2, <1>3, <1>4, <1>5, <1>6, <1>7, <1>8, <1>9, <1>10, <1>11, <1>12,
     <1>13, <1>14, <1>15, <1>16, <1>17, <1>18, <1>19, <1>20, <1>21, <1>22, <1>23, <1>24
     DEF Next, Serve, Step

-----------------------------------------------------------------------------
(* The lists of updates *)

LEMMA ListStep ==
    ASSUME TypeOK, \A w \in Workflows : ListInv(w), [Next]_vars, NEW v \in Workflows
    PROVE  ListInv(v)'
<1>t. /\ None \notin Workflows /\ BatchSize \in Nat /\ wf \in [Workflows -> Request]
      /\ wf[v] \in Request /\ events \in [Workflows -> Seq(Update)]
      /\ cancelled \in SUBSET known
  BY ConstantsAssumption DEF TypeOK
<1> USE DEF ListInv, Ends, TerminalStates, Working
<1>0. CASE UNCHANGED vars
  BY <1>0 DEF vars
<1>1. CASE Restart
  BY <1>1, <1>t, GoneRequest DEF Restart
<1>2. ASSUME NEW w \in Workflows, Submit(w) PROVE ListInv(v)'
  BY <1>2, <1>t DEF Submit, Goto, Set, store, Request
<1>3. ASSUME NEW w \in Workflows, Blocked(w) PROVE ListInv(v)'
  BY <1>3, <1>t DEF Blocked, Set, store, Request
<1>4. ASSUME NEW w \in Workflows, Rejected(w) PROVE ListInv(v)'
  BY <1>4, <1>t DEF Rejected, Set, store, SlotTaken, store, Request
<1>5. ASSUME NEW w \in Workflows, Register(w) PROVE ListInv(v)'
  BY <1>5, <1>t DEF Register, Set, SlotTaken, store, Request
<1>6. ASSUME NEW w \in Workflows, Announce(w) PROVE ListInv(v)'
  BY <1>6, <1>t DEF Announce, Report, Publish, Goto, Set, store, Request
<1>7. ASSUME NEW w \in Workflows, CallLinkedIn(w) PROVE ListInv(v)'
  BY <1>7, <1>t DEF CallLinkedIn, Report, Publish, Goto, Set, store, Request
<1>8. ASSUME NEW w \in Workflows, StageProgress(w) PROVE ListInv(v)'
  <2>1. CASE Report(w, "importing", "running", "fetch", "importing")
    BY <2>1, <1>t DEF Report, Publish, Goto, Set, Request
  <2>2. CASE Report(w, "enriching", "running", "enrichment", "enriching")
    BY <2>2, <1>t DEF Report, Publish, Goto, Set, Request
  <2> QED BY <1>8, <2>1, <2>2 DEF StageProgress
<1>9. ASSUME NEW w \in Workflows, ImportReturns(w) PROVE ListInv(v)'
  BY <1>9, <1>t DEF ImportReturns, Goto, Set, store, Request
<1>10. ASSUME NEW w \in Workflows, ReportImportFailed(w) PROVE ListInv(v)'
  BY <1>10, <1>t DEF ReportImportFailed, End, Publish, Set, store, Request
<1>11. ASSUME NEW w \in Workflows, ReportImported(w) PROVE ListInv(v)'
  BY <1>11, <1>t DEF ReportImported, Report, Publish, Goto, Set, store, Request
<1>12. ASSUME NEW w \in Workflows, CountCandidates(w) PROVE ListInv(v)'
  BY <1>12, <1>t DEF CountCandidates, Set, store, Request
<1>13. ASSUME NEW w \in Workflows, BatchLoop(w) PROVE ListInv(v)'
  BY <1>13, <1>t DEF BatchLoop, Goto, Set, store, Request
<1>14. ASSUME NEW w \in Workflows, PrepareBatch(w) PROVE ListInv(v)'
  BY <1>14, <1>t DEF PrepareBatch, Report, Publish, Goto, Set, store, Request
<1>15. ASSUME NEW w \in Workflows, CallDetails(w) PROVE ListInv(v)'
  BY <1>15, <1>t DEF CallDetails, Report, Publish, Goto, Set, store, Request
<1>16. ASSUME NEW w \in Workflows, EnrichmentReturns(w) PROVE ListInv(v)'
  BY <1>16, <1>t DEF EnrichmentReturns, Set, store, Request
<1>17. ASSUME NEW w \in Workflows, ReportEnriched(w) PROVE ListInv(v)'
  BY <1>17, <1>t DEF ReportEnriched, Report, Publish, Goto, Set, store, Request
<1>18. ASSUME NEW w \in Workflows, ReportCompleted(w) PROVE ListInv(v)'
  BY <1>18, <1>t DEF ReportCompleted, End, Publish, Set, store, Request
<1>19. ASSUME NEW w \in Workflows, Interrupt(w) PROVE ListInv(v)'
  BY <1>19, <1>t DEF Interrupt, Goto, Set, store, Request
<1>20. ASSUME NEW w \in Workflows, ReportCancelled(w) PROVE ListInv(v)'
  BY <1>20, <1>t DEF ReportCancelled, End, Publish, Set, store, Request
<1>21. ASSUME NEW w \in Workflows, Throws(w) PROVE ListInv(v)'
  BY <1>21, <1>t DEF Throws, Set, store, Request
<1>22. ASSUME NEW w \in Workflows, ReleaseAtEnd(w) PROVE ListInv(v)'
  BY <1>22, <1>t DEF ReleaseAtEnd, Goto, Set, Freed, store, Request
<1>23. ASSUME NEW w \in Workflows, Leave(w) PROVE ListInv(v)'
  BY <1>23, <1>t DEF Leave, Goto, Set, Freed, store, Request
<1>24. ASSUME NEW w \in Workflows, CancelWorkflow(w) PROVE ListInv(v)'
  BY <1>24, <1>t DEF CancelWorkflow, Set, store, Request
<1>25. QED
  BY <1>0, <1>1, <1>2, <1>3, <1>4, <1>5, <1>6, <1>7, <1>8, <1>9, <1>10, <1>11, <1>12,
     <1>13, <1>14, <1>15, <1>16, <1>17, <1>18, <1>19, <1>20, <1>21, <1>22, <1>23, <1>24
     DEF Next, Serve, Step

\* A batch of n jobs is back.
BatchReturned(w, n) ==
    /\ n <= wf[w].total - wf[w].attempted
    /\ wf[w].pc = "enriching"
    /\ wf'[w].pc = IF n = 0 THEN "enriched" ELSE "loop"
    /\ wf'[w].attempted = wf[w].attempted + n
    /\ n = 0 => wf'[w].dry
    /\ wf'[w].total = wf[w].total
    /\ wf'[w].answer = wf[w].answer
    /\ wf'[w].stopAt = wf[w].stopAt

LEMMA EnrichmentReturned ==
    ASSUME TypeOK, NEW w \in Workflows, EnrichmentReturns(w)
    PROVE  \E n \in Nat : BatchReturned(w, n)
<1>1. PICK n \in 0..BatchLimit(w), e \in BOOLEAN, f \in BOOLEAN :
        Set(w, [wf[w] EXCEPT !.pc = IF n = 0 THEN "enriched" ELSE "loop",
                             !.attempted = @ + n, !.enriched = @ \/ e,
                             !.failed = @ \/ f, !.dry = @ \/ n = 0])
  BY ZenonT(30) DEF EnrichmentReturns
<1>t. wf[w] \in Request /\ BatchSize \in Nat
  BY ConstantsAssumption DEF TypeOK
<1>2. n \in Nat /\ n <= wf[w].total - wf[w].attempted
  BY <1>t DEF BatchLimit, Request
<1>3. /\ wf'[w].pc = IF n = 0 THEN "enriched" ELSE "loop"
      /\ wf'[w].attempted = wf[w].attempted + n
      /\ n = 0 => wf'[w].dry
      /\ wf'[w].total = wf[w].total
      /\ wf'[w].answer = wf[w].answer
      /\ wf'[w].stopAt = wf[w].stopAt
  BY <1>1, <1>t DEF Set, Request, TypeOK
<1>4. wf[w].pc = "enriching"
  BY DEF EnrichmentReturns
<1> QED BY <1>2, <1>3, <1>4 DEF BatchReturned

-----------------------------------------------------------------------------
(* The batches *)

LEMMA BatchStep ==
    ASSUME TypeOK, \A w \in Workflows : BatchInv(w) /\ StopInv(w), [Next]_vars, NEW v \in Workflows
    PROVE  BatchInv(v)'
<1>t. /\ None \notin Workflows /\ BatchSize \in Nat /\ wf \in [Workflows -> Request]
      /\ wf[v] \in Request /\ events \in [Workflows -> Seq(Update)]
      /\ cancelled \in SUBSET known
  BY ConstantsAssumption DEF TypeOK
<1> USE DEF BatchInv, StopInv, BatchLimit, MoreBatches, BeforeBatches, Over, Working, Holding
<1>0. CASE UNCHANGED vars
  BY <1>0 DEF vars
<1>1. CASE Restart
  BY <1>1, <1>t, GoneRequest DEF Restart
<1>2. ASSUME NEW w \in Workflows, Submit(w) PROVE BatchInv(v)'
  BY <1>2, <1>t DEF Submit, Goto, Set, store, Request
<1>3. ASSUME NEW w \in Workflows, Blocked(w) PROVE BatchInv(v)'
  BY <1>3, <1>t DEF Blocked, Set, store, Request
<1>4. ASSUME NEW w \in Workflows, Rejected(w) PROVE BatchInv(v)'
  BY <1>4, <1>t DEF Rejected, Set, store, SlotTaken, store, Request
<1>5. ASSUME NEW w \in Workflows, Register(w) PROVE BatchInv(v)'
  BY <1>5, <1>t DEF Register, Set, SlotTaken, store, Request
<1>6. ASSUME NEW w \in Workflows, Announce(w) PROVE BatchInv(v)'
  BY <1>6, <1>t DEF Announce, Report, Publish, Goto, Set, store, Request
<1>7. ASSUME NEW w \in Workflows, CallLinkedIn(w) PROVE BatchInv(v)'
  BY <1>7, <1>t DEF CallLinkedIn, Report, Publish, Goto, Set, store, Request
<1>8. ASSUME NEW w \in Workflows, StageProgress(w) PROVE BatchInv(v)'
  <2>1. CASE Report(w, "importing", "running", "fetch", "importing")
    BY <2>1, <1>t DEF Report, Publish, Goto, Set, Request
  <2>2. CASE Report(w, "enriching", "running", "enrichment", "enriching")
    BY <2>2, <1>t DEF Report, Publish, Goto, Set, Request
  <2> QED BY <1>8, <2>1, <2>2 DEF StageProgress
<1>9. ASSUME NEW w \in Workflows, ImportReturns(w) PROVE BatchInv(v)'
  BY <1>9, <1>t DEF ImportReturns, Goto, Set, store, Request
<1>10. ASSUME NEW w \in Workflows, ReportImportFailed(w) PROVE BatchInv(v)'
  BY <1>10, <1>t DEF ReportImportFailed, End, Publish, Set, store, Request
<1>11. ASSUME NEW w \in Workflows, ReportImported(w) PROVE BatchInv(v)'
  BY <1>11, <1>t DEF ReportImported, Report, Publish, Goto, Set, store, Request
<1>12. ASSUME NEW w \in Workflows, CountCandidates(w) PROVE BatchInv(v)'
  <2>1. PICK n \in Candidates : Set(w, [wf[w] EXCEPT !.pc = "loop", !.total = n])
    BY <1>12 DEF CountCandidates
  <2>2. n \in Nat
    BY ConstantsAssumption
  <2>3. wf[w].pc = "counting" /\ UNCHANGED store
    BY <1>12 DEF CountCandidates
  <2>4. CASE v # w
    BY <2>1, <2>3, <2>4, <1>t DEF Set, store
  <2>5. CASE v = w
    <3>1. wf[w].attempted = 0 /\ wf[w].answer = "none"
      BY <2>3
    <3>2. /\ wf'[w].pc = "loop" /\ wf'[w].total = n
          /\ wf'[w].attempted = wf[w].attempted /\ wf'[w].answer = wf[w].answer
      BY <2>1, <1>t DEF Set, Request
    <3> QED BY <2>2, <2>5, <3>1, <3>2
  <2> QED BY <2>4, <2>5
<1>13. ASSUME NEW w \in Workflows, BatchLoop(w) PROVE BatchInv(v)'
  BY <1>13, <1>t, SMTT(30) DEF BatchLoop, Goto, Set, store, Request
<1>14. ASSUME NEW w \in Workflows, PrepareBatch(w) PROVE BatchInv(v)'
  BY <1>14, <1>t DEF PrepareBatch, Report, Publish, Goto, Set, store, Request
<1>15. ASSUME NEW w \in Workflows, CallDetails(w) PROVE BatchInv(v)'
  BY <1>15, <1>t DEF CallDetails, Report, Publish, Goto, Set, store, Request
<1>16. ASSUME NEW w \in Workflows, EnrichmentReturns(w) PROVE BatchInv(v)'
  <2>1. CASE v # w
    BY <2>1, <1>t, <1>16 DEF Set, EnrichmentReturns, store
  <2>2. CASE v = w
    <3>1. PICK n \in Nat : BatchReturned(w, n)
      BY <1>16, EnrichmentReturned
    <3>2. /\ wf[v].attempted \in Nat /\ wf[v].total \in Nat /\ wf[v].dry \in BOOLEAN
      BY <1>t DEF Request
    <3>3. CASE n = 0
      BY <2>2, <3>1, <3>2, <3>3 DEF BatchReturned
    <3>4. CASE n # 0
      BY <2>2, <3>1, <3>2, <3>4 DEF BatchReturned
    <3> QED BY <3>3, <3>4
  <2> QED BY <2>1, <2>2
<1>17. ASSUME NEW w \in Workflows, ReportEnriched(w) PROVE BatchInv(v)'
  BY <1>17, <1>t DEF ReportEnriched, Report, Publish, Goto, Set, store, Request
<1>18. ASSUME NEW w \in Workflows, ReportCompleted(w) PROVE BatchInv(v)'
  BY <1>18, <1>t DEF ReportCompleted, End, Publish, Set, store, Request
<1>19. ASSUME NEW w \in Workflows, Interrupt(w) PROVE BatchInv(v)'
  BY <1>19, <1>t DEF Interrupt, Goto, Set, store, Request
<1>20. ASSUME NEW w \in Workflows, ReportCancelled(w) PROVE BatchInv(v)'
  BY <1>20, <1>t DEF ReportCancelled, End, Publish, Set, store, Request
<1>21. ASSUME NEW w \in Workflows, Throws(w) PROVE BatchInv(v)'
  BY <1>21, <1>t DEF Throws, Set, store, Request
<1>22. ASSUME NEW w \in Workflows, ReleaseAtEnd(w) PROVE BatchInv(v)'
  BY <1>22, <1>t DEF ReleaseAtEnd, Goto, Set, Freed, store, Request
<1>23. ASSUME NEW w \in Workflows, Leave(w) PROVE BatchInv(v)'
  BY <1>23, <1>t DEF Leave, Goto, Set, Freed, store, Request
<1>24. ASSUME NEW w \in Workflows, CancelWorkflow(w) PROVE BatchInv(v)'
  <2>1. CASE v # w
    BY <1>24, <1>t, <2>1 DEF CancelWorkflow, Set
  <2>2. CASE v = w
    <3>1. wf'[v] = [wf[v] EXCEPT !.stopAt = wf[v].attempted]
      BY <1>24, <2>2, <1>t DEF CancelWorkflow, Set
    <3>2. wf'[v].stopAt = wf[v].attempted /\ wf[v].attempted \in Nat
      BY <3>1, <1>t DEF Request
    <3>3. /\ wf'[v].pc = wf[v].pc /\ wf'[v].attempted = wf[v].attempted
          /\ wf'[v].total = wf[v].total /\ wf'[v].answer = wf[v].answer
      BY <3>1, <1>t DEF Request
    <3> QED BY <3>2, <3>3
  <2> QED BY <2>1, <2>2
<1>25. QED
  BY <1>0, <1>1, <1>2, <1>3, <1>4, <1>5, <1>6, <1>7, <1>8, <1>9, <1>10, <1>11, <1>12,
     <1>13, <1>14, <1>15, <1>16, <1>17, <1>18, <1>19, <1>20, <1>21, <1>22, <1>23, <1>24
     DEF Next, Serve, Step

-----------------------------------------------------------------------------
(* Stop requests *)

LEMMA StopStep ==
    ASSUME TypeOK, \A w \in Workflows : StopInv(w) /\ ListInv(w), [Next]_vars, NEW v \in Workflows
    PROVE  StopInv(v)'
<1>t. /\ None \notin Workflows /\ BatchSize \in Nat /\ wf \in [Workflows -> Request]
      /\ wf[v] \in Request /\ events \in [Workflows -> Seq(Update)]
      /\ cancelled \in SUBSET known
  BY ConstantsAssumption DEF TypeOK
<1> USE DEF StopInv, ListInv, BatchLimit, MoreBatches, BeforeBatches, Working, Holding, TerminalStates
<1>0. CASE UNCHANGED vars
  BY <1>0 DEF vars
<1>1. CASE Restart
  BY <1>1, <1>t, GoneRequest DEF Restart
<1>2. ASSUME NEW w \in Workflows, Submit(w) PROVE StopInv(v)'
  BY <1>2, <1>t DEF Submit, Goto, Set, store, Request
<1>3. ASSUME NEW w \in Workflows, Blocked(w) PROVE StopInv(v)'
  BY <1>3, <1>t DEF Blocked, Set, store, Request
<1>4. ASSUME NEW w \in Workflows, Rejected(w) PROVE StopInv(v)'
  BY <1>4, <1>t DEF Rejected, Set, store, SlotTaken, store, Request
<1>5. ASSUME NEW w \in Workflows, Register(w) PROVE StopInv(v)'
  BY <1>5, <1>t DEF Register, Set, SlotTaken, store, Request
<1>6. ASSUME NEW w \in Workflows, Announce(w) PROVE StopInv(v)'
  BY <1>6, <1>t DEF Announce, Report, Publish, Goto, Set, store, Request
<1>7. ASSUME NEW w \in Workflows, CallLinkedIn(w) PROVE StopInv(v)'
  BY <1>7, <1>t DEF CallLinkedIn, Report, Publish, Goto, Set, store, Request
<1>8. ASSUME NEW w \in Workflows, StageProgress(w) PROVE StopInv(v)'
  <2>1. CASE Report(w, "importing", "running", "fetch", "importing")
    BY <2>1, <1>t DEF Report, Publish, Goto, Set, Request
  <2>2. CASE Report(w, "enriching", "running", "enrichment", "enriching")
    BY <2>2, <1>t DEF Report, Publish, Goto, Set, Request
  <2> QED BY <1>8, <2>1, <2>2 DEF StageProgress
<1>9. ASSUME NEW w \in Workflows, ImportReturns(w) PROVE StopInv(v)'
  BY <1>9, <1>t DEF ImportReturns, Goto, Set, store, Request
<1>10. ASSUME NEW w \in Workflows, ReportImportFailed(w) PROVE StopInv(v)'
  BY <1>10, <1>t DEF ReportImportFailed, End, Publish, Set, store, Request
<1>11. ASSUME NEW w \in Workflows, ReportImported(w) PROVE StopInv(v)'
  BY <1>11, <1>t DEF ReportImported, Report, Publish, Goto, Set, store, Request
<1>12. ASSUME NEW w \in Workflows, CountCandidates(w) PROVE StopInv(v)'
  BY <1>12, <1>t DEF CountCandidates, Set, store, Request
<1>13. ASSUME NEW w \in Workflows, BatchLoop(w) PROVE StopInv(v)'
  BY <1>13, <1>t DEF BatchLoop, Goto, Set, store, Request
<1>14. ASSUME NEW w \in Workflows, PrepareBatch(w) PROVE StopInv(v)'
  BY <1>14, <1>t DEF PrepareBatch, Report, Publish, Goto, Set, store, Request
<1>15. ASSUME NEW w \in Workflows, CallDetails(w) PROVE StopInv(v)'
  BY <1>15, <1>t DEF CallDetails, Report, Publish, Goto, Set, store, Request
<1>16. ASSUME NEW w \in Workflows, EnrichmentReturns(w) PROVE StopInv(v)'
  BY <1>16, <1>t DEF EnrichmentReturns, Set, store, Request
<1>17. ASSUME NEW w \in Workflows, ReportEnriched(w) PROVE StopInv(v)'
  BY <1>17, <1>t DEF ReportEnriched, Report, Publish, Goto, Set, store, Request
<1>18. ASSUME NEW w \in Workflows, ReportCompleted(w) PROVE StopInv(v)'
  BY <1>18, <1>t DEF ReportCompleted, End, Publish, Set, store, Request
<1>19. ASSUME NEW w \in Workflows, Interrupt(w) PROVE StopInv(v)'
  BY <1>19, <1>t DEF Interrupt, Goto, Set, store, Request
<1>20. ASSUME NEW w \in Workflows, ReportCancelled(w) PROVE StopInv(v)'
  BY <1>20, <1>t DEF ReportCancelled, End, Publish, Set, store, Request
<1>21. ASSUME NEW w \in Workflows, Throws(w) PROVE StopInv(v)'
  BY <1>21, <1>t DEF Throws, Set, store, Request
<1>22. ASSUME NEW w \in Workflows, ReleaseAtEnd(w) PROVE StopInv(v)'
  BY <1>22, <1>t DEF ReleaseAtEnd, Goto, Set, Freed, store, Request
<1>23. ASSUME NEW w \in Workflows, Leave(w) PROVE StopInv(v)'
  BY <1>23, <1>t DEF Leave, Goto, Set, Freed, store, Request
<1>24. ASSUME NEW w \in Workflows, CancelWorkflow(w) PROVE StopInv(v)'
  BY <1>24, <1>t DEF CancelWorkflow, Set, store, Request
<1>25. QED
  BY <1>0, <1>1, <1>2, <1>3, <1>4, <1>5, <1>6, <1>7, <1>8, <1>9, <1>10, <1>11, <1>12,
     <1>13, <1>14, <1>15, <1>16, <1>17, <1>18, <1>19, <1>20, <1>21, <1>22, <1>23, <1>24
     DEF Next, Serve, Step

-----------------------------------------------------------------------------
(* The theorems *)

LEMMA InitInv == Init => Inv
<1> SUFFICES ASSUME Init PROVE Inv
  OBVIOUS
<1>1. TypeOK
  BY InitTypeOK
<1>2. SlotInv
  BY ConstantsAssumption DEF Init, NewRequest, Blank, SlotInv, WorkingHoldsSlot, SlotIsHeld,
     Holding, Working
<1>3. ASSUME NEW w \in Workflows PROVE ListInv(w) /\ BatchInv(w) /\ StopInv(w)
  BY <1>3 DEF Init, NewRequest, Blank, ListInv, BatchInv, StopInv, BeforeBatches, Over,
     Working, Holding
<1> QED BY <1>1, <1>2, <1>3 DEF Inv

LEMMA StepInv == Inv /\ [Next]_vars => Inv'
<1> SUFFICES ASSUME Inv, [Next]_vars PROVE Inv'
  OBVIOUS
<1>1. TypeOK' /\ SlotInv'
  BY TypeStep, SlotStep DEF Inv
<1>2. ASSUME NEW v \in Workflows PROVE ListInv(v)' /\ BatchInv(v)' /\ StopInv(v)'
  BY ListStep, BatchStep, StopStep DEF Inv
<1> QED BY <1>1, <1>2 DEF Inv

\* The inductive invariant behind the theorems below.
THEOREM Invariance == Spec => []Inv
<1> QED BY InitInv, StepInv, PTL DEF Spec

\* No variable of the store or of a request ever leaves its type.
THEOREM TypeCorrect == Spec => []TypeOK
<1>1. Inv => TypeOK  BY DEF Inv
<1> QED BY <1>1, Invariance, PTL

\* One fetch-and-score workflow of a user works at a time, and the slot is never
\* left behind by a request that is over, whatever the interleaving of
\* registrations, double releases, stop requests, exceptions and restarts.
THEOREM SlotExclusive == Spec => []SlotIsExclusive
<1>1. Inv => SlotIsExclusive  BY DEF Inv, SlotInv, SlotIsExclusive
<1> QED BY <1>1, Invariance, PTL

\* After a stop request at most one batch is finished, for every batch size.
THEOREM StopIsPrompt == Spec => []StopsWithinBatch
<1>1. Inv => StopsWithinBatch  BY DEF Inv, StopInv, StopsWithinBatch
<1> QED BY <1>1, Invariance, PTL

\* A success nobody stopped covers the counted jobs, or the selection ran dry.
THEOREM SuccessIsComplete == Spec => []SuccessCoversCandidates
<1>1. Inv => SuccessCoversCandidates
  BY DEF Inv, BatchInv, SuccessCoversCandidates
<1> QED BY <1>1, Invariance, PTL

\* No workflow tries more jobs than it counted at first.
THEOREM NoneTooMany == Spec => []WithinTotal
<1>1. Inv => WithinTotal  BY DEF Inv, BatchInv, WithinTotal
<1> QED BY <1>1, Invariance, PTL

\* Once the update is in the list that ends the tracking of the pages, the
\* list does not change while the process runs.
THEOREM EndStays == Spec => EndIsLast
<1> DEFINE Kept ==
      \A w \in Workflows :
          (/\ restarts' = restarts
           /\ events[w] # <<>>
           /\ Ends(events[w][Len(events[w])])) => events'[w] = events[w]
<1>1. Inv /\ [Next]_vars => [Kept]_vars
  <2> SUFFICES ASSUME Inv, [Next]_vars PROVE Kept
    OBVIOUS
  <2> SUFFICES ASSUME NEW v \in Workflows, restarts' = restarts, events[v] # <<>>,
                      Ends(events[v][Len(events[v])])
               PROVE  events'[v] = events[v]
    OBVIOUS
  <2>t. events \in [Workflows -> Seq(Update)] /\ restarts \in Nat
    BY DEF Inv, TypeOK
  <2>1. wf[v].pc \notin Working /\ wf[v].pc # "arrived"
    BY DEF Inv, ListInv
  <2>2. CASE UNCHANGED vars
    BY <2>2 DEF vars
  <2>3. ~Restart
    BY <2>t DEF Restart
  <2>4. ASSUME NEW w \in Workflows, Serve(w) \/ Submit(w) \/ CancelWorkflow(w)
        PROVE  events'[v] = events[v]
    <3>1. CASE w # v
      BY <2>4, <2>t, <3>1
         DEF Serve, Step, Submit, CancelWorkflow, Blocked, Rejected, Register, Announce,
             CallLinkedIn, StageProgress, ImportReturns, ReportImportFailed,
             ReportImported, CountCandidates, BatchLoop, PrepareBatch, CallDetails,
             EnrichmentReturns, ReportEnriched, ReportCompleted, Interrupt,
             ReportCancelled, Throws, ReleaseAtEnd, Leave, Report, End, Publish, Set,
             Goto, store
    <3>2. CASE w = v
      BY <2>4, <2>1, <3>2
         DEF Serve, Step, Submit, CancelWorkflow, Working, Blocked, Rejected, Register,
             Announce, CallLinkedIn, StageProgress, ImportReturns, ReportImportFailed,
             ReportImported, CountCandidates, BatchLoop, PrepareBatch, CallDetails,
             EnrichmentReturns, ReportEnriched, ReportCompleted, Interrupt,
             ReportCancelled, Throws, ReleaseAtEnd, Leave, Report, End, Publish, Set,
             Goto, store
    <3> QED BY <3>1, <3>2
  <2> QED BY <2>2, <2>3, <2>4 DEF Next
<1> HIDE DEF Kept
<1>2. Spec => [][Kept]_vars
  BY <1>1, Invariance, PTL DEF Spec
<1> QED BY <1>2 DEF Kept, EndIsLast

\* Every behaviour of the store and of the requests is one of WorkflowSlot.
THEOREM ImplementsSlot == Spec => SlotSpec
<1>1. Init => Slot!Init
  BY ConstantsAssumption DEF Init, Slot!Init, NewRequest, Blank, served
<1>2. Inv /\ [Next]_vars => [Slot!Next]_(Slot!slotVars)
  <2> SUFFICES ASSUME Inv, [Next]_vars PROVE Slot!Next \/ UNCHANGED <<active, served>>
    BY DEF Slot!slotVars
  <2>t. /\ None \notin Workflows /\ active \in Workflows \cup {None}
        /\ wf \in [Workflows -> Request]
        /\ active # None => wf[active].accepted
        /\ \A w \in Workflows : wf[w].pc = "arrived" => ~wf[w].accepted
    BY ConstantsAssumption DEF Inv, TypeOK, SlotInv, SlotIsHeld
  <2> DEFINE Same == \A w \in Workflows : wf'[w].accepted = wf[w].accepted
  <2>1. CASE Same /\ active' = active
    BY <2>1 DEF served
  <2>2. CASE Same /\ active' = None
    <3>1. CASE active = None
      BY <2>2, <3>1, <2>1
    <3>2. CASE active # None
      <4>1. served' = served \cup {active}
        BY <2>2, <3>2, <2>t DEF served
      <4> QED BY <2>2, <3>2, <4>1 DEF Slot!Next, Slot!GiveBack
    <3> QED BY <3>1, <3>2
  <2>3. ASSUME NEW w \in Workflows, Register(w) PROVE Slot!Next
    <3>1. active = None /\ active' = w /\ ~wf[w].accepted
      BY <2>3, <2>t DEF Register, SlotTaken
    <3>2. wf' = [wf EXCEPT ![w] = [wf[w] EXCEPT !.pc = "accepted", !.accepted = TRUE]]
      BY <2>3 DEF Register, Set
    <3>3. w \notin served /\ served' = served
      BY <3>1, <3>2, <2>t DEF served, Request
    <3> QED BY <3>1, <3>3 DEF Slot!Next, Slot!Take
  <2>4. CASE Restart
    <3>1. \A w \in Workflows : wf'[w].accepted = wf[w].accepted
      <4>1. TypeOK
        BY DEF Inv
      <4> QED BY <2>4, <2>t, <4>1, GoneRequest DEF Restart
    <3>2. active' = None
      BY <2>4 DEF Restart
    <3> QED BY <2>2, <3>1, <3>2
  <2>5. CASE UNCHANGED vars
    BY <2>1, <2>5 DEF vars
  <2>6. ASSUME NEW w \in Workflows, Serve(w) \/ Submit(w) \/ CancelWorkflow(w), ~Register(w)
        PROVE  Same /\ active' \in {active, None}
    <3>1. CASE Submit(w)
      BY <3>1, <2>t DEF Submit, Goto, Set, store, Request
    <3>2. CASE Blocked(w)
      BY <3>2, <2>t DEF Blocked, Set, store, Request
    <3>3. CASE Rejected(w)
      BY <3>3, <2>t DEF Rejected, Set, store, SlotTaken, Request
    <3>4. CASE Announce(w)
      BY <3>4, <2>t DEF Announce, Report, Publish, Goto, Set, Request
    <3>5. CASE CallLinkedIn(w)
      BY <3>5, <2>t DEF CallLinkedIn, Report, Publish, Goto, Set, Request
    <3>6. CASE StageProgress(w)
      BY <3>6, <2>t DEF StageProgress, Report, Publish, Goto, Set, Request
    <3>7. CASE ImportReturns(w)
      BY <3>7, <2>t DEF ImportReturns, Goto, Set, store, Request
    <3>8. CASE ReportImportFailed(w)
      BY <3>8, <2>t DEF ReportImportFailed, End, Publish, Set, Request
    <3>9. CASE ReportImported(w)
      BY <3>9, <2>t DEF ReportImported, Report, Publish, Goto, Set, Request
    <3>10. CASE CountCandidates(w)
      BY <3>10, <2>t DEF CountCandidates, Set, store, Request
    <3>11. CASE BatchLoop(w)
      BY <3>11, <2>t DEF BatchLoop, Goto, Set, store, Request
    <3>12. CASE PrepareBatch(w)
      BY <3>12, <2>t DEF PrepareBatch, Report, Publish, Goto, Set, Request
    <3>13. CASE CallDetails(w)
      BY <3>13, <2>t DEF CallDetails, Report, Publish, Goto, Set, Request
    <3>14. CASE EnrichmentReturns(w)
      BY <3>14, <2>t DEF EnrichmentReturns, Set, store, Request
    <3>15. CASE ReportEnriched(w)
      BY <3>15, <2>t DEF ReportEnriched, Report, Publish, Goto, Set, Request
    <3>16. CASE ReportCompleted(w)
      BY <3>16, <2>t DEF ReportCompleted, End, Publish, Set, Request
    <3>17. CASE Interrupt(w)
      BY <3>17, <2>t DEF Interrupt, Goto, Set, store, Request
    <3>18. CASE ReportCancelled(w)
      BY <3>18, <2>t DEF ReportCancelled, End, Publish, Set, Request
    <3>19. CASE Throws(w)
      BY <3>19, <2>t DEF Throws, Set, store, Request
    <3>20. CASE ReleaseAtEnd(w)
      BY <3>20, <2>t DEF ReleaseAtEnd, Goto, Set, Freed, Request
    <3>21. CASE Leave(w)
      BY <3>21, <2>t DEF Leave, Goto, Set, Freed, Request
    <3>22. CASE CancelWorkflow(w)
      BY <3>22, <2>t DEF CancelWorkflow, Set, Request
    <3> QED
      BY <2>6, <3>1, <3>2, <3>3, <3>4, <3>5, <3>6, <3>7, <3>8, <3>9, <3>10, <3>11,
         <3>12, <3>13, <3>14, <3>15, <3>16, <3>17, <3>18, <3>19, <3>20, <3>21, <3>22
         DEF Serve, Step
  <2> HIDE DEF Same
  <2> QED BY <2>1, <2>2, <2>3, <2>4, <2>5, <2>6 DEF Next
<1> QED BY <1>1, <1>2, Invariance, PTL DEF Spec, SlotSpec, Slot!Spec

=============================================================================
