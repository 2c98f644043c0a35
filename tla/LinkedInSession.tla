-------------------------- MODULE LinkedInSession --------------------------
(***************************************************************************)
(* The stored LinkedIn session of a user: the session dialog and the jobs   *)
(* page of one browser tab (session-modal.js, the session guard of          *)
(* jobs-page.js) beside the server that imports, verifies, uses, resets and *)
(* invalidates it (LinkedInSessionController, the import and verification   *)
(* services, DatabaseLinkedInSessionStore, the reset requirement tracker),  *)
(* and LinkedInApiClient, through whose gate every request to LinkedIn goes *)
(* and whose every 401 or 403 answer turns on the stored session.           *)
(*                                                                          *)
(* Every import is a snapshot with a number of its own.  LinkedIn may stop  *)
(* accepting a snapshot whenever it likes.                                  *)
(*                                                                          *)
(* Left out: how a cURL command is parsed (it is, or the import fails), the *)
(* headers, expiry dates, texts, toasts, the browser guide, other users,    *)
(* the onboarding dialog, databases that fail.                              *)
(***************************************************************************)
EXTENDS Integers, FiniteSets

CONSTANTS
    MinDelay,   \* MinimumDelayMilliseconds, in ticks
    MaxJitter,  \* MaxJitterMilliseconds, in ticks
    MaxImports, \* imports (a bound)
    MaxReads,   \* answers with the state under way (a bound)
    MaxMoves,   \* calls, faults and changes of LinkedIn's mind (a bound)
    Nothing     \* no state

ASSUME SessionAssumption ==
    /\ Nothing \notin [stored : BOOLEAN, reset : BOOLEAN]
    /\ MinDelay \in Nat /\ MaxJitter \in Nat
    /\ MaxImports \in Nat /\ MaxReads \in Nat /\ MaxMoves \in Nat

VARIABLES
    stored,   \* the row of the session: its snapshot, 0 while there is none
    reset,    \* the reset requirement: the status that caused it, or 0
    accepted, \* the snapshots LinkedIn accepts
    imports,  \* how many snapshots there are
    gate,     \* RequestThrottleGate and _nextAllowedRequestUtc
    since,    \* history: ticks since a request passed the gate, to MinDelay
    call,     \* the call each caller has under way
    modal,    \* the session dialog
    guard,    \* sessionGuardHasActiveSession
    reads,    \* answers with the state of the session, under way to the tab
    rejected, \* history: the snapshots whose 401 has been dealt with
    used      \* how many of MaxMoves have been made

vars == <<stored, reset, accepted, imports, gate, since, call, modal, guard, reads,
          rejected, used>>
server == <<stored, reset, accepted, imports, gate, since, rejected>>

-----------------------------------------------------------------------------
(* Types *)

\* The dialog, the guard's verification, and what else the user's other tabs
\* and workflows do.
Callers == {"modal", "page", "other"}
Nobody == "nobody"
Snapshots == 1 .. MaxImports

\* What the tab is told: storedSessionAvailable, resetRequirement.required.
Told == [stored : BOOLEAN, reset : BOOLEAN]

Usable(state) == state.stored /\ ~state.reset

Steps == {"idle", "look", "wait", "delay", "sent", "find", "invalidate", "mark",
          "load", "save", "clear", "done", "failed", "answering", "told"}

\* snap: the snapshot sent to LinkedIn; status: its answer; seen: the row was
\* found (active) when the store looked; again: the verification service and
\* the controller handle a rejection after the client has; told: the state in
\* the answer.
Call == [op : {"import", "verify", "use", "revoke"}, step : Steps,
         snap : 0 .. MaxImports, status : {0, 200, 401, 403, 500},
         seen : {"none", "active", "inactive"}, again : BOOLEAN,
         told : Told \cup {Nothing}]

Idle == [op |-> "use", step |-> "idle", snap |-> 0, status |-> 0, seen |-> "none",
         again |-> FALSE, told |-> Nothing]

\* current: currentState; last: the state the indicator and the buttons show;
\* panel: the panel that is visible; reading: a failed action reads the state.
Modal == [open : BOOLEAN, replacing : BOOLEAN, current : Told \cup {Nothing}, last : Told,
          panel : {"connected", "curl", "replace"}, busy : BOOLEAN, reading : BOOLEAN]

\* By the opened dialog, its refused action, or the jobs page; whole: the server
\* has read the requirement, too.
Read == [by : {"dialog", "refused", "page"}, told : Told, whole : BOOLEAN]

\* Every part of the state has its type, the gate's holder waits in it, and the
\* dialog is busy exactly as long as its action, so that it never has two: also
\* when it is closed and opened again meanwhile.
TypeOK ==
    /\ stored \in [snap : 0 .. MaxImports, active : BOOLEAN]
    /\ reset \in {0, 401, 403}
    /\ accepted \subseteq Snapshots /\ rejected \subseteq Snapshots
    /\ imports \in 0 .. MaxImports
    /\ gate \in [by : Callers \cup {Nobody}, next : 0 .. MinDelay + MaxJitter,
                 waited : 0 .. MinDelay + MaxJitter]
    /\ since \in 0 .. MinDelay
    /\ call \in [Callers -> Call]
    /\ \A c \in Callers : gate.by = c <=> call[c].step = "delay"
    /\ modal \in Modal /\ modal.busy = (call["modal"].step # "idle")
    /\ guard \in BOOLEAN
    /\ reads \subseteq Read
    /\ used \in 0 .. MaxMoves

\* BuildViewModelAsync reads the row, and the requirement after that.
RowRead == [stored |-> stored.active, reset |-> FALSE]

Whole(told) == [told EXCEPT !.reset = reset # 0]

Now == Whole(RowRead)

\* updatePanelVisibility: the form to import a session has a button to keep the
\* current one while one is being replaced.
Panel(state, replacing) ==
    IF state = Nothing \/ ~Usable(state) THEN "curl"
    ELSE IF replacing THEN "replace" ELSE "connected"

\* A session is stored, or not; the server renders the page accordingly.
Init ==
    /\ stored \in [snap : {0}, active : {FALSE}] \cup
                  (IF MaxImports > 0 THEN [snap : {1}, active : {TRUE}] ELSE {})
    /\ imports = stored.snap /\ accepted = 1 .. stored.snap
    /\ reset = 0 /\ rejected = {}
    /\ gate = [by |-> Nobody, next |-> 0, waited |-> 0] /\ since = MinDelay
    /\ call = [c \in Callers |-> Idle]
    /\ modal = [open |-> FALSE, replacing |-> FALSE, current |-> Nothing, last |-> Now,
                panel |-> Panel(Now, FALSE), busy |-> FALSE, reading |-> FALSE]
    /\ guard = stored.active
    /\ reads = {}
    /\ used = 0

Counted == used < MaxMoves /\ used' = used + 1

Goes(c, step) == call' = [call EXCEPT ![c].step = step]

-----------------------------------------------------------------------------
(* The server: one call *)

\* VerifyCurrentAsync, and the services that use the session: no session, no
\* request.  A workflow does not start while a reset is required.
Look(c) ==
    /\ call[c].step = "look"
    /\ IF stored.active THEN call' = [call EXCEPT ![c].step = "wait", ![c].snap = stored.snap]
       ELSE Goes(c, "failed")
    /\ UNCHANGED <<server, modal, guard, reads, used>>

\* WaitForSafetyWindowAsync: the gate is held while the delay lasts.
EnterGate(c) ==
    /\ call[c].step = "wait" /\ gate.by = Nobody
    /\ gate' = [gate EXCEPT !.by = c, !.waited = 0]
    /\ Goes(c, "delay")
    /\ UNCHANGED <<stored, reset, accepted, imports, since, modal, guard, reads, rejected, used>>

\* Mutant of NextAllowed: counted from the time read before the delay.
NextAllowedFromEntry(jitter) ==
    IF MinDelay + jitter > gate.waited THEN MinDelay + jitter - gate.waited ELSE 0

NextAllowed(jitter) == MinDelay + jitter

\* A request passes once.  MaxRetryAttempts is 0 unless it is configured: retries
\* of the resilience handler would not come through the gate.
PassGate(c) ==
    /\ gate.by = c /\ gate.next = 0
    /\ \E jitter \in 0 .. MaxJitter :
          gate' = [by |-> Nobody, next |-> NextAllowed(jitter), waited |-> 0]
    /\ since' = 0
    /\ Goes(c, "sent")
    /\ UNCHANGED <<stored, reset, accepted, imports, modal, guard, reads, rejected, used>>

\* The caller gives up while it waits: the gate is released, nothing is sent.
GiveUp(c) ==
    /\ call[c].step \in {"wait", "delay"} /\ Counted
    /\ gate' = IF gate.by = c THEN [gate EXCEPT !.by = Nobody, !.waited = 0] ELSE gate
    /\ Goes(c, "failed")
    /\ UNCHANGED <<stored, reset, accepted, imports, since, modal, guard, reads, rejected>>

\* Time passes, where it matters.
Tick ==
    /\ gate.next > 0 \/ since < MinDelay
    /\ gate' = [gate EXCEPT !.next = IF @ > 0 THEN @ - 1 ELSE 0,
                            !.waited = IF gate.by # Nobody /\ gate.next > 0 THEN @ + 1 ELSE @]
    /\ since' = IF since < MinDelay THEN since + 1 ELSE since
    /\ UNCHANGED <<stored, reset, accepted, imports, call, modal, guard, reads, rejected, used>>

\* Mutant of AfterAnswer: a rejection is dealt with by asking for a reset only.
AfterAnswerMarking(op, status) ==
    IF status \in {401, 403} THEN "mark"
    ELSE IF status = 200 THEN (IF op = "import" THEN "load"
                               ELSE IF op = "verify" THEN "clear" ELSE "done")
    ELSE "failed"

\* ApplyResetRequirementFromResponseAsync, then the services' own handling.
AfterAnswer(op, status) ==
    CASE status = 401 -> "find"
      [] status = 403 -> "mark"
      [] status = 200 /\ op = "import" -> "load"
      [] status = 200 /\ op = "verify" -> "clear"
      [] status = 200 /\ op = "use" -> "done"
      [] OTHER -> "failed"

\* LinkedIn answers: 200 to a snapshot it accepts, 401 or 403 to others, an
\* error to any.
LinkedInAnswers(c) ==
    /\ call[c].step = "sent"
    /\ \E status \in (IF call[c].snap \in accepted THEN {200, 500} ELSE {401, 403, 500}) :
          call' = [call EXCEPT ![c].status = status, ![c].step = AfterAnswer(call[c].op, status)]
    /\ UNCHANGED <<server, modal, guard, reads, used>>

Seen == IF stored.snap = 0 THEN "none" ELSE IF stored.active THEN "active" ELSE "inactive"

\* InvalidateCurrentAsync: whatever session is stored and active by now.
FindActive(c) ==
    /\ call[c].step = "find"
    /\ Goes(c, IF Seen = "active" THEN "invalidate"
               ELSE IF call[c].op = "revoke" THEN "clear" ELSE "mark")
    /\ UNCHANGED <<server, modal, guard, reads, used>>

Invalidate(c) ==
    /\ call[c].step = "invalidate"
    /\ stored' = [stored EXCEPT !.active = FALSE]
    /\ Goes(c, IF call[c].op = "revoke" THEN "clear" ELSE "mark")
    /\ UNCHANGED <<reset, accepted, imports, gate, since, modal, guard, reads, rejected, used>>

\* MarkRequired.  A verification deals with the rejection twice.
MarkRequired(c) ==
    /\ call[c].step = "mark"
    /\ reset' = call[c].status
    /\ rejected' = IF call[c].status = 401 THEN rejected \cup {call[c].snap} ELSE rejected
    /\ call' = [call EXCEPT ![c].step = IF call[c].op = "verify" /\ ~call[c].again
                                        THEN (IF call[c].status = 401 THEN "find" ELSE "mark")
                                        ELSE "failed",
                            ![c].again = call[c].op = "verify"]
    /\ UNCHANGED <<stored, accepted, imports, gate, since, modal, guard, reads, used>>

\* SaveAsync reads the row ...
LoadRow(c) ==
    /\ call[c].step = "load"
    /\ call' = [call EXCEPT ![c].step = "save", ![c].seen = Seen]
    /\ UNCHANGED <<server, modal, guard, reads, used>>

\* ... and writes it.  Only columns that differ from what was read are written:
\* a row read as active is not made active again.  Of two inserts one fails.
SaveRow(c) ==
    LET seen == call[c].seen IN
    /\ call[c].step = "save"
    /\ IF seen = "none" /\ stored.snap # 0
       THEN Goes(c, "failed") /\ UNCHANGED stored
       ELSE /\ stored' = [snap |-> call[c].snap,
                          active |-> IF seen = "active" THEN stored.active ELSE TRUE]
            /\ Goes(c, "clear")
    /\ UNCHANGED <<reset, accepted, imports, gate, since, modal, guard, reads, rejected, used>>

\* Clear, after an import, a reset, or a verification that succeeded.
ClearRequirement(c) ==
    /\ call[c].step = "clear"
    /\ reset' = 0
    /\ Goes(c, "done")
    /\ UNCHANGED <<stored, accepted, imports, gate, since, modal, guard, reads, rejected, used>>

\* The state of the session is read for the answer; the jobs page asks for it
\* when its verification is refused.
Answer(c) ==
    /\ \/ call[c].step = "done" /\ c # "other"
       \/ call[c].step = "failed" /\ c = "page"
    /\ call' = [call EXCEPT ![c].step = "answering", ![c].told = RowRead]
    /\ UNCHANGED <<server, modal, guard, reads, used>>

AnswerWhole(c) ==
    /\ call[c].step = "answering"
    /\ call' = [call EXCEPT ![c].step = "told", ![c].told = Whole(@)]
    /\ UNCHANGED <<server, modal, guard, reads, used>>

\* LinkedIn stops accepting a snapshot.
Expire ==
    /\ Counted
    /\ \E s \in accepted : accepted' = accepted \ {s}
    /\ UNCHANGED <<stored, reset, imports, gate, since, call, modal, guard, reads, rejected>>

\* The process restarts: the requirement is forgotten, calls and reads fail.
Restart ==
    /\ Counted
    /\ reset' = 0
    /\ gate' = [by |-> Nobody, next |-> 0, waited |-> 0]
    /\ since' = MinDelay
    /\ call' = [c \in Callers |-> IF call[c].step = "idle" THEN call[c]
                                  ELSE [Idle EXCEPT !.op = call[c].op, !.step = "failed"]]
    /\ reads' = {r \in reads : r.whole}
    /\ UNCHANGED <<stored, accepted, imports, modal, guard, rejected>>

-----------------------------------------------------------------------------
(* Starting a call *)

Start(c, op, step) == call' = [call EXCEPT ![c] = [Idle EXCEPT !.op = op, !.step = step]]

\* ImportAsync: the pasted request is a snapshot LinkedIn may accept.
StartImport(c) ==
    /\ imports < MaxImports /\ imports' = imports + 1
    /\ accepted' \in {accepted, accepted \cup {imports + 1}}
    /\ call' = [call EXCEPT ![c] = [Idle EXCEPT !.op = "import", !.step = "wait",
                                                !.snap = imports + 1]]

\* Other tabs and workflows.
OtherCalls ==
    /\ call["other"].step = "idle" /\ Counted
    /\ \/ StartImport("other")
       \/ /\ \E op \in {"verify", "revoke"} : Start("other", op, IF op = "verify" THEN "look" ELSE "find")
          /\ UNCHANGED <<imports, accepted>>
       \/ /\ reset = 0 /\ Start("other", "use", "look")
          /\ UNCHANGED <<imports, accepted>>
    /\ UNCHANGED <<stored, reset, gate, since, modal, guard, reads, rejected>>

OtherEnds ==
    /\ call["other"].step \in {"done", "failed"}
    /\ call' = [call EXCEPT !["other"] = Idle]
    /\ UNCHANGED <<server, modal, guard, reads, used>>

-----------------------------------------------------------------------------
(* The session dialog *)

\* Mutant of Applied: the panels go by whether a session is stored.
AppliedStored(m, state) ==
    [m EXCEPT !.current = state, !.last = state,
              !.panel = Panel([state EXCEPT !.reset = FALSE], m.replacing)]

\* applyState; its event tells the jobs page.
Applied(m, state) ==
    LET replacing == m.replacing /\ Usable(state) IN
    [m EXCEPT !.current = state, !.last = state, !.replacing = replacing,
              !.panel = Panel(state, replacing)]

\* fetchState: the state is read on the server, and arrives later.
Reads(by) ==
    /\ Cardinality(reads) < MaxReads
    /\ reads' = reads \cup {[by |-> by, told |-> RowRead, whole |-> FALSE]}

ReadWhole(r) ==
    /\ ~r.whole
    /\ reads' = (reads \ {r}) \cup {[r EXCEPT !.told = Whole(@), !.whole = TRUE]}
    /\ UNCHANGED <<server, call, modal, guard, used>>

\* show.bs.modal: the buttons are as busy as they were.
Show ==
    /\ ~modal.open /\ Counted
    /\ modal' = [modal EXCEPT !.open = TRUE, !.replacing = FALSE]
    /\ Reads("dialog")
    /\ UNCHANGED <<server, call, guard>>

\* hidden.bs.modal
Hide ==
    /\ modal.open /\ Counted
    /\ modal' = [modal EXCEPT !.open = FALSE, !.replacing = FALSE, !.current = Nothing]
    /\ UNCHANGED <<server, call, guard, reads>>

MayClick == modal.open /\ ~modal.busy

StartReplace ==
    /\ MayClick /\ modal.panel = "connected"
    /\ modal' = [modal EXCEPT !.replacing = TRUE, !.panel = Panel(modal.current, TRUE)]
    /\ UNCHANGED <<server, call, guard, reads, used>>

CancelReplace ==
    /\ MayClick /\ modal.panel = "replace"
    /\ modal' = [modal EXCEPT !.replacing = FALSE, !.panel = Panel(modal.current, FALSE)]
    /\ UNCHANGED <<server, call, guard, reads, used>>

ImportCurl ==
    /\ MayClick /\ modal.panel # "connected" /\ Counted
    /\ StartImport("modal")
    /\ modal' = [modal EXCEPT !.busy = TRUE]
    /\ UNCHANGED <<stored, reset, gate, since, guard, reads, rejected>>

Revoke ==
    /\ MayClick /\ modal.panel # "connected" /\ modal.last.stored /\ Counted
    /\ Start("modal", "revoke", "find")
    /\ modal' = [modal EXCEPT !.busy = TRUE, !.replacing = FALSE]
    /\ UNCHANGED <<server, guard, reads>>

\* Mutant of ActionEnds: the buttons stay as they are after a failure.
ActionEndsBusy(m) == [m EXCEPT !.reading = FALSE]

\* The finally of postAction: setBusy(false).
ActionEnds(m) == [m EXCEPT !.busy = FALSE, !.reading = FALSE]

\* postAction: the state comes with the answer; after an import the dialog no
\* longer replaces a session, but its panels stay as applyState left them.
ActionDone ==
    /\ call["modal"].step = "told"
    /\ modal' = ActionEnds([Applied(modal, call["modal"].told) EXCEPT
                    !.replacing = IF call["modal"].op = "import" THEN FALSE ELSE @])
    /\ guard' = Usable(call["modal"].told)
    /\ call' = [call EXCEPT !["modal"] = Idle]
    /\ UNCHANGED <<server, reads, used>>

\* A refused action reads the state before it ends.
ActionRefused ==
    /\ call["modal"].step = "failed" /\ ~modal.reading
    /\ Reads("refused")
    /\ modal' = [modal EXCEPT !.reading = TRUE]
    /\ UNCHANGED <<server, call, guard, used>>

\* fetchState of the opened dialog arrives.
StateArrives(r) ==
    /\ r.by = "dialog" /\ r.whole
    /\ reads' = reads \ {r}
    /\ guard' = Usable(r.told)
    /\ modal' = Applied(modal, r.told)
    /\ UNCHANGED <<server, call, used>>

\* The state arrives for which the refused action waits.
RefusedStateArrives(r) ==
    /\ r.by = "refused" /\ r.whole
    /\ reads' = reads \ {r}
    /\ guard' = Usable(r.told)
    /\ modal' = ActionEnds(Applied(modal, r.told))
    /\ call' = [call EXCEPT !["modal"] = Idle]
    /\ UNCHANGED <<server, used>>

\* An answer is lost; a failed read ends a refused action all the same.
ActionLost ==
    /\ modal.busy /\ call["modal"].step \in {"told", "failed"} /\ Counted
    /\ modal' = ActionEnds(modal)
    /\ call' = [call EXCEPT !["modal"] = Idle]
    /\ reads' = {r \in reads : r.by # "refused"}
    /\ UNCHANGED <<server, guard>>

-----------------------------------------------------------------------------
(* The guard of the jobs page *)

\* refreshSessionStateGuard: every 30 seconds and when the page is looked at.
RefreshGuard ==
    /\ Counted
    /\ Reads("page")
    /\ UNCHANGED <<server, call, modal, guard>>

GuardArrives(r) ==
    /\ r.by = "page" /\ r.whole
    /\ reads' = reads \ {r}
    /\ guard' = Usable(r.told)
    /\ UNCHANGED <<server, call, modal, used>>

\* runPeriodicSessionVerification, which a page that is fetching puts off.
VerifyPeriodically ==
    /\ call["page"].step = "idle" /\ guard /\ Counted
    /\ Start("page", "verify", "look")
    /\ UNCHANGED <<server, modal, guard, reads>>

Verified ==
    /\ call["page"].step = "told"
    /\ guard' = Usable(call["page"].told)
    /\ call' = [call EXCEPT !["page"] = Idle]
    /\ UNCHANGED <<server, modal, reads, used>>

VerificationLost ==
    /\ call["page"].step \in {"told", "failed"} /\ Counted
    /\ call' = [call EXCEPT !["page"] = Idle]
    /\ UNCHANGED <<server, modal, guard, reads>>

-----------------------------------------------------------------------------
(* Specification *)

Next ==
    \/ \E c \in Callers :
          \/ Look(c) \/ EnterGate(c) \/ PassGate(c) \/ GiveUp(c) \/ LinkedInAnswers(c)
          \/ FindActive(c) \/ Invalidate(c) \/ MarkRequired(c)
          \/ LoadRow(c) \/ SaveRow(c) \/ ClearRequirement(c) \/ Answer(c)
          \/ AnswerWhole(c)
    \/ Tick \/ Expire \/ Restart
    \/ OtherCalls \/ OtherEnds
    \/ Show \/ Hide \/ StartReplace \/ CancelReplace \/ ImportCurl \/ Revoke
    \/ ActionDone \/ ActionRefused \/ ActionLost
    \/ \E r \in reads : ReadWhole(r) \/ StateArrives(r) \/ RefusedStateArrives(r) \/ GuardArrives(r)
    \/ RefreshGuard \/ VerifyPeriodically \/ Verified \/ VerificationLost

Spec == Init /\ [][Next]_vars

-----------------------------------------------------------------------------
(* Properties *)

\* A session whose request was answered with 401 is not used again once the
\* answer has been dealt with, however imports, resets, verifications and other
\* rejections run beside it.
RejectedIsNotUsed == stored.active => stored.snap \notin rejected

\* Whenever the tab was last told that there is no usable session, the dialog
\* shows the form to import one: no order of answers, of closing and opening,
\* of replacing and keeping leaves the user without it.
RecoveryIsOffered == ~Usable(modal.last) => modal.panel # "connected"

\* Requests pass the gate at least the minimum delay apart, whoever sends them
\* and whoever gives up while waiting.
RequestsAreSpaced ==
    [][\A c \in Callers : call[c].step = "delay" /\ call'[c].step = "sent"
                            => since >= MinDelay]_vars

\* "ImportAsyncDoesNotOverwriteStoredSessionWhenVerificationFails" (the test of
\* that name): an import that LinkedIn rejects leaves the stored session as it
\* is; it never comes to the write that makes an active session inactive.
FailedImportKeepsSession ==
    \A c \in Callers : call[c].op = "import" /\ stored.active => call[c].step # "invalidate"

=============================================================================
