------------------------------ MODULE JobsPage ------------------------------
(***************************************************************************)
(* One browser tab with the jobs page (wwwroot/js/jobs-page.js) beside the  *)
(* server of JobsWorkflow: it sends fetch requests, polls the updates of    *)
(* the workflow it tracks, gets others pushed over SignalR, and can be      *)
(* reloaded.  One action is what the script does between two awaits, or     *)
(* the arrival of a message; the updates are those of JobsWorkflow.         *)
(*                                                                         *)
(* The other Workflows belong to other tabs.  Left out: texts, the progress *)
(* log, the heartbeat (it only writes to the log), the session guard's      *)
(* requests (only that they are awaited), answers to stop requests.         *)
(***************************************************************************)
EXTENDS JobsWorkflow, SequencesExt

CONSTANTS
    Mine,        \* the workflow ids this tab chooses, one per click (a bound)
    MaxPolls,    \* poll loops at a time (a bound)
    MaxReloads,  \* reloads by the user (a bound)
    MaxLosses,   \* polls that fail (a bound)
    Connected    \* whether the SignalR connection can be opened

ASSUME PageAssumption ==
    /\ Mine \in SUBSET Workflows
    /\ MaxPolls \in Nat \ {0}
    /\ MaxReloads \in Nat
    /\ MaxLosses \in Nat
    /\ Connected \in BOOLEAN

VARIABLES
    page,     \* the script's variables and its polls
    handler,  \* the submit handler of each click
    pushes,   \* WorkflowProgress messages under way to the tab
    reloads,  \* reloads by the user so far
    losses    \* polls that failed so far

pageVars == <<page, handler, pushes, reloads, losses>>
allVars == <<vars, pageVars>>

-----------------------------------------------------------------------------
(* The script's variables *)

Polls == 1..MaxPolls
NoTimer == 0

Event == [sequence : Nat, update : Update]

\* pollWorkflowProgress: off, waiting for its timer, its request sent, or
\* the answer under way.
Poll == [pc : {"off", "timer", "sent", "answered"},
         id : Workflows \cup {None}, after : Nat,       \* the request
         found : BOOLEAN, events : Seq(Event)]          \* the answer

OffPoll == [pc |-> "off", id |-> None, after |-> 0, found |-> FALSE, events |-> <<>>]

SentPoll(w, after) == [OffPoll EXCEPT !.pc = "sent", !.id = w, !.after = after]

Page == [tracked : Workflows \cup {None},   \* activeWorkflowId, also in sessionStorage
         seq : Nat,                         \* lastSequence
         submitting : BOOLEAN,              \* isSubmitting
         busy : BOOLEAN,                    \* setBusyState, setIdleState
         promise : BOOLEAN,                 \* activeFetchPromise is set
         url : BOOLEAN,                     \* workflowRedirectUrl is set
         leaving : BOOLEAN,                 \* a navigation is scheduled
         polls : [Polls -> Poll],
         timer : Polls \cup {NoTimer}]      \* workflowPollingTimer

FreshPage == [tracked |-> None, seq |-> 0, submitting |-> FALSE, busy |-> FALSE,
              promise |-> FALSE, url |-> FALSE, leaving |-> FALSE,
              polls |-> [i \in Polls |-> OffPoll], timer |-> NoTimer]

\* "dropped": it ended without sending its request.
Handlers == {"none", "checked", "connecting", "waiting", "done", "dropped"}

PageTypeOK ==
    /\ TypeOK
    /\ page \in Page
    /\ \A i \in Polls : page.polls[i].pc \in {"sent", "answered"} => page.polls[i].id # None
    /\ handler \in [Workflows -> Handlers]
    /\ pushes \in Seq([id : Workflows, update : Update])
    /\ reloads \in Nat
    /\ losses \in Nat

\* stopPolling: the last timer is cleared, when it has not fired yet.
StopPolling(p) ==
    IF p.timer # NoTimer /\ p.polls[p.timer].pc = "timer"
    THEN [p EXCEPT !.polls[p.timer] = OffPoll, !.timer = NoTimer]
    ELSE [p EXCEPT !.timer = NoTimer]

\* resetWorkflowUi
Reset(p) ==
    [StopPolling(p) EXCEPT !.tracked = None, !.seq = 0, !.submitting = FALSE,
                           !.busy = FALSE, !.promise = FALSE, !.url = FALSE]

FreePolls(p) == {i \in Polls : StopPolling(p).polls[i].pc = "off"}

\* Mutant of Begin: no request is sent while a timer is remembered, as if the
\* loop it belongs to went on.
BeginWithTimer(p, w) ==
    LET i == CHOOSE j \in FreePolls(p) : \A k \in FreePolls(p) : j <= k
    IN [StopPolling(p) EXCEPT !.tracked = w, !.seq = 0, !.url = TRUE, !.busy = TRUE,
                              !.polls[i] = IF p.timer # NoTimer THEN @
                                           ELSE SentPoll(w, 0)]

\* beginWorkflowTracking and the setBusyState that always follows it.
Begin(p, w) ==
    LET i == CHOOSE j \in FreePolls(p) : \A k \in FreePolls(p) : j <= k
    IN [StopPolling(p) EXCEPT !.tracked = w, !.seq = 0, !.url = TRUE, !.busy = TRUE,
                              !.polls[i] = SentPoll(w, 0)]

\* applyProgressUpdate: a terminal "completed" outside a request of this page
\* also schedules a reload.
Apply(p, w, u) ==
    IF p.tracked \notin {None, w} THEN p
    ELSE IF ~Ends(u) THEN [p EXCEPT !.busy = TRUE]
    ELSE [Reset(p) EXCEPT
            !.leaving = p.leaving \/ (u.state = "completed" /\ ~p.promise /\ p.url)]

\* The loop of pollWorkflowProgress over the events of an answer, and its body.
ApplyEvent(p, w, e) ==
    Apply([p EXCEPT !.seq = IF e.sequence > @ THEN e.sequence ELSE @], w, e.update)

ApplyAll(p, w, list) == FoldLeft(LAMBDA q, e : ApplyEvent(q, w, e), p, list)

-----------------------------------------------------------------------------
(* Clicks *)

PageInit ==
    /\ Init
    /\ page = FreshPage
    /\ handler = [w \in Workflows |-> "none"]
    /\ pushes = <<>>
    /\ reloads = 0
    /\ losses = 0

\* A click starts the submit handler, which first refreshes the session
\* state.  The button of a busy page is disabled until the session guard
\* enables it, which it does in a page that tracks nothing.
Click(w) ==
    /\ w \in Mine
    /\ handler[w] = "none"
    /\ ~page.submitting
    /\ page.busy => page.tracked = None
    /\ handler' = [handler EXCEPT ![w] = "checked"]
    /\ UNCHANGED <<vars, page, pushes, reloads, losses>>

\* The session is usable; the handler opens the connection next.
PassGuard(w) ==
    /\ handler[w] = "checked"
    /\ handler' = [handler EXCEPT ![w] = "connecting"]
    /\ page' = [page EXCEPT !.submitting = TRUE]
    /\ UNCHANGED <<vars, pushes, reloads, losses>>

FailGuard(w) ==
    /\ handler[w] = "checked"
    /\ handler' = [handler EXCEPT ![w] = "dropped"]
    /\ UNCHANGED <<vars, page, pushes, reloads, losses>>

\* Tracking begins, with a first poll, and then the request is sent.
Post(w) ==
    /\ handler[w] = "connecting"
    /\ FreePolls(page) # {}
    /\ handler' = [handler EXCEPT ![w] = "waiting"]
    /\ page' = [Begin(page, w) EXCEPT !.promise = TRUE]
    /\ UNCHANGED <<vars, pushes, reloads, losses>>

Done(w, p) ==
    /\ handler' = [handler EXCEPT ![w] = "done"]
    /\ page' = p
    /\ UNCHANGED <<vars, pushes, reloads, losses>>

\* Mutant of Attach: any 409 is taken for one with a workflow id.
AttachAtConflict(w) ==
    /\ handler[w] = "waiting"
    /\ wf[w].answer \in {"busy", "blocked"} /\ wf[w].pc = "answered"
    /\ FreePolls(page) # {}
    /\ Done(w, Begin(page, wf[w].other))

\* 409 with a workflow id: the page goes on with that one.
Attach(w) ==
    /\ handler[w] = "waiting"
    /\ wf[w].answer = "busy" /\ wf[w].pc = "answered"
    /\ FreePolls(page) # {}
    /\ Done(w, Begin(page, wf[w].other))

\* Every other answer: a success navigates; a block, a stop and a failure are
\* applied as terminal updates.
AnswerArrives(w) ==
    /\ handler[w] = "waiting"
    /\ wf[w].pc \in {"answered", "gone"}
    /\ wf[w].answer # "busy"
    /\ Done(w, CASE wf[w].pc = "gone" \/ wf[w].answer = "problem" ->
                    Apply(page, w, [state |-> "failed", stage |-> "completed"])
                 [] wf[w].pc = "answered" /\ wf[w].answer = "success" ->
                    [page EXCEPT !.url = TRUE, !.leaving = TRUE]
                 [] OTHER -> Reset(page))

-----------------------------------------------------------------------------
(* Polls and pushes *)

SetPoll(p, i, poll) == [p EXCEPT !.polls[i] = poll]

\* The finally block: workflowTerminalState is always null there, since
\* resetWorkflowUi clears it right after it was set.
Rearm(p, i) ==
    [p EXCEPT !.polls[i] = [OffPoll EXCEPT !.pc = "timer"], !.timer = i]

TimerFires(i) ==
    /\ page.polls[i].pc = "timer"
    /\ page' = SetPoll(page, i, IF page.tracked = None THEN OffPoll
                                ELSE SentPoll(page.tracked, page.seq))
    /\ UNCHANGED <<vars, handler, pushes, reloads, losses>>

Numbered(w) ==
    [k \in 1..Len(events[w]) |-> [sequence |-> k, update |-> events[w][k]]]

\* Mutant of GetBatch: afterSequence is taken for the next one wanted.
GetBatchAfterNext(w, after) ==
    IF w \in known THEN SubSeq(Numbered(w), after + 2, Len(events[w])) ELSE <<>>

\* The events with a sequence number greater than afterSequence.
GetBatch(w, after) ==
    IF w \in known THEN SubSeq(Numbered(w), after + 1, Len(events[w])) ELSE <<>>

\* The server answers with a batch, or with 404.
ServePoll(i) ==
    /\ page.polls[i].pc = "sent"
    /\ LET poll == page.polls[i]
       IN page' = SetPoll(page, i,
                     [poll EXCEPT !.pc = "answered", !.found = poll.id \in known,
                                  !.events = GetBatch(poll.id, poll.after)])
    /\ UNCHANGED <<vars, handler, pushes, reloads, losses>>

\* The answer arrives; whatever the page tracks by then.
ReceivePoll(i) ==
    /\ page.polls[i].pc = "answered"
    /\ LET poll == page.polls[i]
       IN page' = Rearm(IF poll.found THEN ApplyAll(page, poll.id, poll.events)
                        ELSE Reset(page), i)
    /\ UNCHANGED <<vars, handler, pushes, reloads, losses>>

\* Mutant of LosePoll: the timer is set only after an answer.
LosePollForGood(i) ==
    /\ page.polls[i].pc = "sent"
    /\ losses < MaxLosses
    /\ losses' = losses + 1
    /\ page' = SetPoll(page, i, OffPoll)
    /\ UNCHANGED <<vars, handler, pushes, reloads>>

\* The request fails.
LosePoll(i) ==
    /\ page.polls[i].pc = "sent"
    /\ losses < MaxLosses
    /\ losses' = losses + 1
    /\ page' = Rearm(page, i)
    /\ UNCHANGED <<vars, handler, pushes, reloads>>

ReceivePush ==
    /\ pushes # <<>>
    /\ page' = Apply(page, Head(pushes).id, Head(pushes).update)
    /\ pushes' = Tail(pushes)
    /\ UNCHANGED <<vars, handler, reloads, losses>>

-----------------------------------------------------------------------------
(* Reloads, the server *)

\* A new document: with a tracked workflow in sessionStorage it restores the
\* tracking.  Handlers, polls and pushes of the old one are gone.
Reloaded(p) ==
    IF p.tracked = None THEN FreshPage
    ELSE [Begin(FreshPage, p.tracked) EXCEPT !.submitting = TRUE]

Load ==
    /\ page' = Reloaded(page)
    /\ handler' = [w \in Workflows |->
                      CASE handler[w] = "waiting" -> "done"
                        [] handler[w] \in {"checked", "connecting"} -> "dropped"
                        [] OTHER -> handler[w]]
    /\ pushes' = <<>>
    /\ UNCHANGED <<vars, losses>>

\* window.location.assign
Navigate == page.leaving /\ Load /\ UNCHANGED reloads

UserReloads ==
    /\ reloads < MaxReloads
    /\ reloads' = reloads + 1
    /\ Load

\* PublishAsync also pushes the update to the connection that was sent with
\* the request.
Pushed ==
    LET new == {w \in Workflows : /\ Connected
                                  /\ handler[w] = "waiting"
                                  /\ Len(events'[w]) > Len(events[w])}
    IN IF new = {} THEN pushes
       ELSE LET w == CHOOSE v \in new : TRUE
            IN Append(pushes, [id |-> w, update |-> events'[w][Len(events'[w])]])

\* A request of this tab arrives only after the script has sent it.
Sent(w) == w \in Mine => handler[w] \in {"waiting", "done"}

\* The tab only receives what the server pushes.
Unattended == pushes' = Pushed /\ UNCHANGED <<page, handler, reloads, losses>>

ServerStep(w) == Step(w) /\ Unattended
Arrive(w) == Submit(w) /\ Sent(w) /\ Unattended

ServerMay ==
    /\ \/ \E w \in Workflows : \/ Blocked(w) \/ StageProgress(w)
                               \/ Interrupt(w) \/ Throws(w) \/ CancelWorkflow(w)
       \/ Restart
    /\ Unattended

-----------------------------------------------------------------------------

Handle(w) == PassGuard(w) \/ Post(w) \/ Attach(w) \/ AnswerArrives(w)

PollStep(i) == TimerFires(i) \/ ServePoll(i) \/ ReceivePoll(i)

PageNext ==
    \/ \E w \in Workflows : Click(w) \/ Handle(w) \/ FailGuard(w)
                            \/ Arrive(w) \/ ServerStep(w)
    \/ \E i \in Polls : PollStep(i) \/ LosePoll(i)
    \/ ReceivePush \/ Navigate \/ UserReloads
    \/ ServerMay

PageSpec == PageInit /\ [][PageNext]_allVars

\* The server serves what has arrived, requests arrive, the browser runs what
\* is due and answers reach it.
PageFairSpec ==
    /\ PageSpec
    /\ \A w \in Workflows : WF_allVars(ServerStep(w))
    /\ \A w \in Mine : WF_allVars(Arrive(w)) /\ WF_allVars(Handle(w))
    /\ \A i \in Polls : WF_allVars(PollStep(i))
    /\ WF_allVars(ReceivePush)
    /\ WF_allVars(Navigate)

-----------------------------------------------------------------------------
(* Properties *)

Ended(w) == events[w] # <<>> /\ Ends(events[w][Len(events[w])])

\* A page that tracks a workflow has a poll that goes on, although the script
\* remembers only the last of its timers and clears it when it begins or ends
\* a tracking.
PollingWhileTracked ==
    page.tracked # None => \E i \in Polls : page.polls[i].pc # "off"

\* isSubmitting blocks the form only while something goes on that will clear
\* it: a tracked workflow, a handler about to track one, or a navigation.
SubmittingIsWork ==
    page.submitting =>
        \/ page.tracked # None
        \/ \E w \in Workflows : handler[w] = "connecting"
        \/ page.leaving

\* Neither the tracking nor the blocked form is left to itself, whatever is
\* lost and whenever the page is reloaded.
NothingIsLeftOver == PollingWhileTracked /\ SubmittingIsWork

\* A page with the terminal update of its workflow still to read comes to stop
\* tracking it, whatever polls are lost, pushes overtake them and reloads
\* interrupt them, unless a late answer about another workflow moves `seq'.
TrackingEnds ==
    \A w \in Workflows :
        page.tracked = w /\ Ended(w) /\ page.seq < Len(events[w])
            ~> page.tracked # w \/ page.seq > Len(events[w])

\* A page gives up a workflow only when that one is over: neither its own
\* request nor the one it attached to is forgotten while it runs.  (No restart:
\* a server that has forgotten a workflow may end its tracking.)
TrackingKept ==
    [][ \A w \in Workflows :
          page.tracked = w /\ page'.tracked = None =>
             Ended(w) \/ wf[w].pc \in {"answered", "gone"} ]_allVars

-----------------------------------------------------------------------------
(* The inductive invariant of the safety proofs *)

\* Whoever is refused the slot is told who has it.
BusyNamesHolder == \A w \in Workflows : wf[w].answer = "busy" => wf[w].other # None

=============================================================================
