--------------------------- MODULE LiveReviewPage ---------------------------
(***************************************************************************)
(* One tab with the AI live review page (wwwroot/js/ai-live-review-page.js) *)
(* beside the server: it starts, resumes and stops runs, loads their        *)
(* snapshots, polls the numbered events of the run it shows and gets others *)
(* pushed over SignalR.  One action of the page is what the script does     *)
(* between two awaits.                                                      *)
(*                                                                          *)
(* The server is what ShortlistRun looks like from outside, with one        *)
(* executor per run.  It saves the row first and publishes the event about  *)
(* it later; the event log of a run is gone after a restart.                *)
(*                                                                          *)
(* Left out: texts, the activity report and its heartbeat, paging and       *)
(* filter of the table, the queue counts (there is always something to      *)
(* review), events that carry nothing but a text.                           *)
(***************************************************************************)
EXTENDS Integers, Sequences, FiniteSets, FiniteSetsExt

CONSTANTS
    Runs,        \* identifiers of the runs that may be created (a bound)
    None,        \* no run
    Earlier,     \* a run of an earlier process, or None
    Candidates,  \* candidates of a run
    MaxPolls,    \* polls under way (a bound)
    MaxPushes,   \* messages under way to the tab (a bound)
    MaxMoves     \* clicks, other tabs' requests and faults, in all (a bound)

ASSUME ReviewAssumption ==
    /\ None \notin Runs /\ Earlier \in Runs \cup {None}
    /\ {Candidates, MaxPolls, MaxPushes, MaxMoves} \subseteq Nat

VARIABLES
    row,    \* run rows
    newest, \* the run created last
    log,    \* the events of each run in the progress store
    exec,   \* the executor of each run
    inbox,  \* commands under way to the server
    page,   \* the script's variables, its buttons and its polls
    cmd,    \* the handler of each button, and the initial chain
    pushes, \* GlobalShortlistProgress messages under way to the tab
    used,   \* how many of MaxMoves have been made
    ended   \* history: runs that were over at some time

server == <<row, newest, log, exec, inbox, ended>>
vars == <<server, page, cmd, pushes, used>>

-----------------------------------------------------------------------------
(* Types *)

Active   == {"Pending", "Running"}
Terminal == {"Completed", "Failed", "Cancelled"}

Row == [status : Active \cup Terminal \cup {"Absent"}, cancel : BOOLEAN, done : Nat]

\* An update of the store: the state it shows, its stage, the candidates done.
Event == [state : Active \cup Terminal,
          stage : {"snapshot-created", "run-started", "candidate-processed",
                   "cancel-requested", "end"},
          done : Nat]

\* by: the handler that waits for the answer; push: the events go to the
\* page's connection; out: the event to publish next, if any.
Executor == [pc : {"none", "created", "working", "done"},
             by : {"start", "resume", "nobody"}, push : BOOLEAN, out : Seq(Event)]

NoExecutor == [pc |-> "none", by |-> "nobody", push |-> FALSE, out |-> <<>>]

\* saved: the stop request is in the row, its event not yet published.
Command == [kind : {"start", "resume", "stop"}, run : Runs \cup {None},
            by : {"start", "resume", "stop", "nobody"}, push : BOOLEAN, saved : BOOLEAN]

\* upto: the last event of the answer, NotRead until the server read them.
NotRead == -1
Poll == [run : Runs, after : Nat, upto : Nat \cup {NotRead}]

Snapshot == [run : Runs \cup {None}, status : Active \cup Terminal \cup {"Idle"},
             cancel : BOOLEAN, done : Nat]

NoRun == [run |-> None, status |-> "Idle", cancel |-> FALSE, done |-> 0]

\* Where a handler waits: for the connection, the readiness, the answer to its
\* command, the server to read a snapshot (of `run', or the latest), its arrival.
Handler == [pc : {"idle", "link", "ready", "posted", "answered", "refused", "load", "loaded"},
            run : Runs \cup {None}, snap : Snapshot]

Doing(pc, r) == [pc |-> pc, run |-> r, snap |-> NoRun]
Idle == Doing("idle", None)

Chains == {"init", "start", "resume", "stop", "latest"}

Page == [run : Runs \cup {None},                      \* activeRunId
         state : Active \cup Terminal \cup {"Idle"},  \* activeRunState
         seq : Nat,                                   \* lastSequence
         seen : SUBSET (Nat \ {0}),                   \* seenProgressEvents
         asked : BOOLEAN,                             \* runCancellationRequestedAtUtc
         items : SUBSET (Runs \X Nat),                \* itemsByJobId
         timer : Runs \cup {None},                    \* pollTimer and its run
         forgot : BOOLEAN,                            \* history: the shown run was forgotten
                                                      \* since the timer was set
         polls : SUBSET Poll,
         on : SUBSET {"start", "resume", "stop"},     \* enabled buttons
         syncing : BOOLEAN,                           \* isInitialSyncPending
         loading : BOOLEAN,
         ready : BOOLEAN,                             \* readinessReady, not pending
         link : {"off", "retrying", "on"}]            \* connection.state

\* Every part of the state has its type, and only a handler that waits for an
\* answer is the one the server would answer.
TypeOK ==
    /\ row \in [Runs -> Row]
    /\ newest \in Runs \cup {None}
    /\ log \in [Runs -> Seq(Event)]
    /\ exec \in [Runs -> Executor]
    /\ inbox \in SUBSET Command
    /\ page \in Page
    /\ cmd \in [Chains -> Handler]
    /\ pushes \in Seq([run : Runs, sequence : Nat])
    /\ used \in 0 .. MaxMoves
    /\ ended \in SUBSET Runs
    /\ \A c \in inbox : c.by # "nobody" => cmd[c.by].pc = "posted"
    /\ \A r \in Runs : exec[r].by # "nobody" => cmd[exec[r].by].pc = "posted"

NoRow == [status |-> "Absent", cancel |-> FALSE, done |-> 0]

\* The page is loaded; a run of an earlier process is over and has no events.
Init ==
    /\ row = [r \in Runs |-> IF r = Earlier THEN [NoRow EXCEPT !.status = "Cancelled", !.cancel = TRUE]
                             ELSE NoRow]
    /\ newest = Earlier
    /\ log = [r \in Runs |-> <<>>]
    /\ exec = [r \in Runs |-> NoExecutor]
    /\ inbox = {}
    /\ page = [run |-> None, state |-> "Idle", seq |-> 0, seen |-> {}, asked |-> FALSE,
               items |-> {}, timer |-> None, forgot |-> FALSE, polls |-> {}, on |-> {},
               syncing |-> TRUE, loading |-> FALSE, ready |-> FALSE, link |-> "off"]
    /\ cmd = [c \in Chains |-> IF c = "init" THEN Doing("link", None) ELSE Idle]
    /\ pushes = <<>>
    /\ used = 0
    /\ ended = Runs \cap {Earlier}

Counted == used < MaxMoves /\ used' = used + 1

-----------------------------------------------------------------------------
(* The server *)

Happens(state, stage, done) == [state |-> state, stage |-> stage, done |-> done]

\* Handler k of the page, if any, gets its answer.
Answer(k, pc, r) ==
    cmd' = IF k = "nobody" THEN cmd ELSE [cmd EXCEPT ![k] = Doing(pc, r)]

\* RecoverOrphanedActiveRunsAsync, at the head of every read: an active run
\* unknown to the progress store is cancelled.
Recovered ==
    [r \in Runs |-> IF row[r].status \in Active /\ log[r] = <<>>
                    THEN [row[r] EXCEPT !.status = "Cancelled", !.cancel = TRUE]
                    ELSE row[r]]

Over(rows) == ended \cup {r \in Runs : rows[r].status \in Terminal}

Recover == row' = Recovered /\ ended' = Over(Recovered)

Record(r, new) ==
    /\ row' = [row EXCEPT ![r] = new]
    /\ ended' = Over([row EXCEPT ![r] = new])

Begin(r, c, out) ==
    /\ exec' = [exec EXCEPT ![r] = [pc |-> "created", by |-> c.by, push |-> c.push, out |-> out]]
    /\ inbox' = inbox \ {c}

\* POST runs creates a run unless one is active.
ServeStart(c) ==
    /\ c.kind = "start"
    /\ \A r \in Runs : Recovered[r].status \notin Active
    /\ \E r \in Runs :
          /\ row[r].status = "Absent"
          /\ row' = [Recovered EXCEPT ![r] = [NoRow EXCEPT !.status = "Pending"]]
          /\ newest' = r
          /\ Begin(r, c, <<Happens("Pending", "snapshot-created", 0)>>)
    /\ ended' = Over(Recovered)
    /\ UNCHANGED <<log, page, cmd, pushes, used>>

\* POST runs/{runId}/resume.
ServeResume(c) ==
    /\ c.kind = "resume" /\ exec[c.run].pc = "none" /\ row[c.run].status # "Completed"
    /\ Begin(c.run, c, <<>>)
    /\ UNCHANGED <<row, newest, log, page, cmd, pushes, used, ended>>

\* A run that is over already: resume of a completed one and stop succeed.
ServeNothing(c) ==
    /\ \/ c.kind = "resume" /\ row[c.run].status = "Completed"
       \/ c.kind = "stop" /\ ~c.saved /\ row[c.run].status \in Terminal
    /\ Answer(c.by, "answered", c.run)
    /\ inbox' = inbox \ {c}
    /\ UNCHANGED <<row, newest, log, exec, page, pushes, used, ended>>

\* Another run is active, or the readiness probe fails.
Refuse(c) ==
    /\ \/ c.kind = "start" /\ (\E r \in Runs : Recovered[r].status \in Active) /\ UNCHANGED used
       \/ c.kind # "stop" /\ Counted
    /\ Answer(c.by, "refused", c.run)
    /\ inbox' = inbox \ {c}
    /\ UNCHANGED <<row, newest, log, exec, page, pushes, ended>>

\* The same after GenerateAsync saved the run, which stays Pending.
RefuseCreated(r) ==
    /\ exec[r].pc = "created" /\ exec[r].out = <<>> /\ Counted
    /\ Answer(exec[r].by, "refused", r)
    /\ exec' = [exec EXCEPT ![r] = NoExecutor]
    /\ UNCHANGED <<row, newest, log, inbox, page, pushes, ended>>

\* RequestCancelAsync saves the request; the event follows, to no connection.
ServeStop(c) ==
    /\ c.kind = "stop" /\ ~c.saved /\ row[c.run].status \in Active
    /\ Record(c.run, [row[c.run] EXCEPT !.cancel = TRUE])
    /\ inbox' = (inbox \ {c}) \cup {[c EXCEPT !.saved = TRUE]}
    /\ UNCHANGED <<newest, log, exec, page, cmd, pushes, used>>

PublishStop(c) ==
    /\ c.saved
    /\ log' = [log EXCEPT ![c.run] =
                  Append(@, Happens("Running", "cancel-requested", row[c.run].done))]
    /\ Answer(c.by, "answered", c.run)
    /\ inbox' = inbox \ {c}
    /\ UNCHANGED <<row, newest, exec, page, pushes, used, ended>>

\* ResumeAsync makes the run Running; it is not cancelled any more.
StartRun(r) ==
    /\ exec[r].pc = "created" /\ exec[r].out = <<>>
    /\ Record(r, [row[r] EXCEPT !.status = "Running", !.cancel = FALSE])
    /\ exec' = [exec EXCEPT ![r].pc = "working",
                            ![r].out = <<Happens("Running", "run-started", row[r].done)>>]
    /\ UNCHANGED <<newest, log, inbox, page, cmd, pushes, used>>

Step(r, new, pc, stage) ==
    /\ exec[r].pc = "working" /\ exec[r].out = <<>>
    /\ Record(r, new)
    /\ exec' = [exec EXCEPT ![r].pc = pc, ![r].out = <<Happens(new.status, stage, new.done)>>]
    /\ UNCHANGED <<newest, log, inbox, page, cmd, pushes>>

Decide(r) ==
    /\ ~row[r].cancel /\ row[r].done < Candidates /\ UNCHANGED used
    /\ Step(r, [row[r] EXCEPT !.done = @ + 1], "working", "candidate-processed")

EndRun(r, status) == Step(r, [row[r] EXCEPT !.status = status], "done", "end")

\* The stop request is looked at between candidates; an exception may come any time.
Ending(r) ==
    \/ row[r].done = Candidates /\ EndRun(r, "Completed") /\ UNCHANGED used
    \/ row[r].done < Candidates /\ row[r].cancel /\ EndRun(r, "Cancelled") /\ UNCHANGED used
    \/ Counted /\ EndRun(r, "Failed")

Publish(r) ==
    /\ exec[r].out # <<>> /\ Len(pushes) < MaxPushes
    /\ log' = [log EXCEPT ![r] = Append(@, exec[r].out[1])]
    /\ pushes' = IF exec[r].push /\ page.link = "on"
                 THEN Append(pushes, [run |-> r, sequence |-> Len(log[r]) + 1])
                 ELSE pushes
    /\ IF exec[r].pc = "done"
       THEN /\ exec' = [exec EXCEPT ![r] = NoExecutor]
            /\ Answer(exec[r].by, IF row[r].status = "Failed" THEN "refused" ELSE "answered", r)
       ELSE exec' = [exec EXCEPT ![r].out = <<>>] /\ UNCHANGED cmd
    /\ UNCHANGED <<row, newest, inbox, page, used, ended>>

\* A request of another tab of the user.
OtherTab ==
    /\ Counted
    /\ \E kind \in {"start", "resume", "stop"}, r \in Runs \cup {None} :
          /\ (kind = "start") <=> (r = None)
          /\ r # None => row[r].status # "Absent"
          /\ inbox' = inbox \cup {[kind |-> kind, run |-> r, by |-> "nobody",
                                   push |-> FALSE, saved |-> FALSE]}
    /\ UNCHANGED <<row, newest, log, exec, page, cmd, pushes, ended>>

-----------------------------------------------------------------------------
(* The page's functions, from page record to page record *)

\* updateActionButtons
ButtonsOf(p) ==
    LET runningLike == p.state \in Active IN
    IF p.syncing THEN {}
    ELSE {b \in {"start", "resume", "stop"} :
            CASE b = "start"  -> ~runningLike /\ p.ready
              [] b = "resume" -> p.run # None /\ p.state \in {"Cancelled", "Failed"} /\ p.ready
              [] b = "stop"   -> p.run # None /\ runningLike /\ ~p.asked}

Refreshed(p) == [p EXCEPT !.on = ButtonsOf(p)]

\* Mutant of Polled: the event after the last known one is never asked for.
PolledPastNext(p, r) ==
    IF Cardinality(p.polls) < MaxPolls
    THEN [p EXCEPT !.polls = @ \cup {[run |-> r, after |-> p.seq + 1, upto |-> NotRead]}]
    ELSE p

\* pollProgressOnce, its request; one beyond the bound is lost, as polls may be.
Polled(p, r) ==
    IF Cardinality(p.polls) < MaxPolls
    THEN [p EXCEPT !.polls = @ \cup {[run |-> r, after |-> p.seq, upto |-> NotRead]}]
    ELSE p

\* startProgressPolling
Polling(p, r) == LET q == [p EXCEPT !.timer = r, !.forgot = FALSE] IN
                 IF r = None THEN q ELSE Polled(q, r)

\* resetProgressStreamState
Reset(p) == [p EXCEPT !.seq = 0, !.seen = {}]

\* The shown run and its results are forgotten; the timer is left alone.
Forgotten(p, state) ==
    Reset([p EXCEPT !.run = None, !.state = state, !.asked = FALSE, !.items = {},
                    !.forgot = @ \/ p.timer # None])

\* applyProgressUpdate, for the events numbered ns of run r one after the other;
\* a page that shows no run takes to the run of the first event.
New(p, r, ns) == IF p.run \in {None, r} THEN ns \ p.seen ELSE {}

Asked(p, events) ==
    LET turns == {n \in DOMAIN events :
                    events[n].stage \in {"cancel-requested", "run-started", "end"}}
    IN  IF turns = {} THEN p.asked ELSE events[Max(turns)].stage = "cancel-requested"

Applied(p, r, ns) ==
    LET new == New(p, r, ns)
        events == [n \in new |-> log[r][n]]
    IN  IF new = {} THEN p
        ELSE Refreshed([p EXCEPT
                !.run = IF @ = None THEN r ELSE @,
                !.seq = Max({@} \cup new),
                !.seen = @ \cup new,
                !.state = events[Max(new)].state,
                !.asked = Asked(p, events),
                !.items = @ \cup {<<r, events[n].done>> :
                                    n \in {m \in new : events[m].stage = "candidate-processed"}},
                !.timer = IF \E n \in new : events[n].state \in Terminal THEN None ELSE @])

\* Mutants of SnapshotApplied: the timer is left alone; the shown run is kept.
SnapshotAppliedTicking(p, s) ==
    Refreshed([Reset(p) EXCEPT !.run = s.run, !.state = s.status, !.asked = s.cancel,
                               !.items = {<<s.run, i>> : i \in 1 .. s.done}])

SnapshotAppliedToShown(p, s) ==
    Refreshed([p EXCEPT !.run = IF @ = None THEN s.run ELSE @,
                        !.state = s.status, !.asked = s.cancel, !.timer = None])

\* applyRunSnapshot, for a run
SnapshotApplied(p, s) ==
    LET c == IF s.run = p.run THEN p ELSE Reset(p)
        q == Refreshed([c EXCEPT !.run = s.run, !.state = s.status, !.asked = s.cancel,
                                 !.items = {<<s.run, i>> : i \in 1 .. s.done}])
    IN  IF s.status = "Running" THEN Polling(q, s.run)
        ELSE Polled([q EXCEPT !.timer = None], s.run)

\* loadLatest, for a user without runs
NoRunApplied(p) == Refreshed(Forgotten(p, "Idle"))

-----------------------------------------------------------------------------
(* The page's handlers *)

\* postCommand up to its answer.
Post(k, p) ==
    /\ page' = [p EXCEPT !.on = @ \ {k}]
    /\ cmd' = [cmd EXCEPT ![k] = Doing("posted", p.run)]
    /\ inbox' = inbox \cup {[kind |-> k, run |-> p.run, by |-> k, push |-> p.link = "on",
                             saved |-> FALSE]}

\* The start and resume handlers after ensureSignalRConnection.
PostStart(p) == Post("start", Refreshed(Forgotten(p, "Running")))

PostResume(p) ==
    IF p.run = None THEN page' = p /\ cmd' = [cmd EXCEPT !["resume"] = Idle] /\ UNCHANGED inbox
    ELSE Post("resume", p)

\* loadRun and loadLatest up to their answers.
LoadRun(k, p) ==
    /\ page' = p
    /\ cmd' = [cmd EXCEPT ![k] = IF p.run = None THEN Idle ELSE Doing("load", p.run)]

LoadLatest(k, p) ==
    /\ page' = [p EXCEPT !.loading = TRUE]
    /\ cmd' = [cmd EXCEPT ![k] = IF p.loading THEN Idle ELSE Doing("load", None)]

Unserved == UNCHANGED <<row, newest, log, exec, ended>>

\* One handler per button: a second click of a button whose handler still waits
\* for the connection, which leaves it enabled, is left out.
MayClick(k) == k \in page.on /\ cmd[k] = Idle /\ Counted

ClickStart ==
    /\ MayClick("start") /\ ~page.syncing /\ page.ready
    /\ IF page.link = "off"
       THEN cmd' = [cmd EXCEPT !["start"] = Doing("link", None)] /\ UNCHANGED <<inbox, page>>
       ELSE PostStart(page)
    /\ Unserved /\ UNCHANGED pushes

ClickResume ==
    /\ MayClick("resume") /\ ~page.syncing /\ page.ready /\ page.run # None
    /\ IF page.link = "off"
       THEN cmd' = [cmd EXCEPT !["resume"] = Doing("link", None)] /\ UNCHANGED <<inbox, page>>
       ELSE PostResume(page)
    /\ Unserved /\ UNCHANGED pushes

ClickStop ==
    /\ MayClick("stop") /\ ~page.syncing /\ page.run # None
    /\ Post("stop", Refreshed([page EXCEPT !.asked = TRUE]))
    /\ Unserved /\ UNCHANGED pushes

ClickLatest ==
    /\ cmd["latest"] = Idle /\ ~page.loading /\ Counted
    /\ LoadLatest("latest", page)
    /\ Unserved /\ UNCHANGED <<inbox, pushes>>

\* connection.start() succeeds; without it only the initial chain goes on.
Linked(k) ==
    /\ cmd[k].pc = "link"
    /\ LET p == [page EXCEPT !.link = "on"] IN
       CASE k = "init"   -> page' = p /\ cmd' = [cmd EXCEPT ![k].pc = "ready"] /\ UNCHANGED inbox
         [] k = "start"  -> PostStart(p)
         [] k = "resume" -> PostResume(p)
    /\ Unserved /\ UNCHANGED <<pushes, used>>

NotLinked(k) ==
    /\ cmd[k].pc = "link" /\ Counted
    /\ cmd' = [cmd EXCEPT ![k] = IF k = "init" THEN Doing("ready", None) ELSE Idle]
    /\ Unserved /\ UNCHANGED <<inbox, page, pushes>>

\* loadReadiness; a failed probe is one way not to be ready.
Readied ==
    /\ cmd["init"].pc = "ready"
    /\ \E ready \in BOOLEAN : LoadLatest("init", Refreshed([page EXCEPT !.ready = ready]))
    /\ Unserved /\ UNCHANGED <<inbox, pushes, used>>

\* setButtonLoading(button, false) enables the button whatever the state.
Unloaded(k) == [page EXCEPT !.on = @ \cup {k}]

Resumed(p) == Polling(Refreshed([p EXCEPT !.state = "Running", !.asked = FALSE]), p.run)

Answered(k) ==
    /\ cmd[k].pc = "answered"
    /\ CASE k = "start" ->
              LET r == IF page.run = None THEN cmd[k].run ELSE page.run IN
              LoadRun(k, Polling(Refreshed([page EXCEPT !.run = r, !.state = "Running"]), r))
         [] k = "resume" -> LoadRun(k, Resumed(page))
         [] k = "stop"   -> LoadRun(k, Unloaded(k))
    /\ Unserved /\ UNCHANGED <<inbox, pushes, used>>

\* Mutant of Abandon: the abandoned request still answers the handler.
AbandonNot(k) == UNCHANGED <<inbox, exec, row, newest, log, ended>>

\* The request goes on without anybody waiting for its answer.
Abandon(k) ==
    /\ inbox' = {[c EXCEPT !.by = IF @ = k THEN "nobody" ELSE @] : c \in inbox}
    /\ exec' = [r \in Runs |-> [exec[r] EXCEPT !.by = IF @ = k THEN "nobody" ELSE @]]
    /\ UNCHANGED <<row, newest, log, ended>>

\* After 2.2 seconds a start or resume command is taken for accepted.
TimeOut(k) ==
    /\ k \in {"start", "resume"} /\ cmd[k].pc = "posted"
    /\ Abandon(k)
    /\ IF k = "start" THEN LoadLatest(k, Unloaded(k)) ELSE LoadRun(k, Resumed(Unloaded(k)))
    /\ UNCHANGED <<pushes, used>>

\* Mutant of Caught: `loading' is cleared at the end of the try block only.
CaughtLoading(k, p) ==
    /\ page' = IF k = "stop" THEN Refreshed([p EXCEPT !.asked = FALSE]) ELSE p
    /\ cmd' = [cmd EXCEPT ![k] = Idle]

\* The catch blocks and loadLatest's finally.
Caught(k, p) ==
    LET q == IF cmd[k].pc \in {"load", "loaded"} /\ cmd[k].run = None
             THEN [p EXCEPT !.loading = FALSE, !.syncing = FALSE] ELSE p
    IN  /\ page' = IF k = "stop" THEN Refreshed([q EXCEPT !.asked = FALSE])
                   ELSE IF page.syncing # q.syncing THEN Refreshed(q) ELSE q
        /\ cmd' = [cmd EXCEPT ![k] = Idle]

Refused(k) ==
    /\ cmd[k].pc = "refused"
    /\ Caught(k, Unloaded(k))
    /\ Unserved /\ UNCHANGED <<inbox, pushes, used>>

\* A request of the page or its answer is lost.
Lose(k) ==
    /\ cmd[k].pc \in {"posted", "load", "loaded"} /\ Counted
    /\ Abandon(k)
    /\ Caught(k, IF cmd[k].pc = "posted" THEN Unloaded(k) ELSE page)
    /\ UNCHANGED pushes

\* The server answers a GET of a run, or of the run created last.
ReadRun(k) ==
    /\ cmd[k].pc = "load"
    /\ LET r == IF cmd[k].run = None THEN newest ELSE cmd[k].run IN
       cmd' = [cmd EXCEPT ![k].pc = "loaded",
                          ![k].snap = IF r = None THEN NoRun
                                      ELSE [run |-> r, status |-> Recovered[r].status,
                                            cancel |-> Recovered[r].cancel,
                                            done |-> Recovered[r].done]]
    /\ Recover
    /\ UNCHANGED <<newest, log, exec, inbox, page, pushes, used>>

Loaded(k) ==
    /\ cmd[k].pc = "loaded"
    /\ LET s == cmd[k].snap
           latest == cmd[k].run = None
           p == IF s.run = None THEN NoRunApplied(page) ELSE SnapshotApplied(page, s)
           q == [p EXCEPT !.loading = @ /\ ~latest, !.syncing = @ /\ ~latest]
       IN  page' = IF q.syncing # p.syncing THEN Refreshed(q) ELSE q
    /\ cmd' = [cmd EXCEPT ![k] = Idle]
    /\ Unserved /\ UNCHANGED <<inbox, pushes, used>>

-----------------------------------------------------------------------------
(* Polls, pushed events, connections *)

Tick ==
    /\ page.timer # None /\ Cardinality(page.polls) < MaxPolls
    /\ page' = Polled(page, page.timer)
    /\ Unserved /\ UNCHANGED <<inbox, cmd, pushes, used>>

\* GET runs/{runId}/progress recovers, too.
ReadPoll(poll) ==
    /\ poll.upto = NotRead
    /\ Recover
    /\ page' = [page EXCEPT !.polls = (@ \ {poll}) \cup {[poll EXCEPT !.upto = Len(log[poll.run])]}]
    /\ UNCHANGED <<newest, log, exec, inbox, cmd, pushes, used>>

ApplyPoll(poll) ==
    /\ poll.upto # NotRead
    /\ LET p == Applied([page EXCEPT !.polls = @ \ {poll}], poll.run, poll.after + 1 .. poll.upto) IN
       page' = [p EXCEPT !.seq = Max({@, poll.upto})]
    /\ Unserved /\ UNCHANGED <<inbox, cmd, pushes, used>>

LosePoll(poll) ==
    /\ Counted
    /\ page' = [page EXCEPT !.polls = @ \ {poll}]
    /\ Unserved /\ UNCHANGED <<inbox, cmd, pushes>>

Pushed ==
    /\ pushes # <<>>
    /\ page' = Applied(page, pushes[1].run, {pushes[1].sequence})
    /\ pushes' = Tail(pushes)
    /\ Unserved /\ UNCHANGED <<inbox, cmd, used>>

\* The connection is lost, with what is under way to its id.
Unlink == /\ page.link = "on"
          /\ pushes' = <<>>

Disconnect ==
    /\ Unlink /\ Counted
    /\ page' = [page EXCEPT !.link = "retrying"]
    /\ exec' = [r \in Runs |-> [exec[r] EXCEPT !.push = FALSE]]
    /\ inbox' = {[c EXCEPT !.push = FALSE] : c \in inbox}
    /\ UNCHANGED <<row, newest, log, ended, cmd>>

\* onreconnected, or onclose after the last attempt.
Reconnect ==
    /\ page.link = "retrying"
    /\ \/ page' = LET p == [page EXCEPT !.link = "on"]
                  IN  IF p.run = None THEN p ELSE Polled(p, p.run)
       \/ page' = [page EXCEPT !.link = "off"]
    /\ Unserved /\ UNCHANGED <<inbox, cmd, pushes, used>>

\* A restart of the process cuts requests and connections, and empties the store.
Restart ==
    /\ Counted
    /\ exec' = [r \in Runs |-> NoExecutor]
    /\ inbox' = {}
    /\ log' = [r \in Runs |-> <<>>]
    /\ pushes' = <<>>
    /\ page' = [page EXCEPT !.polls = {}, !.link = IF @ = "on" THEN "retrying" ELSE @]
    /\ cmd' = [k \in Chains |-> IF cmd[k].pc = "posted" THEN Doing("refused", None) ELSE cmd[k]]
    /\ UNCHANGED <<row, newest, ended>>

-----------------------------------------------------------------------------
(* Specification *)

Serve == \E c \in inbox : \/ ServeStart(c) \/ ServeResume(c) \/ ServeNothing(c) \/ Refuse(c)
                          \/ ServeStop(c) \/ PublishStop(c)

Execute == \E r \in Runs : StartRun(r) \/ RefuseCreated(r) \/ Decide(r) \/ Ending(r) \/ Publish(r)

Answers == \E k \in Chains : \/ Linked(k) \/ Answered(k) \/ Refused(k)
                             \/ ReadRun(k) \/ Loaded(k)

ReadPolls  == \E poll \in page.polls : ReadPoll(poll)
ApplyPolls == \E poll \in page.polls : ApplyPoll(poll)

Fault == \/ \E k \in Chains : NotLinked(k) \/ TimeOut(k) \/ Lose(k)
         \/ \E poll \in page.polls : LosePoll(poll)
         \/ Disconnect \/ Restart

Click == ClickStart \/ ClickResume \/ ClickStop \/ ClickLatest

Works == Serve \/ Execute \/ Readied \/ Answers \/ Pushed \/ Reconnect

Next == Click \/ OtherTab \/ Works \/ Tick \/ ReadPolls \/ ApplyPolls \/ Fault

Spec == Init /\ [][Next]_vars

\* Clicks, other tabs' requests and faults need not happen; the rest goes on:
\* the server and the page's own steps, its timer, and the answers to its polls.
FairSpec == Spec /\ WF_vars(Works) /\ WF_vars(Tick)
                 /\ WF_vars(ReadPolls) /\ WF_vars(ApplyPolls)

-----------------------------------------------------------------------------
(* Properties *)

\* The table shows decisions of the shown run only, each of which the server
\* has saved: late answers and pushed events of another run never mix in.
ItemsOfRun ==
    \A item \in page.items : item[1] = page.run /\ item[2] <= row[item[1]].done

\* A page that shows a run and polls shows it as active and polls that run:
\* whoever shows another run, or an end, moves or stops the timer.  Only a page
\* that forgets its run while the timer is on, for a start command or for a late
\* answer that there are no runs, may take to the run of a pushed event and go
\* on polling the one before.
TimerFollowsRun ==
    page.timer # None /\ page.run # None =>
        /\ page.state \in Active
        /\ page.timer = page.run \/ page.forgot

\* A run shown as over was over at some time: no early end is made up from a
\* stale answer or a late event of an earlier run.
OverIsTrue == page.run # None /\ page.state \in Terminal => page.run \in ended

\* What the page shows of a run is true of that run.
ShownIsTrue == ItemsOfRun /\ OverIsTrue

\* A terminal event of run r the page has yet to ask for.
EndAhead(r) == \E n \in DOMAIN log[r] : n > page.seq /\ log[r][n].state \in Terminal

\* A page that polls a run stops doing so once its terminal event lies beyond
\* the events it knows, whether a poll, a push or a snapshot brings it: unless a
\* restart loses the events, or a late answer about another run moves `seq'.
EndIsReached ==
    \A r \in Runs :
        (page.timer = r /\ EndAhead(r) /\ \A poll \in page.polls : poll.run = r)
            ~> (page.timer # r \/ log[r] = <<>>)

\* The page leaves its initial synchronisation, and every load of the latest
\* run ends, whatever fails meanwhile: its buttons do not stay dead.
LoadingEnds == page.syncing \/ page.loading ~> ~page.syncing /\ ~page.loading

-----------------------------------------------------------------------------
(* The inductive invariant of the safety proofs *)

Known(r) == r # None => row[r].status # "Absent"

\* What rows and history let one say of run r: no more done, no end made up.
True(r, state, done) == done <= row[r].done /\ (state \in Terminal => r \in ended)

AllTrue(r, events) == \A n \in DOMAIN events : True(r, events[n].state, events[n].done)

\* Published events and those to publish are true, of runs that exist.
ServerInv ==
    /\ Known(newest)
    /\ \A r \in Runs :
          /\ row[r].status \in Terminal => r \in ended
          /\ row[r].status = "Absent" => row[r].done = 0
          /\ log[r] # <<>> \/ exec[r].pc # "none" \/ exec[r].out # <<>> => Known(r)
          /\ AllTrue(r, log[r]) /\ AllTrue(r, exec[r].out)

\* Whoever waits for an answer waits for a single one.
CommandsInv ==
    /\ \A c \in inbox : /\ c.by \in {c.kind, "nobody"}
                        /\ c.kind = "start" \/ c.run # None
                        /\ c.saved => c.kind = "stop"
                        /\ Known(c.run)
    /\ \A c, d \in inbox : c.by = d.by => c = d \/ c.by = "nobody"
    /\ \A r, s \in Runs : exec[r].by = exec[s].by => r = s \/ exec[r].by = "nobody"
    /\ \A c \in inbox, r \in Runs : c.by = exec[r].by => c.by = "nobody"

\* The snapshots on their way are true.
HandlersInv ==
    \A k \in Chains :
       /\ cmd[k].pc = "link" => k \in {"init", "start", "resume"}
       /\ cmd[k].pc \in {"posted", "answered", "refused"} => k \in {"start", "resume", "stop"}
       /\ Known(cmd[k].run)
       /\ cmd[k].snap.run # None =>
             Known(cmd[k].snap.run) /\ True(cmd[k].snap.run, cmd[k].snap.status, cmd[k].snap.done)

\* What page record p shows is true of an existing run, and its timer follows it.
ShownTrue(p) ==
    /\ Known(p.run)
    /\ p.run = None => p.items = {}
    /\ \A item \in p.items : item[1] = p.run /\ item[2] <= row[item[1]].done
    /\ p.run # None /\ p.state \in Terminal => p.run \in ended
    /\ p.timer # None => p.timer = p.run \/ p.forgot
    /\ p.timer # None /\ p.run # None => p.state \in Active

\* Answers to polls and pushed messages are about events in the store.
TransitInv ==
    /\ \A poll \in page.polls : poll.upto <= Len(log[poll.run])
    /\ \A i \in DOMAIN pushes : pushes[i].sequence \in DOMAIN log[pushes[i].run]

=============================================================================
