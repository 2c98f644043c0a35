# Verification of LinkedIn Job Scraper

TLA+ models, TLC runs and TLAPS proofs kept beside the ASP.NET Core application
in `src/src/LinkedIn.JobScraper.Web`. Paths below are relative to that
directory unless they start with `docs/`.

## 1. The system

The application signs users in, keeps one captured LinkedIn session per user,
and runs two long workflows on the user's behalf: *fetch and score* (search
LinkedIn, import the jobs, fetch their details, score them with an OpenAI
model) and the *AI live review* (let the model decide candidate by candidate
about the jobs that have a description). Everything runs inside one server
process. State is in SQL Server (through EF Core, a new context per operation)
and in a few in-memory singletons that a restart empties. Concurrency comes
from HTTP requests: two tabs, a double click, a poll during a run, a stop
request. Each request awaits the database and remote services and can be
overtaken at each await.

| Component | State | Operations | Interacts with |
|---|---|---|---|
| AI live review, `AI/AiGlobalShortlistService.cs` | rows of runs, run candidates, items | start, resume, stop, read (which also recovers orphaned runs) | progress store, OpenAI gateway, readiness probe, page client |
| Live review progress store, `AI/AiGlobalShortlistRealtime.cs` | events per (user, run), in memory | append, get batch | SignalR, page client polling |
| Workflow state, `Jobs/JobsWorkflowTracking.cs` | one active workflow per user, events and cancellation source per workflow, in memory | register, append, request cancellation, get batch, release | fetch and score, page client |
| Fetch and score, `Jobs/JobsDashboardService.cs` | local counters | import, enrichment batches, scoring; publish | workflow state, the three job services |
| Job import, `Jobs/JobImportService.cs` with the search page loop `LinkedIn/Search/LinkedInJobSearchService.cs` | job rows | fetch pages, reconcile new and known jobs, stop early | API client, database |
| Enrichment, `Jobs/JobEnrichmentService.cs` | job rows | pick incomplete jobs, fetch details, save every ten | API client, database |
| Scoring, `AI/JobBatchScoringService.cs` | job rows (with row version) | score ready jobs in parallel, score one job | OpenAI gateway |
| LinkedIn session, `LinkedIn/Session/*`, `Controllers/LinkedInSessionController.cs` | one session row per user, reset requirement in memory | import, verify, revoke, invalidate, mark and clear the requirement | API client, session dialog, jobs page |
| API client, `LinkedIn/Api/LinkedInApiClient.cs` | time of the next allowed request, gate | GET with safety window; 401 and 403 handling | session store, reset tracker |
| Settings (search, AI behaviour, OpenAI) | one row each with a row version; the API key in a file and in memory | create, read, save with token | controllers, the three forms |
| Users, `Users/IAdminUserManagementService.cs`, `Authentication/*` | user rows | create, edit, (de)activate, soft delete, seed, sign in | users page |
| Jobs page, `wwwroot/js/jobs-page.js` | tracked workflow, last sequence; rows, buttons and figures; session guard | submit, poll, attach, stop, restore after a reload; load rows, score a job | workflow state, dashboard, scoring, session |
| Live review page, `wwwroot/js/ai-live-review-page.js` | shown run, its state, events and items; connection, timer | start, resume, stop, load, poll, receive pushes | live review, progress store |
| Session dialog, `wwwroot/js/session-modal.js` | state last told, visible panel, busy flag | show, import, replace, revoke | session controller, jobs page |
| Settings forms, `search-settings-page.js`, `ai-settings-page.js`, `admin-openai-setup-page.js` | inputs, token, suggestions | edit, look up a location, save | settings services |
| Users page, `wwwroot/js/admin-users-page.js` | rows with their baselines, page number, confirmation | create, edit and save, delete, page through | user management |

What is hard, and what must be right:

* **AI live review.** Nothing stops two requests from executing the same run;
  a restart can come between any two saves; a stop request or an orphan
  recovery writes the row an executor holds in memory; a failed save leaves
  changed entities in the context that the catch block saves again. The
  checkpoint must never lose or repeat a candidate, totals must agree with the
  items, a completed run must be reviewed, a stop must be honoured at the next
  checkpoint, and every execution must end.
* **Workflow state.** At most one active workflow per user; the slot must come
  free on every way out, and only its owner may free it; a polling client must
  see a terminal event or learn that the workflow is unknown.
* **Import, enrichment, scoring.** No duplicates, no overwriting of what a
  concurrent request saved, a failing job must not take others with it.
* **Session.** A rejected session must not be used again and an import not be
  lost, whichever of import, reset, verification and rejection writes last; the
  user must always have a way to import a session.
* **API client.** Requests stay a minimum interval apart.
* **Settings and users.** No lost update behind a row version token; an id must
  not stand beside another place's name; a failed or lost post must leave the
  page with something that is true.
* **Pages.** Everything they show has been told by an answer, a poll or a push,
  and these overtake each other, are about things no longer shown, or never
  come. No button may stay dead, and no end be missed.

`PROJECT.json` lists every component with its status and every hazard with the
line where it bites and the property that covers it.

## 2. Modules

| Module | Models | Proofs |
|---|---|---|
| `ShortlistRun` | the AI live review of one user | `ShortlistRunProofs` |
| `LiveReviewPage` | a tab with the live review page beside the runs and the progress store | `LiveReviewPageProofs` |
| `WorkflowSlot` | abstract: what a user is promised about the one fetch workflow at a time | |
| `JobsWorkflow` | the workflow state store and fetch and score; implements `WorkflowSlot` | `JobsWorkflowProofs` |
| `JobsPage` | a tab with the jobs page beside that server; extends `JobsWorkflow` | `JobsPageProofs` |
| `JobRows` | the job rows, those who score and change them, and the list of a jobs page | `JobRowsProofs` |
| `LinkedInSession` | session store, reset requirement, API client with its gate, session dialog and the jobs page's guard | `LinkedInSessionProofs` |
| `SettingsForms` | the three settings services, the API key, and their forms in several tabs | `SettingsFormsProofs` |
| `AdminUsers` | user management and the users page in several tabs | `AdminUsersProofs` |

`MC*` modules give TLC the symmetry sets of the instances. No module declares a
`RECURSIVE` operator. In every module the moves of users, of other tabs and of
faults draw on one bound, `MaxMoves` (or on `MaxRestarts`, `MaxLosses` and
`MaxReloads`); what follows from them is not bounded.

### ShortlistRun

*State.* `run[r]` is the row of a run with the columns the code branches on
(`Status`, `CancellationRequestedAtUtc` as a flag, the counts,
`NextSequenceNumber`); `seq` and `cstat` are the candidate rows
(`SequenceNumber`, `Status`), `item` the item rows (`Rank`, `Decision`, whether
`ErrorCode` is set). `published` are the runs with an entry in the in-memory
progress store. `task[t]` is a request: the line it has reached (`pc`), the run
row it loaded (`snap`), the candidate it works on, the item it found, the
outcome it holds, the fallbacks it has left, and what the recovery or the
candidate selection has read. `overlapped` and `late` are history variables
that only properties read.

*Saves.* The tables have no concurrency token, and EF Core writes the columns
whose value differs from the one loaded. `SaveRun` and `SaveItem` say exactly
that, column by column, so a stale executor overwrites some columns of a row
and leaves others: that is where the interesting states come from. `Conflict`
stands for the two unique indexes of the items.

*Actions* follow the awaits of the code:

| Actions | Code |
|---|---|
| `GenerateRequest`, `GenerateCheck`, `GenerateSelect`, `GenerateInsert`, `GenerateResume` | `GenerateAsync` |
| `Poll`, `RecoverOrphans` | `GetRunAsync`, `GetLatestRunAsync`, `RecoverOrphanedActiveRunsAsync` |
| `ResumeRequest`, `ResumeStart` | `ResumeAsync` before its loop |
| `Checkpoint`, `PickCandidate`, `EvaluateCandidate`, `SaveCandidate` | one round of the loop |
| `CompleteRun`, `MarkRunCancelled` | the two regular ends |
| `SaveRefused`, `ExecutionFails`, `PersistFailed`, `PersistFailedFails` | the catch blocks |
| `CancelRequest`, `CancelSave` | `RequestCancelAsync` |
| `Publish` | `PublishProgressSafeAsync`, where it creates the entry |
| `NotReady`, `RequestFails`, `Restart` | 503, exceptions outside the try block, the process |

*Abstractions.* One user (each query filters by owner). Time stamps, texts,
scores and token counts are left out: no branch reads them. The order of the
candidates is left open. The gateway's answer is one of a ranking, a fallback
score, or nothing usable; `AiDecisions` are the decisions the scores can
classify to. Concurrency of the requests is real; the rate limiter allows six
a minute and so does not exclude overlap. The catch of
`OperationCanceledException` is unreachable, since the controller passes
`CancellationToken.None`, and is not modelled.

*Bounds.* `Runs` (rows that may be created), `Tasks` (concurrent requests),
`MaxRestarts`, `Jobs`. `SpareRun` keeps a start request from saving a run when
no identifier is left.

### WorkflowSlot and JobsWorkflow

*State.* The store of one user (its keys contain the user): `active` is the
entry of `_activeWorkflowIds`, `known` the ids with an entry in `_workflows`,
`cancelled` the entries whose cancellation source was cancelled, `events` their
updates. `wf[w]` is the request with workflow id `w` (the page makes a fresh
UUID per request): its phase, the enrichment counts the branches read, its
answer. `dry` and `stopAt` are history variables that only properties read.

*Actions.*

| Actions | Code |
|---|---|
| `Submit`, `Blocked`, `Rejected`, `Register` | `JobsController.FetchAndScore`, `RegisterWorkflow` |
| `Announce`, `CallLinkedIn`, `StageProgress`, `ImportReturns`, `ReportImported`, `ReportImportFailed` | the import stage of `RunFetchAndScoreAsync` |
| `CountCandidates`, `BatchLoop`, `PrepareBatch`, `CallDetails`, `EnrichmentReturns`, `ReportEnriched` | the enrichment batches |
| `ReportCompleted`, `ReportCancelled`, `Interrupt`, `Throws` | the regular end, the catch clause, other exceptions |
| `ReleaseAtEnd`, `Leave` | the release inside `Append` after a terminal update; the finally block |
| `CancelWorkflow` | `CancelWorkflow`, `RequestCancellation` |
| `Restart` | the process, which keeps none of it |

`Append` takes the lock of the entry and, for a terminal update, releases the
slot under another lock: two actions, between which the slot still belongs to a
workflow that has told its end. Both releases are in the model, since the
second may find the slot in other hands.

*Abstractions.* Import and enrichment return a result or throw; of the
enrichment's counts the model keeps what the loop and the final state read. A
selection returns jobs not tried before: the workflow passes the set of those
it has tried, and the selection excludes them. Sending to a SignalR connection is
taken not to throw. `RunFetchAndScoreAsync` scores nothing any more, so no
scoring stage is in the model.

`WorkflowSlot` has two variables: the holder and the set of those who held the
slot before. `JobsWorkflow` implements it with `holder <- active` and
`served <-` the accepted requests that do not hold the slot now.

*Bounds.* `Workflows`; `Candidates`, the numbers of jobs to enrich;
`MaxRestarts`; `Reporting` and `MaxProgress`, which limit whose stages report
progress and how many updates a stage publishes. They are bounds of the runs
only: the proofs hold for every value.

### JobsPage

*State.* `page` holds the script's variables (`activeWorkflowId`,
`lastSequence`, `isSubmitting`, whether the busy state is shown, whether
`activeFetchPromise` and `workflowRedirectUrl` are set, the one timer the
script remembers) and every poll loop: its timer, its request or its answer
under way. `handler[w]` is the submit handler of the click that chose `w`,
`pushes` the SignalR messages under way.

*Actions.* One is what the script does between two awaits: `Click`,
`PassGuard`, `FailGuard`, `Post`, `Attach`, `AnswerArrives` for the submit
handler; `TimerFires`, `ServePoll`, `ReceivePoll`, `LosePoll` for a poll loop;
`ReceivePush`; `Navigate` and `UserReloads` for the document. `Begin`, `Reset`,
`Apply` are `beginWorkflowTracking`, `resetWorkflowUi`, `applyProgressUpdate`.
The server's steps are those of `JobsWorkflow`, one of its actions at a time,
with what it pushes. Workflows outside `Mine` belong to other tabs.

*Abstractions.* Texts, the progress log and the heartbeat (which writes only to
that log) are left out, as are the session guard's own requests.

*Bounds.* `MaxPolls`, `MaxReloads`, `MaxLosses`. The script starts a poll loop
whenever a tracking begins; `Post` and `Attach` wait in the model until one of
the `MaxPolls` loops is free, which the real page does not.

### LiveReviewPage

*State.* `row`, `newest`, `log` and `exec` are the live review seen from the
page: run rows, the run created last, the numbered events of the progress store
and who executes. A row is saved first and its event published later (`out`).
`inbox` holds commands under way. `page` holds the script's variables
(`activeRunId`, `activeRunState`, `lastSequence`, `seenProgressEvents`,
`itemsByJobId`, the timer and its run, the enabled buttons, the state of the
connection) and the polls under way; `cmd` is the handler of each button and
the initial chain, at the await where it stands; `pushes` are SignalR messages.

*Actions.* `ServeStart`, `ServeResume`, `ServeStop`, `PublishStop`, `Refuse`,
`StartRun`, `Decide`, `Ending`, `Publish` for the server; `ClickStart`,
`ClickResume`, `ClickStop`, `ClickLatest`, `Linked`, `Readied`, `Answered`,
`Refused`, `TimeOut` (the 2.2 seconds after which a command is taken for
accepted), `ReadRun`, `Loaded` for the handlers; `Tick`, `ReadPoll`,
`ApplyPoll`, `Pushed`, `Disconnect`, `Reconnect` for what brings events; `Lose`,
`LosePoll`, `NotLinked`, `Restart` for faults. The page's functions
(`applyProgressUpdate`, `applyRunSnapshot`, `updateActionButtons`,
`startProgressPolling`) are operators from page record to page record; a
handler composes them as the code does. Every read recovers orphaned runs.
`ended` and the page's `forgot` are history: which runs were ever over, and
whether the page forgot its run (a click on start, a late answer that there is
no run) since its timer was last set.

*Abstractions.* A run has one executor here: overlapping executors are the
subject of `ShortlistRun`, and what their rows do to the page is not modelled.
The activity report, the paging and the filter of the table are left out.

### JobRows

*State.* `stored` is the table with what the code branches on: whether the row
is there, has a description, when it was last seen, its score and its row
version. `page` is the list: rows with the state of their button and their
label, the offset of the sentinel, the chunk under way, the figures,
`activeScoreRequests`. `pending` is the list in `sessionStorage`; `work` the
requests that score one job, from this page or another; `batch` the batch of
`ScoreReadyJobsAsync`. `moved` and `torn` are history.

*Actions.* `Click`, `Show` (the figures are read after the rows, the pending
requests are sent again), `Reload`, `AnswerArrives`, `AnswerLost`,
`LoadNextRows`, `ServeRows`, `RowsArrive`, `RowsLost` for the page; `ReadJob`,
`GatewayAnswers`, `SaveScore` for a request; `StartBatch`, `BatchScored`,
`SaveBatch` for the batch; `OtherRequest`, `Import`, `Rewrite` for the others.
A save succeeds when the row version is the one that was read. `Orders` are the
orders in which the database may list the jobs: the sort key has ties.

*Abstractions.* A score is absent, ordinary or strong. Of filters and orders the
model has "only unscored" and "last seen". `Import` has only its effect on the
rows, `Rewrite` stands for the enrichment and for a change of the status.

### LinkedInSession

*State.* `stored` (the row: its snapshot and whether it is active), `reset` (the
requirement with the status that caused it), `accepted` (what LinkedIn accepts),
`gate` (holder of `RequestThrottleGate`, ticks until the next allowed request,
ticks the holder has waited), `call` (what each of three callers has under way:
the dialog, the guard of the jobs page, everybody else), `modal`, `guard`,
`reads` (answers with the state, under way). Each import is a snapshot with a
number of its own. `since` and `rejected` are history.

*Actions.* A call goes `Look`, `EnterGate`, `PassGate`, `LinkedInAnswers` and
from there by status: `FindActive`, `Invalidate`, `MarkRequired` after a
rejection (a verification deals with it twice, in the client and in the
service), `LoadRow`, `SaveRow` for an accepted import, `ClearRequirement`,
`Answer`, `AnswerWhole`. The controller answers with the stored row and then the
requirement, read at two awaits (`RowRead`, `Whole`): so do `Answer` and
`AnswerWhole` for a call, and `ReadWhole` for a read of the state, and anything
may come between the two. `GiveUp` is the caller's cancellation in the gate, `Expire` LinkedIn's
change of mind. The dialog has `Show`, `Hide`, `StartReplace`, `CancelReplace`,
`ImportCurl`, `Revoke`, `ActionDone`, `ActionRefused`, `ActionLost` and the
arrival of its reads; the guard `RefreshGuard`, `VerifyPeriodically`,
`Verified`. `SaveRow` writes only the columns that differ from the row it read:
a row read as active is not made active again. A request passes the gate once:
with `MaxRetryAttempts` above its default of 0 the resilience handler's retries
bypass the gate, which the model leaves out.

### SettingsForms

*State.* `row` for each of the three forms (version, content, who saved it),
`tab` (form shown, token, text, place, lookup due, suggestions), `save` (the
save of each tab), `lookups`, `file` and `key` (the API key on disk and in
memory with its gate). `known` is history: the versions each tab has seen.

*Actions.* `Create`, `Insert`, `Load`; `EditLocation`, `EditOther`,
`FetchLocationSuggestions`, `RenderSuggestions`, `LookupFails`, `ChooseOption`;
`Submit*`, `Commit`, `Invalid`, `SaveKey`, `WriteKey`, `WriteKeyFails`,
`*Saved`, `NotSaved`, `LoseAnswer`; `LoadKey`, `Restart`. The OpenAI profile is
saved before its key. The content of a form is one text; the other fields
travel with it.

### AdminUsers

*State.* `users` is the table, a user's id its place; per tab the ids shown, the
page number, the rows (editing, baseline, inputs, the post that saves, the post
that deletes), the confirmation (whom it asks about, and where its modal stands) and
the form that creates. `stored` is history: what each row has ever held.

The modal is Bootstrap's: it fades in (`fading`), is `open`, fades out
(`closing`), then its backdrop does (`backdrop`), and if it is shown again
meanwhile (`again`), the `hidden` event of the earlier showing is still to come.
`show()` and `hide()` do nothing to a modal that fades, but its buttons are there
and their listeners answer the question. The backdrop keeps the mouse off
the page; the keyboard is kept off it only while the modal is `open`, by the
focus trap (`Reachable`).

*Actions.* `OpenEdit`, `EditRow`, `CloseEdit`, `SaveRow`, `Answered`, `NotSaved`;
`ClickDelete`, `Faded`, `Confirm`, `Cancel`, `ModalHidden`, `Deleted`,
`NotDeleted`; `PrevPage`, `NextPage`, `Load`; `ServeRead`, `ServeSave`,
`ServeDelete`, `RefuseProfile`, `Lose`; `SubmitCreate`, `CheckName`,
`CreateUser`, `UserCreated`, `NotCreated`. The service reads and writes in two
steps, and the write names the columns that differ from what was read. An
expiry is an instant, two to a day, so that the conversion to a date and back
loses what it loses in the code.

## 3. Runs

| Run | Instance | Shows |
|---|---|---|
| `restart` | 1 run, 2 jobs, 2 requests, faults, 1 restart, 1 fallback | `TypeOK`, `DecisionsRecorded`, `CheckpointInSnapshot`, `SoleExecutorIsExact`, `DecisionsFinal` |
| `live` | 1 run, 2 jobs, 2 requests, `FairSpec` | `ExecutionEnds` |
| `review` | an earlier run and a new one of 1 candidate, 1 poll and 1 push under way, 2 moves | `TypeOK`, `TimerFollowsRun`, `ShownIsTrue` |
| `review_live` | the same with 2 candidates, 2 polls, 2 pushes, 1 move, `FairSpec` | `EndIsReached`, `LoadingEnds` |
| `slot` | 2 requests, no or 3 candidates in batches of 2, progress updates of one of the requests, exceptions, 1 restart, `FairSpec` | the safety properties of `JobsWorkflow`, `SlotSpec` (the refinement of `WorkflowSlot`), `RequestEnds` |
| `page` | 2 workflows, one clicked and one of another tab, pushes, 2 polls, 1 lost poll, 1 reload, exceptions | `PageTypeOK`, `NothingIsLeftOver` |
| `page_live` | 1 click, 1 workflow of another tab, 1 reload, 1 lost poll, `PageFairSpec` | `TrackingEnds` |
| `rows` | 3 jobs (2 stored at first), chunks of 1, 2 requests, 3 moves | `TypeOK`, `ButtonsAreTrue`, `FiguresAreTrue`, `RowsAreTheFirst`, `ScoreKept` |
| `session` | 2 imports, a delay of 2 ticks with a jitter of 1, 1 read under way, 4 moves | `TypeOK`, `RejectedIsNotUsed`, `RecoveryIsOffered`, `RequestsAreSpaced` |
| `settings` | 2 tabs, 2 texts and a short one, 2 lookups per tab, 7 moves | `TypeOK`, `PlaceIsNamed`, `CachedKeyIsStored`, `NoLostUpdate`, `SuggestionsAdvance` |
| `users` | 2 tabs, 3 user names (2 users at first, 3 at most), 2 names, 1 day, 1 row per page, 4 moves | `TypeOK`, `ShownIsStored`, `PageInRange`, `DeletedOnce` |
| `import` | 2 imports, 4 moves | `FailedImportKeepsSession` is violated: see section 5 |

*Why the bounds are enough.* In `ShortlistRun` two requests give every pairwise
race (executor and executor, executor and stop, executor and recovery, start and
recovery); two jobs give a checkpoint in the middle of a run; one restart
separates two executions, and a run can be resumed any number of times without
one. In `JobsWorkflow` the two requests race for the slot, and three candidates
in batches of two give a full batch, a cut one and a stop between them. In
`JobsPage` two workflows and two polls give the tab a tracking of its own and,
refused the slot, one of the workflow it attaches to, so that two loops share
the one timer; stage progress and restarts are left to run `slot`, since a
restart brings the page nothing but a 404 and a failed answer, both of which
occur without one, and `NothingLeftOver` is proved with them.
In `LiveReviewPage` two runs let an answer about one arrive while the other is
shown, and two moves are a click and what disturbs it (a second click, another
tab, a lost answer, a broken connection, a restart). In `JobRows` three jobs in
chunks of one make an offset that an import shifts; two requests and the batch
make three writers of one row; three moves are a click, a reload and an import,
or any such three. In `LinkedInSession` two snapshots are an old session and its
replacement, three callers run at once, and four moves reach an import, a
rejection of the old session, and a fault between the two. In `SettingsForms`
seven moves are two loads, two edits and two saves with one fault left over; two
lookups overtake each other. In `AdminUsers` one row per page makes every
deletion and creation move the pages, and four moves let two tabs both edit and
save a row, or one edit, save and delete it. The theorems of section 4 hold for all sizes.

`CHECK_DEADLOCK FALSE` is set where the system really stops: when all moves are
used up and nothing is under way.

Properties of `ShortlistRun`:

* `DecisionsRecorded`, `CheckpointInSnapshot`: whatever overlaps.
* `SoleExecutorIsExact`, of a run that never had two executors at once
  (`~overlapped`), through failures, stops, recoveries and restarts:
  `CheckpointExact` (the candidates before the checkpoint are the decided ones),
  `TotalsExact` (the counts are those of the items), `CompletedIsReviewed`,
  `StopsAtCheckpoint`. With two executors they do fail: an executor that is
  behind writes its own counters over the row.
* `DecisionsFinal`: no decision is undone, and without an overlap none changed.
* `ExecutionEnds`: every execution ends.

Properties of `LiveReviewPage`:

* `TimerFollowsRun`: a page that shows a run and polls shows it as active and
  polls that run; every place that shows another run has to move or stop the
  timer. The exception is a page that forgot its run while the timer was on: the
  start handler and the "no run" answer of `loadLatest` leave the timer alone,
  so that, when the start request is then lost, the page takes to the run of the
  next pushed event and goes on polling the earlier one.
* `ShownIsTrue`: `ItemsOfRun` (only decisions of the shown run, each saved) and
  `OverIsTrue` (a run shown as over was over at some time). The converse does
  not hold: the event about a stop request is published after the save, may
  come after the end, and shows the run as running again.
* `EndIsReached`, `LoadingEnds`: a page that polls a run comes to know its end,
  and the page leaves its initial synchronisation, under `FairSpec`.

Properties of `JobsWorkflow`:

* `SlotIsExclusive`: `WorkingHoldsSlot` (whoever works has the slot) and
  `SlotIsHeld` (whoever has the slot still runs). Together: no two workflows at
  once, and none locked out for good.
* `EndIsLast`: pages stop reading at an update that ends a workflow, so nothing
  may follow it.
* `StopsWithinBatch`, `WithinTotal`, `SuccessCoversCandidates`: the arithmetic
  of the batch loop against stop requests and a changing database.
* `SlotSpec`: every step is one of `WorkflowSlot` or leaves its variables alone.
* `RequestEnds`: every request that arrives is answered or cut off.

Properties of `JobsPage`:

* `NothingIsLeftOver`: `PollingWhileTracked` (the script keeps one timer for
  possibly several loops and clears it when a tracking begins or ends; no
  interleaving leaves a tracked workflow without a loop) and `SubmittingIsWork`
  (`isSubmitting` is cleared in one place; each way through the handler gets
  there, or leaves the page).
* `TrackingEnds`: a tab with the end of its workflow still to read comes to stop
  tracking it, when workflows end with an update (`Faults = FALSE`).

Properties of `JobRows`:

* `ScoreKept`: nobody replaces a score; only the row version keeps a request
  that read before another saved from doing so.
* `ButtonsAreTrue`: a busy button belongs to a request under way, a done one to
  a stored score, also when a row is loaded a second time while it is scored.
* `FiguresAreTrue`: the figures count no more than what is stored, but for jobs
  scored between the two reads of a rendering and for rows loaded twice: an
  answer is added to them whether they contain it or not.
* `RowsAreTheFirst`: over an unchanged list without ties the chunks are its first
  rows, without gap or repetition, and the sentinel goes on behind them. Over a
  list that an import or a score has reordered they need not be.

Properties of `LinkedInSession`:

* `RejectedIsNotUsed`: a snapshot whose 401 has been dealt with is not stored as
  active again, whichever of import, invalidation and verification comes last.
* `RecoveryIsOffered`: whenever the tab was last told that there is no usable
  session, the dialog shows the form to import one.
* `RequestsAreSpaced`: requests pass the gate at least the minimum delay apart,
  also when callers give up while they wait or hold the gate.

Properties of `SettingsForms`:

* `NoLostUpdate`: no save overwrites a version its tab has not seen.
* `PlaceIsNamed`: an id never stands beside the name of another place.
* `SuggestionsAdvance`: the suggestions never go back to an earlier lookup's.
* `CachedKeyIsStored`: the key in memory is the one in the file, unless a write
  was cut off.

Properties of `AdminUsers`:

* `ShownIsStored`: what a row shows was stored at some time, field by field.
* `PageInRange`: the page number is one of the pages there are.
* `DeletedOnce`: `OneDeletion` (a row asked about or being deleted is in the
  table, and no row being deleted is asked about, although the flags are not
  looked at again after the confirmation) and `QuestionIsOpen` (a question
  somebody waits for is on the screen or about to be answered, also when the
  event of an earlier question's modal comes late). That a row is not saved
  while it is being deleted does not hold: see section 5.

*Fairness.* In `ShortlistRun`, `FairSpec` is weak fairness of `Step(t)`: a
request that has begun keeps going, as the server's scheduler does (requests
are not tied to the browser's connection). No fairness is assumed of requests
arriving, of faults or of restarts. The remote calls are assumed to answer: the
gateway's HTTP client has a timeout. In `JobsWorkflow`, `FairSpec` is weak
fairness of what the server does with a request it has received: the executor
runs the workflow with `CancellationToken.None` and the store's own token, so a
closed page does not end it, and the LinkedIn client has a timeout. Stop
requests, exceptions and restarts stay optional. `PageFairSpec` adds that a
request sent arrives, that timers fire, that answers and pushes reach the tab
and that a scheduled navigation happens: what a browser with a working
connection does. In `LiveReviewPage`, `FairSpec` is weak fairness of `Works`
(the server's steps, the page's handlers, pushes, reconnection), of the timer,
and of polls being read and applied, each apart from the others, since a timer
that keeps firing would otherwise do for all of them. Clicks, other tabs and
faults have none.

Every property of a passing run has a mutant, a small plausible bug in a mapped
definition (stated in the module just before the definition it replaces) under
which TLC finds the property violated.

## 4. Proofs

`ShortlistRunProofs` proves, for all constants satisfying
`ConstantsAssumption` (a finite set of jobs, natural bounds):

* `TypeCorrect`: `Spec => []TypeOK`,
* `Recorded`: `Spec => []DecisionsRecorded`,
* `InSnapshot`: `Spec => []CheckpointInSnapshot`,
* all from `Invariance`: `Spec => [](TypeOK /\ RowsInv /\ TasksInv)`;
* `SoleExecutor`: `Spec => []SoleExecutorIsExact`, and
* `Final`: `Spec => DecisionsFinal`, from `SoleInvariance`, which adds
  `TraceInv /\ SoleInv`.

`CheckpointInSnapshot` and `DecisionsRecorded` are not inductive: a save
depends on what the request read long before. `RowsInv` adds that the sequence
numbers of a run number its candidates 1..CandidateCount without gaps, that an
absent run has the initial row and that ranks stay within the count;
`TasksInv` says that what each request holds in memory fits the rows it was
read from: its loaded row has the same count, a checkpoint ahead of its
counter, a candidate at or after that checkpoint, and a found item is still
there. Because every column of `SaveRun` is either the row's or the request's,
and both satisfy the same bounds, each mixture would seem to satisfy them; it
does only since `processed` and `next` always change together, which is the
core of the lemma about `SaveRun`.

The proof has one step per action. Type correctness is proved first, then
`RowsInv` and `TasksInv` together.

What holds of a run with one executor at a time rests on `SoleInv`: of a run
that never had two (`~overlapped`), the row says the same as candidates and items
(`ExactRow`), it has at most one executor, and each request that has loaded the
row knows of it what `SnapFits` says. A request may load the row and wait, before
its loop or in it, while others execute the run and end: until its checkpoint
it only knows of no more than has been processed. The checkpoint reloads the row,
so from there to the save loaded row and stored row agree in every column
that counts, the candidate in hand is the one the checkpoint names, and
nothing has been decided since a stop was asked for; the save then adds one
decision to row, candidate and item, in one transaction. Recoveries and stop
requests write other columns. `overlapped` is set by whatever makes a second
executor, so every step of a run that is still not overlapped is one by its
only executor or leaves its counts alone. The totals are cardinalities over
items; a lemma each says what one more item does to them.

`JobsWorkflowProofs` proves, for every number of requests and candidates and
every batch size:

* `TypeCorrect`, `SlotExclusive` (`SlotIsExclusive`), `StopIsPrompt`
  (`StopsWithinBatch`), `SuccessIsComplete` (`SuccessCoversCandidates`),
  `NoneTooMany` (`WithinTotal`),
* `EndStays` (`EndIsLast`),
* `ImplementsSlot`: `Spec => SlotSpec`, the refinement of `WorkflowSlot`,
* all from `Invariance`: `Spec => []Inv`.

`Inv` is `TypeOK`, `SlotInv`, and for each request `ListInv`, `BatchInv` and
`StopInv`. `SlotInv` adds to the two properties which requests were accepted,
which the refinement needs to know that a workflow taking the slot never had it
before. `ListInv`: a working request has not published an end, and one not yet
registered has an empty list. `BatchInv`: nothing is tried before the loop, an
answer exists only at the end, and a loop left without a stop and without an
empty batch has covered the total. `StopInv`: a stop seen before a batch begins
leaves the count where it was, which is why one batch at most comes on top.
Each of the three is preserved request by request, so the proofs have one lemma
per part and one step per action; the refinement shows that `Register` is
`Take`, that a release by the holder (or a restart) is `GiveBack`, and that
every other step leaves both abstract variables alone.

`JobRowsProofs` proves, for every finite set of jobs, every set of requests and
every page size:

* `TypeCorrect` (`TypeOK`, with its count of the requests of the page),
  `ScoreIsKept` (`ScoreKept`), `ButtonsAlwaysTrue` (`ButtonsAreTrue`), from
  `Invariance`: `Spec => []Inv`,
* `FiguresAlwaysTrue` (`FiguresAreTrue`), `RowsAlwaysTheFirst`
  (`RowsAreTheFirst`), from `FiguresInvariance`, two invariants that rest on
  `Inv`.

`Inv` is `Types`, `ThereInv`, `ActiveInv`, `ScoresInv` and `RowsInv`. `ScoreKept`
needs `ScoresInv`: whoever read version v of a job found it without a score, so
that a save whose version still matches finds none either. That is inductive
because every writer raises the version, imports included. `ActiveInv` says
that an active job has exactly one request of the page: the count in `TypeOK`
follows from it, and so does that an answer makes idle the buttons of its own
job only. `RowsInv` says that each row, shown or under way in a chunk, is busy
with an active job or done with the stored score; it rests on `ThereInv` (what
is rendered or scored is in the table) and on scores being kept.

`FiguresInv` says of each figure that it is *covered*: a scored job without a
row counts once; one with rows as often as it has rows, but once less while one
of them is not done, because that one may still be clicked and answered, which
counts the job again. The last part is what makes the bound of `FiguresAreTrue`
inductive: a row that is loaded brings one to the bound, and an answer, which
adds one to the figure, leaves no row of its job that is not done. The lemmas
about `Covered` say what each change of the rows does to it; `PageKinds` sorts
the steps by what they do to the page, so that each kind is looked at once.
`FirstInv` extends `RowsAreTheFirst` to the rows under way: over a list without
ties they are those that follow the rows shown, because there is only one way
to order it (`OneOrder`: two orders that differ do so at a first place, and the
two jobs there are out of order in one of them).

`LinkedInSessionProofs` proves, for every number of imports, reads and moves and
every delay and jitter:

* `TypeCorrect` (`TypeOK`), `RejectedNeverUsed` (`RejectedIsNotUsed`),
  `RecoveryAlwaysOffered` (`RecoveryIsOffered`), `RequestsSpaced`
  (`RequestsAreSpaced`),
* all from `Invariance`: `Spec => []Inv`.

`Inv` adds six parts to `TypeOK` and `RejectedIsNotUsed`. `StepInv` says what a
call's step tells of the rest of it; in particular that, when a rejection with
401 is about to be noted, its snapshot is no longer in use: the client first
makes the session inactive, and a snapshot once replaced does not come back.
That is `FreshInv`, the core of the argument: the snapshot of an import that has
not been stored is nobody else's, is not the stored one and has not been
rejected, so the one step that makes a session active, `SaveRow`, cannot bring
back a rejected one, and the step that notes a rejection cannot hit a snapshot
about to be stored. `Numbered` gives a new import a number nobody has.
`SpaceInv`, that the ticks since the last request and those until the next
allowed one add up to the minimum delay at least, makes `RequestsAreSpaced` a
statement about one step. `ViewInv` ties the visible panel to what was told
last, `RefusedInv` the reads of a refused action to the action that waits for
them: without it, such a read could end another action, and the busy flag would
no longer match the call. The steps are grouped by what they do to the calls
(`Kinds`: begin, import, go on, end, restart, nothing), so that each part of the
invariant is proved once per group.

`SettingsFormsProofs` proves, for every set of tabs and texts and every number
of moves and lookups:

* `TypeCorrect` (`TypeOK`), `UpdatesAreKept` (`NoLostUpdate`), `PlacesAreNamed`
  (`PlaceIsNamed`), `SuggestionsGoForward` (`SuggestionsAdvance`), `KeyIsStored`
  (`CachedKeyIsStored`),
* all from `Invariance`: `Spec => []Inv`.

`Inv` adds to `TypeOK` and `CachedKeyIsStored`, for each tab: `Sending` (a save
under way has a form, so that it meets a row), `KnownInv` (the version in the
form, and the one under way, were shown to the tab or written by it; the answer
of a save is what keeps this true), `OptionsInv` (only a search form that is
shown has suggestions or lookups under way, so that a late suggestion cannot
fill another form), `PlaceInv` (places go with their names in the form and in
what was sent) and `ShownInv` (no suggestions of a lookup that was not sent);
and for each row `RowInv`: a row without a version has not been saved, and its
place is named. `NoLostUpdate` then is a statement about `Commit` alone, the one
step that changes a saved row: the version it overwrites is the token sent,
which `KnownInv` says the tab knows. The insert of a first row is no save, by
`RowInv`.

`LiveReviewPageProofs` proves, for every set of runs and every number of
candidates, polls, pushes and moves:

* `TypeCorrect` (`TypeOK`), `Truth` (`ShownIsTrue`), `Timer`
  (`TimerFollowsRun`),
* all from `Invariance`: `Spec => []Inv`.

`ShownIsTrue` is not inductive: the page believes what reaches it. `Inv` says
that all there is to believe is true: events in the store or still to be
published (`ServerInv`), snapshots on their way to a handler (`HandlersInv`),
polls and pushes, which are about events in the store (`TransitInv`). What
is true of a run stays true: a row's decisions only grow in number, and a run
that was over was over (`Grows`). So nothing that arrives late can be false, and
the lemmas about the page's functions say that they show what they are given
of the run they show (`ShownTrue`). `CommandsInv` gives each answer one handler
that waits for it, so that an answer cannot be taken for another one's. The timer's
part of `ShownTrue` is where the proof first failed: an earlier statement of
`TimerFollowsRun` was made of every page without a start command under way,
and TLC, given more moves than the run has, showed the page described above that
forgets its run.

`AdminUsersProofs` proves, for every number of tabs, users and moves and every
page size:

* `TypeCorrect` (`TypeOK`, with: no tab shows a user twice), `ShownWasStored`
  (`ShownIsStored`), `PageExists` (`PageInRange`), `DeletionOnce`
  (`DeletedOnce`),
* all from `Invariance`: `Spec => []Inv`.

`Inv` adds two parts to these. `RowsInv` says field by field what a row and its
save may hold. What a row shows was stored, and so was what its save has
read; for what the save has *sent* this becomes true little by little. The service
writes the columns that differ from what it read, so that after the profile has been
served, name and day that were sent are stored: written now, or equal to what
was read. So they are for a toggle that comes first, whose name and day are the
baseline's, or the one that follows the profile. Only then is
the activation stored, and what was sent becomes what is shown. `StoredInv` ties the
history to the table, and a created user to it. `DeletedOnce` is
inductive beside them. A question is put about a visible row that is not being
deleted, and only when no other is open; a row comes to be deleted only by
the confirmation, which ends the question; and a row leaves the table only by
the end of its deletion, when no question is about it. So it is the single
pending question, not the modal, that keeps a row from being deleted twice, and the
argument does not depend on when the page is reachable. `ListedOK` is the part
of it that relates the rows and the questions to the tables.
`QuestionIsOpen` needs one look at each phase: a modal is closed only by the
`hidden` event, which answers whatever is pending, and a question put while it is
on its way shows the modal again.
The invariant is split once more, by the part of the state (table, pages, rows,
confirmations, forms); for each part a lemma says that a step that leaves it
alone, or changes one entry of it, keeps it.

`JobsPageProofs` proves, for every number of workflows, polls, losses and
reloads:

* `PageTypeCorrect` (`PageTypeOK`) and `NothingLeftOver` (`NothingIsLeftOver`),
  both from `PageInvariance`: `PageSpec => []PageInv`;
* `ServerIsTheWorkflow`: `PageSpec => Spec`, the composition is a behaviour of
  `JobsWorkflow`, so that `SlotExclusiveBesidePage` (`SlotIsExclusive`) and the
  other safety theorems carry over to it.

`NothingIsLeftOver` is inductive with types and one fact about the server,
`BusyNamesHolder`: a request that was refused the slot names its holder, without
which a page could attach to nothing. The proof is about the functions of the
script: `GoodPages` is the set of pages that leave nothing over, and `Begin`,
`Apply`, `ApplyAll`, `Reset`, `Rearm` and `SetPoll` each map it into itself,
whatever the update or the answer is about. That needs one look at each way in
which a loop of polls could come to an end: only a poll whose timer fires with
nothing tracked does, `stopPolling` clears none but a poll that waits for its
timer, and whoever calls it resets the tracking or begins one, with a poll of its
own. `ApplyAll` is a fold over a list of any length; the prover has no induction
with a predicate as parameter, so its lemma takes the first position at which
the fold would leave the set, by the least member of a set of naturals.

*Only model-checked.* Liveness everywhere (`ExecutionEnds`, `RequestEnds`,
`TrackingEnds`, `EndIsReached`, `LoadingEnds`): fairness and `ENABLED` are
beyond the prover. What a fold computes is not proved anywhere, only what it
stays in.

## 5. Where documentation and code differ

1. Run `import`, `FailedImportKeepsSession`. The test
   `ImportAsyncDoesNotOverwriteStoredSessionWhenVerificationFails` states that an
   import LinkedIn rejects leaves the stored session alone; its API client is a
   fake. The real client (`LinkedIn/Api/LinkedInApiClient.cs:141`) answers every
   401 by making the stored session inactive, also when the request was the
   verification of a pasted one. Trace: a session is stored and active; an
   import is sent to LinkedIn with the new snapshot; 401; `InvalidateCurrentAsync`
   finds the old session active and makes it inactive.

The following properties are stated in the modules and hold neither in them nor
in the code; no run asks about them. Each trace is a few steps.

2. `OneExecutorPerRun` (`ShortlistRun`): the runbook
   (`docs/operations/runbooks/ai-global-shortlist-operations.md:59`) promises
   strictly sequential processing; `ResumeAsync` does not look for a live
   executor. Trace: start, then resume of the run that executes.
3. `OneActiveRun` (`ShortlistRun`): the check in `GenerateAsync` and the insert
   are several awaits apart and no index backs them. Trace: two start requests
   both check before either inserts.
4. `CancelTakesEffect` (`ShortlistRun`): a run whose readiness probe fails after
   the insert stays Pending; a stop request sets its flag, nobody acts on it,
   and the recovery skips it, since it has an entry in the progress store, until
   the process restarts.
5. `TrackingKept` (`JobsPage`): the page asks for the progress of a workflow
   before it asks for the workflow (`jobs-page.js:740`). Trace: click, poll
   served with 404 before the request registers; the page resets its tracking
   (line 671) before it gets to its own tolerance for a workflow that is not
   there yet (line 681). The same reset, arriving late for a refused id, ends
   the tracking of the workflow the tab has attached to.
6. `TrackingEnds` with `Faults = TRUE` (`JobsPage`): an exception in
   `RunFetchAndScoreAsync` other than a cancellation publishes nothing. Trace: a
   tab attaches to another tab's workflow, which throws; it polls an entry that
   never changes.

7. `OnePostPerRow` (`AdminUsers`): a row is saved and deleted at once, although
   its listeners refuse the one while the other is under way. Trace: edit a row,
   press its delete button, go back to its save button with the keyboard while
   the modal fades in and press it, confirm. `deleteUserRow` does not look at
   `saving` after the confirmation (`admin-users-page.js:883`). A save that read
   the user before the deletion is then stored after it: the deleted user's row
   may end as active.

What the models show beside that: the `hidden` event of one deletion's question
answers with no a question put while its backdrop fades (`admin-users-page.js:237`);
 a poll answer from before the end, applied
with nothing tracked, shows the jobs page busy again (`jobs-page.js:572`); the
session dialog keeps showing the panel for replacing after an import made from
it, although it no longer replaces (`session-modal.js`); the figures of the jobs
page count a job twice that is scored between the two reads of a rendering; the
live review page polls an earlier run beside the one it shows, after a start
that was lost (`TimerFollowsRun` in section 3).

## 6. Not modelled

* LinkedIn search paging and the reconciliation of imports: one sequential loop
  whose stop rules depend on the content of LinkedIn's pages and keep no state
  anybody else sees; unit tests cover them. `JobRows!Import` has their effect.
* Enrichment inside a batch: selection, parsing and the save of every ten jobs.
  `JobsWorkflow` has what a batch returns, `JobRows!Rewrite` what it writes.
* Prompt building, answer parsing and retry delays of the OpenAI gateway, the
  parser of copied cURL commands, header building: text transformations.
* Sign-in and seeding: one read of one row, and code that runs before the
  server takes requests.
* View models, validation texts, toasts, theme, navigation, diagnostics,
  logging, middleware, composition and the repository's scripts: no state that
  another part reads.
* A second click of a button of the live review page whose handler still waits for
  the SignalR connection: `LiveReviewPage` has one handler per button.
* Retries of LinkedIn requests behind the gate (`MaxRetryAttempts`, 0 by default).
* Expiry dates of sessions: data no modelled step branches on.

## 7. What could follow

The save of every ten jobs in the enrichment, as writes of their own in
`JobRows`.
