------------------------------ MODULE JobRows ------------------------------
(***************************************************************************)
(* The job list of the dashboard (the last two scripts of jobs-page.js)     *)
(* beside what it shows: rows are loaded chunk by chunk at an offset into a *)
(* list that imports reorder, jobs are scored one by one from their rows,   *)
(* and the figures above the list are kept up to date by adding what each   *)
(* answer says.  Other requests and the batch score and change the same     *)
(* jobs: a row version tells a stale writer.                                *)
(*                                                                          *)
(* A score is 0 while a job has none, 1, or Strong for a "StrongMatch".     *)
(*                                                                          *)
(* Left out: the text of summaries and signals, toasts, the expand button   *)
(* of a row, the filters and orders other than "only unscored" and the      *)
(* order of the last time a job was seen.                                   *)
(***************************************************************************)
EXTENDS Integers, Sequences, FiniteSets, SequencesExt

CONSTANTS
    Jobs,      \* jobs LinkedIn may offer
    PageSize,  \* JobsPageSize
    Present,   \* how many jobs are stored at first
    Requests,  \* requests to score one job, from this page or another
    Nothing,   \* no job
    MaxMoves   \* clicks, reloads, imports, writes and faults (a bound)

ASSUME RowsAssumption ==
    /\ IsFiniteSet(Jobs) /\ Nothing \notin Jobs
    /\ PageSize \in Nat \ {0} /\ MaxMoves \in Nat
    /\ Present \in 0 .. Cardinality(Jobs)

VARIABLES
    stored,   \* the user's rows of the table Jobs
    onlyUnscored, \* the filter of the page
    page,     \* the page in the browser
    pending,  \* sessionStorage: jobs.pendingScoreRequests
    work,     \* requests to score a job
    batch,    \* the batch of ScoreReadyJobsAsync
    used,     \* how many of MaxMoves have been made
    moved,    \* history: the list has changed since the page was rendered
    torn      \* history: jobs scored between the two reads of a rendering

vars == <<stored, onlyUnscored, page, pending, work, batch, used, moved, torn>>

-----------------------------------------------------------------------------
(* Types *)

Strong == 2
Score == 0 .. Strong
Job == [there : BOOLEAN, described : BOOLEAN, seen : Nat, score : Score, version : Nat]

\* A row of the page: its score button and the label it shows.
Row == [job : Jobs, button : {"idle", "busy", "done"}, label : Score]

\* rows: those shown, once pc is "shown"; next: the offset in the sentinel's
\* link, -1 without a sentinel; load: the request for it, whose answer is
\* `chunk'; the figures; active: activeScoreRequests.
Page == [pc : {"rows", "shown"}, rows : Seq(Row), next : Nat \cup {-1},
         load : {"no", "asked", "served"}, chunk : Seq(Row), more : BOOLEAN,
         scored : Nat, strong : Nat, unscored : Nat, active : SUBSET Jobs]

\* A request: the row version it read, the score it has, the label that the
\* page showed when it was sent, and whether this page awaits the answer.
Work == [pc : {"off", "sent", "scoring", "saving", "answered"},
         job : Jobs \cup {Nothing}, version : Nat, score : Score,
         before : Score, mine : BOOLEAN]

Off == [pc |-> "off", job |-> Nothing, version |-> 0, score |-> 0, before |-> 0,
        mine |-> FALSE]

\* The jobs of the batch with the versions that were read, and their scores.
Batch == [pc : {"off", "scoring", "saving"}, version : [Jobs -> Nat],
          jobs : SUBSET Jobs, score : [Jobs -> Score]]

NoBatch == [pc |-> "off", version |-> [j \in Jobs |-> 0], jobs |-> {},
            score |-> [j \in Jobs |-> 0]]

\* Every part of the state has its type, one request of the page is under way
\* for each job that the page counts as active, and for no other.
TypeOK ==
    /\ stored \in [Jobs -> Job]
    /\ onlyUnscored \in BOOLEAN
    /\ page \in Page
    /\ pending \in SUBSET Jobs
    /\ work \in [Requests -> Work]
    /\ batch \in Batch
    /\ used \in 0 .. MaxMoves
    /\ \A j \in Jobs :
          Cardinality({i \in Requests : work[i].mine /\ work[i].job = j}) =
              IF j \in page.active THEN 1 ELSE 0

-----------------------------------------------------------------------------
(* The list *)

Scored == {j \in Jobs : stored[j].score # 0}
StrongMatches == {j \in Jobs : stored[j].score = Strong}

\* ApplyFilters
Listed == {j \in Jobs : stored[j].there /\ (onlyUnscored => stored[j].score = 0)}

\* ApplySorting: last seen first, then the better score; jobs of one import
\* were seen at the same time.
Above == {p \in Listed \X Listed :
             LET a == stored[p[1]]  b == stored[p[2]]
             IN a.seen > b.seen \/ (a.seen = b.seen /\ a.score > b.score)}

\* The orders in which the database may list the jobs.
Orders == {o \in SetToSeqs(Listed) :
              \A i, k \in DOMAIN o : i < k => <<o[k], o[i]>> \notin Above}

\* _JobRows.cshtml
Rendered(j) == [job |-> j, button |-> IF stored[j].score # 0 THEN "done" ELSE "idle",
                label |-> stored[j].score]

\* GetRowsChunkAsync
ChunkRows(o, offset) ==
    [i \in 1 .. (IF Len(o) < offset + PageSize THEN Len(o) ELSE offset + PageSize) - offset
        |-> Rendered(o[offset + i])]
HasMore(o, offset) == Len(o) > offset + PageSize

\* Writers keep the history up to date.
Noted ==
    /\ moved' = (moved \/ Listed' # Listed \/ Above' # Above)
    /\ torn' = IF page.pc = "rows" THEN torn \cup (Scored' \ Scored) ELSE torn

Counted == used < MaxMoves /\ used' = used + 1
Goes == used' = used

-----------------------------------------------------------------------------
(* The page *)

Blank == [pc |-> "rows", rows |-> <<>>, next |-> -1, load |-> "no", chunk |-> <<>>,
          more |-> FALSE, scored |-> 0, strong |-> 0, unscored |-> 0, active |-> {}]

\* GetSnapshotAsync reads the first rows ...
Rendering(o) == [Blank EXCEPT !.rows = ChunkRows(o, 0),
                              !.next = IF HasMore(o, 0) THEN PageSize ELSE -1]

\* Some jobs are stored, found by one import or by several.
Init ==
    /\ \E J \in SUBSET Jobs :
          /\ Cardinality(J) = Present
          /\ \E seen \in [Jobs -> 0 .. Present] :
                /\ \A j \in Jobs \ J : seen[j] = 0
                /\ \/ \A j \in J : seen[j] = 1
                   \/ \A a, b \in J : seen[a] # 0 /\ (seen[a] = seen[b] => a = b)
                /\ stored = [j \in Jobs |->
                       [there |-> j \in J, described |-> j \in J, seen |-> seen[j],
                        score |-> 0, version |-> 0]]
    /\ onlyUnscored \in BOOLEAN
    /\ \E o \in Orders : page = Rendering(o)
    /\ pending = {}
    /\ work = [i \in Requests |-> Off]
    /\ batch = NoBatch
    /\ used = 0 /\ moved = FALSE /\ torn = {}

CopiesOf(rows, j) == {k \in DOMAIN rows : rows[k].job = j}

\* setScoreButtonState of all buttons of some jobs
WithBusy(rows, J) ==
    [k \in DOMAIN rows |-> IF rows[k].job \in J THEN [rows[k] EXCEPT !.button = "busy"]
                           ELSE rows[k]]

\* The loops that make a job's buttons idle leave those that are done.
WithIdle(rows, j) ==
    [k \in DOMAIN rows |-> IF rows[k].job = j /\ rows[k].button # "done"
                           THEN [rows[k] EXCEPT !.button = "idle"] ELSE rows[k]]

\* Mutants of Updated: only the first row of the job is updated; the buttons
\* can be pressed again.
UpdatedFirst(rows, j, score) ==
    [k \in DOMAIN rows |->
        IF rows[k].job = j /\ \A n \in CopiesOf(rows, j) : k <= n
        THEN [rows[k] EXCEPT !.label = score, !.button = "done"] ELSE rows[k]]
UpdatedIdle(rows, j, score) ==
    [k \in DOMAIN rows |-> IF rows[k].job = j
                           THEN [rows[k] EXCEPT !.label = score, !.button = "idle"]
                           ELSE rows[k]]

\* updateJobUi
Updated(rows, j, score) ==
    [k \in DOMAIN rows |-> IF rows[k].job = j
                           THEN [rows[k] EXCEPT !.label = score, !.button = "done"]
                           ELSE rows[k]]

\* submitScore returns early for these.
Settled(pg, k) == pg.rows[k].button = "done" \/ pg.rows[k].job \in pg.active

\* existingLabel: that of the first row of the job.
ShownLabel(pg, j) ==
    pg.rows[CHOOSE k \in CopiesOf(pg.rows, j) :
               \A n \in CopiesOf(pg.rows, j) : k <= n].label

Submitted(pg, J) == [pg EXCEPT !.active = @ \cup J, !.rows = WithBusy(@, J)]

Request(pg, j) == [Off EXCEPT !.pc = "sent", !.job = j, !.mine = TRUE,
                              !.before = ShownLabel(pg, j)]

\* The user presses the score button of a row.  A second copy of a row, loaded
\* while the job is being scored, has a button of its own.
Click(k) ==
    /\ page.pc = "shown" /\ Counted
    /\ k \in DOMAIN page.rows /\ page.rows[k].button = "idle"
    /\ LET j == page.rows[k].job
       IN \/ /\ Settled(page, k)
             /\ pending' = pending \ {j}
             /\ UNCHANGED <<page, work>>
          \/ /\ ~Settled(page, k)
             /\ page' = Submitted(page, {j})
             /\ pending' = pending \cup {j}
             /\ \E i \in Requests : /\ work[i].pc = "off"
                                    /\ work' = [work EXCEPT ![i] = Request(page, j)]
    /\ UNCHANGED <<stored, onlyUnscored, batch, moved, torn>>

\* ... and then the figures.  The page is shown and the requests the last page
\* left pending are sent again, but those over five minutes old (old).
Figures(pg) == [pg EXCEPT !.pc = "shown", !.scored = Cardinality(Scored),
                          !.strong = Cardinality(StrongMatches),
                          !.unscored = Cardinality({j \in Jobs : stored[j].there})
                                       - Cardinality(Scored)]

Restored(rows, old) == {j \in pending \ old : \E k \in CopiesOf(rows, j) : TRUE}

Show ==
    /\ page.pc = "rows"
    /\ \E old \in SUBSET pending :
          LET found == Restored(page.rows, old)
              again == {j \in found : \E k \in CopiesOf(page.rows, j) : ~Settled(page, k)}
          IN /\ page' = Submitted(Figures(page), again)
             /\ pending' = pending \ (old \cup (found \ again))
             /\ \E f \in [again -> {i \in Requests : work[i].pc = "off"}] :
                   /\ \A a, b \in again : f[a] = f[b] => a = b
                   /\ work' = [i \in Requests |->
                                  IF \E j \in again : f[j] = i
                                  THEN Request(page, CHOOSE j \in again : f[j] = i)
                                  ELSE work[i]]
    /\ Goes /\ UNCHANGED <<stored, onlyUnscored, batch, moved, torn>>

\* The user opens the page again, with either filter: the requests of the old
\* page go on without it, or have not reached the server.
Reload ==
    /\ Counted
    /\ UNCHANGED <<stored, pending, batch>>
    /\ onlyUnscored' \in BOOLEAN
    /\ \E o \in Orders' : page' = Rendering(o)
    /\ \E lost \in SUBSET {i \in Requests : work[i].mine} :
          work' = [i \in Requests |->
                      IF i \in lost \/ (work[i].mine /\ work[i].pc = "answered") THEN Off
                      ELSE [work[i] EXCEPT !.mine = FALSE]]
    /\ moved' = FALSE /\ torn' = {}

\* applyDashboardStatsDelta
Added(pg, score, before) ==
    IF score = 0 THEN pg
    ELSE [pg EXCEPT !.scored = @ + 1,
                    !.unscored = IF @ = 0 THEN 0 ELSE @ - 1,
                    !.strong = CASE before # Strong /\ score = Strong -> @ + 1
                                 [] before = Strong /\ score # Strong /\ @ > 0 -> @ - 1
                                 [] OTHER -> @]

\* Mutant of Applied: the request stays active.
AppliedActive(pg, j, score, before) ==
    LET counted == Added(pg, score, before)
    IN [counted EXCEPT !.rows = IF score = 0 THEN WithIdle(@, j) ELSE Updated(@, j, score)]

\* What submitScore does with an answer that carries a score, or none (0).
Applied(pg, j, score, before) ==
    LET counted == Added(pg, score, before)
    IN [counted EXCEPT !.rows = IF score = 0 THEN WithIdle(@, j) ELSE Updated(@, j, score),
                       !.active = @ \ {j}]

AnswerArrives(i) ==
    LET r == work[i]
    IN /\ r.mine /\ r.pc = "answered"
       /\ page' = Applied(page, r.job, r.score, r.before)
       /\ pending' = pending \ {r.job}
       /\ work' = [work EXCEPT ![i] = Off]
       /\ Goes /\ UNCHANGED <<stored, onlyUnscored, batch, moved, torn>>

\* The connection breaks, or the answer is not JSON: the request may go on.
AnswerLost(i) ==
    LET r == work[i]
    IN /\ r.mine /\ Counted
       /\ page' = Applied(page, r.job, 0, 0)
       /\ pending' = pending \ {r.job}
       /\ \/ work' = [work EXCEPT ![i] = Off]
          \/ r.pc # "answered" /\ work' = [work EXCEPT ![i].mine = FALSE]
       /\ UNCHANGED <<stored, onlyUnscored, batch, moved, torn>>

-----------------------------------------------------------------------------
(* The rows below *)

\* The sentinel comes into view or its button is pressed.
LoadNextRows ==
    /\ page.pc = "shown" /\ page.next # -1 /\ page.load = "no"
    /\ page' = [page EXCEPT !.load = "asked"]
    /\ Goes /\ UNCHANGED <<stored, onlyUnscored, pending, work, batch, moved, torn>>

ServeRows ==
    /\ page.load = "asked"
    /\ \E o \in Orders :
          page' = [page EXCEPT !.load = "served", !.chunk = ChunkRows(o, page.next),
                               !.more = HasMore(o, page.next)]
    /\ Goes /\ UNCHANGED <<stored, onlyUnscored, pending, work, batch, moved, torn>>

\* Mutant of Appended: the old sentinel stays, and is found first.
AppendedBehind(pg) ==
    [pg EXCEPT !.rows = @ \o pg.chunk, !.load = "no", !.chunk = <<>>, !.more = FALSE]

\* The sentinel is replaced by the rows, which end with the next one.
Appended(pg) ==
    [pg EXCEPT !.rows = @ \o pg.chunk,
               !.next = IF pg.more THEN @ + Len(pg.chunk) ELSE -1,
               !.load = "no", !.chunk = <<>>, !.more = FALSE]

RowsArrive ==
    /\ page.load = "served"
    /\ page' = Appended(page)
    /\ Goes /\ UNCHANGED <<stored, onlyUnscored, pending, work, batch, moved, torn>>

RowsLost ==
    /\ page.load # "no" /\ Counted
    /\ page' = [page EXCEPT !.load = "no", !.chunk = <<>>, !.more = FALSE]
    /\ UNCHANGED <<stored, onlyUnscored, pending, work, batch, moved, torn>>

-----------------------------------------------------------------------------
(* The server *)

\* Another page, or the details page, asks for a score.
OtherRequest ==
    /\ Counted
    /\ \E j \in Jobs, i \in Requests :
          /\ stored[j].there /\ work[i].pc = "off"
          /\ work' = [work EXCEPT ![i] = [Off EXCEPT !.pc = "sent", !.job = j]]
    /\ UNCHANGED <<stored, onlyUnscored, page, pending, batch, moved, torn>>

\* Nobody awaits the answer of an abandoned request.
Answers(i, score) ==
    work' = [work EXCEPT ![i] = IF @.mine THEN [@ EXCEPT !.pc = "answered", !.score = score]
                                ELSE Off]

\* ScoreJobAsync up to the gateway: a scored job is not scored again, the
\* answer tells its score.
ReadJob(i) ==
    LET j == stored[work[i].job]
    IN /\ work[i].pc = "sent"
       /\ \/ /\ j.score # 0 \/ ~j.described
             /\ Answers(i, j.score)
          \/ /\ j.score = 0 /\ j.described
             /\ work' = [work EXCEPT ![i].pc = "scoring", ![i].version = j.version]
       /\ Goes /\ UNCHANGED <<stored, onlyUnscored, page, pending, batch, moved, torn>>

\* The gateway scores the job, or fails.
GatewayAnswers(i) ==
    /\ work[i].pc = "scoring"
    /\ \/ \E score \in Score \ {0} :
             work' = [work EXCEPT ![i].pc = "saving", ![i].score = score]
       \/ Answers(i, 0)
    /\ Goes /\ UNCHANGED <<stored, onlyUnscored, page, pending, batch, moved, torn>>

\* Mutant of Matches: the last writer wins.
MatchesAnyway(j, version) == TRUE

\* The row version is the concurrency token of the table Jobs.
Matches(j, version) == stored[j].version = version

WithScore(job, score) == [job EXCEPT !.score = score, !.version = @ + 1]

\* ... after the gateway: a refused save reads the row again, and answers with
\* the score another request gave it.
SaveScore(i) ==
    LET r == work[i]
    IN /\ r.pc = "saving"
       /\ \/ /\ Matches(r.job, r.version)
             /\ stored' = [stored EXCEPT ![r.job] = WithScore(@, r.score)]
             /\ Answers(i, r.score)
          \/ /\ ~Matches(r.job, r.version)
             /\ Answers(i, stored[r.job].score)
             /\ UNCHANGED stored
       /\ UNCHANGED <<onlyUnscored, page, pending, batch>> /\ Noted /\ Goes

\* ScoreReadyJobsAsync reads the jobs, ...
StartBatch ==
    LET ready == {j \in Jobs : stored[j].there /\ stored[j].described /\ stored[j].score = 0}
    IN /\ batch.pc = "off" /\ ready # {} /\ Counted
       /\ batch' = [NoBatch EXCEPT !.pc = "scoring", !.jobs = ready,
                                   !.version = [j \in Jobs |-> IF j \in ready
                                                               THEN stored[j].version ELSE 0]]
       /\ UNCHANGED <<stored, onlyUnscored, page, pending, work, moved, torn>>

\* ... has them scored (0: the gateway failed; not all of them), ...
BatchScored ==
    /\ batch.pc = "scoring"
    /\ \/ \E s \in [batch.jobs -> Score] :
             /\ \E j \in batch.jobs : s[j] # 0
             /\ batch' = [batch EXCEPT !.pc = "saving",
                             !.score = [j \in Jobs |-> IF j \in batch.jobs THEN s[j] ELSE 0]]
       \/ batch' = NoBatch
    /\ Goes /\ UNCHANGED <<stored, onlyUnscored, page, pending, work, moved, torn>>

\* ... and saves the scores together: one stale row refuses them all.
SaveBatch ==
    LET given == {j \in batch.jobs : batch.score[j] # 0}
    IN /\ batch.pc = "saving"
       /\ stored' = IF \A j \in given : Matches(j, batch.version[j])
                    THEN [j \in Jobs |-> IF j \in given
                                         THEN WithScore(stored[j], batch.score[j])
                                         ELSE stored[j]]
                    ELSE stored
       /\ batch' = NoBatch
       /\ UNCHANGED <<onlyUnscored, page, pending, work>> /\ Noted /\ Goes

\* A fetch finds jobs, new ones and known ones.
Import ==
    /\ Counted
    /\ \E J \in (SUBSET Jobs) \ {{}}, now \in 1 .. Present + MaxMoves :
          /\ \A j \in Jobs : stored[j].seen < now
          /\ \E j \in Jobs : stored[j].seen = now - 1
          /\ stored' = [j \in Jobs |->
                 IF j \notin J THEN stored[j]
                 ELSE [stored[j] EXCEPT !.there = TRUE, !.seen = now,
                                        !.version = IF stored[j].there THEN @ + 1 ELSE @]]
    /\ UNCHANGED <<onlyUnscored, page, pending, work, batch>> /\ Noted

Rewritten(job, described) == [job EXCEPT !.described = described, !.version = @ + 1]

\* The enrichment describes a job, or the user changes its status.
Rewrite(j) ==
    /\ stored[j].there /\ Counted
    /\ \E described \in {stored[j].described, TRUE} :
          stored' = [stored EXCEPT ![j] = Rewritten(@, described)]
    /\ UNCHANGED <<onlyUnscored, page, pending, work, batch>> /\ Noted

-----------------------------------------------------------------------------

Next ==
    \/ Show \/ Reload \/ LoadNextRows \/ ServeRows \/ RowsArrive \/ RowsLost
    \/ \E k \in 1 .. Cardinality(Jobs) + MaxMoves : Click(k)
    \/ \E i \in Requests : \/ AnswerArrives(i) \/ AnswerLost(i)
                           \/ ReadJob(i) \/ GatewayAnswers(i) \/ SaveScore(i)
    \/ OtherRequest \/ StartBatch \/ BatchScored \/ SaveBatch \/ Import
    \/ \E j \in Jobs : Rewrite(j)

Spec == Init /\ [][Next]_vars

-----------------------------------------------------------------------------
(* Properties *)

\* A score is given once: the requests of all pages and the batch, which read
\* a job before the AI is asked and save after it, never replace a score.
ScoreKept ==
    [][\A j \in Jobs : stored[j].score # 0 => stored'[j].score = stored[j].score]_vars

\* A busy button is that of a request under way, and the button of a row that
\* can only be done once stays done for stored scores only.
ButtonsAreTrue ==
    \A k \in DOMAIN page.rows :
        LET row == page.rows[k]
        IN /\ row.button = "busy" => row.job \in page.active
           /\ row.button = "done" => stored[row.job].score = row.label /\ row.label # 0

\* Rows that were loaded more than once.
Duplicates == Len(page.rows) - Cardinality({page.rows[k].job : k \in DOMAIN page.rows})

\* The figures never say more than what is stored, but for jobs scored between
\* the two reads of a rendering and rows loaded twice.
FiguresAreTrue ==
    page.pc = "shown" =>
        /\ page.scored <= Cardinality(Scored) + Cardinality(torn) + Duplicates
        /\ page.strong <= Cardinality(StrongMatches) + Cardinality(torn) + Duplicates

\* While the list stays as it was when the page was rendered, and orders all
\* jobs, the rows shown are its first ones, and the sentinel goes on there.
RowsAreTheFirst ==
    LET strict == \A a, b \in Listed : a # b => <<a, b>> \in Above \/ <<b, a>> \in Above
    IN ~moved /\ strict =>
        \A o \in Orders :
            /\ Len(page.rows) <= Len(o)
            /\ \A k \in DOMAIN page.rows : page.rows[k].job = o[k]
            /\ page.next = IF Len(page.rows) < Len(o) THEN Len(page.rows) ELSE -1

=============================================================================
