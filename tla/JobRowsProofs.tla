---------------------------- MODULE JobRowsProofs ----------------------------
(***************************************************************************)
(* Proofs about JobRows: type correctness, that scores are kept, that the   *)
(* buttons of the page are true, that the figures above the list never say  *)
(* more than is stored, and that the rows shown are the first of the list.  *)
(***************************************************************************)
EXTENDS JobRows, FiniteSetTheorems, WellFoundedInduction, TLAPS

-----------------------------------------------------------------------------
(* The inductive invariant *)

\* TypeOK without its last part, and what the page and the requests refer to.
Types ==
    /\ stored \in [Jobs -> Job]
    /\ onlyUnscored \in BOOLEAN
    /\ page \in Page
    /\ pending \in SUBSET Jobs
    /\ work \in [Requests -> Work]
    /\ batch \in Batch
    /\ used \in 0 .. MaxMoves
    /\ page.load # "no" => page.next # -1
    /\ \A i \in Requests : IF work[i].pc = "off" THEN ~work[i].mine ELSE work[i].job \in Jobs

\* Whatever is rendered, requested or scored is stored.
There == {j \in Jobs : stored[j].there}

ThereInv ==
    /\ \A j \in Jobs : stored[j].score # 0 => j \in There
    /\ \A k \in DOMAIN page.rows : page.rows[k].job \in There
    /\ \A k \in DOMAIN page.chunk : page.chunk[k].job \in There
    /\ \A i \in Requests : work[i].pc # "off" => work[i].job \in There
    /\ batch.jobs \subseteq There

\* The requests of the page for job j.
Mine(j) == {i \in Requests : work[i].mine /\ work[i].job = j}

\* One for each active job, none for the others.
ActiveInv ==
    \A j \in Jobs : /\ j \in page.active => \E i \in Requests : Mine(j) = {i}
                    /\ j \notin page.active => Mine(j) = {}

\* Whoever read version v of job j found it without a score.
ReadUnscored(j, v) ==
    /\ v <= stored[j].version
    /\ v = stored[j].version => stored[j].score = 0

\* What requests and batch have read and answered.
ScoresInv ==
    /\ \A i \in Requests :
          /\ work[i].pc \in {"scoring", "saving"} => ReadUnscored(work[i].job, work[i].version)
          /\ work[i].pc = "answered" /\ work[i].score # 0 =>
                stored[work[i].job].score = work[i].score
    /\ \A j \in batch.jobs : ReadUnscored(j, batch.version[j])

\* A row is true: its button is busy with a request, or done with a score.
RowTrue(row, active) ==
    /\ row.button = "busy" => row.job \in active
    /\ row.button = "done" => stored[row.job].score = row.label /\ row.label # 0

\* The rows shown, and those under way to the page, are true.
RowsInv ==
    /\ \A k \in DOMAIN page.rows : RowTrue(page.rows[k], page.active)
    /\ \A k \in DOMAIN page.chunk : RowTrue(page.chunk[k], {})

Inv == Types /\ ThereInv /\ ActiveInv /\ ScoresInv /\ RowsInv

-----------------------------------------------------------------------------
(* The operators *)

LEMMA NatConstants == Cardinality(Jobs) \in Nat /\ Present \in Nat
<1>1. Cardinality(Jobs) \in Nat
  BY RowsAssumption, FS_CardinalityType
<1> QED BY <1>1, RowsAssumption

LEMMA ZeroScore == 0 \in Score
BY DEF Score, Strong

LEMMA OffType == Off \in Work /\ NoBatch \in Batch
BY DEF Off, Work, NoBatch, Batch, Score, Strong

LEMMA OrdersType == \A o \in Orders : o \in Seq(There)
<1> SUFFICES ASSUME NEW o \in Orders PROVE o \in Seq(There)
  OBVIOUS
<1>1. Listed \subseteq There /\ Listed \in SUBSET Jobs
  BY DEF Listed, There
<1>2. Cardinality(Listed) \in Nat
  BY <1>1, RowsAssumption, FS_Subset, FS_CardinalityType
<1>3. o \in [1 .. Cardinality(Listed) -> Listed]
  BY DEF Orders, SetToSeqs
<1>4. o \in [1 .. Cardinality(Listed) -> There]
  BY <1>1, <1>3
<1> QED BY <1>2, <1>4

\* A set of naturals has a least member.
LEMMA LeastMember ==
  ASSUME NEW T \in SUBSET Nat, T # {}
  PROVE  \E x \in T : \A y \in T : x <= y
<1>1. IsWellFoundedOn(OpToRel(<, Nat), Nat)
  BY NatLessThanWellFounded, Zenon
<1>2. PICK x \in T : \A y \in T : ~ (<<y, x>> \in OpToRel(<, Nat))
  BY <1>1, WFMin, Zenon
<1>3. \A y \in T : ~ (y < x)
  BY <1>2 DEF OpToRel
<1> QED BY <1>3

LEMMA RenderedType ==
  ASSUME stored \in [Jobs -> Job], NEW j \in Jobs
  PROVE  Rendered(j) \in Row
<1>1. stored[j].score \in Score
  BY DEF Job
<1> QED BY <1>1 DEF Rendered, Row

LEMMA ChunkType ==
  ASSUME stored \in [Jobs -> Job], NEW o \in Seq(There), NEW offset \in Nat
  PROVE  /\ ChunkRows(o, offset) \in Seq(Row)
         /\ \A k \in DOMAIN ChunkRows(o, offset) :
               \E j \in There : ChunkRows(o, offset)[k] = Rendered(j)
         /\ HasMore(o, offset) \in BOOLEAN
<1> DEFINE n == (IF Len(o) < offset + PageSize THEN Len(o) ELSE offset + PageSize) - offset
<1>1. PageSize \in Nat /\ Len(o) \in Nat /\ n \in Int
  BY RowsAssumption
<1>2. \A i \in 1 .. n : offset + i \in 1 .. Len(o)
  BY <1>1
<1>3. \A i \in 1 .. n : o[offset + i] \in There
  BY <1>2
<1>4. ChunkRows(o, offset) = [i \in 1 .. n |-> Rendered(o[offset + i])]
  BY DEF ChunkRows
<1>5. ChunkRows(o, offset) \in [1 .. n -> Row]
  BY <1>3, <1>4, RenderedType DEF There
<1> HIDE DEF n
<1>6. PICK m \in Nat : 1 .. n = 1 .. m
  <2>1. CASE n >= 0
    <3>1. n \in Nat  BY <2>1, <1>1
    <3> QED BY <3>1
  <2>2. CASE n < 0
    <3>1. 1 .. n = 1 .. 0  BY <2>2, <1>1
    <3> QED BY <3>1
  <2> QED BY <2>1, <2>2, <1>1
<1>7. ChunkRows(o, offset) \in Seq(Row)
  <2>1. ChunkRows(o, offset) \in [1 .. m -> Row]  BY <1>5, <1>6
  <2> QED BY <2>1
<1>8. HasMore(o, offset) \in BOOLEAN
  BY DEF HasMore
<1> QED BY <1>3, <1>4, <1>7, <1>8

LEMMA MapType ==
  ASSUME NEW rows \in Seq(Row), NEW F,
         F = [k \in DOMAIN rows |-> F[k]], \A k \in DOMAIN rows : F[k] \in Row
  PROVE  F \in Seq(Row)
<1>1. Len(rows) \in Nat /\ DOMAIN rows = 1 .. Len(rows)
  OBVIOUS
<1>2. F \in [1 .. Len(rows) -> Row]
  BY <1>1
<1> QED BY <1>1, <1>2

LEMMA RowChanged ==
  ASSUME NEW row \in Row, NEW button \in {"idle", "busy", "done"}, NEW score \in Score
  PROVE  /\ [row EXCEPT !.button = button] \in Row
         /\ [row EXCEPT !.label = score, !.button = button] \in Row
BY DEF Row

LEMMA RowsChanged ==
  ASSUME NEW rows \in Seq(Row), NEW J, NEW j, NEW score \in Score
  PROVE  /\ WithBusy(rows, J) \in Seq(Row)
         /\ WithIdle(rows, j) \in Seq(Row)
         /\ Updated(rows, j, score) \in Seq(Row)
<1>1. \A k \in DOMAIN rows : rows[k] \in Row
  OBVIOUS
<1>2. 0 \in Score
  BY DEF Score, Strong
<1>3. WithBusy(rows, J) \in Seq(Row)
  <2> DEFINE F == WithBusy(rows, J)
  <2>1. \A k \in DOMAIN rows : F[k] \in Row
    BY <1>1, <1>2, RowChanged DEF WithBusy
  <2>2. F = [k \in DOMAIN rows |-> F[k]]
    BY DEF WithBusy
  <2> QED BY <2>1, <2>2, MapType
<1>4. WithIdle(rows, j) \in Seq(Row)
  <2> DEFINE F == WithIdle(rows, j)
  <2>1. \A k \in DOMAIN rows : F[k] \in Row
    BY <1>1, <1>2, RowChanged DEF WithIdle
  <2>2. F = [k \in DOMAIN rows |-> F[k]]
    BY DEF WithIdle
  <2> QED BY <2>1, <2>2, MapType
<1>5. Updated(rows, j, score) \in Seq(Row)
  <2> DEFINE F == Updated(rows, j, score)
  <2>1. \A k \in DOMAIN rows : F[k] \in Row
    BY <1>1, RowChanged DEF Updated
  <2>2. F = [k \in DOMAIN rows |-> F[k]]
    BY DEF Updated
  <2> QED BY <2>1, <2>2, MapType
<1> QED BY <1>3, <1>4, <1>5

LEMMA PageChanged ==
  ASSUME NEW pg \in Page, NEW rows \in Seq(Row), NEW active \in SUBSET Jobs
  PROVE  /\ [pg EXCEPT !.rows = rows, !.active = active] \in Page
         /\ [pg EXCEPT !.active = active, !.rows = rows] \in Page
BY DEF Page

LEMMA LoadChanged ==
  ASSUME NEW pg \in Page, NEW load \in {"no", "asked", "served"}, NEW chunk \in Seq(Row),
         NEW more \in BOOLEAN
  PROVE  /\ [pg EXCEPT !.load = load] \in Page
         /\ [pg EXCEPT !.load = load, !.chunk = chunk, !.more = more] \in Page
BY DEF Page

LEMMA WorkChanged ==
  ASSUME NEW r \in Work, NEW score \in Score, NEW version \in Nat
  PROVE  /\ [r EXCEPT !.pc = "answered", !.score = score] \in Work
         /\ [r EXCEPT !.pc = "saving", !.score = score] \in Work
         /\ [r EXCEPT !.pc = "scoring", !.version = version] \in Work
         /\ [r EXCEPT !.mine = FALSE] \in Work
BY DEF Work

LEMMA JobChanged ==
  ASSUME NEW job \in Job, NEW score \in Score, NEW seen \in Nat, NEW version \in Nat
  PROVE  /\ [job EXCEPT !.score = score, !.version = version] \in Job
         /\ [job EXCEPT !.there = TRUE, !.seen = seen, !.version = version] \in Job
         /\ [job EXCEPT !.described = TRUE, !.version = version] \in Job
         /\ [job EXCEPT !.described = FALSE, !.version = version] \in Job
<1>1. [job EXCEPT !.score = score, !.version = version] \in Job
  BY DEF Job
<1>2. [job EXCEPT !.there = TRUE, !.seen = seen, !.version = version] \in Job
  BY DEF Job
<1>3. [job EXCEPT !.described = TRUE, !.version = version] \in Job
  BY DEF Job
<1>4. [job EXCEPT !.described = FALSE, !.version = version] \in Job
  BY DEF Job
<1> QED BY <1>1, <1>2, <1>3, <1>4

LEMMA JobWritten ==
  ASSUME NEW job \in Job, NEW score \in Score, NEW seen \in Nat,
         NEW described \in {job.described, TRUE}
  PROVE  /\ job.version + 1 \in Nat
         /\ WithScore(job, score) \in Job
         /\ Rewritten(job, described) \in Job
         /\ [job EXCEPT !.there = TRUE, !.seen = seen,
                        !.version = IF job.there THEN @ + 1 ELSE @] \in Job
<1>1. job.version \in Nat /\ job.version + 1 \in Nat
  BY DEF Job
<1>2. WithScore(job, score) \in Job
  BY <1>1, JobChanged DEF WithScore
<1>3. Rewritten(job, described) \in Job
  <2>1. CASE described = TRUE
    BY <2>1, <1>1, JobChanged DEF Rewritten
  <2>2. CASE described = job.described
    <3>1. job.described = TRUE \/ job.described = FALSE
      BY DEF Job
    <3> QED BY <3>1, <2>2, <1>1, JobChanged DEF Rewritten
  <2> QED BY <2>1, <2>2
<1>4. [job EXCEPT !.there = TRUE, !.seen = seen,
                  !.version = IF job.there THEN @ + 1 ELSE @] \in Job
  <2> DEFINE version == IF job.there THEN job.version + 1 ELSE job.version
  <2>1. version \in Nat
    BY <1>1
  <2> HIDE DEF version
  <2>2. [job EXCEPT !.there = TRUE, !.seen = seen, !.version = version] \in Job
    BY <2>1, JobChanged
  <2> QED BY <2>2 DEF version
<1> QED BY <1>1, <1>2, <1>3, <1>4

LEMMA FiguresChanged ==
  ASSUME NEW pg \in Page, NEW a \in Nat, NEW b \in Nat, NEW c \in Nat
  PROVE  /\ [pg EXCEPT !.pc = "shown", !.scored = a, !.strong = b, !.unscored = c] \in Page
         /\ [pg EXCEPT !.scored = a, !.unscored = c, !.strong = b] \in Page
BY DEF Page

LEMMA RowsAppended ==
  ASSUME NEW pg \in Page, NEW rows \in Seq(Row), NEW next \in Nat \cup {-1}
  PROVE  [pg EXCEPT !.rows = rows, !.next = next, !.load = "no", !.chunk = <<>>,
                    !.more = FALSE] \in Page
<1>1. <<>> \in Seq(Row)
  OBVIOUS
<1>2. \A chunk \in Seq(Row) :
         [pg EXCEPT !.rows = rows, !.next = next, !.load = "no", !.chunk = chunk,
                    !.more = FALSE] \in Page
  BY DEF Page
<1> QED BY <1>1, <1>2

LEMMA AddedType ==
  ASSUME NEW pg \in Page, NEW score \in Score, NEW before \in Score
  PROVE  /\ Added(pg, score, before) \in Page
         /\ Added(pg, score, before).rows = pg.rows
         /\ Added(pg, score, before).active = pg.active
         /\ Added(pg, score, before).load = pg.load
         /\ Added(pg, score, before).next = pg.next
         /\ Added(pg, score, before).chunk = pg.chunk
<1>1. CASE score = 0
  BY <1>1 DEF Added
<1>2. CASE score # 0
  <2> DEFINE a == pg.scored + 1
             c == IF pg.unscored = 0 THEN 0 ELSE pg.unscored - 1
             b == CASE before # Strong /\ score = Strong -> pg.strong + 1
                    [] before = Strong /\ score # Strong /\ pg.strong > 0 -> pg.strong - 1
                    [] OTHER -> pg.strong
  <2>1. pg.scored \in Nat /\ pg.unscored \in Nat /\ pg.strong \in Nat
    BY DEF Page
  <2>2. a \in Nat /\ c \in Nat /\ b \in Nat
    BY <2>1
  <2>3. Added(pg, score, before) = [pg EXCEPT !.scored = a, !.unscored = c, !.strong = b]
    BY <1>2 DEF Added
  <2> HIDE DEF a, b, c
  <2>4. Added(pg, score, before) \in Page
    <3>1. [pg EXCEPT !.scored = a, !.unscored = c, !.strong = b] \in Page
      BY <2>2, FiguresChanged
    <3> QED BY <2>3, <3>1
  <2> QED BY <2>3, <2>4 DEF Page
<1> QED BY <1>1, <1>2

LEMMA AppliedType ==
  ASSUME NEW pg \in Page, NEW j \in Jobs, NEW score \in Score, NEW before \in Score
  PROVE  LET q == Applied(pg, j, score, before)
         IN /\ q \in Page
            /\ q.rows = IF score = 0 THEN WithIdle(pg.rows, j) ELSE Updated(pg.rows, j, score)
            /\ q.active = pg.active \ {j}
            /\ q.load = pg.load /\ q.next = pg.next /\ q.chunk = pg.chunk
<1> DEFINE counted == Added(pg, score, before)
           rows == IF score = 0 THEN WithIdle(pg.rows, j) ELSE Updated(pg.rows, j, score)
           active == pg.active \ {j}
<1>1. pg.rows \in Seq(Row) /\ active \in SUBSET Jobs
  BY DEF Page
<1>2. rows \in Seq(Row)
  BY <1>1, RowsChanged
<1>3. Applied(pg, j, score, before) = [counted EXCEPT !.rows = rows, !.active = active]
  BY AddedType DEF Applied
<1>4. counted \in Page
  BY AddedType
<1> HIDE DEF rows, active
<1>5. Applied(pg, j, score, before) \in Page
  BY <1>1, <1>2, <1>3, <1>4, PageChanged
<1>6. /\ Applied(pg, j, score, before).rows = rows
      /\ Applied(pg, j, score, before).active = active
      /\ Applied(pg, j, score, before).load = counted.load
      /\ Applied(pg, j, score, before).next = counted.next
      /\ Applied(pg, j, score, before).chunk = counted.chunk
  BY <1>3, <1>4 DEF Page
<1> QED BY <1>5, <1>6, AddedType DEF rows, active

LEMMA SubmittedType ==
  ASSUME NEW pg \in Page, NEW J \in SUBSET Jobs
  PROVE  LET q == Submitted(pg, J)
         IN /\ q \in Page
            /\ q.rows = WithBusy(pg.rows, J) /\ q.active = pg.active \cup J
            /\ q.load = pg.load /\ q.next = pg.next /\ q.chunk = pg.chunk
<1> DEFINE rows == WithBusy(pg.rows, J)
           active == pg.active \cup J
<1>1. pg.rows \in Seq(Row) /\ active \in SUBSET Jobs
  BY DEF Page
<1>2. rows \in Seq(Row)
  <2>1. 0 \in Score
    BY DEF Score, Strong
  <2> QED BY <1>1, <2>1, RowsChanged
<1>3. Submitted(pg, J) = [pg EXCEPT !.active = active, !.rows = rows]
  BY DEF Submitted
<1> HIDE DEF rows, active
<1>4. Submitted(pg, J) \in Page
  <2>1. [pg EXCEPT !.active = active, !.rows = rows] \in Page
    BY <1>1, <1>2, PageChanged
  <2> QED BY <1>3, <2>1
<1>5. /\ Submitted(pg, J).rows = rows /\ Submitted(pg, J).active = active
      /\ Submitted(pg, J).load = pg.load /\ Submitted(pg, J).next = pg.next
      /\ Submitted(pg, J).chunk = pg.chunk
  BY <1>3 DEF Page
<1> QED BY <1>4, <1>5 DEF rows, active

LEMMA RequestType ==
  ASSUME NEW pg \in Page, NEW j \in Jobs, NEW k \in DOMAIN pg.rows, pg.rows[k].job = j
  PROVE  /\ Request(pg, j) \in Work
         /\ Request(pg, j).pc = "sent" /\ Request(pg, j).job = j /\ Request(pg, j).mine
<1>1. pg.rows \in Seq(Row)
  BY DEF Page
<1>2. CopiesOf(pg.rows, j) \in SUBSET Nat /\ CopiesOf(pg.rows, j) # {}
  BY <1>1 DEF CopiesOf
<1>3. \E x \in CopiesOf(pg.rows, j) : \A y \in CopiesOf(pg.rows, j) : x <= y
  BY <1>2, LeastMember
<1> DEFINE first == CHOOSE k1 \in CopiesOf(pg.rows, j) :
                       \A n1 \in CopiesOf(pg.rows, j) : k1 <= n1
<1>4. first \in DOMAIN pg.rows
  BY <1>3 DEF CopiesOf
<1>5. ShownLabel(pg, j) \in Score
  <2>1. \A x \in DOMAIN pg.rows : pg.rows[x].label \in Score
    <3>1. \A x \in DOMAIN pg.rows : pg.rows[x] \in Row
      BY <1>1
    <3> QED BY <3>1 DEF Row
  <2>2. ShownLabel(pg, j) = pg.rows[first].label
    BY DEF ShownLabel
  <2> HIDE DEF first
  <2> QED BY <1>4, <2>1, <2>2
<1>6. ASSUME NEW r \in Work, NEW label \in Score
      PROVE  LET q == [r EXCEPT !.pc = "sent", !.job = j, !.mine = TRUE, !.before = label]
             IN q \in Work /\ q.pc = "sent" /\ q.job = j /\ q.mine
  BY DEF Work
<1> QED BY <1>5, <1>6, OffType DEF Request

-----------------------------------------------------------------------------
(* Type correctness *)

\* What no step takes back: jobs stay stored, versions grow, and a job that is
\* written gets a new version.
Grown ==
    \A j \in Jobs :
       /\ stored[j].there => stored'[j].there
       /\ stored[j].version <= stored'[j].version
       /\ stored[j].version = stored'[j].version => stored[j].score = stored'[j].score

LEMMA AnswersType ==
  ASSUME Types, NEW i \in Requests, work[i].pc # "off", NEW score \in Score,
         Answers(i, score)
  PROVE  /\ work' \in [Requests -> Work]
         /\ \A k \in Requests : IF work'[k].pc = "off" THEN ~work'[k].mine
                                ELSE work'[k].job = work[k].job /\ work[k].pc # "off"
         /\ \A k \in Requests : work'[k].mine <=> work[k].mine
         /\ \A k \in Requests : work'[k].mine => work'[k].job = work[k].job
         /\ \A k \in Requests \ {i} : work'[k] = work[k]
         /\ work'[i].pc \in {"off", "answered"}
         /\ work'[i].pc = "answered" => work'[i].score = score /\ work'[i].job = work[i].job
<1>1. work[i] \in Work /\ Off \in Work /\ Off.pc = "off" /\ ~Off.mine
  BY OffType DEF Types, Off
<1>2. CASE work[i].mine
  <2>1. work' = [work EXCEPT ![i] = [work[i] EXCEPT !.pc = "answered", !.score = score]]
    BY <1>2 DEF Answers
  <2>2. [work[i] EXCEPT !.pc = "answered", !.score = score] \in Work
    BY <1>1, WorkChanged, 0 \in Nat
  <2>3. work'[i] = [work[i] EXCEPT !.pc = "answered", !.score = score]
    BY <2>1 DEF Types
  <2>4. /\ work'[i].pc = "answered" /\ work'[i].score = score
        /\ work'[i].job = work[i].job /\ (work'[i].mine <=> work[i].mine)
    BY <2>3, <1>1 DEF Work
  <2> QED BY <2>1, <2>2, <2>4 DEF Types
<1>3. CASE ~work[i].mine
  <2>1. work' = [work EXCEPT ![i] = Off]
    BY <1>3 DEF Answers
  <2> QED BY <1>1, <1>3, <2>1 DEF Types
<1> QED BY <1>2, <1>3

LEMMA RenderingType ==
  ASSUME stored \in [Jobs -> Job], NEW o \in Seq(There)
  PROVE  /\ Rendering(o) \in Page
         /\ Rendering(o).rows = ChunkRows(o, 0)
         /\ Rendering(o).chunk = <<>> /\ Rendering(o).load = "no"
         /\ Rendering(o).active = {}
<1> DEFINE next == IF HasMore(o, 0) THEN PageSize ELSE -1
<1>1. ChunkRows(o, 0) \in Seq(Row)
  BY ChunkType
<1>2. next \in Nat \cup {-1}
  BY RowsAssumption
<1>3. Blank \in Page
  <2>1. <<>> \in Seq(Row)
    OBVIOUS
  <2> QED BY <2>1 DEF Blank, Page
<1>4. ASSUME NEW rows \in Seq(Row), NEW n \in Nat \cup {-1}
      PROVE  LET q == [Blank EXCEPT !.rows = rows, !.next = n]
             IN /\ q \in Page /\ q.rows = rows
                /\ q.chunk = Blank.chunk /\ q.load = Blank.load /\ q.active = Blank.active
  BY <1>3 DEF Page
<1>5. Blank.chunk = <<>> /\ Blank.load = "no" /\ Blank.active = {}
  BY DEF Blank
<1> QED BY <1>1, <1>2, <1>4, <1>5, ZenonT(30) DEF Rendering

\* A rendered row is one of a stored job, and true.
LEMMA RenderedTrue ==
  ASSUME stored \in [Jobs -> Job], NEW o \in Seq(There), NEW offset \in Nat,
         NEW k \in DOMAIN ChunkRows(o, offset)
  PROVE  /\ ChunkRows(o, offset)[k].job \in There
         /\ RowTrue(ChunkRows(o, offset)[k], {})
<1>1. PICK j \in There : ChunkRows(o, offset)[k] = Rendered(j)
  BY ChunkType
<1> QED BY <1>1 DEF Rendered, RowTrue

LEMMA InitInv == Init => Inv
<1> SUFFICES ASSUME Init PROVE Inv
  OBVIOUS
<1>1. PICK J \in SUBSET Jobs, seen \in [Jobs -> 0 .. Present] :
         stored = [j \in Jobs |-> [there |-> j \in J, described |-> j \in J,
                                  seen |-> seen[j], score |-> 0, version |-> 0]]
  BY DEF Init
<1>2. stored \in [Jobs -> Job]
  <2>1. ASSUME NEW j \in Jobs
        PROVE  [there |-> j \in J, described |-> j \in J,
                seen |-> seen[j], score |-> 0, version |-> 0] \in Job
    <3>1. seen[j] \in Nat
      BY NatConstants
    <3>2. 0 \in Score /\ 0 \in Nat
      BY DEF Score, Strong
    <3>3. ASSUME NEW b \in BOOLEAN
          PROVE  [there |-> b, described |-> b, seen |-> seen[j], score |-> 0,
                  version |-> 0] \in Job
      BY <3>1, <3>2, <3>3 DEF Job
    <3>4. CASE j \in J
      <4>1. (j \in J) = TRUE  BY <3>4
      <4> QED BY <4>1, <3>3
    <3>5. CASE j \notin J
      <4>1. (j \in J) = FALSE  BY <3>5
      <4> QED BY <4>1, <3>3
    <3> QED BY <3>4, <3>5
  <2> QED BY <1>1, <2>1
<1>3. PICK o \in Seq(There) : page = Rendering(o)
  BY OrdersType DEF Init
<1>4. /\ page \in Page /\ page.rows = ChunkRows(o, 0) /\ page.chunk = <<>>
      /\ page.load = "no" /\ page.active = {}
  BY <1>2, <1>3, RenderingType
<1>5. /\ work = [i \in Requests |-> Off] /\ Off.pc = "off" /\ ~Off.mine
      /\ batch = NoBatch /\ NoBatch.jobs = {}
  BY DEF Init, Off, NoBatch
<1>6. Types
  BY <1>2, <1>4, <1>5, OffType, RowsAssumption DEF Init, Types
<1>7. \A j \in Jobs : stored[j].score = 0
  BY <1>1
<1>8. \A k \in DOMAIN page.rows :
         page.rows[k].job \in There /\ RowTrue(page.rows[k], page.active)
  BY <1>2, <1>4, RenderedTrue, 0 \in Nat
<1>9. DOMAIN page.chunk = {}
  BY <1>4
<1>10. ThereInv
  BY <1>5, <1>7, <1>8, <1>9 DEF ThereInv
<1>11. ActiveInv /\ ScoresInv /\ RowsInv
  BY <1>4, <1>5, <1>8, <1>9 DEF ActiveInv, Mine, ScoresInv, RowsInv
<1> QED BY <1>6, <1>10, <1>11 DEF Inv

-----------------------------------------------------------------------------
(* The table *)

LEMMA StoredStep ==
  ASSUME Types, ThereInv, ScoresInv, [Next]_vars
  PROVE  /\ stored' \in [Jobs -> Job]
         /\ Grown
         /\ \A j \in Jobs : stored[j].score # 0 => stored'[j].score = stored[j].score
         /\ \A j \in Jobs : stored'[j].score # 0 => stored'[j].there
<1> DEFINE Good(job, new) ==
       /\ new \in Job
       /\ job.there => new.there
       /\ job.version <= new.version
       /\ job.version = new.version => job.score = new.score
       /\ job.score # 0 => new.score = job.score
       /\ new.score # 0 => new.there
<1> SUFFICES stored' \in [Jobs -> Job] /\ \A j \in Jobs : Good(stored[j], stored'[j])
  BY DEF Grown
<1>1. /\ stored \in [Jobs -> Job]
      /\ \A j \in Jobs : stored[j] \in Job /\ stored[j].version \in Nat
  BY DEF Types, Job
<1>2. \A j \in Jobs : Good(stored[j], stored[j])
  BY <1>1 DEF ThereInv, There
<1>3. ASSUME NEW j \in Jobs, NEW score \in Score, stored[j].score = 0, stored[j].there
      PROVE  Good(stored[j], WithScore(stored[j], score))
  <2>1. WithScore(stored[j], score) \in Job
    BY <1>1, JobWritten, 0 \in Nat
  <2> QED BY <1>1, <1>3, <2>1 DEF WithScore, Job
<1>4. CASE UNCHANGED stored
  BY <1>1, <1>2, <1>4
<1>5. ASSUME NEW i \in Requests, SaveScore(i), stored' # stored
      PROVE  stored' \in [Jobs -> Job] /\ \A j \in Jobs : Good(stored[j], stored'[j])
  <2> DEFINE j == work[i].job
  <2>1. /\ stored[j].version = work[i].version
        /\ stored' = [stored EXCEPT ![j] = WithScore(stored[j], work[i].score)]
    BY <1>5 DEF SaveScore, Matches
  <2>2. j \in Jobs /\ stored[j].there
    BY <1>5 DEF SaveScore, ThereInv, There
  <2>3. stored[j].score = 0
    BY <1>5, <2>1 DEF SaveScore, ScoresInv, ReadUnscored
  <2>4. work[i].score \in Score
    BY DEF Types, Work
  <2>5. Good(stored[j], WithScore(stored[j], work[i].score))
    BY <1>3, <2>2, <2>3, <2>4
  <2> HIDE DEF Good
  <2> QED
    <3>1. WithScore(stored[j], work[i].score) \in Job  BY <2>5 DEF Good
    <3> QED BY <1>1, <1>2, <2>1, <2>2, <2>5, <3>1
<1>6. CASE SaveBatch
  <2> DEFINE given == {j \in batch.jobs : batch.score[j] # 0}
  <2>1. CASE stored' = stored
    BY <1>1, <1>2, <2>1
  <2>2. CASE stored' # stored
    <3>1. /\ \A j \in given : Matches(j, batch.version[j])
          /\ stored' = [j \in Jobs |-> IF j \in given THEN WithScore(stored[j], batch.score[j])
                                       ELSE stored[j]]
      BY <1>6, <2>2 DEF SaveBatch
    <3>2. ASSUME NEW j \in Jobs, j \in given
          PROVE  Good(stored[j], WithScore(stored[j], batch.score[j]))
      <4>1. stored[j].score = 0 /\ stored[j].there
        BY <3>1, <3>2 DEF Matches, ScoresInv, ReadUnscored, ThereInv, There
      <4>2. batch.score[j] \in Score
        BY DEF Types, Batch
      <4> QED BY <1>3, <4>1, <4>2
    <3> HIDE DEF Good, given
    <3>3. \A j \in Jobs : Good(stored[j], stored'[j])
      BY <1>2, <3>1, <3>2
    <3>4. \A j \in Jobs : stored'[j] \in Job
      BY <3>3 DEF Good
    <3> QED BY <3>1, <3>3, <3>4
  <2> QED BY <2>1, <2>2
<1>7. CASE Import
  <2>1. PICK J \in SUBSET Jobs, now \in 1 .. Present + MaxMoves :
           stored' = [j \in Jobs |->
              IF j \notin J THEN stored[j]
              ELSE [stored[j] EXCEPT !.there = TRUE, !.seen = now,
                                     !.version = IF stored[j].there THEN @ + 1 ELSE @]]
    BY <1>7 DEF Import
  <2>2. now \in Nat
    BY NatConstants, RowsAssumption
  <2>3. ASSUME NEW j \in Jobs
        PROVE  Good(stored[j], [stored[j] EXCEPT !.there = TRUE, !.seen = now,
                                  !.version = IF stored[j].there THEN @ + 1 ELSE @])
    <3>1. [stored[j] EXCEPT !.there = TRUE, !.seen = now,
                            !.version = IF stored[j].there THEN @ + 1 ELSE @] \in Job
      BY <1>1, <2>2, JobWritten, ZeroScore
    <3> QED BY <1>1, <3>1 DEF Job
  <2> HIDE DEF Good
  <2>4. \A j \in Jobs : Good(stored[j], stored'[j])
    BY <1>2, <2>1, <2>3
  <2>5. \A j \in Jobs : stored'[j] \in Job
    BY <2>4 DEF Good
  <2> QED BY <2>1, <2>4, <2>5
<1>8. ASSUME NEW j \in Jobs, Rewrite(j)
      PROVE  stored' \in [Jobs -> Job] /\ \A n \in Jobs : Good(stored[n], stored'[n])
  <2>1. PICK described \in {stored[j].described, TRUE} :
           stored' = [stored EXCEPT ![j] = Rewritten(stored[j], described)]
    BY <1>1, <1>8 DEF Rewrite
  <2> DEFINE new == Rewritten(stored[j], described)
  <2>2. new \in Job
    BY <1>1, JobWritten, ZeroScore, 0 \in Nat
  <2>3. Good(stored[j], new)
    BY <1>1, <1>2, <2>2 DEF Rewritten, Job
  <2>4. stored' = [stored EXCEPT ![j] = new]
    BY <2>1
  <2> HIDE DEF Good, new
  <2> QED BY <1>1, <1>2, <2>2, <2>3, <2>4
<1>9. UNCHANGED stored \/ (\E i \in Requests : SaveScore(i)) \/ SaveBatch \/ Import
         \/ \E j \in Jobs : Rewrite(j)
  BY DEF Next, vars, Show, Reload, LoadNextRows, ServeRows, RowsArrive, RowsLost, Click,
         AnswerArrives, AnswerLost, ReadJob, GatewayAnswers, OtherRequest, StartBatch,
         BatchScored
<1> QED BY <1>4, <1>5, <1>6, <1>7, <1>8, <1>9

-----------------------------------------------------------------------------
(* The requests *)

\* What a step promises of the request r in the next state.
Fine(r) ==
    /\ r \in Work
    /\ IF r.pc = "off" THEN ~r.mine ELSE r.job \in Jobs /\ stored'[r.job].there
    /\ r.pc \in {"scoring", "saving"} =>
          /\ r.version <= stored'[r.job].version
          /\ r.version = stored'[r.job].version => stored'[r.job].score = 0
    /\ r.pc = "answered" /\ r.score # 0 => stored'[r.job].score = r.score

LEMMA OffFine == Fine(Off)
BY OffType DEF Fine, Off

LEMMA RequestFine ==
  ASSUME Types, ThereInv, UNCHANGED stored, NEW j, NEW k \in DOMAIN page.rows,
         page.rows[k].job = j
  PROVE  Fine(Request(page, j))
<1>1. page \in Page /\ j \in Jobs /\ stored[j].there
  BY DEF Types, ThereInv, There
<1>2. /\ Request(page, j) \in Work
      /\ Request(page, j).pc = "sent" /\ Request(page, j).job = j
  BY <1>1, RequestType
<1> QED BY <1>1, <1>2 DEF Fine

\* Being abandoned changes nothing of this.
LEMMA AbandonedFine ==
  ASSUME NEW r, Fine(r)
  PROVE  /\ Fine([r EXCEPT !.mine = FALSE])
         /\ [r EXCEPT !.mine = FALSE].pc = r.pc /\ [r EXCEPT !.mine = FALSE].job = r.job
         /\ ~[r EXCEPT !.mine = FALSE].mine
<1>1. r \in Work /\ [r EXCEPT !.mine = FALSE] \in Work
  BY WorkChanged, ZeroScore, 0 \in Nat DEF Fine
<1> QED BY <1>1 DEF Fine, Work

LEMMA AnswersFine ==
  ASSUME Types, NEW i \in Requests, work[i].pc # "off", NEW score \in Score,
         \A k \in Requests : Fine(work[k]),
         Answers(i, score), score # 0 => stored'[work[i].job].score = score
  PROVE  work' \in [Requests -> Work] /\ \A k \in Requests : Fine(work'[k])
<1>1. /\ work' \in [Requests -> Work]
      /\ \A k \in Requests \ {i} : work'[k] = work[k]
      /\ IF work'[i].pc = "off" THEN ~work'[i].mine
         ELSE work'[i].job = work[i].job /\ work'[i].pc = "answered" /\ work'[i].score = score
  BY AnswersType
<1>2. work'[i] \in Work /\ work[i] \in Work /\ work[i].job \in Jobs /\ stored'[work[i].job].there
  BY <1>1 DEF Fine
<1>3. Fine(work'[i])
  BY <1>1, <1>2 DEF Fine
<1> QED BY <1>1, <1>3

LEMMA WorkStep ==
  ASSUME Types, ThereInv, ScoresInv, [Next]_vars
  PROVE  work' \in [Requests -> Work] /\ \A i \in Requests : Fine(work'[i])
<1> DEFINE Goal == work' \in [Requests -> Work] /\ \A i \in Requests : Fine(work'[i])
<1>1. /\ stored' \in [Jobs -> Job] /\ Grown
      /\ \A j \in Jobs : stored[j].score # 0 => stored'[j].score = stored[j].score
  BY StoredStep
<1>2. /\ work \in [Requests -> Work]
      /\ stored \in [Jobs -> Job]
      /\ \A j \in Jobs : stored[j].version \in Nat /\ stored'[j].version \in Nat
      /\ \A j \in Jobs : stored[j].score \in Score /\ stored'[j].score \in Score
  BY <1>1 DEF Types, Job
<1>3. ASSUME NEW i \in Requests PROVE Fine(work[i])
  <2>1. work[i] \in Work /\ work[i].version \in Nat
    BY <1>2 DEF Work
  <2>2. IF work[i].pc = "off" THEN ~work[i].mine
        ELSE work[i].job \in Jobs /\ stored'[work[i].job].there
    BY <1>1 DEF Types, ThereInv, There, Grown
  <2>3. CASE work[i].pc \in {"scoring", "saving"}
    <3>1. /\ work[i].job \in Jobs
          /\ work[i].version <= stored[work[i].job].version
          /\ work[i].version = stored[work[i].job].version => stored[work[i].job].score = 0
      BY <2>2, <2>3 DEF ScoresInv, ReadUnscored
    <3>2. /\ stored[work[i].job].version <= stored'[work[i].job].version
          /\ stored[work[i].job].version = stored'[work[i].job].version =>
                stored[work[i].job].score = stored'[work[i].job].score
      BY <3>1, <1>1 DEF Grown
    <3>3. /\ work[i].version <= stored'[work[i].job].version
          /\ work[i].version = stored'[work[i].job].version =>
                stored'[work[i].job].score = 0
      BY <1>2, <2>1, <3>1, <3>2
    <3> QED BY <2>1, <2>2, <2>3, <3>3 DEF Fine
  <2>4. CASE work[i].pc = "answered"
    BY <1>1, <2>1, <2>2, <2>4 DEF Fine, ScoresInv
  <2>5. CASE work[i].pc \notin {"scoring", "saving", "answered"}
    BY <2>1, <2>2, <2>5 DEF Fine
  <2> QED BY <2>3, <2>4, <2>5
<1>4. CASE UNCHANGED work
  BY <1>2, <1>3, <1>4
<1>5. ASSUME NEW k, Click(k) PROVE Goal
  <2>1. CASE UNCHANGED work
    BY <2>1, <1>4
  <2>2. CASE ~ UNCHANGED work
    <3>1. PICK i \in Requests : work' = [work EXCEPT ![i] = Request(page, page.rows[k].job)]
      BY <1>5, <2>2 DEF Click
    <3>2. Fine(Request(page, page.rows[k].job))
      BY <1>5, RequestFine DEF Click
    <3>3. Request(page, page.rows[k].job) \in Work
      BY <3>2 DEF Fine
    <3> QED BY <1>2, <1>3, <3>1, <3>2, <3>3
  <2> QED BY <2>1, <2>2
<1>6. CASE Show
  <2>1. PICK old \in SUBSET pending :
           LET again == {j \in Restored(page.rows, old) :
                            \E k \in CopiesOf(page.rows, j) : ~Settled(page, k)}
           IN \E f \in [again -> {i \in Requests : work[i].pc = "off"}] :
                 work' = [i \in Requests |->
                             IF \E j \in again : f[j] = i
                             THEN Request(page, CHOOSE j \in again : f[j] = i)
                             ELSE work[i]]
    BY <1>6, ZenonT(30) DEF Show
  <2> DEFINE again == {j \in Restored(page.rows, old) :
                          \E k \in CopiesOf(page.rows, j) : ~Settled(page, k)}
  <2>2. PICK f \in [again -> {i \in Requests : work[i].pc = "off"}] :
           work' = [i \in Requests |->
                       IF \E j \in again : f[j] = i
                       THEN Request(page, CHOOSE j \in again : f[j] = i)
                       ELSE work[i]]
    BY <2>1
  <2>3. ASSUME NEW j \in again PROVE Fine(Request(page, j))
    <3>1. PICK k \in DOMAIN page.rows : page.rows[k].job = j
      BY <2>3 DEF CopiesOf
    <3> QED BY <1>6, <3>1, RequestFine DEF Show
  <2> HIDE DEF again
  <2>4. \A i \in Requests : Fine(work'[i])
    BY <1>3, <2>2, <2>3
  <2>5. \A i \in Requests : work'[i] \in Work
    BY <2>4 DEF Fine
  <2> QED BY <2>2, <2>4, <2>5
<1>7. CASE Reload
  <2>1. PICK lost \in SUBSET {i \in Requests : work[i].mine} :
           work' = [i \in Requests |->
                      IF i \in lost \/ (work[i].mine /\ work[i].pc = "answered") THEN Off
                      ELSE [work[i] EXCEPT !.mine = FALSE]]
    BY <1>7 DEF Reload
  <2>2. \A i \in Requests : Fine([work[i] EXCEPT !.mine = FALSE])
    BY <1>3, AbandonedFine
  <2>3. \A i \in Requests : Fine(work'[i])
    BY <2>1, <2>2, OffFine
  <2>4. \A i \in Requests : work'[i] \in Work
    BY <2>3 DEF Fine
  <2> QED BY <2>1, <2>3, <2>4
<1>8. ASSUME NEW i \in Requests, AnswerArrives(i) \/ AnswerLost(i) PROVE Goal
  <2>1. work' = [work EXCEPT ![i] = Off]
           \/ work' = [work EXCEPT ![i] = [work[i] EXCEPT !.mine = FALSE]]
    BY <1>8 DEF AnswerArrives, AnswerLost
  <2>2. Fine(Off) /\ Off \in Work
    BY OffFine, OffType
  <2>3. Fine([work[i] EXCEPT !.mine = FALSE]) /\ [work[i] EXCEPT !.mine = FALSE] \in Work
    BY <1>3, AbandonedFine DEF Fine
  <2> QED BY <1>2, <1>3, <2>1, <2>2, <2>3
<1>9. CASE OtherRequest
  <2>1. PICK j \in Jobs, i \in Requests :
           /\ stored[j].there /\ UNCHANGED stored
           /\ work' = [work EXCEPT ![i] = [Off EXCEPT !.pc = "sent", !.job = j]]
    BY <1>9 DEF OtherRequest
  <2> DEFINE new == [Off EXCEPT !.pc = "sent", !.job = j]
  <2>2. new \in Work /\ new.pc = "sent" /\ new.job = j
    BY OffType DEF Work
  <2>3. Fine(new)
    BY <2>1, <2>2 DEF Fine
  <2> HIDE DEF new
  <2>4. work' = [work EXCEPT ![i] = new]
    BY <2>1 DEF new
  <2> QED BY <1>2, <1>3, <2>2, <2>3, <2>4
<1>10. ASSUME NEW i \in Requests, ReadJob(i) PROVE Goal
  <2> DEFINE j == work[i].job
  <2>1. work[i].pc = "sent" /\ j \in Jobs /\ stored[j].there /\ UNCHANGED stored
    BY <1>10 DEF ReadJob, ThereInv, There
  <2>2. CASE Answers(i, stored[j].score)
    BY <1>2, <1>3, <2>1, <2>2, AnswersFine
  <2>3. CASE ~ Answers(i, stored[j].score)
    <3>1. /\ stored[j].score = 0
          /\ work' = [work EXCEPT ![i].pc = "scoring", ![i].version = stored[j].version]
      BY <1>10, <2>3 DEF ReadJob
    <3> DEFINE new == [work[i] EXCEPT !.pc = "scoring", !.version = stored[j].version]
    <3>2. work' = [work EXCEPT ![i] = new]
      BY <1>2, <3>1
    <3>3. new \in Work
      BY <1>2, <2>1, WorkChanged, ZeroScore
    <3>4. new.pc = "scoring" /\ new.job = j /\ new.version = stored[j].version
      BY <1>2 DEF Work
    <3> HIDE DEF new
    <3>5. Fine(new)
      BY <1>2, <2>1, <3>1, <3>3, <3>4 DEF Fine
    <3> QED BY <1>2, <1>3, <3>2, <3>3, <3>5
  <2> QED BY <2>2, <2>3
<1>11. ASSUME NEW i \in Requests, GatewayAnswers(i) PROVE Goal
  <2>1. work[i].pc = "scoring" /\ UNCHANGED stored
    BY <1>11 DEF GatewayAnswers
  <2>2. CASE Answers(i, 0)
    BY <1>3, <2>1, <2>2, AnswersFine, ZeroScore
  <2>3. CASE ~ Answers(i, 0)
    <3>1. PICK score \in Score : work' = [work EXCEPT ![i].pc = "saving", ![i].score = score]
      BY <1>11, <2>3 DEF GatewayAnswers
    <3> DEFINE new == [work[i] EXCEPT !.pc = "saving", !.score = score]
    <3>2. work' = [work EXCEPT ![i] = new]
      BY <1>2, <3>1
    <3>3. new \in Work
      BY <1>2, WorkChanged, 0 \in Nat
    <3>4. new.pc = "saving" /\ new.job = work[i].job /\ new.version = work[i].version
      BY <1>2 DEF Work
    <3> HIDE DEF new
    <3>5. Fine(new)
      BY <1>3, <2>1, <3>3, <3>4 DEF Fine
    <3> QED BY <1>2, <1>3, <3>2, <3>3, <3>5
  <2> QED BY <2>2, <2>3
<1>12. ASSUME NEW i \in Requests, SaveScore(i) PROVE Goal
  <2> DEFINE j == work[i].job
  <2>1. work[i].pc = "saving" /\ j \in Jobs /\ work[i].score \in Score
    BY <1>2, <1>12 DEF SaveScore, Types, Work
  <2>2. CASE Matches(j, work[i].version)
    <3>1. /\ stored' = [stored EXCEPT ![j] = WithScore(stored[j], work[i].score)]
          /\ Answers(i, work[i].score)
      BY <1>12, <2>2 DEF SaveScore
    <3>2. stored'[j].score = work[i].score
      <4>1. stored[j] \in Job /\ stored'[j] = WithScore(stored[j], work[i].score)
        BY <1>2, <2>1, <3>1
      <4> QED BY <4>1 DEF WithScore, Job
    <3> QED BY <1>3, <2>1, <3>1, <3>2, AnswersFine
  <2>3. CASE ~ Matches(j, work[i].version)
    <3>1. UNCHANGED stored /\ Answers(i, stored[j].score)
      BY <1>12, <2>3 DEF SaveScore
    <3> QED BY <1>2, <1>3, <2>1, <3>1, AnswersFine
  <2> QED BY <2>2, <2>3
<1>13. \/ UNCHANGED work
       \/ Show \/ Reload \/ OtherRequest \/ \E k \in 1 .. Cardinality(Jobs) + MaxMoves : Click(k)
       \/ \E i \in Requests : \/ AnswerArrives(i) \/ AnswerLost(i)
                              \/ ReadJob(i) \/ GatewayAnswers(i) \/ SaveScore(i)
  BY DEF Next, vars, LoadNextRows, ServeRows, RowsArrive, RowsLost, StartBatch,
         BatchScored, SaveBatch, Import, Rewrite
<1> QED BY <1>4, <1>5, <1>6, <1>7, <1>8, <1>9, <1>10, <1>11, <1>12, <1>13

-----------------------------------------------------------------------------
(* The batch *)

LEMMA BatchStep ==
  ASSUME Types, ThereInv, ScoresInv, [Next]_vars
  PROVE  /\ batch' \in Batch
         /\ \A j \in batch'.jobs : stored'[j].there
         /\ \A j \in batch'.jobs :
               /\ batch'.version[j] <= stored'[j].version
               /\ batch'.version[j] = stored'[j].version => stored'[j].score = 0
<1> DEFINE FineBatch(b) ==
       /\ b \in Batch
       /\ \A j \in b.jobs : stored'[j].there
       /\ \A j \in b.jobs : /\ b.version[j] <= stored'[j].version
                            /\ b.version[j] = stored'[j].version => stored'[j].score = 0
<1> SUFFICES FineBatch(batch')
  OBVIOUS
<1>1. stored' \in [Jobs -> Job] /\ Grown
  BY StoredStep
<1>2. /\ batch \in Batch /\ batch.jobs \in SUBSET Jobs /\ batch.version \in [Jobs -> Nat]
      /\ stored \in [Jobs -> Job]
      /\ \A j \in Jobs : stored[j].version \in Nat /\ stored'[j].version \in Nat
  BY <1>1 DEF Types, Job, Batch
<1>3. FineBatch(batch)
  <2>1. ASSUME NEW j \in batch.jobs
        PROVE  /\ stored'[j].there
               /\ batch.version[j] <= stored'[j].version
               /\ batch.version[j] = stored'[j].version => stored'[j].score = 0
    <3>1. /\ j \in Jobs /\ stored[j].there
          /\ batch.version[j] <= stored[j].version
          /\ batch.version[j] = stored[j].version => stored[j].score = 0
      BY <1>2 DEF ThereInv, There, ScoresInv, ReadUnscored
    <3>2. /\ stored'[j].there
          /\ stored[j].version <= stored'[j].version
          /\ stored[j].version = stored'[j].version => stored[j].score = stored'[j].score
      BY <3>1, <1>1 DEF Grown
    <3>3. batch.version[j] \in Nat /\ stored[j].version \in Nat /\ stored'[j].version \in Nat
      BY <1>2, <3>1
    <3> QED BY <3>1, <3>2, <3>3
  <2> QED BY <1>2, <2>1
<1>4. FineBatch(NoBatch)
  BY OffType DEF NoBatch
<1>5. CASE UNCHANGED batch \/ batch' = NoBatch
  BY <1>3, <1>4, <1>5
<1>6. CASE StartBatch
  <2> DEFINE ready == {j \in Jobs : stored[j].there /\ stored[j].described
                                    /\ stored[j].score = 0}
             version == [j \in Jobs |-> IF j \in ready THEN stored[j].version ELSE 0]
  <2>1. UNCHANGED stored
        /\ batch' = [NoBatch EXCEPT !.pc = "scoring", !.jobs = ready, !.version = version]
    BY <1>6 DEF StartBatch
  <2>2. ready \in SUBSET Jobs /\ version \in [Jobs -> Nat]
    BY <1>2
  <2>3. \A j \in ready : /\ stored'[j].there /\ stored'[j].score = 0
                         /\ version[j] <= stored'[j].version
    BY <1>2, <2>1
  <2> HIDE DEF ready, version
  <2>4. batch' \in Batch /\ batch'.jobs = ready /\ batch'.version = version
    BY <2>1, <2>2, OffType DEF Batch
  <2> QED BY <2>3, <2>4
<1>7. CASE BatchScored /\ batch' # NoBatch
  <2>1. PICK s \in [batch.jobs -> Score] :
           batch' = [batch EXCEPT !.pc = "saving",
                       !.score = [j \in Jobs |-> IF j \in batch.jobs THEN s[j] ELSE 0]]
    BY <1>7 DEF BatchScored
  <2> DEFINE score == [j \in Jobs |-> IF j \in batch.jobs THEN s[j] ELSE 0]
  <2>2. score \in [Jobs -> Score]
    BY ZeroScore
  <2> HIDE DEF score
  <2>3. batch' = [batch EXCEPT !.pc = "saving", !.score = score]
    BY <2>1 DEF score
  <2>4. batch' \in Batch /\ batch'.jobs = batch.jobs /\ batch'.version = batch.version
    BY <1>2, <2>2, <2>3 DEF Batch
  <2> QED BY <1>3, <2>4
<1>8. UNCHANGED batch \/ batch' = NoBatch \/ StartBatch \/ BatchScored
  BY DEF Next, vars, Show, Reload, LoadNextRows, ServeRows, RowsArrive, RowsLost, Click,
         AnswerArrives, AnswerLost, ReadJob, GatewayAnswers, SaveScore, OtherRequest,
         SaveBatch, Import, Rewrite
<1> HIDE DEF FineBatch
<1> QED BY <1>5, <1>6, <1>7, <1>8

-----------------------------------------------------------------------------
(* The page *)

\* What a step promises of the rows it shows beside the active jobs.
FineRows(rows, active) ==
    \A k \in DOMAIN rows :
       /\ stored'[rows[k].job].there
       /\ rows[k].button = "busy" => rows[k].job \in active
       /\ rows[k].button = "done" => stored'[rows[k].job].score = rows[k].label
                                     /\ rows[k].label # 0

FinePage(pg) ==
    /\ pg \in Page
    /\ pg.load # "no" => pg.next # -1
    /\ FineRows(pg.rows, pg.active) /\ FineRows(pg.chunk, {})

LEMMA BusyRows ==
  ASSUME NEW rows \in Seq(Row), NEW active, NEW J, FineRows(rows, active)
  PROVE  FineRows(WithBusy(rows, J), active \cup J)
<1>1. \A k \in DOMAIN rows : rows[k] \in Row
  OBVIOUS
<1>2. DOMAIN WithBusy(rows, J) = DOMAIN rows
  BY DEF WithBusy
<1>3. ASSUME NEW k \in DOMAIN rows
      PROVE  LET row == WithBusy(rows, J)[k]
             IN /\ stored'[row.job].there
                /\ row.button = "busy" => row.job \in active \cup J
                /\ row.button = "done" => stored'[row.job].score = row.label /\ row.label # 0
  <2>1. CASE rows[k].job \in J
    <3>1. WithBusy(rows, J)[k] = [rows[k] EXCEPT !.button = "busy"]
      BY <2>1 DEF WithBusy
    <3>2. WithBusy(rows, J)[k].job = rows[k].job /\ WithBusy(rows, J)[k].button = "busy"
      BY <1>1, <3>1 DEF Row
    <3> QED BY <2>1, <3>2 DEF FineRows
  <2>2. CASE rows[k].job \notin J
    BY <2>2 DEF WithBusy, FineRows
  <2> QED BY <2>1, <2>2
<1> QED BY <1>2, <1>3 DEF FineRows

LEMMA IdleRows ==
  ASSUME NEW rows \in Seq(Row), NEW active, NEW j, FineRows(rows, active)
  PROVE  FineRows(WithIdle(rows, j), active \ {j})
<1>1. \A k \in DOMAIN rows : rows[k] \in Row
  OBVIOUS
<1>2. DOMAIN WithIdle(rows, j) = DOMAIN rows
  BY DEF WithIdle
<1>3. ASSUME NEW k \in DOMAIN rows
      PROVE  LET row == WithIdle(rows, j)[k]
             IN /\ stored'[row.job].there
                /\ row.button = "busy" => row.job \in active \ {j}
                /\ row.button = "done" => stored'[row.job].score = row.label /\ row.label # 0
  <2>1. CASE rows[k].job = j /\ rows[k].button # "done"
    <3>1. WithIdle(rows, j)[k] = [rows[k] EXCEPT !.button = "idle"]
      BY <2>1 DEF WithIdle
    <3>2. WithIdle(rows, j)[k].job = rows[k].job /\ WithIdle(rows, j)[k].button = "idle"
      BY <1>1, <3>1 DEF Row
    <3> QED BY <3>2 DEF FineRows
  <2>2. CASE ~(rows[k].job = j /\ rows[k].button # "done")
    <3>1. WithIdle(rows, j)[k] = rows[k]
      BY <2>2 DEF WithIdle
    <3> QED BY <2>2, <3>1 DEF FineRows
  <2> QED BY <2>1, <2>2
<1> QED BY <1>2, <1>3 DEF FineRows

LEMMA UpdatedRows ==
  ASSUME NEW rows \in Seq(Row), NEW active, NEW j, NEW score \in Score,
         FineRows(rows, active), score # 0, stored'[j].score = score
  PROVE  FineRows(Updated(rows, j, score), active \ {j})
<1>1. \A k \in DOMAIN rows : rows[k] \in Row
  OBVIOUS
<1>2. DOMAIN Updated(rows, j, score) = DOMAIN rows
  BY DEF Updated
<1>3. ASSUME NEW k \in DOMAIN rows
      PROVE  LET row == Updated(rows, j, score)[k]
             IN /\ stored'[row.job].there
                /\ row.button = "busy" => row.job \in active \ {j}
                /\ row.button = "done" => stored'[row.job].score = row.label /\ row.label # 0
  <2>1. CASE rows[k].job = j
    <3>1. Updated(rows, j, score)[k] = [rows[k] EXCEPT !.label = score, !.button = "done"]
      BY <2>1 DEF Updated
    <3>2. LET row == Updated(rows, j, score)[k]
          IN row.job = rows[k].job /\ row.button = "done" /\ row.label = score
      BY <1>1, <3>1 DEF Row
    <3> QED BY <2>1, <3>2 DEF FineRows
  <2>2. CASE rows[k].job # j
    BY <2>2 DEF Updated, FineRows
  <2> QED BY <2>1, <2>2
<1> QED BY <1>2, <1>3 DEF FineRows

\* The rows the server lists.
LEMMA ListedRows ==
  ASSUME stored \in [Jobs -> Job], UNCHANGED stored, NEW o \in Seq(There), NEW offset \in Nat
  PROVE  FineRows(ChunkRows(o, offset), {})
BY RenderedTrue DEF FineRows, RowTrue, There

LEMMA AppendedRows ==
  ASSUME NEW rows \in Seq(Row), NEW chunk \in Seq(Row), NEW active,
         FineRows(rows, active), FineRows(chunk, {})
  PROVE  rows \o chunk \in Seq(Row) /\ FineRows(rows \o chunk, active)
<1>1. rows \o chunk \in Seq(Row)
  OBVIOUS
<1>2. ASSUME NEW k \in DOMAIN (rows \o chunk)
      PROVE  \/ k \in DOMAIN rows /\ (rows \o chunk)[k] = rows[k]
             \/ \E n \in DOMAIN chunk : (rows \o chunk)[k] = chunk[n]
  <2>1. CASE k \in DOMAIN rows
    BY <2>1
  <2>2. CASE k \notin DOMAIN rows
    <3>1. k - Len(rows) \in DOMAIN chunk /\ (rows \o chunk)[k] = chunk[k - Len(rows)]
      BY <2>2
    <3> QED BY <3>1
  <2> QED BY <2>1, <2>2
<1>3. FineRows(rows \o chunk, active)
  BY <1>2 DEF FineRows
<1> QED BY <1>1, <1>3

LEMMA OrdersNext == \A o \in Orders' : o \in Seq(There')
<1>1. (\A o \in Orders : o \in Seq(There))'
  BY OrdersType, PTL
<1> QED BY <1>1

\* Counting the figures changes nothing else of a page.
LEMMA FiguresMore ==
  ASSUME Types, ThereInv
  PROVE  LET q == Figures(page)
         IN /\ q \in Page /\ q.pc = "shown"
            /\ q.scored = Cardinality(Scored) /\ q.strong = Cardinality(StrongMatches)
            /\ q.rows = page.rows /\ q.active = page.active /\ q.chunk = page.chunk
            /\ q.load = page.load /\ q.next = page.next /\ q.more = page.more
<1> DEFINE a == Cardinality(Scored)  b == Cardinality(StrongMatches)
           c == Cardinality({j \in Jobs : stored[j].there}) - Cardinality(Scored)
<1>1. a \in Nat /\ b \in Nat /\ c \in Nat
  <2>1. /\ IsFiniteSet(There) /\ IsFiniteSet(Scored) /\ IsFiniteSet(StrongMatches)
        /\ Scored \subseteq There
    BY RowsAssumption, FS_Subset DEF There, Scored, StrongMatches, ThereInv
  <2>2. /\ Cardinality(There) \in Nat /\ a \in Nat /\ b \in Nat
        /\ Cardinality(Scored) <= Cardinality(There)
    BY <2>1, FS_CardinalityType, FS_Subset
  <2> QED BY <2>2 DEF There
<1>2. Figures(page) = [page EXCEPT !.pc = "shown", !.scored = a, !.strong = b, !.unscored = c]
  BY DEF Figures
<1>3. page \in Page
  BY DEF Types
<1> HIDE DEF a, b, c
<1>4. [page EXCEPT !.pc = "shown", !.scored = a, !.strong = b, !.unscored = c] \in Page
  BY <1>1, <1>3, FiguresChanged
<1>5. LET q == Figures(page)
      IN /\ q.pc = "shown" /\ q.scored = a /\ q.strong = b
         /\ q.rows = page.rows /\ q.active = page.active /\ q.chunk = page.chunk
         /\ q.load = page.load /\ q.next = page.next /\ q.more = page.more
  BY <1>2, <1>3 DEF Page
<1>6. Figures(page) \in Page
  BY <1>2, <1>4
<1> QED BY <1>5, <1>6 DEF a, b

LEMMA PageStep ==
  ASSUME Types, ThereInv, ScoresInv, RowsInv, [Next]_vars
  PROVE  FinePage(page')
<1>1. /\ stored' \in [Jobs -> Job] /\ Grown
      /\ \A j \in Jobs : stored[j].score # 0 => stored'[j].score = stored[j].score
  BY StoredStep
<1>2. /\ stored \in [Jobs -> Job] /\ page \in Page
      /\ page.rows \in Seq(Row) /\ page.chunk \in Seq(Row) /\ page.active \in SUBSET Jobs
      /\ page.next \in Nat \cup {-1}
  BY DEF Types, Page
<1>3. FinePage(page)
  <2>1. ASSUME NEW rows \in Seq(Row), NEW active, NEW k \in DOMAIN rows,
               rows[k].job \in There, RowTrue(rows[k], active)
        PROVE  /\ stored'[rows[k].job].there
               /\ rows[k].button = "busy" => rows[k].job \in active
               /\ rows[k].button = "done" => stored'[rows[k].job].score = rows[k].label
                                             /\ rows[k].label # 0
    BY <1>1, <2>1 DEF RowTrue, There, Grown
  <2>2. FineRows(page.rows, page.active)
    BY <1>2, <2>1 DEF FineRows, RowsInv, ThereInv
  <2>3. FineRows(page.chunk, {})
    BY <1>2, <2>1 DEF FineRows, RowsInv, ThereInv
  <2> QED BY <1>2, <2>2, <2>3 DEF FinePage, Types
<1>4. ASSUME NEW J \in SUBSET Jobs, NEW pg \in Page, FinePage(pg)
      PROVE  FinePage(Submitted(pg, J))
  <2>1. pg.rows \in Seq(Row)
    BY DEF Page
  <2>2. LET q == Submitted(pg, J)
        IN /\ q \in Page
           /\ q.rows = WithBusy(pg.rows, J) /\ q.active = pg.active \cup J
           /\ q.load = pg.load /\ q.next = pg.next /\ q.chunk = pg.chunk
    BY SubmittedType
  <2>3. FineRows(WithBusy(pg.rows, J), pg.active \cup J)
    BY <1>4, <2>1, BusyRows DEF FinePage
  <2> QED BY <1>4, <2>2, <2>3 DEF FinePage
<1>5. ASSUME NEW j \in Jobs, NEW score \in Score, NEW before \in Score,
             score # 0 => stored'[j].score = score
      PROVE  FinePage(Applied(page, j, score, before))
  <2>1. LET q == Applied(page, j, score, before)
        IN /\ q \in Page
           /\ q.rows = IF score = 0 THEN WithIdle(page.rows, j) ELSE Updated(page.rows, j, score)
           /\ q.active = page.active \ {j}
           /\ q.load = page.load /\ q.next = page.next /\ q.chunk = page.chunk
    BY <1>2, AppliedType
  <2>2. FineRows(IF score = 0 THEN WithIdle(page.rows, j) ELSE Updated(page.rows, j, score),
                 page.active \ {j})
    BY <1>2, <1>3, <1>5, IdleRows, UpdatedRows DEF FinePage
  <2> QED BY <1>3, <2>1, <2>2 DEF FinePage
<1>6. ASSUME NEW k, Click(k) PROVE FinePage(page')
  <2>1. page.rows[k].job \in Jobs
    <3>1. page.rows[k] \in Row
      BY <1>2, <1>6 DEF Click
    <3> QED BY <3>1 DEF Row
  <2> QED BY <1>2, <1>3, <1>4, <1>6, <2>1 DEF Click
<1>7. CASE Show
  <2>1. PICK again \in SUBSET Jobs : page' = Submitted(Figures(page), again)
    BY <1>7 DEF Show, Restored, Types
  <2>2. LET q == Figures(page)
        IN /\ q \in Page
           /\ q.rows = page.rows /\ q.active = page.active /\ q.chunk = page.chunk
           /\ q.load = page.load /\ q.next = page.next
    BY FiguresMore
  <2>3. FinePage(Figures(page))
    BY <1>3, <2>2 DEF FinePage
  <2> QED BY <1>4, <2>1, <2>2, <2>3
<1>8. CASE Reload
  <2>1. UNCHANGED stored
    BY <1>8 DEF Reload
  <2>2. PICK o \in Orders' : page' = Rendering(o)
    BY <1>8 DEF Reload
  <2>3. \A x \in Orders' : x \in Seq(There')
    BY OrdersNext
  <2>4. o \in Seq(There')
    BY <2>2, <2>3
  <2>5. There' = There
    BY <2>1 DEF There
  <2>6. o \in Seq(There)
    BY <2>4, <2>5
  <2>7. /\ page' \in Page /\ page'.rows = ChunkRows(o, 0) /\ page'.chunk = <<>>
        /\ page'.load = "no" /\ page'.active = {}
    BY <1>2, <2>2, <2>6, RenderingType
  <2>8. FineRows(ChunkRows(o, 0), {})
    BY <1>2, <2>1, <2>6, ListedRows, 0 \in Nat
  <2> QED BY <2>7, <2>8 DEF FinePage, FineRows
<1>9. ASSUME NEW i \in Requests, AnswerArrives(i) PROVE FinePage(page')
  <2>1. /\ work[i].pc = "answered" /\ UNCHANGED stored
        /\ page' = Applied(page, work[i].job, work[i].score, work[i].before)
    BY <1>9 DEF AnswerArrives
  <2>2. work[i].job \in Jobs /\ work[i].score \in Score /\ work[i].before \in Score
    BY <2>1 DEF Types, Work
  <2>3. work[i].score # 0 => stored'[work[i].job].score = work[i].score
    BY <2>1 DEF ScoresInv
  <2> QED BY <1>5, <2>1, <2>2, <2>3
<1>10. ASSUME NEW i \in Requests, AnswerLost(i) PROVE FinePage(page')
  <2>1. work[i].mine /\ page' = Applied(page, work[i].job, 0, 0)
    BY <1>10 DEF AnswerLost
  <2>2. work[i].job \in Jobs
    BY <2>1 DEF Types
  <2> QED BY <1>5, <2>1, <2>2, ZeroScore
<1>11. CASE LoadNextRows
  <2>1. page' = [page EXCEPT !.load = "asked"] /\ page.next # -1
    BY <1>11 DEF LoadNextRows
  <2>2. page' \in Page
    BY <1>2, <2>1, LoadChanged
  <2>3. /\ page'.rows = page.rows /\ page'.active = page.active
        /\ page'.chunk = page.chunk /\ page'.next = page.next
    BY <1>2, <2>1 DEF Page
  <2> QED BY <1>3, <2>1, <2>2, <2>3 DEF FinePage
<1>12. CASE ServeRows
  <2>1. PICK o \in Orders :
           page' = [page EXCEPT !.load = "served", !.chunk = ChunkRows(o, page.next),
                                !.more = HasMore(o, page.next)]
    BY <1>12 DEF ServeRows
  <2>2. page.next \in Nat /\ o \in Seq(There) /\ UNCHANGED stored
    BY <1>2, <1>12, OrdersType DEF ServeRows, Types
  <2> DEFINE chunk == ChunkRows(o, page.next)  more == HasMore(o, page.next)
  <2>3. chunk \in Seq(Row) /\ more \in BOOLEAN /\ FineRows(chunk, {})
    BY <1>2, <2>2, ChunkType, ListedRows
  <2> HIDE DEF chunk, more
  <2>4. page' = [page EXCEPT !.load = "served", !.chunk = chunk, !.more = more]
    BY <2>1 DEF chunk, more
  <2>5. page' \in Page
    BY <1>2, <2>3, <2>4, LoadChanged
  <2>6. /\ page'.rows = page.rows /\ page'.active = page.active
        /\ page'.chunk = chunk /\ page'.next = page.next
    BY <1>2, <2>4 DEF Page
  <2> QED BY <1>3, <2>2, <2>3, <2>5, <2>6 DEF FinePage
<1>13. CASE RowsArrive
  <2> DEFINE rows == page.rows \o page.chunk
             next == IF page.more THEN page.next + Len(page.chunk) ELSE -1
  <2>1. page.next \in Nat /\ page' = Appended(page)
    BY <1>2, <1>13 DEF RowsArrive, Types
  <2>2. next \in Nat \cup {-1}
    BY <1>2, <2>1
  <2>3. rows \in Seq(Row) /\ FineRows(rows, page.active)
    BY <1>2, <1>3, AppendedRows DEF FinePage
  <2>4. page' = [page EXCEPT !.rows = rows, !.next = next, !.load = "no", !.chunk = <<>>,
                             !.more = FALSE]
    BY <2>1 DEF Appended
  <2> HIDE DEF rows, next
  <2>5. page' \in Page
    BY <1>2, <2>2, <2>3, <2>4, RowsAppended
  <2>6. /\ page'.rows = rows /\ page'.active = page.active
        /\ page'.chunk = <<>> /\ page'.load = "no"
    BY <1>2, <2>4 DEF Page
  <2> QED BY <2>3, <2>5, <2>6 DEF FinePage, FineRows
<1>14. CASE RowsLost
  <2>1. page' = [page EXCEPT !.load = "no", !.chunk = <<>>, !.more = FALSE]
    BY <1>14 DEF RowsLost
  <2>2. <<>> \in Seq(Row)
    OBVIOUS
  <2>3. page' \in Page
    BY <1>2, <2>1, <2>2, LoadChanged
  <2>4. /\ page'.rows = page.rows /\ page'.active = page.active
        /\ page'.chunk = <<>> /\ page'.load = "no"
    BY <1>2, <2>1 DEF Page
  <2> QED BY <1>3, <2>3, <2>4 DEF FinePage, FineRows
<1>15. \/ UNCHANGED page
       \/ Show \/ Reload \/ LoadNextRows \/ ServeRows \/ RowsArrive \/ RowsLost
       \/ \E k \in 1 .. Cardinality(Jobs) + MaxMoves : Click(k)
       \/ \E i \in Requests : AnswerArrives(i) \/ AnswerLost(i)
  BY DEF Next, vars, ReadJob, GatewayAnswers, SaveScore, OtherRequest, StartBatch,
         BatchScored, SaveBatch, Import, Rewrite
<1> QED BY <1>3, <1>6, <1>7, <1>8, <1>9, <1>10, <1>11, <1>12, <1>13, <1>14, <1>15

-----------------------------------------------------------------------------
(* The requests of the page and the active jobs *)

MineNext(j) == {i \in Requests : work'[i].mine /\ work'[i].job = j}

LEMMA ActiveStep ==
  ASSUME Types, ThereInv, ActiveInv, [Next]_vars
  PROVE  \A j \in Jobs :
            /\ j \in page'.active => \E i \in Requests : MineNext(j) = {i}
            /\ j \notin page'.active => MineNext(j) = {}
<1> DEFINE Goal == \A j \in Jobs :
              /\ j \in page'.active => \E i \in Requests : MineNext(j) = {i}
              /\ j \notin page'.active => MineNext(j) = {}
<1>1. /\ work \in [Requests -> Work] /\ stored \in [Jobs -> Job] /\ page \in Page
      /\ page.active \in SUBSET Jobs /\ page.rows \in Seq(Row)
      /\ \A k \in DOMAIN page.rows : page.rows[k].job \in Jobs
  BY DEF Types, Page, ThereInv, There
<1>2. \A j \in Jobs : /\ j \in page.active => \E i \in Requests : Mine(j) = {i}
                      /\ j \notin page.active => Mine(j) = {}
  BY DEF ActiveInv
<1>3. ASSUME page'.active = page.active,
             \A i \in Requests : /\ work'[i].mine <=> work[i].mine
                                 /\ work'[i].mine => work'[i].job = work[i].job
      PROVE  Goal
  <2>1. \A j \in Jobs : MineNext(j) = Mine(j)
    BY <1>3 DEF Mine, MineNext
  <2> QED BY <1>2, <1>3, <2>1
<1>4. \A i \in Requests : work[i].pc = "off" => ~work[i].mine
  BY DEF Types
\* One more job, and one more request for it.
<1>5. ASSUME NEW k, Click(k) PROVE Goal
  <2> DEFINE j == page.rows[k].job
  <2>1. CASE UNCHANGED <<page, work>>
    BY <1>3, <2>1
  <2>2. CASE ~ UNCHANGED <<page, work>>
    <3>1. /\ k \in DOMAIN page.rows /\ ~Settled(page, k) /\ page' = Submitted(page, {j})
      BY <1>5, <2>2 DEF Click
    <3>2. PICK i \in Requests : work[i].pc = "off" /\ work' = [work EXCEPT ![i] = Request(page, j)]
      BY <1>5, <2>2 DEF Click
    <3>3. j \in Jobs /\ j \notin page.active
      BY <1>1, <3>1 DEF Settled
    <3>4. page'.active = page.active \cup {j}
      BY <1>1, <3>1, <3>3, SubmittedType
    <3>5. work'[i].mine /\ work'[i].job = j /\ ~work[i].mine
      BY <1>1, <1>4, <3>1, <3>2, RequestType
    <3>6. \A n \in Requests \ {i} : work'[n] = work[n]
      BY <1>1, <3>2
    <3> HIDE DEF j
    <3>7. MineNext(j) = Mine(j) \cup {i} /\ \A n \in Jobs \ {j} : MineNext(n) = Mine(n)
      BY <3>5, <3>6 DEF Mine, MineNext
    <3>8. MineNext(j) = {i}
      BY <1>2, <3>3, <3>7
    <3> QED BY <1>2, <3>4, <3>7, <3>8
  <2> QED BY <2>1, <2>2
\* More jobs, and one request for each of them.
<1>6. CASE Show
  <2>1. PICK old \in SUBSET pending :
           LET again == {j \in Restored(page.rows, old) :
                            \E k \in CopiesOf(page.rows, j) : ~Settled(page, k)}
           IN /\ page' = Submitted(Figures(page), again)
              /\ \E f \in [again -> {i \in Requests : work[i].pc = "off"}] :
                    /\ \A a, b \in again : f[a] = f[b] => a = b
                    /\ work' = [i \in Requests |->
                                  IF \E j \in again : f[j] = i
                                  THEN Request(page, CHOOSE j \in again : f[j] = i)
                                  ELSE work[i]]
    BY <1>6 DEF Show
  <2> DEFINE again == {j \in Restored(page.rows, old) :
                          \E k \in CopiesOf(page.rows, j) : ~Settled(page, k)}
  <2>2. PICK f \in [again -> {i \in Requests : work[i].pc = "off"}] :
           /\ \A a, b \in again : f[a] = f[b] => a = b
           /\ work' = [i \in Requests |->
                         IF \E j \in again : f[j] = i
                         THEN Request(page, CHOOSE j \in again : f[j] = i)
                         ELSE work[i]]
    BY <2>1
  <2>3. again \in SUBSET Jobs
    BY DEF Restored, Types
  <2>4. \A j \in again : /\ j \notin page.active
                         /\ \E k \in DOMAIN page.rows : page.rows[k].job = j
    BY DEF CopiesOf, Settled
  <2>5. page'.active = page.active \cup again
    <3>1. page' = Submitted(Figures(page), again)
      BY <2>1
    <3>2. /\ [Figures(page) EXCEPT !.active = @ \cup again, !.rows = WithBusy(@, again)].active
                = Figures(page).active \cup again
          /\ Figures(page).active = page.active
      BY <1>1 DEF Figures, Page
    <3> QED BY <3>1, <3>2 DEF Submitted
  <2>6. \A j \in again : Request(page, j).mine /\ Request(page, j).job = j
    BY <1>1, <2>3, <2>4, RequestType
  <2> HIDE DEF again
  <2>7. ASSUME NEW j \in again
        PROVE  f[j] \in Requests /\ work'[f[j]].mine /\ work'[f[j]].job = j /\ ~work[f[j]].mine
    <3>1. f[j] \in Requests /\ work[f[j]].pc = "off"
      BY <2>2
    <3>2. (CHOOSE n \in again : f[n] = f[j]) = j
      BY <2>2
    <3>3. work'[f[j]] = Request(page, CHOOSE n \in again : f[n] = f[j])
      BY <2>2, <3>1
    <3> QED BY <1>4, <2>6, <3>1, <3>2, <3>3
  <2>8. \A i \in Requests : (\A j \in again : f[j] # i) => work'[i] = work[i]
    BY <2>2
  <2>9. ASSUME NEW j \in again PROVE MineNext(j) = {f[j]}
    <3>1. Mine(j) = {}
      BY <1>2, <2>3, <2>4
    <3>2. ASSUME NEW i \in Requests, work'[i].mine, work'[i].job = j PROVE i = f[j]
      <4>1. CASE \E n \in again : f[n] = i
        <5>1. PICK n \in again : f[n] = i
          BY <4>1
        <5> QED BY <2>7, <3>2, <5>1
      <4>2. CASE \A n \in again : f[n] # i
        BY <2>8, <3>1, <3>2, <4>2 DEF Mine
      <4> QED BY <4>1, <4>2
    <3> QED BY <2>7, <3>2 DEF MineNext
  <2>10. ASSUME NEW j \in Jobs \ again PROVE MineNext(j) = Mine(j)
    <3>1. ASSUME NEW i \in Requests
          PROVE  (work'[i].mine /\ work'[i].job = j) <=> (work[i].mine /\ work[i].job = j)
      <4>1. CASE \E n \in again : f[n] = i
        <5>1. PICK n \in again : f[n] = i
          BY <4>1
        <5>2. work'[i].job = n /\ ~work[i].mine /\ n # j
          BY <2>7, <5>1
        <5> QED BY <5>2
      <4>2. CASE \A n \in again : f[n] # i
        BY <2>8, <4>2
      <4> QED BY <4>1, <4>2
    <3> QED BY <3>1 DEF Mine, MineNext
  <2> QED BY <1>2, <2>2, <2>3, <2>5, <2>9, <2>10
\* No job, and no request.
<1>7. CASE Reload
  <2>1. \A i \in Requests : work[i] \in Work /\ ~[work[i] EXCEPT !.mine = FALSE].mine
    BY <1>1 DEF Work
  <2>2. \A i \in Requests : ~work'[i].mine
    BY <1>7, <2>1 DEF Reload, Off
  <2>3. page'.active = {}
    <3>1. PICK o : page' = Rendering(o)
      BY <1>7 DEF Reload
    <3>2. Blank.active = {} /\ \A rows, next :
                [Blank EXCEPT !.rows = rows, !.next = next].active = Blank.active
      BY DEF Blank
    <3> QED BY <3>1, <3>2 DEF Rendering
  <2> QED BY <2>2, <2>3 DEF MineNext
\* One job less, and the request for it.
<1>8. ASSUME NEW i \in Requests, AnswerArrives(i) \/ AnswerLost(i) PROVE Goal
  <2> DEFINE j == work[i].job
  <2>1. work[i].mine /\ j \in Jobs /\ work[i] \in Work
    BY <1>1, <1>8 DEF AnswerArrives, AnswerLost, Types
  <2>2. page'.active = page.active \ {j}
    <3>1. PICK score \in Score, before \in Score : page' = Applied(page, j, score, before)
      BY <1>8, <2>1, ZeroScore DEF AnswerArrives, AnswerLost, Work
    <3> QED BY <1>1, <2>1, <3>1, AppliedType
  <2>3. work' = [work EXCEPT ![i] = Off] \/ work' = [work EXCEPT ![i].mine = FALSE]
    BY <1>8 DEF AnswerArrives, AnswerLost
  <2>4. ~work'[i].mine /\ \A n \in Requests \ {i} : work'[n] = work[n]
    BY <1>1, <2>1, <2>3 DEF Off, Work
  <2> HIDE DEF j
  <2>5. Mine(j) = {i}
    <3>1. i \in Mine(j)
      BY <2>1 DEF Mine, j
    <3> QED BY <1>2, <2>1, <3>1
  <2>6. MineNext(j) = {} /\ \A n \in Jobs \ {j} : MineNext(n) = Mine(n)
    <3>1. MineNext(j) = {}
      BY <2>4, <2>5 DEF Mine, MineNext
    <3>2. \A n \in Jobs \ {j} : MineNext(n) = Mine(n)
      BY <2>4 DEF Mine, MineNext, j
    <3> QED BY <3>1, <3>2
  <2> QED BY <1>2, <2>2, <2>6
<1>9. ASSUME NEW i \in Requests, ReadJob(i) \/ GatewayAnswers(i) \/ SaveScore(i) PROVE Goal
  <2>1. work[i].pc # "off" /\ UNCHANGED page
    BY <1>9 DEF ReadJob, GatewayAnswers, SaveScore
  <2>2. CASE \E score \in Score : Answers(i, score)
    <3>1. PICK score \in Score : Answers(i, score)
      BY <2>2
    <3>2. \A k \in Requests : /\ work'[k].mine <=> work[k].mine
                              /\ work'[k].mine => work'[k].job = work[k].job
      BY <2>1, <3>1, AnswersType
    <3> QED BY <1>3, <2>1, <3>2
  <2>3. CASE ~ \E score \in Score : Answers(i, score)
    <3>1. work[i].score \in Score /\ (work[i].job \in Jobs => stored[work[i].job].score \in Score)
      BY <1>1 DEF Work, Job
    <3>2. work[i].job \in Jobs
      BY <2>1 DEF Types
    <3>3. \/ \E version : work' = [work EXCEPT ![i].pc = "scoring", ![i].version = version]
          \/ \E score : work' = [work EXCEPT ![i].pc = "saving", ![i].score = score]
      BY <1>9, <2>3, <3>1, <3>2, ZeroScore DEF ReadJob, GatewayAnswers, SaveScore
    <3>4. PICK new : /\ work' = [work EXCEPT ![i] = new]
                     /\ (new.mine <=> work[i].mine) /\ new.job = work[i].job
      <4>1. CASE \E version : work' = [work EXCEPT ![i].pc = "scoring", ![i].version = version]
        <5>1. PICK version : work' = [work EXCEPT ![i].pc = "scoring", ![i].version = version]
          BY <4>1
        <5>2. work' = [work EXCEPT ![i] = [work[i] EXCEPT !.pc = "scoring", !.version = version]]
          BY <1>1, <5>1
        <5>3. LET new == [work[i] EXCEPT !.pc = "scoring", !.version = version]
              IN (new.mine <=> work[i].mine) /\ new.job = work[i].job
          BY <1>1 DEF Work
        <5> QED BY <5>2, <5>3
      <4>2. CASE \E score : work' = [work EXCEPT ![i].pc = "saving", ![i].score = score]
        <5>1. PICK score : work' = [work EXCEPT ![i].pc = "saving", ![i].score = score]
          BY <4>2
        <5>2. work' = [work EXCEPT ![i] = [work[i] EXCEPT !.pc = "saving", !.score = score]]
          BY <1>1, <5>1
        <5>3. LET new == [work[i] EXCEPT !.pc = "saving", !.score = score]
              IN (new.mine <=> work[i].mine) /\ new.job = work[i].job
          BY <1>1 DEF Work
        <5> QED BY <5>2, <5>3
      <4> QED BY <3>3, <4>1, <4>2
    <3>5. \A k \in Requests : (work'[k].mine <=> work[k].mine) /\ work'[k].job = work[k].job
      BY <1>1, <3>4
    <3> QED BY <1>3, <2>1, <3>5
  <2> QED BY <2>2, <2>3
<1>10. CASE OtherRequest
  <2>1. PICK j \in Jobs, i \in Requests :
           /\ work[i].pc = "off" /\ UNCHANGED page
           /\ work' = [work EXCEPT ![i] = [Off EXCEPT !.pc = "sent", !.job = j]]
    BY <1>10 DEF OtherRequest
  <2>2. ~[Off EXCEPT !.pc = "sent", !.job = j].mine
    BY DEF Off
  <2> QED BY <1>1, <1>3, <1>4, <2>1, <2>2
<1>11. ASSUME UNCHANGED work, page'.active = page.active PROVE Goal
  BY <1>3, <1>11
<1>12. ASSUME LoadNextRows \/ ServeRows \/ RowsArrive \/ RowsLost
       PROVE  UNCHANGED work /\ page'.active = page.active
  BY <1>1, <1>12 DEF LoadNextRows, ServeRows, RowsArrive, RowsLost, Appended, Page
<1>13. \/ UNCHANGED <<page, work>>
       \/ LoadNextRows \/ ServeRows \/ RowsArrive \/ RowsLost
       \/ Show \/ Reload \/ OtherRequest \/ \E k \in 1 .. Cardinality(Jobs) + MaxMoves : Click(k)
       \/ \E i \in Requests : \/ AnswerArrives(i) \/ AnswerLost(i)
                              \/ ReadJob(i) \/ GatewayAnswers(i) \/ SaveScore(i)
  BY DEF Next, vars, StartBatch, BatchScored, SaveBatch, Import, Rewrite
<1> QED BY <1>5, <1>6, <1>7, <1>8, <1>9, <1>10, <1>11, <1>12, <1>13

-----------------------------------------------------------------------------
(* The invariant is kept *)

LEMMA RestStep ==
  ASSUME Types, [Next]_vars
  PROVE  onlyUnscored' \in BOOLEAN /\ pending' \in SUBSET Jobs /\ used' \in 0 .. MaxMoves
<1>1. used' = used \/ Counted
  BY DEF Next, vars, Goes, Show, Reload, LoadNextRows, ServeRows, RowsArrive, RowsLost, Click,
         AnswerArrives, AnswerLost, ReadJob, GatewayAnswers, SaveScore, OtherRequest,
         StartBatch, BatchScored, SaveBatch, Import, Rewrite
<1>2. used' \in 0 .. MaxMoves
  <2>1. used \in 0 .. MaxMoves /\ MaxMoves \in Nat
    BY RowsAssumption DEF Types
  <2> QED BY <1>1, <2>1 DEF Counted
<1>3. onlyUnscored' \in BOOLEAN
  <2>1. UNCHANGED onlyUnscored \/ Reload
    BY DEF Next, vars, Show, LoadNextRows, ServeRows, RowsArrive, RowsLost, Click,
           AnswerArrives, AnswerLost, ReadJob, GatewayAnswers, SaveScore, OtherRequest,
           StartBatch, BatchScored, SaveBatch, Import, Rewrite
  <2> QED BY <2>1 DEF Reload, Types
<1>4. pending' \in SUBSET Jobs
  <2>1. page \in Page /\ pending \in SUBSET Jobs
    BY DEF Types
  <2>2. ASSUME NEW k, Click(k) PROVE pending' \in SUBSET Jobs
    <3>1. page.rows[k] \in Row
      BY <2>1, <2>2 DEF Click, Page
    <3>2. page.rows[k].job \in Jobs
      BY <3>1 DEF Row
    <3> QED BY <2>1, <2>2, <3>2 DEF Click
  <2>3. ASSUME Show \/ \E i \in Requests : AnswerArrives(i) \/ AnswerLost(i)
        PROVE  pending' \in SUBSET Jobs
    BY <2>1, <2>3 DEF Show, AnswerArrives, AnswerLost
  <2>4. \/ UNCHANGED pending
        \/ Show \/ \E i \in Requests : AnswerArrives(i) \/ AnswerLost(i)
        \/ \E k \in 1 .. Cardinality(Jobs) + MaxMoves : Click(k)
    BY DEF Next, vars, Reload, LoadNextRows, ServeRows, RowsArrive, RowsLost, ReadJob,
           GatewayAnswers, SaveScore, OtherRequest, StartBatch, BatchScored, SaveBatch,
           Import, Rewrite
  <2> QED BY <2>1, <2>2, <2>3, <2>4
<1> QED BY <1>2, <1>3, <1>4

LEMMA InvStep == Inv /\ [Next]_vars => Inv'
<1> SUFFICES ASSUME Inv, [Next]_vars PROVE Inv'
  OBVIOUS
<1> USE DEF Inv
<1>1. /\ stored' \in [Jobs -> Job] /\ Grown
      /\ \A j \in Jobs : stored'[j].score # 0 => stored'[j].there
  BY StoredStep
<1>2. work' \in [Requests -> Work] /\ \A i \in Requests : Fine(work'[i])
  BY WorkStep
<1>3. /\ batch' \in Batch
      /\ \A j \in batch'.jobs : stored'[j].there
      /\ \A j \in batch'.jobs :
            /\ batch'.version[j] <= stored'[j].version
            /\ batch'.version[j] = stored'[j].version => stored'[j].score = 0
  BY BatchStep
<1>4. FinePage(page')
  BY PageStep
<1>5. \A j \in Jobs : /\ j \in page'.active => \E i \in Requests : MineNext(j) = {i}
                      /\ j \notin page'.active => MineNext(j) = {}
  BY ActiveStep
<1>6. onlyUnscored' \in BOOLEAN /\ pending' \in SUBSET Jobs /\ used' \in 0 .. MaxMoves
  BY RestStep
<1>7. Types'
  BY <1>1, <1>2, <1>3, <1>4, <1>6 DEF Types, Fine, FinePage
<1>8. ThereInv'
  <2>1. /\ page'.rows \in Seq(Row) /\ page'.chunk \in Seq(Row)
        /\ batch'.jobs \in SUBSET Jobs
    BY <1>3, <1>4 DEF FinePage, Page, Batch
  <2>2. /\ \A k \in DOMAIN page'.rows : page'.rows[k] \in Row
        /\ \A k \in DOMAIN page'.chunk : page'.chunk[k] \in Row
    BY <2>1
  <2>3. /\ \A k \in DOMAIN page'.rows : page'.rows[k].job \in Jobs
        /\ \A k \in DOMAIN page'.chunk : page'.chunk[k].job \in Jobs
    BY <2>2 DEF Row
  <2>4. /\ \A k \in DOMAIN page'.rows : stored'[page'.rows[k].job].there
        /\ \A k \in DOMAIN page'.chunk : stored'[page'.chunk[k].job].there
    BY <1>4 DEF FinePage, FineRows
  <2> QED BY <1>1, <1>2, <1>3, <2>1, <2>3, <2>4 DEF ThereInv, There, Fine
<1>9. ActiveInv'
  BY <1>5 DEF ActiveInv, Mine, MineNext
<1>10. ScoresInv'
  BY <1>2, <1>3 DEF ScoresInv, ReadUnscored, Fine
<1>11. RowsInv'
  BY <1>4 DEF RowsInv, RowTrue, FinePage, FineRows
<1> QED BY <1>7, <1>8, <1>9, <1>10, <1>11

-----------------------------------------------------------------------------
(* Counting rows *)

\* The jobs of some rows, and those with a row whose button is not done.
JobsOf(rows) == {j \in Jobs : \E k \in DOMAIN rows : rows[k].job = j}
Open(rows) == {j \in Jobs : \E k \in DOMAIN rows : rows[k].job = j /\ rows[k].button # "done"}

\* The rows of the jobs in S.
RowsOf(rows, S) == {k \in DOMAIN rows : rows[k].job \in S}

\* Figure n, which counts jobs of S, is covered.  A job without a row, shown or
\* under way, counts once, and so does one of t; a job with rows counts as often
\* as there are rows of it, but once less while one of them is not done: that one
\* may still be clicked and answered.
Covered(n, S, rows, chunk, t) ==
    n + Cardinality(Open(rows) \cap S)
        <= Cardinality(S \ (JobsOf(rows) \cup Open(chunk))) + Cardinality(t)
           + Cardinality(RowsOf(rows, S))

\* Sets of jobs and sets of rows can be counted.
LEMMA Count ==
  ASSUME NEW S \in SUBSET Jobs
  PROVE  IsFiniteSet(S) /\ Cardinality(S) \in Nat
<1>1. IsFiniteSet(S)
  BY RowsAssumption, FS_Subset
<1> QED BY <1>1, FS_CardinalityType

LEMMA CountRows ==
  ASSUME NEW rows \in Seq(Row), NEW S
  PROVE  IsFiniteSet(RowsOf(rows, S)) /\ Cardinality(RowsOf(rows, S)) \in Nat
<1>1. Len(rows) \in Nat /\ DOMAIN rows = 1 .. Len(rows)
  OBVIOUS
<1>2. IsFiniteSet(1 .. Len(rows))
  BY <1>1, FS_Interval
<1>3. RowsOf(rows, S) \in SUBSET (1 .. Len(rows))
  BY <1>1 DEF RowsOf
<1>4. IsFiniteSet(RowsOf(rows, S))
  BY <1>2, <1>3, FS_Subset
<1> QED BY <1>4, FS_CardinalityType

LEMMA CountOpen ==
  ASSUME NEW rows, NEW S
  PROVE  /\ Open(rows) \subseteq JobsOf(rows) /\ JobsOf(rows) \subseteq Jobs
         /\ IsFiniteSet(Open(rows) \cap S) /\ Cardinality(Open(rows) \cap S) \in Nat
         /\ IsFiniteSet(JobsOf(rows) \cap S) /\ Cardinality(JobsOf(rows) \cap S) \in Nat
<1>1. Open(rows) \subseteq JobsOf(rows) /\ JobsOf(rows) \subseteq Jobs
  BY DEF Open, JobsOf
<1>2. Open(rows) \cap S \in SUBSET Jobs /\ JobsOf(rows) \cap S \in SUBSET Jobs
  BY <1>1
<1> QED BY <1>1, <1>2, Count

\* A set is counted part by part.
Parts(S, A, B) == A \cup B = S /\ A \cap B = {}

LEMMA CountParts ==
  ASSUME NEW S, NEW A, NEW B, IsFiniteSet(S), Parts(S, A, B)
  PROVE  /\ IsFiniteSet(A) /\ IsFiniteSet(B)
         /\ Cardinality(A) \in Nat /\ Cardinality(B) \in Nat
         /\ Cardinality(S) = Cardinality(A) + Cardinality(B)
<1>1. A \in SUBSET S /\ B \in SUBSET S
  BY DEF Parts
<1>2. IsFiniteSet(A) /\ IsFiniteSet(B)
  BY <1>1, FS_Subset
<1>3. Cardinality(A) \in Nat /\ Cardinality(B) \in Nat
  BY <1>2, FS_CardinalityType
<1>4. Cardinality(A \cup B) = Cardinality(A) + Cardinality(B) - Cardinality(A \cap B)
  BY <1>2, FS_Union
<1>5. A \cup B = S /\ A \cap B = {}
  BY DEF Parts
<1>6. Cardinality(A \cap B) = 0
  BY <1>5, FS_EmptySet
<1>7. Cardinality(S) = Cardinality(A) + Cardinality(B) - 0
  BY <1>4, <1>5, <1>6
<1> QED BY <1>2, <1>3, <1>7

\* A part counts no more than the whole.
LEMMA CountLess ==
  ASSUME NEW S \in SUBSET Jobs, NEW T \in SUBSET S
  PROVE  Cardinality(T) <= Cardinality(S)
<1>1. IsFiniteSet(S)
  BY Count
<1> QED BY <1>1, FS_Subset

\* The jobs of some rows are no more than the rows.
LEMMA JobsAndRows ==
  ASSUME NEW rows \in Seq(Row), NEW S \in SUBSET Jobs
  PROVE  Cardinality(JobsOf(rows) \cap S) <= Cardinality(RowsOf(rows, S))
<1> DEFINE T == JobsOf(rows) \cap S
           R == RowsOf(rows, S)
<1>1. PICK f : f = [k \in R |-> rows[k].job]
  OBVIOUS
<1>2. \A k \in R : rows[k].job \in T
  <2>1. \A k \in DOMAIN rows : rows[k] \in Row
    OBVIOUS
  <2> QED BY <2>1 DEF RowsOf, JobsOf, Row
<1>3. \A j \in T : \E k \in R : rows[k].job = j
  BY DEF RowsOf, JobsOf
<1> HIDE DEF T, R
<1>4. f \in Surjection(R, T)
  BY <1>1, <1>2, <1>3 DEF Surjection
<1>5. Cardinality(T) <= Cardinality(R)
  BY <1>4, CountRows, FS_Surjection DEF R
<1> QED BY <1>5 DEF T, R

\* Whatever holds of a figure, holds when more jobs are in its set.
LEMMA CoveredGrows ==
  ASSUME NEW rows \in Seq(Row), NEW chunk, NEW n \in Nat,
         NEW T \in SUBSET Jobs, NEW S \in SUBSET T, NEW u \in SUBSET Jobs, NEW t \in SUBSET u,
         Covered(n, S, rows, chunk, t)
  PROVE  Covered(n, T, rows, chunk, u)
<1> DEFINE N == T \ S
           X == JobsOf(rows) \cup Open(chunk)
<1>1. /\ Cardinality(Open(rows) \cap T)
            = Cardinality(Open(rows) \cap S) + Cardinality(Open(rows) \cap N)
      /\ Cardinality(Open(rows) \cap S) \in Nat /\ Cardinality(Open(rows) \cap N) \in Nat
  <2> DEFINE OT == Open(rows) \cap T
             OS == Open(rows) \cap S
             ON == Open(rows) \cap N
  <2>1. IsFiniteSet(OT)
    BY CountOpen
  <2>2. Parts(OT, OS, ON)
    BY DEF Parts
  <2> HIDE DEF OT, OS, ON
  <2>3. /\ Cardinality(OT) = Cardinality(OS) + Cardinality(ON)
        /\ Cardinality(OS) \in Nat /\ Cardinality(ON) \in Nat
    BY <2>1, <2>2, CountParts
  <2> QED BY <2>3 DEF OT, OS, ON
<1>2. /\ Cardinality(RowsOf(rows, T))
            = Cardinality(RowsOf(rows, S)) + Cardinality(RowsOf(rows, N))
      /\ Cardinality(RowsOf(rows, S)) \in Nat /\ Cardinality(RowsOf(rows, N)) \in Nat
  <2> DEFINE RT == RowsOf(rows, T)
             RS == RowsOf(rows, S)
             RN == RowsOf(rows, N)
  <2>1. IsFiniteSet(RT)
    BY CountRows
  <2>2. Parts(RT, RS, RN)
    BY DEF Parts, RowsOf
  <2> HIDE DEF RT, RS, RN
  <2>3. /\ Cardinality(RT) = Cardinality(RS) + Cardinality(RN)
        /\ Cardinality(RS) \in Nat /\ Cardinality(RN) \in Nat
    BY <2>1, <2>2, CountParts
  <2> QED BY <2>3 DEF RT, RS, RN
<1>3. Cardinality(Open(rows) \cap N) <= Cardinality(RowsOf(rows, N))
  <2>1. JobsOf(rows) \cap N \in SUBSET Jobs /\ Open(rows) \cap N \in SUBSET (JobsOf(rows) \cap N)
    BY DEF JobsOf, Open
  <2>2. Cardinality(Open(rows) \cap N) <= Cardinality(JobsOf(rows) \cap N)
    BY <2>1, CountLess
  <2>3. Cardinality(JobsOf(rows) \cap N) <= Cardinality(RowsOf(rows, N))
    BY JobsAndRows
  <2>4. Cardinality(JobsOf(rows) \cap N) \in Nat
    BY <2>1, Count
  <2> QED BY <1>1, <1>2, <2>2, <2>3, <2>4
<1>4. /\ Cardinality(S \ X) <= Cardinality(T \ X)
      /\ Cardinality(S \ X) \in Nat /\ Cardinality(T \ X) \in Nat
  <2>1. T \ X \in SUBSET Jobs /\ S \ X \in SUBSET (T \ X) /\ S \ X \in SUBSET Jobs
    OBVIOUS
  <2> QED BY <2>1, Count, CountLess
<1>5. Cardinality(t) <= Cardinality(u) /\ Cardinality(t) \in Nat /\ Cardinality(u) \in Nat
  BY Count, CountLess
<1>6. n + Cardinality(Open(rows) \cap S)
        <= Cardinality(S \ X) + Cardinality(t) + Cardinality(RowsOf(rows, S))
  BY DEF Covered
<1>7. n + Cardinality(Open(rows) \cap T)
        <= Cardinality(T \ X) + Cardinality(u) + Cardinality(RowsOf(rows, T))
  BY <1>1, <1>2, <1>3, <1>4, <1>5, <1>6
<1> QED BY <1>7 DEF Covered

\* ... and when no more rows under way could still be clicked.
LEMMA CoveredChunk ==
  ASSUME NEW rows \in Seq(Row), NEW chunk, NEW new, NEW n \in Nat,
         NEW S \in SUBSET Jobs, NEW t \in SUBSET Jobs,
         Covered(n, S, rows, chunk, t), Open(new) \cap S \subseteq Open(chunk)
  PROVE  Covered(n, S, rows, new, t)
<1> DEFINE A == S \ (JobsOf(rows) \cup Open(chunk))
           B == S \ (JobsOf(rows) \cup Open(new))
<1>1. B \in SUBSET Jobs /\ A \in SUBSET B /\ A \in SUBSET Jobs
  OBVIOUS
<1>2. Cardinality(A) <= Cardinality(B) /\ Cardinality(A) \in Nat /\ Cardinality(B) \in Nat
  BY <1>1, Count, CountLess
<1>3. /\ Cardinality(t) \in Nat /\ Cardinality(Open(rows) \cap S) \in Nat
      /\ Cardinality(RowsOf(rows, S)) \in Nat
  BY Count, CountOpen, CountRows
<1>4. n + Cardinality(Open(rows) \cap S)
        <= Cardinality(A) + Cardinality(t) + Cardinality(RowsOf(rows, S))
  BY DEF Covered
<1> HIDE DEF A, B
<1>5. n + Cardinality(Open(rows) \cap S)
        <= Cardinality(B) + Cardinality(t) + Cardinality(RowsOf(rows, S))
  BY <1>2, <1>3, <1>4
<1> QED BY <1>5 DEF Covered, B

\* Rows of the same jobs, with other buttons and labels.
SameJobs(rows, new) ==
    DOMAIN new = DOMAIN rows /\ \A k \in DOMAIN rows : new[k].job = rows[k].job

\* The figure may grow by as many jobs as are no longer open.
LEMMA CoveredButtons ==
  ASSUME NEW rows \in Seq(Row), NEW new \in Seq(Row), SameJobs(rows, new), NEW chunk,
         NEW t \in SUBSET Jobs, NEW S \in SUBSET Jobs, NEW n \in Nat, NEW m \in Nat,
         m + Cardinality(Open(new) \cap S) <= n + Cardinality(Open(rows) \cap S),
         Covered(n, S, rows, chunk, t)
  PROVE  Covered(m, S, new, chunk, t)
<1> DEFINE A == S \ (JobsOf(rows) \cup Open(chunk))
<1>1. JobsOf(new) = JobsOf(rows)
  BY DEF SameJobs, JobsOf
<1>2. RowsOf(new, S) = RowsOf(rows, S)
  BY DEF SameJobs, RowsOf
<1>3. A \in SUBSET Jobs
  OBVIOUS
<1>4. /\ Cardinality(A) \in Nat /\ Cardinality(t) \in Nat
      /\ Cardinality(RowsOf(rows, S)) \in Nat
      /\ Cardinality(Open(new) \cap S) \in Nat /\ Cardinality(Open(rows) \cap S) \in Nat
  BY <1>3, Count, CountRows, CountOpen
<1>5. n + Cardinality(Open(rows) \cap S)
        <= Cardinality(A) + Cardinality(t) + Cardinality(RowsOf(rows, S))
  BY DEF Covered
<1>6. A = S \ (JobsOf(new) \cup Open(chunk))
  BY <1>1
<1> HIDE DEF A
<1>7. m + Cardinality(Open(new) \cap S)
        <= Cardinality(A) + Cardinality(t) + Cardinality(RowsOf(new, S))
  BY <1>2, <1>4, <1>5
<1> QED BY <1>6, <1>7 DEF Covered

LEMMA InTwoParts ==
  ASSUME NEW m \in Nat, NEW n \in Nat, NEW k \in 1 .. m + n
  PROVE  k \in 1 .. m \/ \E i \in 1 .. n : k = m + i
<1>1. CASE k <= m
  BY <1>1
<1>2. CASE ~ (k <= m)
  <2>1. k - m \in 1 .. n /\ k = m + (k - m)
    BY <1>2
  <2> QED BY <2>1
<1> QED BY <1>1, <1>2

\* One list of rows after another.
LEMMA Joined ==
  ASSUME NEW rows \in Seq(Row), NEW chunk \in Seq(Row)
  PROVE  \E m \in Nat, n \in Nat, both \in Seq(Row) :
            /\ both = rows \o chunk
            /\ DOMAIN rows = 1 .. m /\ DOMAIN chunk = 1 .. n /\ DOMAIN both = 1 .. m + n
            /\ m = Len(rows) /\ n = Len(chunk) /\ m + n = Len(both)
            /\ \A k \in 1 .. m : both[k] = rows[k]
            /\ \A k \in 1 .. n : both[m + k] = chunk[k]
<1>1. PICK m \in Nat, n \in Nat : m = Len(rows) /\ n = Len(chunk)
  OBVIOUS
<1>2. rows \o chunk \in Seq(Row)
  OBVIOUS
<1>3. PICK both \in Seq(Row) : both = rows \o chunk
  BY <1>2
<1>4. /\ DOMAIN rows = 1 .. m /\ DOMAIN chunk = 1 .. n /\ DOMAIN both = 1 .. m + n
      /\ m + n = Len(both)
      /\ \A k \in 1 .. m : both[k] = rows[k]
      /\ \A k \in 1 .. n : both[m + k] = chunk[k]
  BY <1>1, <1>3
<1> QED BY <1>1, <1>3, <1>4

\* What two lists of rows are together.
LEMMA Together ==
  ASSUME NEW rows \in Seq(Row), NEW chunk \in Seq(Row), NEW S
  PROVE  /\ JobsOf(rows \o chunk) = JobsOf(rows) \cup JobsOf(chunk)
         /\ Open(rows \o chunk) = Open(rows) \cup Open(chunk)
         /\ Cardinality(RowsOf(rows \o chunk, S))
              = Cardinality(RowsOf(rows, S)) + Cardinality(RowsOf(chunk, S))
<1>1. PICK m \in Nat, n \in Nat, both \in Seq(Row) :
         /\ both = rows \o chunk
         /\ DOMAIN rows = 1 .. m /\ DOMAIN chunk = 1 .. n /\ DOMAIN both = 1 .. m + n
         /\ m = Len(rows) /\ n = Len(chunk) /\ m + n = Len(both)
         /\ \A k \in 1 .. m : both[k] = rows[k]
         /\ \A k \in 1 .. n : both[m + k] = chunk[k]
  BY Joined
<1>3. /\ DOMAIN rows = 1 .. m /\ DOMAIN chunk = 1 .. n /\ DOMAIN both = 1 .. m + n
      /\ \A k \in 1 .. m : both[k] = rows[k]
      /\ \A k \in 1 .. n : both[m + k] = chunk[k]
  BY <1>1
<1>4. \A k \in 1 .. m + n : k \in 1 .. m \/ \E i \in 1 .. n : k = m + i
  BY InTwoParts
<1>5. \A k \in 1 .. m : k \in 1 .. m + n
  OBVIOUS
<1>6. \A k \in 1 .. n : m + k \in 1 .. m + n /\ m + k \notin 1 .. m
  OBVIOUS
<1>7. JobsOf(both) = JobsOf(rows) \cup JobsOf(chunk)
  <2>1. ASSUME NEW j \in Jobs PROVE j \in JobsOf(both) <=> j \in JobsOf(rows) \cup JobsOf(chunk)
    <3>1. ASSUME NEW k \in 1 .. m + n, both[k].job = j
          PROVE  \/ \E i \in 1 .. m : rows[i].job = j
                 \/ \E i \in 1 .. n : chunk[i].job = j
      <4>1. CASE k \in 1 .. m
        BY <1>3, <3>1, <4>1
      <4>2. CASE k \notin 1 .. m
        <5>1. PICK i \in 1 .. n : k = m + i
          BY <1>4, <4>2
        <5>2. chunk[i].job = j
          BY <1>3, <3>1, <5>1
        <5> QED BY <5>2
      <4> QED BY <4>1, <4>2
    <3>2. ASSUME NEW i \in 1 .. m, rows[i].job = j PROVE \E k \in 1 .. m + n : both[k].job = j
      BY <1>3, <1>5, <3>2
    <3>3. ASSUME NEW i \in 1 .. n, chunk[i].job = j PROVE \E k \in 1 .. m + n : both[k].job = j
      BY <1>3, <1>6, <3>3
    <3> QED BY <1>3, <3>1, <3>2, <3>3 DEF JobsOf
  <2> QED BY <2>1 DEF JobsOf
<1>8. Open(both) = Open(rows) \cup Open(chunk)
  <2>1. ASSUME NEW j \in Jobs PROVE j \in Open(both) <=> j \in Open(rows) \cup Open(chunk)
    <3> DEFINE Is(row) == row.job = j /\ row.button # "done"
    <3>1. ASSUME NEW k \in 1 .. m + n, Is(both[k])
          PROVE  (\E i \in 1 .. m : Is(rows[i])) \/ (\E i \in 1 .. n : Is(chunk[i]))
      <4>1. CASE k \in 1 .. m
        BY <1>3, <3>1, <4>1
      <4>2. CASE k \notin 1 .. m
        <5>1. PICK i \in 1 .. n : k = m + i
          BY <1>4, <4>2
        <5>2. both[k] = chunk[i]
          BY <1>3, <5>1
        <5> QED BY <3>1, <5>2
      <4> QED BY <4>1, <4>2
    <3>2. ASSUME NEW i \in 1 .. m, Is(rows[i]) PROVE \E k \in 1 .. m + n : Is(both[k])
      <4>1. both[i] = rows[i] /\ i \in 1 .. m + n
        BY <1>3, <1>5
      <4> QED BY <3>2, <4>1
    <3>3. ASSUME NEW i \in 1 .. n, Is(chunk[i]) PROVE \E k \in 1 .. m + n : Is(both[k])
      <4>1. both[m + i] = chunk[i] /\ m + i \in 1 .. m + n
        BY <1>3, <1>6
      <4> QED BY <3>3, <4>1
    <3> QED BY <1>3, <3>1, <3>2, <3>3 DEF Open
  <2> QED BY <2>1 DEF Open
<1>9. Cardinality(RowsOf(both, S)) = Cardinality(RowsOf(rows, S)) + Cardinality(RowsOf(chunk, S))
  <2> DEFINE C == RowsOf(chunk, S)
             D == {k \in 1 .. m + n : k \notin 1 .. m /\ both[k].job \in S}
  <2>1. PICK f : f = [k \in C |-> m + k]
    OBVIOUS
  <2>2. \A k \in C : m + k \in D
    BY <1>3, <1>6 DEF RowsOf
  <2>3. \A d \in D : \E k \in C : d = m + k
    BY <1>3, <1>4 DEF RowsOf
  <2>4. \A k, i \in C : m + k = m + i => k = i
    BY <1>3 DEF RowsOf
  <2>5. Parts(RowsOf(both, S), RowsOf(rows, S), D)
    BY <1>3, <1>5 DEF Parts, RowsOf
  <2> HIDE DEF C, D
  <2>6. f \in Bijection(C, D)
    BY <2>1, <2>2, <2>3, <2>4 DEF Bijection, Injection, Surjection, IsInjective
  <2>7. IsFiniteSet(C)
    BY CountRows DEF C
  <2>8. Cardinality(D) = Cardinality(C)
    BY <2>6, <2>7, FS_Bijection DEF ExistsBijection
  <2>9. IsFiniteSet(RowsOf(both, S))
    BY CountRows
  <2>10. Cardinality(RowsOf(both, S)) = Cardinality(RowsOf(rows, S)) + Cardinality(D)
    BY <2>5, <2>9, CountParts
  <2> QED BY <2>8, <2>10 DEF C
<1> QED BY <1>1, <1>7, <1>8, <1>9

\* Rows that arrive bring as many rows as jobs, at least.
LEMMA CoveredAppend ==
  ASSUME NEW rows \in Seq(Row), NEW chunk \in Seq(Row), NEW n \in Nat,
         NEW S \in SUBSET Jobs, NEW t \in SUBSET Jobs, Covered(n, S, rows, chunk, t)
  PROVE  Covered(n, S, rows \o chunk, <<>>, t)
<1> DEFINE O == Open(rows) \cap S
           N == (Open(chunk) \ Open(rows)) \cap S
           A == S \ (JobsOf(rows) \cup JobsOf(chunk))
           D == (JobsOf(chunk) \ (JobsOf(rows) \cup Open(chunk))) \cap S
           C == JobsOf(chunk) \cap S
<1>1. Open(chunk) \subseteq JobsOf(chunk) /\ Open(rows) \subseteq JobsOf(rows) /\ Open(<<>>) = {}
  BY DEF Open, JobsOf
<1>2. /\ Cardinality(Open(rows \o chunk) \cap S) = Cardinality(O) + Cardinality(N)
      /\ Cardinality(O) \in Nat /\ Cardinality(N) \in Nat
  <2> DEFINE ON == Open(rows \o chunk) \cap S
  <2>1. Parts(ON, O, N)
    <3>1. Open(rows \o chunk) = Open(rows) \cup Open(chunk)
      BY Together
    <3> QED BY <3>1 DEF Parts
  <2>2. IsFiniteSet(ON)
    BY CountOpen
  <2> HIDE DEF O, N, ON
  <2>3. /\ Cardinality(ON) = Cardinality(O) + Cardinality(N)
        /\ Cardinality(O) \in Nat /\ Cardinality(N) \in Nat
    BY <2>1, <2>2, CountParts
  <2> QED BY <2>3 DEF ON
<1>3. /\ Cardinality(S \ (JobsOf(rows) \cup Open(chunk))) = Cardinality(A) + Cardinality(D)
      /\ Cardinality(A) \in Nat /\ Cardinality(D) \in Nat
  <2> DEFINE AD == S \ (JobsOf(rows) \cup Open(chunk))
  <2>1. Parts(AD, A, D)
    BY <1>1 DEF Parts
  <2>2. IsFiniteSet(AD)
    <3>1. AD \in SUBSET Jobs
      OBVIOUS
    <3> QED BY <3>1, Count
  <2> HIDE DEF A, D, AD
  <2>3. /\ Cardinality(AD) = Cardinality(A) + Cardinality(D)
        /\ Cardinality(A) \in Nat /\ Cardinality(D) \in Nat
    BY <2>1, <2>2, CountParts
  <2> QED BY <2>3 DEF AD
<1>4. S \ (JobsOf(rows \o chunk) \cup Open(<<>>)) = A
  BY <1>1, Together
<1>5. Cardinality(N) + Cardinality(D) <= Cardinality(C)
  <2> DEFINE ND == N \cup D
  <2>1. ND \in SUBSET C /\ C \in SUBSET Jobs /\ Parts(ND, N, D)
    BY <1>1 DEF Parts
  <2> HIDE DEF N, D, C, ND
  <2>2. Cardinality(ND) <= Cardinality(C)
    BY <2>1, CountLess
  <2>3. ND \in SUBSET Jobs
    BY <2>1
  <2>4. IsFiniteSet(ND)
    BY <2>3, Count
  <2>5. Cardinality(ND) = Cardinality(N) + Cardinality(D)
    BY <2>1, <2>4, CountParts
  <2> QED BY <2>2, <2>5
<1>6. Cardinality(C) <= Cardinality(RowsOf(chunk, S)) /\ Cardinality(C) \in Nat
  BY JobsAndRows, CountOpen
<1>7. /\ Cardinality(RowsOf(rows \o chunk, S))
           = Cardinality(RowsOf(rows, S)) + Cardinality(RowsOf(chunk, S))
      /\ Cardinality(RowsOf(rows, S)) \in Nat /\ Cardinality(RowsOf(chunk, S)) \in Nat
  BY Together, CountRows
<1>8. n + Cardinality(O) <= Cardinality(A) + Cardinality(D) + Cardinality(t)
                            + Cardinality(RowsOf(rows, S))
  BY <1>3 DEF Covered
<1>9. Cardinality(t) \in Nat
  BY Count
<1> HIDE DEF O, N, A, D, C
<1>10. n + (Cardinality(O) + Cardinality(N))
         <= Cardinality(A) + Cardinality(t)
            + (Cardinality(RowsOf(rows, S)) + Cardinality(RowsOf(chunk, S)))
  <2>1. \A o, nn, a, d, c, rr, rc, tt \in Nat :
           nn + d <= c /\ c <= rc /\ n + o <= a + d + tt + rr =>
              n + (o + nn) <= a + tt + (rr + rc)
    OBVIOUS
  <2> QED BY <1>2, <1>3, <1>5, <1>6, <1>7, <1>8, <1>9, <2>1
<1> QED BY <1>2, <1>4, <1>7, <1>10 DEF Covered

\* The figures of a page that begins count each job of S once.
LEMMA CoveredAtFirst ==
  ASSUME NEW rows \in Seq(Row), NEW S \in SUBSET Jobs, NEW t \in SUBSET Jobs,
         Open(rows) \cap S \subseteq t
  PROVE  Covered(Cardinality(S), S, rows, <<>>, t)
<1> DEFINE A == S \ JobsOf(rows)
           B == JobsOf(rows) \cap S
<1>1. Open(<<>>) = {}
  BY DEF Open
<1>2. /\ Cardinality(S) = Cardinality(A) + Cardinality(B)
      /\ Cardinality(A) \in Nat /\ Cardinality(B) \in Nat
  <2>1. IsFiniteSet(S) /\ Parts(S, A, B)
    BY Count DEF Parts
  <2> HIDE DEF A, B
  <2> QED BY <2>1, CountParts
<1>3. Cardinality(B) <= Cardinality(RowsOf(rows, S)) /\ Cardinality(RowsOf(rows, S)) \in Nat
  BY JobsAndRows, CountRows
<1>4. /\ Cardinality(Open(rows) \cap S) <= Cardinality(t)
      /\ Cardinality(Open(rows) \cap S) \in Nat /\ Cardinality(t) \in Nat
  BY Count, CountOpen, CountLess
<1>5. S \ (JobsOf(rows) \cup Open(<<>>)) = A
  BY <1>1
<1> HIDE DEF A, B
<1>6. Cardinality(S) + Cardinality(Open(rows) \cap S)
        <= Cardinality(A) + Cardinality(t) + Cardinality(RowsOf(rows, S))
  BY <1>2, <1>3, <1>4
<1> QED BY <1>5, <1>6 DEF Covered

\* A covered figure exceeds the jobs of S by those of t and by the rows loaded
\* twice at most.
LEMMA CoveredBound ==
  ASSUME NEW rows \in Seq(Row), NEW chunk, NEW n \in Nat,
         NEW S \in SUBSET Jobs, NEW t \in SUBSET Jobs, Covered(n, S, rows, chunk, t)
  PROVE  n <= Cardinality(S) + Cardinality(t)
              + (Len(rows) - Cardinality({rows[k].job : k \in DOMAIN rows}))
<1> DEFINE R == Jobs \ S
           A == S \ (JobsOf(rows) \cup Open(chunk))
           B == JobsOf(rows) \cap S
           C == JobsOf(rows) \cap R
<1>1. {rows[k].job : k \in DOMAIN rows} = JobsOf(rows)
  <2>1. \A k \in DOMAIN rows : rows[k] \in Row
    OBVIOUS
  <2> QED BY <2>1 DEF JobsOf, Row
<1>2. /\ Cardinality(JobsOf(rows)) = Cardinality(B) + Cardinality(C)
      /\ Cardinality(B) \in Nat /\ Cardinality(C) \in Nat
  <2>1. JobsOf(rows) \in SUBSET Jobs
    BY DEF JobsOf
  <2>2. IsFiniteSet(JobsOf(rows)) /\ Parts(JobsOf(rows), B, C)
    BY <2>1, Count DEF Parts
  <2> HIDE DEF B, C
  <2> QED BY <2>2, CountParts
<1>3. /\ Len(rows) = Cardinality(RowsOf(rows, S)) + Cardinality(RowsOf(rows, R))
      /\ Cardinality(RowsOf(rows, S)) \in Nat /\ Cardinality(RowsOf(rows, R)) \in Nat
  <2>1. PICK m \in Nat : m = Len(rows) /\ DOMAIN rows = 1 .. m
    OBVIOUS
  <2>2. IsFiniteSet(1 .. m) /\ Cardinality(1 .. m) = m
    BY FS_Interval
  <2>3. \A k \in DOMAIN rows : rows[k].job \in Jobs
    <3>1. \A k \in DOMAIN rows : rows[k] \in Row
      OBVIOUS
    <3> QED BY <3>1 DEF Row
  <2>4. Parts(1 .. m, RowsOf(rows, S), RowsOf(rows, R))
    BY <2>1, <2>3 DEF Parts, RowsOf
  <2> HIDE DEF R
  <2>5. Cardinality(1 .. m) = Cardinality(RowsOf(rows, S)) + Cardinality(RowsOf(rows, R))
    BY <2>2, <2>4, CountParts
  <2> QED BY <2>1, <2>2, <2>5, CountRows
<1>4. Cardinality(C) <= Cardinality(RowsOf(rows, R))
  BY JobsAndRows
<1>5. Cardinality(A) + Cardinality(B) <= Cardinality(S) /\ Cardinality(A) \in Nat
  <2> DEFINE AB == A \cup B
  <2>1. AB \in SUBSET S /\ Parts(AB, A, B)
    BY DEF Parts
  <2> HIDE DEF A, B, AB
  <2>2. Cardinality(AB) <= Cardinality(S)
    BY <2>1, CountLess
  <2>3. IsFiniteSet(AB)
    <3>1. AB \in SUBSET Jobs
      BY <2>1
    <3> QED BY <3>1, Count
  <2>4. Cardinality(AB) = Cardinality(A) + Cardinality(B) /\ Cardinality(A) \in Nat
    BY <2>1, <2>3, CountParts
  <2> QED BY <2>2, <2>4
<1>6. n + Cardinality(Open(rows) \cap S)
        <= Cardinality(A) + Cardinality(t) + Cardinality(RowsOf(rows, S))
  BY DEF Covered
<1>7. Cardinality(S) \in Nat /\ Cardinality(t) \in Nat /\ Cardinality(Open(rows) \cap S) \in Nat
  BY Count, CountOpen
<1> HIDE DEF A, B, C, R
<1>8. n <= Cardinality(S) + Cardinality(t) + (Len(rows) - Cardinality(JobsOf(rows)))
  <2>1. \A s, tt, o, a, b, c, rs, rr \in Nat :
           c <= rr /\ a + b <= s /\ n + o <= a + tt + rs =>
              n <= s + tt + (rs + rr - (b + c))
    OBVIOUS
  <2> DEFINE o == Cardinality(Open(rows) \cap S)
             rs == Cardinality(RowsOf(rows, S))
             rr == Cardinality(RowsOf(rows, R))
  <2>2. /\ o \in Nat /\ rs \in Nat /\ rr \in Nat
        /\ Len(rows) = rs + rr /\ Cardinality(C) <= rr
        /\ n + o <= Cardinality(A) + Cardinality(t) + rs
    BY <1>3, <1>4, <1>6, <1>7
  <2> HIDE DEF o, rs, rr
  <2>3. n <= Cardinality(S) + Cardinality(t) + (rs + rr - (Cardinality(B) + Cardinality(C)))
    BY <1>2, <1>5, <1>7, <2>1, <2>2
  <2> QED BY <1>2, <2>2, <2>3
<1> QED BY <1>1, <1>8

-----------------------------------------------------------------------------
(* Steps of the page *)

\* What AppliedType and SubmittedType do not say: the figures, and the rest.
LEMMA SubmittedMore ==
  ASSUME NEW pg \in Page, NEW J \in SUBSET Jobs
  PROVE  LET q == Submitted(pg, J)
         IN /\ q.pc = pg.pc /\ q.more = pg.more
            /\ q.scored = pg.scored /\ q.strong = pg.strong
<1> PICK rows : rows = WithBusy(pg.rows, J)
  OBVIOUS
<1> PICK active : active = pg.active \cup J
  OBVIOUS
<1>1. Submitted(pg, J) = [pg EXCEPT !.active = active, !.rows = rows]
  BY DEF Submitted
<1> QED BY <1>1 DEF Page

\* The strong figure may lag behind the answers, but is never ahead of them.
LEMMA AddedMore ==
  ASSUME NEW pg \in Page, NEW score \in Score, NEW before \in Score
  PROVE  LET q == Added(pg, score, before)
         IN /\ q.pc = pg.pc /\ q.more = pg.more
            /\ q.scored = IF score = 0 THEN pg.scored ELSE pg.scored + 1
            /\ q.strong <= IF score = Strong THEN pg.strong + 1 ELSE pg.strong
<1>0. pg.scored \in Nat /\ pg.strong \in Nat /\ Strong # 0
  BY DEF Page, Strong
<1>1. CASE score = 0
  BY <1>0, <1>1 DEF Added
<1>2. CASE score # 0
  <2> DEFINE a == pg.scored + 1
             c == IF pg.unscored = 0 THEN 0 ELSE pg.unscored - 1
             b == CASE before # Strong /\ score = Strong -> pg.strong + 1
                    [] before = Strong /\ score # Strong /\ pg.strong > 0 -> pg.strong - 1
                    [] OTHER -> pg.strong
  <2>1. Added(pg, score, before) = [pg EXCEPT !.scored = a, !.unscored = c, !.strong = b]
    BY <1>2 DEF Added
  <2>2. b <= IF score = Strong THEN pg.strong + 1 ELSE pg.strong
    <3> HIDE DEF a, c
    <3> QED BY <1>0
  <2>3. LET q == Added(pg, score, before)
        IN /\ q.pc = pg.pc /\ q.more = pg.more /\ q.scored = a /\ q.strong = b
    <3> HIDE DEF a, b, c
    <3> QED BY <2>1 DEF Page
  <2> QED BY <1>2, <2>2, <2>3
<1> QED BY <1>1, <1>2

LEMMA AppliedMore ==
  ASSUME NEW pg \in Page, NEW j \in Jobs, NEW score \in Score, NEW before \in Score
  PROVE  LET q == Applied(pg, j, score, before)
         IN /\ q.pc = pg.pc /\ q.more = pg.more
            /\ q.scored = IF score = 0 THEN pg.scored ELSE pg.scored + 1
            /\ q.strong <= IF score = Strong THEN pg.strong + 1 ELSE pg.strong
<1> DEFINE counted == Added(pg, score, before)
<1>1. counted \in Page
  BY AddedType
<1> PICK rows : rows = IF score = 0 THEN WithIdle(counted.rows, j)
                       ELSE Updated(counted.rows, j, score)
  OBVIOUS
<1> PICK active : active = counted.active \ {j}
  OBVIOUS
<1>2. Applied(pg, j, score, before) = [counted EXCEPT !.rows = rows, !.active = active]
  BY DEF Applied
<1> HIDE DEF counted
<1>3. LET q == Applied(pg, j, score, before)
      IN /\ q.pc = counted.pc /\ q.more = counted.more
         /\ q.scored = counted.scored /\ q.strong = counted.strong
  BY <1>1, <1>2 DEF Page
<1> QED BY <1>3, AddedMore DEF counted

\* Buttons that become busy or idle leave the jobs of the rows, and the open
\* ones, as they are; a job that is scored is open no more.
LEMMA BusyChange ==
  ASSUME NEW rows \in Seq(Row), NEW J \in SUBSET Open(rows)
  PROVE  SameJobs(rows, WithBusy(rows, J)) /\ Open(WithBusy(rows, J)) = Open(rows)
<1>1. \A k \in DOMAIN rows : rows[k] \in Row
  OBVIOUS
<1> PICK new : new = WithBusy(rows, J)
  OBVIOUS
<1>2. \A k \in DOMAIN rows :
         /\ new[k].job = rows[k].job
         /\ rows[k].job \in J => new[k].button # "done"
         /\ rows[k].job \notin J => new[k].button = rows[k].button
  BY <1>1 DEF WithBusy, Row
<1>3. DOMAIN new = DOMAIN rows
  BY DEF WithBusy
<1>4. \A x \in J : \E k \in DOMAIN rows : rows[k].job = x /\ rows[k].button # "done"
  BY DEF Open
<1>5. ASSUME NEW x \in Jobs PROVE x \in Open(new) <=> x \in Open(rows)
  BY <1>2, <1>3, <1>4 DEF Open
<1>6. Open(new) = Open(rows)
  BY <1>5 DEF Open
<1>7. SameJobs(rows, new)
  BY <1>2, <1>3 DEF SameJobs
<1> QED BY <1>6, <1>7

LEMMA IdleChange ==
  ASSUME NEW rows \in Seq(Row), NEW j
  PROVE  SameJobs(rows, WithIdle(rows, j)) /\ Open(WithIdle(rows, j)) = Open(rows)
<1>1. \A k \in DOMAIN rows : rows[k] \in Row
  OBVIOUS
<1> PICK new : new = WithIdle(rows, j)
  OBVIOUS
<1>2. \A k \in DOMAIN rows :
         new[k].job = rows[k].job /\ (new[k].button = "done" <=> rows[k].button = "done")
  BY <1>1 DEF WithIdle, Row
<1>3. DOMAIN new = DOMAIN rows
  BY DEF WithIdle
<1>4. Open(new) = Open(rows)
  BY <1>2, <1>3 DEF Open
<1>5. SameJobs(rows, new)
  BY <1>2, <1>3 DEF SameJobs
<1> QED BY <1>4, <1>5

LEMMA UpdatedChange ==
  ASSUME NEW rows \in Seq(Row), NEW j, NEW score
  PROVE  /\ SameJobs(rows, Updated(rows, j, score))
         /\ Open(Updated(rows, j, score)) = Open(rows) \ {j}
<1>1. \A k \in DOMAIN rows : rows[k] \in Row
  OBVIOUS
<1> PICK new : new = Updated(rows, j, score)
  OBVIOUS
<1>2. \A k \in DOMAIN rows :
         /\ new[k].job = rows[k].job
         /\ rows[k].job = j => new[k].button = "done"
         /\ rows[k].job # j => new[k].button = rows[k].button
  BY <1>1 DEF Updated, Row
<1>3. DOMAIN new = DOMAIN rows
  BY DEF Updated
<1>4. ASSUME NEW x \in Jobs PROVE x \in Open(new) <=> x \in Open(rows) \ {j}
  BY <1>2, <1>3 DEF Open
<1>5. Open(new) = Open(rows) \ {j}
  BY <1>4 DEF Open
<1>6. SameJobs(rows, new)
  BY <1>2, <1>3 DEF SameJobs
<1> QED BY <1>5, <1>6

\* A row of a scored job is rendered done.
LEMMA RenderedDone ==
  ASSUME stored \in [Jobs -> Job], NEW o \in Seq(There), NEW offset \in Nat
  PROVE  Open(ChunkRows(o, offset)) \cap Scored = {}
<1>1. ASSUME NEW k \in DOMAIN ChunkRows(o, offset),
             ChunkRows(o, offset)[k].job \in Scored
      PROVE  ChunkRows(o, offset)[k].button = "done"
  <2>1. PICK j \in There : ChunkRows(o, offset)[k] = Rendered(j)
    BY ChunkType
  <2> QED BY <1>1, <2>1 DEF Rendered, Scored
<1> QED BY <1>1 DEF Open

-----------------------------------------------------------------------------
(* The kinds of steps *)

Still == UNCHANGED <<stored, onlyUnscored, moved, torn>>

\* What a step does to the page: nothing, while others may write jobs; some
\* jobs are submitted; the figures are counted; an answer is applied; the page
\* is opened again; rows below are loaded.
LEMMA PageKinds ==
  ASSUME Inv, [Next]_vars
  PROVE  \/ UNCHANGED page /\ (Still \/ (Noted /\ UNCHANGED onlyUnscored))
         \/ /\ Still /\ page.pc = "shown"
            /\ \E j \in Open(page.rows) : page' = Submitted(page, {j})
         \/ /\ Still /\ page.pc = "rows"
            /\ \E J \in SUBSET Open(page.rows) : page' = Submitted(Figures(page), J)
         \/ /\ Still
            /\ \E j \in page.active, score \in Score, before \in Score :
                  /\ page' = Applied(page, j, score, before)
                  /\ score # 0 => stored[j].score = score
         \/ /\ UNCHANGED stored /\ ~moved' /\ torn' = {}
            /\ \E o \in Orders' : page' = Rendering(o)
         \/ Still /\ (LoadNextRows \/ ServeRows \/ RowsArrive \/ RowsLost)
<1>1. /\ page \in Page /\ page.rows \in Seq(Row)
      /\ \A k \in DOMAIN page.rows : page.rows[k].job \in Jobs
  BY DEF Inv, Types, Page, ThereInv, There
<1>2. ASSUME NEW k, Click(k)
      PROVE  /\ Still
             /\ UNCHANGED page \/ (page.pc = "shown" /\ \E j \in Open(page.rows) :
                                      page' = Submitted(page, {j}))
  <2>1. page.rows[k].job \in Open(page.rows)
    BY <1>1, <1>2 DEF Click, Open
  <2> QED BY <1>2, <2>1 DEF Click, Still
<1>3. CASE Show
  <2>1. PICK old \in SUBSET pending :
           page' = Submitted(Figures(page),
                             {j \in Restored(page.rows, old) :
                                 \E k \in CopiesOf(page.rows, j) : ~Settled(page, k)})
    BY <1>3 DEF Show
  <2>2. {j \in Restored(page.rows, old) :
           \E k \in CopiesOf(page.rows, j) : ~Settled(page, k)} \in SUBSET Open(page.rows)
    BY <1>1 DEF Restored, CopiesOf, Settled, Open
  <2>3. Still /\ page.pc = "rows"
    BY <1>3 DEF Show, Still
  <2> QED BY <2>1, <2>2, <2>3
<1>4. ASSUME NEW i \in Requests, work[i].mine PROVE work[i].job \in page.active
  <2>1. work[i].job \in Jobs
    BY <1>4 DEF Inv, Types
  <2>2. i \in Mine(work[i].job)
    BY <1>4 DEF Mine
  <2> QED BY <2>1, <2>2 DEF Inv, ActiveInv
<1>5. ASSUME NEW i \in Requests, AnswerArrives(i) \/ AnswerLost(i)
      PROVE  /\ Still
             /\ \E j \in page.active, score \in Score, before \in Score :
                  /\ page' = Applied(page, j, score, before)
                  /\ score # 0 => stored[j].score = score
  <2>1. work[i].mine /\ Still
    BY <1>5 DEF AnswerArrives, AnswerLost, Still
  <2>2. work[i] \in Work /\ work[i].job \in page.active
    BY <1>4, <2>1 DEF Inv, Types
  <2>3. CASE AnswerArrives(i)
    <3>1. /\ work[i].pc = "answered"
          /\ page' = Applied(page, work[i].job, work[i].score, work[i].before)
      BY <2>3 DEF AnswerArrives
    <3>2. work[i].score # 0 => stored[work[i].job].score = work[i].score
      BY <3>1 DEF Inv, ScoresInv
    <3>3. work[i].score \in Score /\ work[i].before \in Score
      BY <2>2 DEF Work
    <3> QED BY <2>1, <2>2, <3>1, <3>2, <3>3
  <2>4. CASE AnswerLost(i)
    BY <2>1, <2>2, <2>4, ZeroScore DEF AnswerLost
  <2> QED BY <1>5, <2>3, <2>4
<1>6. CASE Reload
  BY <1>6 DEF Reload
<1>7. ASSUME LoadNextRows \/ ServeRows \/ RowsArrive \/ RowsLost PROVE Still
  BY <1>7 DEF LoadNextRows, ServeRows, RowsArrive, RowsLost, Still
<1>8. ASSUME \/ OtherRequest \/ StartBatch \/ BatchScored \/ UNCHANGED vars
             \/ \E i \in Requests : ReadJob(i) \/ GatewayAnswers(i)
      PROVE  UNCHANGED page /\ Still
  BY <1>8 DEF OtherRequest, StartBatch, BatchScored, ReadJob, GatewayAnswers, vars, Still
<1>9. ASSUME \/ SaveBatch \/ Import \/ \E i \in Requests : SaveScore(i)
             \/ \E j \in Jobs : Rewrite(j)
      PROVE  UNCHANGED page /\ Noted /\ UNCHANGED onlyUnscored
  BY <1>9 DEF SaveBatch, Import, SaveScore, Rewrite
<1> QED BY <1>2, <1>3, <1>5, <1>6, <1>7, <1>8, <1>9 DEF Next

-----------------------------------------------------------------------------
(* The figures *)

\* The figures are covered, a job scored while the rows were rendered but not
\* the figures is in torn, and an active job has a row that is not done.
FiguresInv ==
    /\ torn \in SUBSET Jobs
    /\ page.active \subseteq Open(page.rows)
    /\ page.load # "served" => page.chunk = <<>>
    /\ page.pc = "rows" => /\ page.load = "no" /\ page.active = {}
                           /\ Open(page.rows) \cap Scored \subseteq torn
    /\ page.pc = "shown" =>
          /\ Covered(page.scored, Scored, page.rows, page.chunk, torn)
          /\ Covered(page.strong, StrongMatches, page.rows, page.chunk, torn)

LEMMA ScoredTypes ==
  /\ Scored \in SUBSET Jobs /\ StrongMatches \in SUBSET Jobs
  /\ StrongMatches \subseteq Scored
BY DEF Scored, StrongMatches, Strong

LEMMA RenderingMore ==
  ASSUME NEW o
  PROVE  /\ Rendering(o).pc = "rows"
         /\ Rendering(o).next = IF HasMore(o, 0) THEN PageSize ELSE -1
<1>1. \A rows, n : LET q == [Blank EXCEPT !.rows = rows, !.next = n]
                   IN q.pc = "rows" /\ q.next = n
  BY DEF Blank
<1> QED BY <1>1 DEF Rendering

LEMMA InitFigures == Init => FiguresInv
<1> SUFFICES ASSUME Init PROVE FiguresInv
  OBVIOUS
<1>1. stored \in [Jobs -> Job]
  BY InitInv DEF Inv, Types
<1>2. PICK o \in Seq(There) : page = Rendering(o)
  BY OrdersType DEF Init
<1>3. /\ page.pc = "rows" /\ page.rows = ChunkRows(o, 0) /\ page.chunk = <<>>
      /\ page.load = "no" /\ page.active = {} /\ torn = {}
  BY <1>1, <1>2, RenderingType, RenderingMore DEF Init
<1>4. Open(page.rows) \cap Scored = {}
  BY <1>1, <1>3, RenderedDone, 0 \in Nat
<1> QED BY <1>3, <1>4 DEF FiguresInv

\* No step raises a figure by more than the rows it leaves done.
LEMMA FiguresStep ==
  ASSUME Inv, FiguresInv, [Next]_vars
  PROVE  FiguresInv'
<1>1. /\ page \in Page /\ page' \in Page
      /\ page.rows \in Seq(Row) /\ page.chunk \in Seq(Row)
      /\ page.scored \in Nat /\ page.strong \in Nat
      /\ page'.rows \in Seq(Row) /\ page'.scored \in Nat /\ page'.strong \in Nat
      /\ page.active \in SUBSET Jobs /\ torn \in SUBSET Jobs
      /\ stored \in [Jobs -> Job] /\ page.pc \in {"rows", "shown"}
  <2>1. Inv'
    BY InvStep
  <2> QED BY <2>1 DEF Inv, Types, Page, FiguresInv
<1>2. /\ Scored \in SUBSET Jobs /\ StrongMatches \in SUBSET Jobs
      /\ StrongMatches \subseteq Scored
  BY ScoredTypes
\* Other requests, imports and the batch write jobs.
<1>3. ASSUME UNCHANGED page, Still \/ Noted PROVE FiguresInv'
  <2>1. /\ Scored' \in SUBSET Jobs /\ StrongMatches' \in SUBSET Jobs
        /\ Scored \subseteq Scored' /\ StrongMatches \subseteq StrongMatches'
    BY StoredStep DEF Inv, Scored, StrongMatches, Strong
  <2>2. /\ torn' \in SUBSET Jobs /\ torn \subseteq torn'
        /\ page.pc = "rows" => Scored' \ Scored \subseteq torn'
    BY <1>1, <1>3, <2>1 DEF Noted, Still, Scored
  <2>3. CASE page.pc = "rows"
    BY <1>3, <2>2, <2>3 DEF FiguresInv
  <2>4. CASE page.pc = "shown"
    <3>1. /\ Covered(page.scored, Scored, page.rows, page.chunk, torn)
          /\ Covered(page.strong, StrongMatches, page.rows, page.chunk, torn)
      BY <2>4 DEF FiguresInv
    <3>2. Covered(page.scored, Scored', page.rows, page.chunk, torn')
      BY <1>1, <2>1, <2>2, <3>1, CoveredGrows
    <3>3. Covered(page.strong, StrongMatches', page.rows, page.chunk, torn')
      BY <1>1, <2>1, <2>2, <3>1, CoveredGrows
    <3> QED BY <1>3, <2>2, <2>4, <3>2, <3>3 DEF FiguresInv
  <2> QED BY <1>1, <2>3, <2>4
<1>4. ASSUME Still
      PROVE  /\ torn' = torn /\ Scored' = Scored /\ StrongMatches' = StrongMatches
  BY <1>4 DEF Still, Scored, StrongMatches
\* A row that is not done is clicked.
<1>5. ASSUME Still, page.pc = "shown", NEW j \in Open(page.rows), page' = Submitted(page, {j})
      PROVE  FiguresInv'
  <2>1. {j} \in SUBSET Open(page.rows) /\ {j} \in SUBSET Jobs
    BY DEF Open
  <2>2. /\ page'.rows = WithBusy(page.rows, {j}) /\ page'.active = page.active \cup {j}
        /\ page'.load = page.load /\ page'.chunk = page.chunk /\ page'.pc = "shown"
        /\ page'.scored = page.scored /\ page'.strong = page.strong
    BY <1>1, <1>5, <2>1, SubmittedType, SubmittedMore
  <2>3. SameJobs(page.rows, page'.rows) /\ Open(page'.rows) = Open(page.rows)
    BY <1>1, <2>1, <2>2, BusyChange
  <2>4. ASSUME NEW S \in SUBSET Jobs, NEW n \in Nat,
               Covered(n, S, page.rows, page.chunk, torn)
        PROVE  Covered(n, S, page'.rows, page.chunk, torn)
    <3>1. n + Cardinality(Open(page'.rows) \cap S) <= n + Cardinality(Open(page.rows) \cap S)
      <4> DEFINE x == Cardinality(Open(page.rows) \cap S)
                 y == Cardinality(Open(page'.rows) \cap S)
      <4>1. x \in Nat /\ y = x
        BY <2>3, CountOpen
      <4> HIDE DEF x, y
      <4>2. n + y <= n + x
        BY <4>1
      <4> QED BY <4>2 DEF x, y
    <3> QED BY <1>1, <2>3, <2>4, <3>1, CoveredButtons
  <2>5. /\ Covered(page'.scored, Scored, page'.rows, page.chunk, torn)
        /\ Covered(page'.strong, StrongMatches, page'.rows, page.chunk, torn)
    BY <1>1, <1>2, <1>5, <2>2, <2>4 DEF FiguresInv
  <2> QED BY <1>1, <1>4, <1>5, <2>1, <2>2, <2>3, <2>5 DEF FiguresInv
\* The figures are counted, and jobs with a row that is not done submitted.
<1>6. ASSUME Still, page.pc = "rows", NEW J \in SUBSET Open(page.rows),
             page' = Submitted(Figures(page), J)
      PROVE  FiguresInv'
  <2>1. J \in SUBSET Jobs
    BY DEF Open
  <2>2. LET q == Figures(page)
        IN /\ q \in Page /\ q.pc = "shown"
           /\ q.scored = Cardinality(Scored) /\ q.strong = Cardinality(StrongMatches)
           /\ q.rows = page.rows /\ q.active = page.active /\ q.chunk = page.chunk
           /\ q.load = page.load
    BY FiguresMore DEF Inv
  <2>3. /\ page.chunk = <<>> /\ page.load = "no" /\ page.active = {}
        /\ Open(page.rows) \cap Scored \subseteq torn
    BY <1>6 DEF FiguresInv
  <2>4. /\ page'.rows = WithBusy(page.rows, J) /\ page'.active = J
        /\ page'.load = "no" /\ page'.chunk = <<>> /\ page'.pc = "shown"
        /\ page'.scored = Cardinality(Scored) /\ page'.strong = Cardinality(StrongMatches)
    BY <1>6, <2>1, <2>2, <2>3, SubmittedType, SubmittedMore
  <2>5. SameJobs(page.rows, page'.rows) /\ Open(page'.rows) = Open(page.rows)
    BY <1>1, <2>4, BusyChange
  <2>6. ASSUME NEW S \in SUBSET Scored
        PROVE  Covered(Cardinality(S), S, page'.rows, <<>>, torn)
    <3>1. Open(page'.rows) \cap S \subseteq torn /\ S \in SUBSET Jobs
      BY <1>2, <2>3, <2>5
    <3> QED BY <1>1, <3>1, CoveredAtFirst
  <2>7. /\ Covered(page'.scored, Scored, page'.rows, page'.chunk, torn)
        /\ Covered(page'.strong, StrongMatches, page'.rows, page'.chunk, torn)
    BY <1>2, <2>4, <2>6
  <2> QED BY <1>1, <1>4, <1>6, <2>4, <2>5, <2>7 DEF FiguresInv
\* An answer is applied: with a score, the job is open no more.
<1>7. ASSUME Still, NEW j \in page.active, NEW score \in Score, NEW before \in Score,
             page' = Applied(page, j, score, before), score # 0 => stored[j].score = score
      PROVE  FiguresInv'
  <2>1. j \in Jobs /\ j \in Open(page.rows) /\ page.pc = "shown"
    BY <1>1 DEF FiguresInv
  <2>2. /\ page'.rows = IF score = 0 THEN WithIdle(page.rows, j)
                                     ELSE Updated(page.rows, j, score)
        /\ page'.active = page.active \ {j}
        /\ page'.load = page.load /\ page'.chunk = page.chunk /\ page'.pc = "shown"
        /\ page'.scored = IF score = 0 THEN page.scored ELSE page.scored + 1
        /\ page'.strong <= IF score = Strong THEN page.strong + 1 ELSE page.strong
    BY <1>1, <1>7, <2>1, AppliedType, AppliedMore
  <2>3. /\ SameJobs(page.rows, page'.rows)
        /\ Open(page'.rows) = IF score = 0 THEN Open(page.rows) ELSE Open(page.rows) \ {j}
    <3>1. CASE score = 0
      <4>1. page'.rows = WithIdle(page.rows, j)
        BY <2>2, <3>1
      <4> QED BY <1>1, <3>1, <4>1, IdleChange
    <3>2. CASE score # 0
      <4>1. page'.rows = Updated(page.rows, j, score)
        BY <2>2, <3>2
      <4> QED BY <1>1, <3>2, <4>1, UpdatedChange
    <3> QED BY <3>1, <3>2
  <2>4. ASSUME NEW S \in SUBSET Jobs, score # 0
        PROVE  Cardinality(Open(page'.rows) \cap S)
                 = IF j \in S THEN Cardinality(Open(page.rows) \cap S) - 1
                              ELSE Cardinality(Open(page.rows) \cap S)
    <3> DEFINE O == Open(page.rows) \cap S
    <3>1. IsFiniteSet(O)
      BY CountOpen
    <3>2. Open(page'.rows) \cap S = O \ {j}
      BY <2>3, <2>4
    <3>3. j \in S <=> j \in O
      BY <2>1
    <3> HIDE DEF O
    <3>4. Cardinality(O \ {j}) = IF j \in O THEN Cardinality(O) - 1 ELSE Cardinality(O)
      BY <3>1, FS_RemoveElement
    <3> QED BY <3>2, <3>3, <3>4 DEF O
  <2>5. ASSUME NEW S \in SUBSET Jobs
        PROVE  /\ Cardinality(Open(page.rows) \cap S) \in Nat
               /\ Cardinality(Open(page'.rows) \cap S) \in Nat
    BY CountOpen
  <2> DEFINE a == Cardinality(Open(page.rows) \cap Scored)
             b == Cardinality(Open(page'.rows) \cap Scored)
             c == Cardinality(Open(page.rows) \cap StrongMatches)
             d == Cardinality(Open(page'.rows) \cap StrongMatches)
  <2>6. /\ page'.scored + b <= page.scored + a
        /\ page'.strong + d <= page.strong + c
    <3>1. a \in Nat /\ b \in Nat /\ c \in Nat /\ d \in Nat
      BY <1>2, <2>5
    <3>2. CASE score = 0
      <4>1. Open(page'.rows) = Open(page.rows)
        BY <2>3, <3>2
      <4>2. b = a /\ d = c
        BY <4>1
      <4>3. page'.scored = page.scored /\ page'.strong <= page.strong
        BY <2>2, <3>2 DEF Strong
      <4> HIDE DEF a, b, c, d
      <4> QED BY <1>1, <3>1, <4>2, <4>3
    <3>3. CASE score # 0
      <4>1. j \in Scored /\ (j \in StrongMatches <=> score = Strong)
        BY <1>7, <2>1, <3>3 DEF Scored, StrongMatches
      <4>2. b = a - 1 /\ d = IF score = Strong THEN c - 1 ELSE c
        BY <1>2, <2>4, <3>3, <4>1
      <4>3. /\ page'.scored = page.scored + 1
            /\ page'.strong <= IF score = Strong THEN page.strong + 1 ELSE page.strong
        BY <2>2, <3>3
      <4> HIDE DEF a, b, c, d
      <4> QED BY <1>1, <3>1, <4>2, <4>3
    <3> QED BY <3>2, <3>3
  <2>7. /\ Covered(page'.scored, Scored, page'.rows, page.chunk, torn)
        /\ Covered(page'.strong, StrongMatches, page'.rows, page.chunk, torn)
    <3>1. /\ Covered(page.scored, Scored, page.rows, page.chunk, torn)
          /\ Covered(page.strong, StrongMatches, page.rows, page.chunk, torn)
      BY <2>1 DEF FiguresInv
    <3> QED BY <1>1, <1>2, <2>3, <2>6, <3>1, CoveredButtons
  <2>8. page'.active \subseteq Open(page'.rows)
    BY <2>2, <2>3 DEF FiguresInv
  <2> QED BY <1>1, <1>4, <1>7, <2>1, <2>2, <2>7, <2>8 DEF FiguresInv
\* A page that is opened has no figures yet.
<1>8. ASSUME UNCHANGED stored, torn' = {}, NEW o \in Orders', page' = Rendering(o)
      PROVE  FiguresInv'
  <2>1. o \in Seq(There)
    <3>1. o \in Seq(There') /\ There' = There
      BY <1>8, OrdersNext DEF There
    <3> QED BY <3>1
  <2>2. /\ page'.pc = "rows" /\ page'.rows = ChunkRows(o, 0) /\ page'.chunk = <<>>
        /\ page'.load = "no" /\ page'.active = {}
    BY <1>1, <1>8, <2>1, RenderingType, RenderingMore
  <2>3. Open(page'.rows) \cap Scored = {}
    BY <1>1, <2>1, <2>2, RenderedDone, 0 \in Nat
  <2>4. Scored' = Scored
    BY <1>8 DEF Scored
  <2> QED BY <1>8, <2>2, <2>3, <2>4 DEF FiguresInv
\* Rows below, which were rendered later than those above.
<1>9. CASE Still /\ LoadNextRows
  <2>1. page' = [page EXCEPT !.load = "asked"] /\ page.pc = "shown" /\ page.load = "no"
    BY <1>9 DEF LoadNextRows
  <2>2. /\ page'.rows = page.rows /\ page'.active = page.active /\ page'.pc = "shown"
        /\ page'.chunk = page.chunk /\ page'.load = "asked"
        /\ page'.scored = page.scored /\ page'.strong = page.strong
    BY <1>1, <2>1 DEF Page
  <2> QED BY <1>1, <1>4, <1>9, <2>1, <2>2 DEF FiguresInv
<1>10. CASE Still /\ ServeRows
  <2>1. PICK o \in Orders :
           page' = [page EXCEPT !.load = "served", !.chunk = ChunkRows(o, page.next),
                                !.more = HasMore(o, page.next)]
    BY <1>10 DEF ServeRows
  <2>2. page.load = "asked" /\ page.next \in Nat /\ o \in Seq(There) /\ page.pc = "shown"
    BY <1>1, <1>10, OrdersType DEF ServeRows, Inv, Types, FiguresInv, Page
  <2> PICK chunk : chunk = ChunkRows(o, page.next)
    OBVIOUS
  <2>3. /\ page'.rows = page.rows /\ page'.active = page.active /\ page'.pc = "shown"
        /\ page'.chunk = chunk /\ page'.load = "served"
        /\ page'.scored = page.scored /\ page'.strong = page.strong
    BY <1>1, <2>1, <2>2 DEF Page
  <2>4. Open(chunk) \cap Scored = {}
    BY <1>1, <2>2, RenderedDone
  <2>5. ASSUME NEW S \in SUBSET Scored, NEW n \in Nat,
               Covered(n, S, page.rows, page.chunk, torn)
        PROVE  Covered(n, S, page.rows, chunk, torn)
    <3>1. Open(chunk) \cap S \subseteq Open(page.chunk) /\ S \in SUBSET Jobs
      BY <1>2, <2>4
    <3> QED BY <1>1, <2>5, <3>1, CoveredChunk
  <2>6. /\ Covered(page.scored, Scored, page.rows, chunk, torn)
        /\ Covered(page.strong, StrongMatches, page.rows, chunk, torn)
    BY <1>1, <1>2, <2>2, <2>5 DEF FiguresInv
  <2> QED BY <1>1, <1>4, <1>10, <2>3, <2>6 DEF FiguresInv
<1>11. CASE Still /\ RowsArrive
  <2> PICK rows : rows = page.rows \o page.chunk
    OBVIOUS
  <2> PICK next : next = IF page.more THEN page.next + Len(page.chunk) ELSE -1
    OBVIOUS
  <2>1. page.load = "served"
    BY <1>11 DEF RowsArrive
  <2>2. page' = [page EXCEPT !.rows = rows, !.next = next, !.load = "no", !.chunk = <<>>,
                             !.more = FALSE]
    BY <1>11 DEF RowsArrive, Appended
  <2>3. /\ page'.rows = rows /\ page'.active = page.active /\ page'.pc = page.pc
        /\ page'.chunk = <<>> /\ page'.load = "no"
        /\ page'.scored = page.scored /\ page'.strong = page.strong
    BY <1>1, <2>2 DEF Page
  <2>4. page.pc = "shown"
    BY <1>1, <2>1 DEF FiguresInv
  <2>5. page.active \subseteq Open(rows)
    <3>1. Open(rows) = Open(page.rows) \cup Open(page.chunk)
      BY <1>1, Together
    <3> QED BY <3>1 DEF FiguresInv
  <2>6. /\ Covered(page.scored, Scored, rows, <<>>, torn)
        /\ Covered(page.strong, StrongMatches, rows, <<>>, torn)
    BY <1>1, <1>2, <2>4, CoveredAppend DEF FiguresInv
  <2> QED BY <1>1, <1>4, <1>11, <2>3, <2>4, <2>5, <2>6 DEF FiguresInv
<1>12. CASE Still /\ RowsLost
  <2>1. page' = [page EXCEPT !.load = "no", !.chunk = <<>>, !.more = FALSE] /\ page.load # "no"
    BY <1>12 DEF RowsLost
  <2>2. /\ page'.rows = page.rows /\ page'.active = page.active /\ page'.pc = page.pc
        /\ page'.chunk = <<>> /\ page'.load = "no"
        /\ page'.scored = page.scored /\ page'.strong = page.strong
    BY <1>1, <2>1 DEF Page
  <2>3. page.pc = "shown"
    BY <1>1, <2>1 DEF FiguresInv
  <2>4. ASSUME NEW S \in SUBSET Jobs, NEW n \in Nat,
               Covered(n, S, page.rows, page.chunk, torn)
        PROVE  Covered(n, S, page.rows, <<>>, torn)
    <3>1. Open(<<>>) \cap S \subseteq Open(page.chunk)
      BY DEF Open
    <3> QED BY <1>1, <2>4, <3>1, CoveredChunk
  <2>5. /\ Covered(page.scored, Scored, page.rows, <<>>, torn)
        /\ Covered(page.strong, StrongMatches, page.rows, <<>>, torn)
    BY <1>1, <1>2, <2>3, <2>4 DEF FiguresInv
  <2> QED BY <1>1, <1>4, <1>12, <2>2, <2>3, <2>5 DEF FiguresInv
<1> QED BY <1>3, <1>5, <1>6, <1>7, <1>8, <1>9, <1>10, <1>11, <1>12, PageKinds

-----------------------------------------------------------------------------
(* The first rows of the list *)

Strict == \A a, b \in Listed : a # b => <<a, b>> \in Above \/ <<b, a>> \in Above

\* Page pg shows the first rows of o, and the rows under way come next.
FirstOf(pg, o) ==
    /\ Len(pg.rows) <= Len(o)
    /\ \A k \in DOMAIN pg.rows : pg.rows[k].job = o[k]
    /\ pg.next = IF Len(pg.rows) < Len(o) THEN Len(pg.rows) ELSE -1
    /\ pg.load = "served" =>
          /\ pg.next # -1
          /\ Len(pg.chunk) = (IF Len(o) < pg.next + PageSize THEN Len(o)
                              ELSE pg.next + PageSize) - pg.next
          /\ \A k \in DOMAIN pg.chunk : pg.chunk[k].job = o[pg.next + k]
          /\ pg.more = HasMore(o, pg.next)

FirstInv == ~moved /\ Strict => \A o \in Orders : FirstOf(page, o)

\* A sequence of all members of a set has each of them once.
LEMMA AllOnce ==
  ASSUME NEW L \in SUBSET Jobs, NEW o \in SetToSeqs(L)
  PROVE  /\ o \in [1 .. Cardinality(L) -> L]
         /\ \A i, k \in 1 .. Cardinality(L) : o[i] = o[k] => i = k
         /\ \A j \in L : \E k \in 1 .. Cardinality(L) : o[k] = j
<1> DEFINE n == Cardinality(L)  D == 1 .. n
<1>1. IsFiniteSet(L) /\ n \in Nat
  BY Count
<1>2. o \in [D -> L] /\ \A i, k \in D : o[i] = o[k] => i = k
  BY DEF SetToSeqs
<1>3. Cardinality(D) = n
  BY <1>1, FS_Interval
<1> HIDE DEF n, D
<1>4. o \in Injection(D, L)
  BY <1>2 DEF Injection, IsInjective
<1>5. o \in Surjection(D, L)
  BY <1>1, <1>3, <1>4, FS_Injection DEF n
<1>6. \A j \in L : \E k \in D : o[k] = j
  BY <1>5 DEF Surjection
<1> QED BY <1>2, <1>6 DEF n, D

\* Where any two jobs are in order, the database has one way to list them.
LEMMA OneOrder ==
  ASSUME NEW L \in SUBSET Jobs, NEW A,
         \A a, b \in L : a # b => <<a, b>> \in A \/ <<b, a>> \in A,
         NEW o \in SetToSeqs(L), \A i, k \in DOMAIN o : i < k => <<o[k], o[i]>> \notin A,
         NEW p \in SetToSeqs(L), \A i, k \in DOMAIN p : i < k => <<p[k], p[i]>> \notin A
  PROVE  o = p
<1> PICK n \in Nat : n = Cardinality(L)
  BY Count
<1>1. /\ o \in [1 .. n -> L] /\ p \in [1 .. n -> L]
      /\ \A i, k \in 1 .. n : (o[i] = o[k] => i = k) /\ (p[i] = p[k] => i = k)
      /\ \A j \in L : (\E k \in 1 .. n : o[k] = j) /\ (\E k \in 1 .. n : p[k] = j)
  BY AllOnce
<1> DEFINE T == {k \in 1 .. n : o[k] # p[k]}
<1>2. CASE T = {}
  BY <1>1, <1>2
<1>3. CASE T # {}
  <2>1. T \in SUBSET Nat
    OBVIOUS
  <2>2. PICK k \in T : \A i \in T : k <= i
    <3> HIDE DEF T
    <3> QED BY <1>3, <2>1, LeastMember
  <2>3. /\ k \in 1 .. n /\ o[k] \in L /\ p[k] \in L /\ o[k] # p[k]
        /\ \A i \in 1 .. n : i < k => o[i] = p[i]
    BY <1>1, <2>2
  <2>4. PICK m \in 1 .. n : p[m] = o[k]
    BY <1>1, <2>3
  <2>5. PICK l \in 1 .. n : o[l] = p[k]
    BY <1>1, <2>3
  <2>6. k < m /\ k < l
    BY <1>1, <2>3, <2>4, <2>5
  <2>7. DOMAIN o = 1 .. n /\ DOMAIN p = 1 .. n
    BY <1>1
  <2>8. <<p[m], p[k]>> \notin A /\ <<o[l], o[k]>> \notin A
    BY <2>3, <2>6, <2>7
  <2> QED BY <2>3, <2>4, <2>5, <2>8
<1> QED BY <1>2, <1>3

LEMMA UniqueOrder == Strict => \A o, p \in Orders : o = p
<1> SUFFICES ASSUME Strict, NEW o \in Orders, NEW p \in Orders PROVE o = p
  OBVIOUS
<1>1. /\ o \in SetToSeqs(Listed) /\ p \in SetToSeqs(Listed) /\ Listed \in SUBSET Jobs
      /\ \A i, k \in DOMAIN o : i < k => <<o[k], o[i]>> \notin Above
      /\ \A i, k \in DOMAIN p : i < k => <<p[k], p[i]>> \notin Above
  BY DEF Orders, Listed
<1>2. \A a, b \in Listed : a # b => <<a, b>> \in Above \/ <<b, a>> \in Above
  BY DEF Strict
<1> PICK A : A = Above
  OBVIOUS
<1> PICK L : L = Listed
  OBVIOUS
<1>3. /\ o \in SetToSeqs(L) /\ p \in SetToSeqs(L) /\ L \in SUBSET Jobs
      /\ \A i, k \in DOMAIN o : i < k => <<o[k], o[i]>> \notin A
      /\ \A i, k \in DOMAIN p : i < k => <<p[k], p[i]>> \notin A
      /\ \A a, b \in L : a # b => <<a, b>> \in A \/ <<b, a>> \in A
  BY <1>1, <1>2
<1> QED BY <1>3, OneOrder

LEMMA UniqueOrderNext == Strict' => \A o, p \in Orders' : o = p
<1>1. (Strict => \A o, p \in Orders : o = p)'
  BY UniqueOrder, PTL
<1> QED BY <1>1

\* The order is that of the jobs listed.
LEMMA SameList ==
  ASSUME Listed' = Listed, Above' = Above
  PROVE  Orders' = Orders /\ (Strict' <=> Strict)
BY DEF Orders, Strict

\* The rows rendered at an offset are those at that offset.
LEMMA ChunkOf ==
  ASSUME NEW o \in Seq(There), NEW offset \in Nat, offset <= Len(o)
  PROVE  LET m == (IF Len(o) < offset + PageSize THEN Len(o) ELSE offset + PageSize) - offset
         IN /\ m \in Nat /\ DOMAIN ChunkRows(o, offset) = 1 .. m
            /\ ChunkRows(o, offset) \in Seq(Row) => Len(ChunkRows(o, offset)) = m
            /\ \A k \in 1 .. m : ChunkRows(o, offset)[k].job = o[offset + k]
<1> PICK m : m = (IF Len(o) < offset + PageSize THEN Len(o) ELSE offset + PageSize) - offset
  OBVIOUS
<1>1. m \in Nat
  BY RowsAssumption
<1>2. ChunkRows(o, offset) = [i \in 1 .. m |-> Rendered(o[offset + i])]
  BY DEF ChunkRows
<1>3. \A j : Rendered(j).job = j
  BY DEF Rendered
<1>4. DOMAIN ChunkRows(o, offset) = 1 .. m
  BY <1>2
<1>5. ChunkRows(o, offset) \in Seq(Row) => Len(ChunkRows(o, offset)) = m
  BY <1>1, <1>4
<1>6. \A k \in 1 .. m : ChunkRows(o, offset)[k].job = o[offset + k]
  BY <1>2, <1>3
<1> QED BY <1>1, <1>4, <1>5, <1>6

\* A page that is opened shows the first rows of its list.
LEMMA FirstRendered ==
  ASSUME stored \in [Jobs -> Job], NEW o \in Seq(There)
  PROVE  FirstOf(Rendering(o), o)
<1> PICK q : q = Rendering(o)
  OBVIOUS
<1> PICK l \in Nat : l = Len(o)
  OBVIOUS
<1>1. /\ q.rows = ChunkRows(o, 0) /\ q.rows \in Seq(Row) /\ q.load = "no"
      /\ q.next = IF l > PageSize THEN PageSize ELSE -1
  <2>1. q.rows \in Seq(Row)
    BY RenderingType DEF Page
  <2>2. HasMore(o, 0) <=> l > PageSize
    BY RowsAssumption DEF HasMore
  <2> QED BY <2>1, <2>2, RenderingType, RenderingMore
<1> PICK m : m = IF l < PageSize THEN l ELSE PageSize
  OBVIOUS
<1>2. /\ m \in Nat /\ Len(q.rows) = m /\ DOMAIN q.rows = 1 .. m
      /\ \A k \in 1 .. m : q.rows[k].job = o[k]
  <2>1. 0 <= Len(o) /\ PageSize \in Nat
    BY RowsAssumption
  <2>2. m = (IF Len(o) < 0 + PageSize THEN Len(o) ELSE 0 + PageSize) - 0
    BY <2>1
  <2>3. m \in Nat /\ \A k \in 1 .. m : k = 0 + k
    BY <2>1
  <2>4. \A k \in 1 .. m : q.rows[k].job = o[0 + k]
    BY <1>1, <2>1, <2>2, ChunkOf, 0 \in Nat
  <2>5. DOMAIN q.rows = 1 .. m /\ Len(q.rows) = m
    BY <1>1, <2>1, <2>2, ChunkOf, 0 \in Nat
  <2> QED BY <2>3, <2>4, <2>5
<1>3. m <= l /\ (IF l > PageSize THEN PageSize ELSE -1) = (IF m < l THEN m ELSE -1)
  BY RowsAssumption
<1> QED BY <1>1, <1>2, <1>3 DEF FirstOf

LEMMA InitFirst == Init => FirstInv
<1> SUFFICES ASSUME Init, Strict, NEW o \in Orders PROVE FirstOf(page, o)
  BY DEF FirstInv
<1>1. PICK p \in Orders : page = Rendering(p)
  BY DEF Init
<1>2. p = o /\ o \in Seq(There)
  BY UniqueOrder, OrdersType
<1>3. stored \in [Jobs -> Job]
  BY InitInv DEF Inv, Types
<1> QED BY <1>1, <1>2, <1>3, FirstRendered

\* Other buttons and figures leave the rows where they are.
LEMMA FirstKept ==
  ASSUME NEW pg, NEW q, NEW o, pg.rows \in Seq(Row), q.rows \in Seq(Row),
         SameJobs(pg.rows, q.rows), q.next = pg.next, q.load = pg.load,
         q.chunk = pg.chunk, q.more = pg.more, FirstOf(pg, o)
  PROVE  FirstOf(q, o)
<1>1. Len(q.rows) = Len(pg.rows) /\ DOMAIN q.rows = DOMAIN pg.rows
  BY DEF SameJobs
<1>2. \A k \in DOMAIN q.rows : q.rows[k].job = pg.rows[k].job
  BY DEF SameJobs
<1> QED BY <1>1, <1>2 DEF FirstOf

\* No step moves the rows or the sentinel in a list that stays as it was.
LEMMA FirstStep ==
  ASSUME Inv, FiguresInv, FirstInv, [Next]_vars
  PROVE  FirstInv'
<1>1. /\ page \in Page /\ page' \in Page
      /\ page.rows \in Seq(Row) /\ page.chunk \in Seq(Row) /\ page'.rows \in Seq(Row)
      /\ page.active \in SUBSET Jobs /\ stored \in [Jobs -> Job]
      /\ page.next \in Nat \cup {-1}
  <2>1. Inv'
    BY InvStep
  <2> QED BY <2>1 DEF Inv, Types, Page
<1> SUFFICES ASSUME ~moved', Strict', NEW o \in Orders' PROVE FirstOf(page', o)
  BY DEF FirstInv
\* A page that is opened.
<1>2. ASSUME UNCHANGED stored, NEW p \in Orders', page' = Rendering(p) PROVE FirstOf(page', o)
  <2>1. p = o
    BY UniqueOrderNext
  <2>2. There' = There
    BY <1>2 DEF There
  <2>3. o \in Seq(There)
    BY <2>2, OrdersNext
  <2> QED BY <1>1, <1>2, <2>1, <2>3, FirstRendered
\* In all other steps the list is the same.
<1>3. ASSUME Still \/ (Noted /\ UNCHANGED onlyUnscored)
      PROVE  o \in Orders /\ Strict /\ FirstOf(page, o)
  <2>1. ~moved /\ Listed' = Listed /\ Above' = Above
    <3>1. CASE Still
      <4>1. Listed' = Listed
        BY <3>1 DEF Still, Listed
      <4>2. Above' = Above
        BY <3>1, <4>1 DEF Still, Above
      <4> QED BY <3>1, <4>1, <4>2 DEF Still
    <3>2. CASE Noted
      BY <3>2, Zenon DEF Noted
    <3> QED BY <1>3, <3>1, <3>2
  <2>2. Orders' = Orders /\ (Strict' <=> Strict)
    BY <2>1, SameList
  <2> QED BY <2>1, <2>2 DEF FirstInv
<1>4. ASSUME Still, NEW j \in Open(page.rows), page' = Submitted(page, {j})
      PROVE  FirstOf(page', o)
  <2>1. {j} \in SUBSET Open(page.rows) /\ {j} \in SUBSET Jobs
    BY DEF Open
  <2>2. /\ page'.rows = WithBusy(page.rows, {j}) /\ page'.next = page.next
        /\ page'.load = page.load /\ page'.chunk = page.chunk /\ page'.more = page.more
    BY <1>1, <1>4, <2>1, SubmittedType, SubmittedMore
  <2>3. SameJobs(page.rows, page'.rows)
    BY <1>1, <2>1, <2>2, BusyChange
  <2> QED BY <1>1, <1>3, <1>4, <2>2, <2>3, FirstKept
<1>5. ASSUME Still, NEW J \in SUBSET Open(page.rows), page' = Submitted(Figures(page), J)
      PROVE  FirstOf(page', o)
  <2>1. J \in SUBSET Jobs
    BY DEF Open
  <2>2. LET q == Figures(page)
        IN /\ q \in Page /\ q.rows = page.rows /\ q.chunk = page.chunk
           /\ q.load = page.load /\ q.next = page.next /\ q.more = page.more
    BY FiguresMore DEF Inv
  <2>3. /\ page'.rows = WithBusy(page.rows, J) /\ page'.next = page.next
        /\ page'.load = page.load /\ page'.chunk = page.chunk /\ page'.more = page.more
    BY <1>5, <2>1, <2>2, SubmittedType, SubmittedMore
  <2>4. SameJobs(page.rows, page'.rows)
    BY <1>1, <2>3, BusyChange
  <2> QED BY <1>1, <1>3, <1>5, <2>3, <2>4, FirstKept
<1>6. ASSUME Still, NEW j \in page.active, NEW score \in Score, NEW before \in Score,
             page' = Applied(page, j, score, before)
      PROVE  FirstOf(page', o)
  <2>1. j \in Jobs
    BY <1>1
  <2>2. /\ page'.rows = IF score = 0 THEN WithIdle(page.rows, j)
                                     ELSE Updated(page.rows, j, score)
        /\ page'.next = page.next /\ page'.load = page.load /\ page'.chunk = page.chunk
        /\ page'.more = page.more
    BY <1>1, <1>6, <2>1, AppliedType, AppliedMore
  <2>3. SameJobs(page.rows, page'.rows)
    <3>1. CASE score = 0
      <4>1. page'.rows = WithIdle(page.rows, j)
        BY <2>2, <3>1
      <4> QED BY <1>1, <4>1, IdleChange
    <3>2. CASE score # 0
      <4>1. page'.rows = Updated(page.rows, j, score)
        BY <2>2, <3>2
      <4> QED BY <1>1, <4>1, UpdatedChange
    <3> QED BY <3>1, <3>2
  <2> QED BY <1>1, <1>3, <1>6, <2>2, <2>3, FirstKept
<1>7. CASE Still /\ LoadNextRows
  <2>1. page' = [page EXCEPT !.load = "asked"]
    BY <1>7 DEF LoadNextRows
  <2>2. page'.rows = page.rows /\ page'.next = page.next /\ page'.load = "asked"
    BY <1>1, <2>1 DEF Page
  <2> QED BY <1>3, <1>7, <2>2 DEF FirstOf
\* The rows are served from the same list, as it has one order.
<1>8. CASE Still /\ ServeRows
  <2>1. PICK p \in Orders :
           page' = [page EXCEPT !.load = "served", !.chunk = ChunkRows(p, page.next),
                                !.more = HasMore(p, page.next)]
    BY <1>8 DEF ServeRows
  <2>2. p = o /\ o \in Seq(There) /\ FirstOf(page, o)
    BY <1>3, <1>8, UniqueOrder, OrdersType
  <2>3. page.next \in Nat /\ page.next < Len(o)
    BY <1>1, <1>8, <2>2 DEF ServeRows, Inv, Types, FirstOf
  <2> PICK chunk : chunk = ChunkRows(o, page.next)
    OBVIOUS
  <2>4. /\ page'.rows = page.rows /\ page'.next = page.next /\ page'.chunk = chunk
        /\ page'.more = HasMore(o, page.next)
    BY <1>1, <2>1, <2>2 DEF Page
  <2>5. chunk \in Seq(Row)
    BY <1>1, <2>2, <2>3, ChunkType
  <2> PICK m : m = (IF Len(o) < page.next + PageSize THEN Len(o)
                    ELSE page.next + PageSize) - page.next
    OBVIOUS
  <2>6. Len(o) \in Nat /\ page.next <= Len(o)
    BY <2>2, <2>3
  <2>7. /\ Len(chunk) = m /\ DOMAIN chunk = 1 .. m
        /\ \A k \in 1 .. m : chunk[k].job = o[page.next + k]
    BY <2>2, <2>3, <2>5, <2>6, ChunkOf
  <2>8. page.next # -1
    BY <2>3
  <2> QED BY <2>2, <2>4, <2>7, <2>8 DEF FirstOf
\* The rows that arrive continue those shown.
<1>9. CASE Still /\ RowsArrive
  <2>1. page.load = "served" /\ page' = Appended(page)
    BY <1>9 DEF RowsArrive
  <2> PICK a \in Nat, c \in Nat, rows \in Seq(Row) :
         /\ rows = page.rows \o page.chunk
         /\ DOMAIN page.rows = 1 .. a /\ DOMAIN page.chunk = 1 .. c /\ DOMAIN rows = 1 .. a + c
         /\ a = Len(page.rows) /\ c = Len(page.chunk) /\ a + c = Len(rows)
         /\ \A k \in 1 .. a : rows[k] = page.rows[k]
         /\ \A k \in 1 .. c : rows[a + k] = page.chunk[k]
    BY <1>1, Joined
  <2> PICK next : next = IF page.more THEN page.next + Len(page.chunk) ELSE -1
    OBVIOUS
  <2>2. page' = [page EXCEPT !.rows = rows, !.next = next, !.load = "no", !.chunk = <<>>,
                             !.more = FALSE]
    BY <2>1 DEF Appended
  <2>3. page'.rows = rows /\ page'.next = next /\ page'.load = "no"
    BY <1>1, <2>2 DEF Page
  <2>4. o \in Seq(There) /\ FirstOf(page, o)
    BY <1>3, <1>9, OrdersType
  <2> PICK l \in Nat : l = Len(o)
    BY <2>4
  <2>5. /\ page.next = a /\ a < l
        /\ c = (IF l < a + PageSize THEN l ELSE a + PageSize) - a
        /\ page.more <=> l > a + PageSize
    <3>1. page.next # -1 /\ page.next = IF a < l THEN a ELSE -1
      BY <2>1, <2>4 DEF FirstOf
    <3>2. page.next = a /\ a < l
      BY <3>1
    <3> QED BY <2>1, <2>4, <3>2 DEF FirstOf, HasMore
  <2>6. /\ \A k \in 1 .. a : page.rows[k].job = o[k]
        /\ \A k \in 1 .. c : page.chunk[k].job = o[a + k]
    BY <2>1, <2>4, <2>5 DEF FirstOf
  <2>7. \A k \in 1 .. a + c : k \in 1 .. a \/ \E i \in 1 .. c : k = a + i
    BY InTwoParts
  <2>8. ASSUME NEW k \in 1 .. a + c PROVE rows[k].job = o[k]
    <3>1. CASE k \in 1 .. a
      BY <2>6, <3>1
    <3>2. ASSUME NEW i \in 1 .. c, k = a + i PROVE rows[k].job = o[k]
      BY <2>6, <3>2
    <3> QED BY <2>7, <3>1, <3>2
  <2>9. a + c <= l /\ next = IF a + c < l THEN a + c ELSE -1
    <3>1. PageSize \in Nat
      BY RowsAssumption
    <3>2. next = IF page.more THEN a + c ELSE -1
      BY <2>5
    <3>3. a + c = IF l < a + PageSize THEN l ELSE a + PageSize
      BY <2>5, <3>1
    <3> QED BY <2>5, <3>1, <3>2, <3>3
  <2>10. page'.load # "served"
    BY <2>3
  <2> QED BY <2>3, <2>8, <2>9, <2>10 DEF FirstOf
<1>10. CASE Still /\ RowsLost
  <2>1. page' = [page EXCEPT !.load = "no", !.chunk = <<>>, !.more = FALSE]
    BY <1>10 DEF RowsLost
  <2>2. page'.rows = page.rows /\ page'.next = page.next /\ page'.load = "no"
    BY <1>1, <2>1 DEF Page
  <2> QED BY <1>3, <1>10, <2>2 DEF FirstOf
<1> QED BY <1>2, <1>3, <1>4, <1>5, <1>6, <1>7, <1>8, <1>9, <1>10, PageKinds

-----------------------------------------------------------------------------
(* The theorems *)

\* Whoever reads a job, asks the AI and saves, does so beside any number of
\* others: the invariant the properties rest on holds in every state.
THEOREM Invariance == Spec => []Inv
BY InitInv, InvStep, PTL DEF Spec

\* Every part of the state keeps its type, and the page has one request under
\* way for each job it counts as active and none for another.
THEOREM TypeCorrect == Spec => []TypeOK
<1>1. Inv => TypeOK
  <2> SUFFICES ASSUME Inv PROVE TypeOK
    OBVIOUS
  <2>1. ASSUME NEW j \in Jobs
        PROVE  Cardinality({i \in Requests : work[i].mine /\ work[i].job = j}) =
                  IF j \in page.active THEN 1 ELSE 0
    <3>1. CASE j \in page.active
      <4>1. PICK i \in Requests : Mine(j) = {i}
        BY <3>1 DEF Inv, ActiveInv
      <4> QED BY <3>1, <4>1, FS_Singleton DEF Mine
    <3>2. CASE j \notin page.active
      BY <3>2, FS_EmptySet DEF Inv, ActiveInv, Mine
    <3> QED BY <3>1, <3>2
  <2> QED BY <2>1 DEF TypeOK, Inv, Types
<1> QED BY <1>1, Invariance, PTL

\* A score is given once, whatever other requests, batches, imports and writes
\* happen between the read and the save: the row version refuses the late one.
THEOREM ScoreIsKept == Spec => ScoreKept
<1>1. Inv /\ [Next]_vars =>
         [\A j \in Jobs : stored[j].score # 0 => stored'[j].score = stored[j].score]_vars
  BY StoredStep DEF Inv
<1> QED BY <1>1, Invariance, PTL DEF Spec, ScoreKept

\* A busy button is that of a request under way, and a done one that of a job
\* with the score beside it, however rows, answers and writes overtake each
\* other.
THEOREM ButtonsAlwaysTrue == Spec => []ButtonsAreTrue
<1>1. Inv => ButtonsAreTrue
  BY DEF Inv, RowsInv, RowTrue, ButtonsAreTrue
<1> QED BY <1>1, Invariance, PTL

\* The figures stay covered, and the rows the first of the list while it stays.
LEMMA FiguresInvariance == Spec => [](FiguresInv /\ FirstInv)
<1>1. Init => FiguresInv /\ FirstInv
  BY InitFigures, InitFirst
<1>2. Inv /\ FiguresInv /\ FirstInv /\ [Next]_vars => FiguresInv' /\ FirstInv'
  BY FiguresStep, FirstStep
<1> QED BY <1>1, <1>2, Invariance, PTL DEF Spec

\* The figures above the list never claim more than is stored, but for jobs
\* scored between the two reads of a rendering and for rows loaded twice, however
\* often rows are clicked, answers lost, rows loaded, and jobs scored by others.
THEOREM FiguresAlwaysTrue == Spec => []FiguresAreTrue
<1>1. Inv /\ FiguresInv => FiguresAreTrue
  <2> SUFFICES ASSUME Inv, FiguresInv, page.pc = "shown"
               PROVE  /\ page.scored <= Cardinality(Scored) + Cardinality(torn) + Duplicates
                      /\ page.strong <= Cardinality(StrongMatches) + Cardinality(torn)
                                        + Duplicates
    BY DEF FiguresAreTrue
  <2>1. /\ page.rows \in Seq(Row) /\ page.scored \in Nat /\ page.strong \in Nat
        /\ torn \in SUBSET Jobs
    BY DEF Inv, Types, Page, FiguresInv
  <2>2. /\ Covered(page.scored, Scored, page.rows, page.chunk, torn)
        /\ Covered(page.strong, StrongMatches, page.rows, page.chunk, torn)
    BY DEF FiguresInv
  <2> QED BY <2>1, <2>2, ScoredTypes, CoveredBound DEF Duplicates
<1> QED BY <1>1, Invariance, FiguresInvariance, PTL

\* While the list stays as it was rendered and orders all jobs, the rows shown
\* are its first ones, none left out and none twice, and the sentinel goes on
\* where they end, whichever loads are lost and asked for again.
THEOREM RowsAlwaysTheFirst == Spec => []RowsAreTheFirst
<1>1. FirstInv => RowsAreTheFirst
  BY DEF FirstInv, FirstOf, RowsAreTheFirst, Strict
<1> QED BY <1>1, FiguresInvariance, PTL

=============================================================================
