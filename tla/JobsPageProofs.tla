--------------------------- MODULE JobsPageProofs ---------------------------
(***************************************************************************)
(* Proofs about JobsPage: a tab and the server together keep their types,   *)
(* and the tab leaves neither its tracking nor its blocked form to itself.  *)
(*                                                                         *)
(* The work is in the functions of the script.  GoodPages is the set of     *)
(* pages that leave nothing over; each of Begin, Apply, ApplyAll, Reset,    *)
(* Rearm and SetPoll maps it into itself.  For ApplyAll, a fold over the    *)
(* events of an answer, the first section shows that a fold stays in a set  *)
(* its body stays in: a fold is a recursive function on sets of positions,  *)
(* and the first position where it left the set would contradict the one    *)
(* before.                                                                  *)
(*                                                                         *)
(* The steps of the server are those of JobsWorkflow, and so are their      *)
(* lemmas, of JobsWorkflowProofs; what the tab needs of it besides its      *)
(* types is BusyNamesHolder.                                                *)
(***************************************************************************)
EXTENDS JobsPage, JobsWorkflowProofs, SequenceTheorems, WellFoundedInduction

-----------------------------------------------------------------------------
(* The loop over the events of an answer *)

\* A set of naturals has a least member.
LEMMA LeastMember ==
  ASSUME NEW T \in SUBSET Nat, T # {}
  PROVE  \E x \in T : \A y \in T : x <= y
<1>1. IsWellFoundedOn(OpToRel(<, Nat), Nat)
  BY NatLessThanWellFounded, Zenon
<1>2. PICK x \in T : \A y \in T : ~ (<<y, x>> \in OpToRel(<, Nat))
  BY <1>1, WFMin, Zenon
<1>3. \A y \in T : ~ (y < x)
  BY <1>2 DEF OpToRel
<1> QED BY <1>3

\* Function f folds the events of list with numbers in s, for each s of its domain.
Folds(f, p, w, list) ==
    \A s \in DOMAIN f :
       f[s] = IF s = {} THEN p ELSE ApplyEvent(f[s \ {Max(s)}], w, list[Max(s)])

\* The greatest number of a set that contains its bound.
LEMMA MaxIs ==
  ASSUME NEW m \in Nat, NEW s \in SUBSET (1 .. m), m \in s
  PROVE  Max(s) = m
<1>1. \A x \in s : (\A y \in s : x >= y) => x = m
  OBVIOUS
<1>2. \A y \in s : m >= y
  OBVIOUS
<1> QED BY <1>1, <1>2 DEF Max

\* There is a function that folds the first n events.
LEMMA FoldExists ==
  ASSUME NEW n \in Nat, NEW p, NEW w, NEW list, NEW Good, p \in Good,
         \A q \in Good, k \in 1 .. n : ApplyEvent(q, w, list[k]) \in Good
  PROVE  \E f \in [SUBSET (1 .. n) -> Good] : Folds(f, p, w, list)
<1> DEFINE T == {m \in 0 .. n : ~ \E f \in [SUBSET (1 .. m) -> Good] : Folds(f, p, w, list)}
<1>1. SUFFICES ASSUME T # {} PROVE FALSE
  <2>1. n \in 0 .. n
    OBVIOUS
  <2> QED BY <1>1, <2>1
<1>2. T \in SUBSET Nat
  OBVIOUS
<1>3. PICK m \in T : \A x \in T : m <= x
  <2> HIDE DEF T
  <2> QED BY <1>1, <1>2, LeastMember
<1>4. CASE m = 0
  <2>1. PICK f : f = [s \in SUBSET (1 .. 0) |-> p]
    OBVIOUS
  <2>2. f \in [SUBSET (1 .. 0) -> Good]
    BY <2>1
  <2>3. \A s \in SUBSET (1 .. 0) : s = {}
    OBVIOUS
  <2>4. Folds(f, p, w, list)
    BY <2>1, <2>3 DEF Folds
  <2> QED BY <1>3, <1>4, <2>2, <2>4
<1>5. CASE m # 0
  <2>1. m \in 1 .. n /\ m - 1 \in 0 .. n /\ ~ (m - 1 \in T)
    <3>1. m \in 0 .. n
      BY <1>3
    <3> HIDE DEF T
    <3>2. m \in 1 .. n /\ m - 1 \in 0 .. n /\ ~ (m <= m - 1)
      BY <1>5, <3>1
    <3> QED BY <1>3, <3>2
  <2>2. PICK g \in [SUBSET (1 .. m - 1) -> Good] : Folds(g, p, w, list)
    BY <2>1
  <2>3. PICK f : f = [s \in SUBSET (1 .. m) |->
                        IF m \in s THEN ApplyEvent(g[s \ {m}], w, list[m]) ELSE g[s]]
    OBVIOUS
  <2>4. ASSUME NEW s \in SUBSET (1 .. m)
        PROVE  IF m \in s THEN s \ {m} \in SUBSET (1 .. m - 1) ELSE s \in SUBSET (1 .. m - 1)
    BY <2>1
  <2>5. f \in [SUBSET (1 .. m) -> Good]
    <3>1. ASSUME NEW s \in SUBSET (1 .. m) PROVE f[s] \in Good
      <4>1. CASE m \in s
        <5>1. g[s \ {m}] \in Good
          BY <2>4, <4>1
        <5>2. f[s] = ApplyEvent(g[s \ {m}], w, list[m])
          BY <2>3, <4>1
        <5> QED BY <2>1, <5>1, <5>2
      <4>2. CASE m \notin s
        BY <2>3, <2>4, <4>2
      <4> QED BY <4>1, <4>2
    <3>2. f = [s \in SUBSET (1 .. m) |-> f[s]]
      BY <2>3
    <3> QED BY <3>1, <3>2
  <2>6. Folds(f, p, w, list)
    <3>1. DOMAIN f = SUBSET (1 .. m) /\ DOMAIN g = SUBSET (1 .. m - 1)
      BY <2>3
    <3>2. ASSUME NEW s \in SUBSET (1 .. m)
          PROVE  f[s] = IF s = {} THEN p ELSE ApplyEvent(f[s \ {Max(s)}], w, list[Max(s)])
      <4>1. CASE m \in s
        <5>1. Max(s) = m
          BY <2>1, <4>1, MaxIs
        <5>2. s \ {m} \in SUBSET (1 .. m) /\ m \notin s \ {m}
          OBVIOUS
        <5>3. f[s \ {m}] = g[s \ {m}]
          BY <2>3, <5>2
        <5>4. f[s] = ApplyEvent(g[s \ {m}], w, list[m])
          BY <2>3, <4>1
        <5> QED BY <4>1, <5>1, <5>3, <5>4
      <4>2. CASE m \notin s
        <5>1. s \in SUBSET (1 .. m - 1) /\ s \ {Max(s)} \in SUBSET (1 .. m - 1)
          BY <2>4, <4>2
        <5>2. m \notin s \ {Max(s)} /\ s \ {Max(s)} \in SUBSET (1 .. m)
          BY <4>2
        <5>3. f[s] = g[s] /\ f[s \ {Max(s)}] = g[s \ {Max(s)}]
          BY <2>3, <4>2, <5>2
        <5>4. g[s] = IF s = {} THEN p ELSE ApplyEvent(g[s \ {Max(s)}], w, list[Max(s)])
          BY <2>2, <3>1, <5>1 DEF Folds
        <5> QED BY <5>3, <5>4
      <4> QED BY <4>1, <4>2
    <3> QED BY <3>1, <3>2 DEF Folds
  <2> QED BY <1>3, <2>5, <2>6
<1> QED BY <1>4, <1>5

\* ... and whatever function does so, folds into the set.
LEMMA FoldStays ==
  ASSUME NEW n \in Nat, NEW p, NEW w, NEW list, NEW Good, p \in Good,
         \A q \in Good, k \in 1 .. n : ApplyEvent(q, w, list[k]) \in Good,
         NEW f, DOMAIN f = SUBSET (1 .. n), Folds(f, p, w, list)
  PROVE  f[1 .. n] \in Good
<1> DEFINE T == {m \in 0 .. n : f[1 .. m] \notin Good}
<1>1. SUFFICES ASSUME T # {} PROVE FALSE
  <2>1. n \in 0 .. n
    OBVIOUS
  <2> QED BY <1>1, <2>1
<1>2. T \in SUBSET Nat
  OBVIOUS
<1>3. PICK m \in T : \A x \in T : m <= x
  <2> HIDE DEF T
  <2> QED BY <1>1, <1>2, LeastMember
<1>4. m \in 0 .. n /\ 1 .. m \in SUBSET (1 .. n)
  BY <1>3
<1>5. f[1 .. m] = IF 1 .. m = {} THEN p ELSE ApplyEvent(f[(1 .. m) \ {Max(1 .. m)}], w, list[Max(1 .. m)])
  BY <1>4 DEF Folds
<1>6. CASE m = 0
  <2>1. 1 .. m = {}
    BY <1>6
  <2> QED BY <1>3, <1>5, <2>1
<1>7. CASE m # 0
  <2>1. m \in 1 .. n /\ m \in Nat /\ m - 1 \in 0 .. n /\ ~ (m - 1 \in T)
    <3> HIDE DEF T
    <3>1. m \in 1 .. n /\ m - 1 \in 0 .. n /\ ~ (m <= m - 1)
      BY <1>4, <1>7
    <3> QED BY <1>3, <3>1
  <2>2. f[1 .. m - 1] \in Good
    BY <2>1
  <2>3. Max(1 .. m) = m
    BY <2>1, MaxIs
  <2>4. (1 .. m) \ {m} = 1 .. m - 1 /\ 1 .. m # {}
    <3>1. \A x : x \in (1 .. m) \ {m} <=> x \in 1 .. m - 1
      BY <2>1
    <3>2. m \in 1 .. m
      BY <2>1
    <3> QED BY <3>1, <3>2
  <2>5. f[1 .. m] = ApplyEvent(f[1 .. m - 1], w, list[m])
    BY <1>5, <2>3, <2>4
  <2>6. f[1 .. m] \in Good
    BY <2>1, <2>2, <2>5
  <2> QED BY <1>3, <2>6
<1> QED BY <1>6, <1>7

\* What each event of an answer keeps true of the page, the answer keeps true.
LEMMA ApplyAllStays ==
  ASSUME NEW p, NEW w, NEW S, NEW list \in Seq(S), NEW Good, p \in Good,
         \A q \in Good, k \in 1 .. Len(list) : ApplyEvent(q, w, list[k]) \in Good
  PROVE  ApplyAll(p, w, list) \in Good
<1>1. PICK n \in Nat : n = Len(list) /\ DOMAIN list = 1 .. n
  OBVIOUS
<1> DEFINE F(f) == [s \in SUBSET (1 .. n) |->
                      IF s = {} THEN p ELSE ApplyEvent(f[s \ {Max(s)}], w, list[Max(s)])]
           iter == CHOOSE f : f = F(f)
<1>2. PICK g \in [SUBSET (1 .. n) -> Good] : Folds(g, p, w, list)
  BY <1>1, FoldExists
<1>3. g = F(g)
  BY <1>2 DEF Folds
<1>4. iter = F(iter)
  BY <1>3
<1>5. DOMAIN iter = SUBSET (1 .. n) /\ Folds(iter, p, w, list)
  <2> HIDE DEF iter
  <2> QED BY <1>4 DEF Folds
<1>6. iter[1 .. n] \in Good
  <2> HIDE DEF iter
  <2> QED BY <1>1, <1>5, FoldStays
<1>7. ApplyAll(p, w, list) = iter[1 .. n]
  BY <1>1 DEF ApplyAll, FoldLeft, MapThenFoldSet
<1> QED BY <1>6, <1>7

-----------------------------------------------------------------------------
(* The invariant *)

\* The polls a page may have: one under way asks about a workflow.
PollsOK(polls) ==
    /\ polls \in [Polls -> Poll]
    /\ \A i \in Polls : polls[i].pc \in {"sent", "answered"} => polls[i].id # None

\* The pages that leave nothing over while a handler is about to track a
\* workflow (or is not).
GoodPages(connecting) ==
    {p \in Page :
        /\ PollsOK(p.polls)
        /\ p.tracked # None => \E i \in Polls : p.polls[i].pc # "off"
        /\ p.submitting => p.tracked # None \/ connecting \/ p.leaving}

\* A handler is about to track a workflow.
Connecting == \E w \in Workflows : handler[w] = "connecting"

\* What the tab and the network hold besides the page.
MessagesOK ==
    /\ handler \in [Workflows -> Handlers]
    /\ pushes \in Seq([id : Workflows, update : Update])
    /\ reloads \in Nat
    /\ losses \in Nat

\* The inductive invariant; JobsWorkflowProofs has one of the server, Inv.
PageInv == PageTypeOK /\ BusyNamesHolder /\ NothingIsLeftOver

\* The page is one of them.
PageGood == page \in GoodPages(Connecting)

\* Its parts.
LEMMA PageParts ==
  PageInv <=> TypeOK /\ BusyNamesHolder /\ PageGood /\ MessagesOK
BY DEF PageInv, PageTypeOK, NothingIsLeftOver, PollingWhileTracked, SubmittingIsWork, GoodPages,
   PollsOK, PageGood, Connecting, MessagesOK, Page

-----------------------------------------------------------------------------
(* The script's functions *)

\* A poll that is off, and one that waits for its timer.
LEMMA OffPollType ==
  /\ OffPoll \in Poll /\ OffPoll.pc = "off"
  /\ [OffPoll EXCEPT !.pc = "timer"] \in Poll /\ [OffPoll EXCEPT !.pc = "timer"].pc = "timer"
<1>1. <<>> \in Seq(Event)
  OBVIOUS
<1>2. OffPoll \in Poll /\ OffPoll.pc = "off"
  BY <1>1 DEF OffPoll, Poll
<1>3. [OffPoll EXCEPT !.pc = "timer"] \in Poll
  BY <1>2 DEF Poll
<1>4. [OffPoll EXCEPT !.pc = "timer"].pc = "timer"
  BY DEF OffPoll
<1> QED BY <1>2, <1>3, <1>4

\* A poll under way asks about a workflow.
LEMMA SentPollType ==
  ASSUME NEW w \in Workflows, NEW after \in Nat
  PROVE  /\ SentPoll(w, after) \in Poll /\ SentPoll(w, after).pc = "sent"
         /\ SentPoll(w, after).id = w /\ w # None
<1>1. w # None
  BY ConstantsAssumption
<1>2. <<>> \in Seq(Event)
  OBVIOUS
<1> QED BY <1>1, <1>2 DEF OffPoll, SentPoll, Poll

\* One poll of a page changes.
LEMMA PollSet ==
  ASSUME NEW polls, PollsOK(polls), NEW i \in Polls, NEW poll \in Poll,
         poll.pc \in {"sent", "answered"} => poll.id # None
  PROVE  /\ PollsOK([polls EXCEPT ![i] = poll])
         /\ [polls EXCEPT ![i] = poll][i] = poll
         /\ \A j \in Polls : j # i => [polls EXCEPT ![i] = poll][j] = polls[j]
BY DEF PollsOK

\* stopPolling leaves all but a poll that waits for its timer.
LEMMA StopType ==
  ASSUME NEW p \in Page, PollsOK(p.polls)
  PROVE  /\ StopPolling(p) \in Page /\ PollsOK(StopPolling(p).polls)
         /\ StopPolling(p).leaving = p.leaving
<1>1. CASE p.timer # NoTimer /\ p.polls[p.timer].pc = "timer"
  <2>1. PICK i \in Polls : i = p.timer
    BY <1>1 DEF Page
  <2>2. PICK off \in Poll : off = OffPoll /\ off.pc = "off"
    BY OffPollType
  <2>3. PICK polls : polls = [p.polls EXCEPT ![i] = off] /\ PollsOK(polls)
    BY <2>2, PollSet
  <2>4. StopPolling(p) = [p EXCEPT !.polls = polls, !.timer = NoTimer]
    BY <1>1, <2>1, <2>2, <2>3 DEF StopPolling
  <2>5. PICK q : q = [p EXCEPT !.polls = polls, !.timer = NoTimer]
    OBVIOUS
  <2>6. q \in Page /\ q.polls = polls /\ q.leaving = p.leaving
    BY <2>3, <2>5 DEF Page, PollsOK
  <2> QED BY <2>3, <2>4, <2>5, <2>6
<1>2. CASE ~ (p.timer # NoTimer /\ p.polls[p.timer].pc = "timer")
  <2>1. StopPolling(p) = [p EXCEPT !.timer = NoTimer]
    BY <1>2 DEF StopPolling
  <2> QED BY <2>1 DEF Page
<1> QED BY <1>1, <1>2

\* A reset page tracks nothing and its form is free.
LEMMA ResetType ==
  ASSUME NEW p \in Page, PollsOK(p.polls)
  PROVE  /\ Reset(p) \in Page /\ PollsOK(Reset(p).polls)
         /\ Reset(p).tracked = None /\ Reset(p).submitting = FALSE
         /\ Reset(p).leaving = p.leaving
<1>1. PICK q \in Page : q = StopPolling(p) /\ PollsOK(q.polls) /\ q.leaving = p.leaving
  BY StopType
<1>2. PICK r : r = [q EXCEPT !.tracked = None, !.seq = 0, !.submitting = FALSE,
                           !.busy = FALSE, !.promise = FALSE, !.url = FALSE]
  OBVIOUS
<1>3. /\ r \in Page /\ r.polls = q.polls /\ r.leaving = q.leaving
      /\ r.tracked = None /\ r.submitting = FALSE
  BY <1>2 DEF Page
<1>4. Reset(p) = r
  BY <1>1, <1>2 DEF Reset
<1> QED BY <1>1, <1>3, <1>4

\* ... so nothing is left over in it.
LEMMA ResetGood ==
  ASSUME NEW p \in Page, PollsOK(p.polls), NEW c
  PROVE  Reset(p) \in GoodPages(c)
BY ResetType DEF GoodPages

\* An update of any workflow, early or late, leaves nothing over.
LEMMA ApplyGood ==
  ASSUME NEW c, NEW p \in GoodPages(c), NEW w, NEW u
  PROVE  Apply(p, w, u) \in GoodPages(c)
<1>1. p \in Page /\ PollsOK(p.polls)
  BY DEF GoodPages
<1>2. CASE p.tracked \notin {None, w}
  BY <1>2 DEF Apply
<1>3. CASE p.tracked \in {None, w} /\ ~Ends(u)
  <2>1. PICK q : q = [p EXCEPT !.busy = TRUE]
    OBVIOUS
  <2>2. /\ q \in Page /\ q.polls = p.polls /\ q.tracked = p.tracked
        /\ q.submitting = p.submitting /\ q.leaving = p.leaving
    BY <1>1, <2>1 DEF Page
  <2> QED BY <1>3, <2>1, <2>2 DEF Apply, GoodPages
<1>4. CASE p.tracked \in {None, w} /\ Ends(u)
  <2>1. PICK r \in Page : r = Reset(p) /\ PollsOK(r.polls) /\ r.tracked = None /\ r.submitting = FALSE
    BY <1>1, ResetType
  <2>2. PICK b \in BOOLEAN : b = (p.leaving \/ (u.state = "completed" /\ ~p.promise /\ p.url))
    OBVIOUS
  <2>3. PICK q : q = [r EXCEPT !.leaving = b]
    OBVIOUS
  <2>4. /\ q \in Page /\ q.polls = r.polls /\ q.tracked = r.tracked
        /\ q.submitting = r.submitting
    BY <2>3 DEF Page
  <2>5. q \in GoodPages(c)
    BY <2>1, <2>4 DEF GoodPages
  <2> QED BY <1>4, <2>1, <2>2, <2>3, <2>5 DEF Apply
<1> QED BY <1>2, <1>3, <1>4

\* An event of an answer.
LEMMA ApplyEventGood ==
  ASSUME NEW c, NEW p \in GoodPages(c), NEW w, NEW e \in Event
  PROVE  ApplyEvent(p, w, e) \in GoodPages(c)
<1>1. p \in Page
  BY DEF GoodPages
<1>2. PICK n \in Nat : n = IF e.sequence > p.seq THEN e.sequence ELSE p.seq
  BY <1>1 DEF Page, Event
<1>3. PICK q : q = [p EXCEPT !.seq = n]
  OBVIOUS
<1>4. /\ q \in Page /\ q.polls = p.polls /\ q.tracked = p.tracked
      /\ q.submitting = p.submitting /\ q.leaving = p.leaving
  BY <1>1, <1>3 DEF Page
<1>5. q \in GoodPages(c)
  BY <1>4 DEF GoodPages
<1> QED BY <1>2, <1>3, <1>5, ApplyGood DEF ApplyEvent

\* All of them.
LEMMA ApplyAllGood ==
  ASSUME NEW c, NEW p \in GoodPages(c), NEW w, NEW list \in Seq(Event)
  PROVE  ApplyAll(p, w, list) \in GoodPages(c)
<1>1. \A q \in GoodPages(c), k \in 1 .. Len(list) : ApplyEvent(q, w, list[k]) \in GoodPages(c)
  <2> TAKE q \in GoodPages(c), k \in 1 .. Len(list)
  <2>1. list[k] \in Event
    OBVIOUS
  <2> QED BY <2>1, ApplyEventGood
<1> HIDE DEF GoodPages
<1> QED BY <1>1, ApplyAllStays

\* The poll of an answer sets its timer again.
LEMMA RearmGood ==
  ASSUME NEW c, NEW p \in GoodPages(c), NEW i \in Polls
  PROVE  Rearm(p, i) \in GoodPages(c)
<1>1. p \in Page /\ PollsOK(p.polls)
  BY DEF GoodPages
<1>2. PICK poll \in Poll : poll = [OffPoll EXCEPT !.pc = "timer"] /\ poll.pc = "timer"
  BY OffPollType
<1>3. PICK polls : polls = [p.polls EXCEPT ![i] = poll] /\ PollsOK(polls)
  BY <1>1, <1>2, PollSet
<1>4. polls[i] = poll
  BY <1>1, <1>3 DEF PollsOK
<1>5. Rearm(p, i) = [p EXCEPT !.polls = polls, !.timer = i]
  BY <1>2, <1>3 DEF Rearm
<1>6. PICK q : q = [p EXCEPT !.polls = polls, !.timer = i]
  OBVIOUS
<1>7. /\ q \in Page /\ q.polls = polls /\ q.tracked = p.tracked
      /\ q.submitting = p.submitting /\ q.leaving = p.leaving
  BY <1>1, <1>3, <1>6 DEF Page, PollsOK
<1>8. PollsOK(q.polls) /\ q.polls[i].pc # "off"
  BY <1>2, <1>3, <1>4, <1>7
<1>9. q \in GoodPages(c)
  BY <1>7, <1>8 DEF GoodPages
<1> QED BY <1>5, <1>6, <1>9

\* A poll goes on.
LEMMA SetPollGood ==
  ASSUME NEW c, NEW p \in GoodPages(c), NEW i \in Polls, NEW poll \in Poll,
         poll.pc \in {"sent", "answered"} => poll.id # None,
         poll.pc = "off" => p.tracked = None
  PROVE  SetPoll(p, i, poll) \in GoodPages(c)
<1>1. p \in Page /\ PollsOK(p.polls)
  BY DEF GoodPages
<1>2. PICK polls : polls = [p.polls EXCEPT ![i] = poll] /\ PollsOK(polls)
  BY <1>1, PollSet
<1>3. polls[i] = poll
  BY <1>1, <1>2 DEF PollsOK
<1>4. PICK q : q = [p EXCEPT !.polls = polls]
  OBVIOUS
<1>5. /\ q \in Page /\ q.polls = polls /\ q.tracked = p.tracked
      /\ q.submitting = p.submitting /\ q.leaving = p.leaving
  BY <1>1, <1>2, <1>4 DEF Page, PollsOK
<1>6. SetPoll(p, i, poll) = q
  BY <1>2, <1>4 DEF SetPoll
<1>7. PollsOK(q.polls) /\ q.polls[i] = poll
  BY <1>2, <1>3, <1>5
<1>8. q \in GoodPages(c)
  BY <1>5, <1>7 DEF GoodPages
<1> QED BY <1>6, <1>8

\* beginWorkflowTracking, while fewer polls than the bound are under way.
LEMMA BeginType ==
  ASSUME NEW p \in Page, PollsOK(p.polls), FreePolls(p) # {}, NEW w \in Workflows
  PROVE  /\ Begin(p, w) \in Page /\ PollsOK(Begin(p, w).polls)
         /\ Begin(p, w).tracked = w /\ w # None
         /\ \E i \in Polls : Begin(p, w).polls[i].pc # "off"
<1>1. PICK s \in Page : s = StopPolling(p) /\ PollsOK(s.polls)
  BY StopType
<1>2. FreePolls(p) \in SUBSET Nat /\ FreePolls(p) \subseteq Polls
  BY DEF FreePolls, Polls
<1>3. \E j \in FreePolls(p) : \A k \in FreePolls(p) : j <= k
  BY <1>2, LeastMember
<1>4. PICK i \in Polls : i = CHOOSE j \in FreePolls(p) : \A k \in FreePolls(p) : j <= k
  BY <1>2, <1>3
<1>5. PICK poll \in Poll : poll = SentPoll(w, 0) /\ poll.pc = "sent" /\ poll.id = w /\ w # None
  BY SentPollType
<1>6. PICK polls : polls = [s.polls EXCEPT ![i] = poll] /\ PollsOK(polls)
  <2>1. PollsOK([s.polls EXCEPT ![i] = poll])
    BY <1>1, <1>5, PollSet
  <2> QED BY <2>1
<1>7. polls[i] = poll
  BY <1>1, <1>6 DEF PollsOK
<1>8. Begin(p, w) = [s EXCEPT !.tracked = w, !.seq = 0, !.url = TRUE, !.busy = TRUE, !.polls = polls]
  BY <1>1, <1>4, <1>5, <1>6 DEF Begin
<1>9. PICK q : q = [s EXCEPT !.tracked = w, !.seq = 0, !.url = TRUE, !.busy = TRUE, !.polls = polls]
  OBVIOUS
<1>10. q \in Page /\ q.polls = polls /\ q.tracked = w
  BY <1>1, <1>6, <1>9 DEF Page, PollsOK
<1> QED BY <1>5, <1>6, <1>7, <1>8, <1>9, <1>10

\* ... and nothing is left over then.
LEMMA BeginGood ==
  ASSUME NEW c, NEW p \in Page, PollsOK(p.polls), FreePolls(p) # {}, NEW w \in Workflows
  PROVE  Begin(p, w) \in GoodPages(c)
BY BeginType DEF GoodPages

-----------------------------------------------------------------------------
(* Steps of the server *)

\* A request that goes on has its answer as before.
LEMMA GotoBusy ==
  ASSUME TypeOK, BusyNamesHolder, NEW w \in Workflows, NEW pc, Goto(w, pc)
  PROVE  BusyNamesHolder'
<1>1. PICK r : r = [wf[w] EXCEPT !.pc = pc]
  OBVIOUS
<1>2. wf[w] \in Request
  BY DEF TypeOK
<1>3. r.answer = wf[w].answer /\ r.other = wf[w].other
  BY <1>1, <1>2 DEF Request
<1>4. wf' = [wf EXCEPT ![w] = r]
  BY <1>1 DEF Goto, Set
<1> QED BY <1>3, <1>4 DEF BusyNamesHolder, TypeOK

\* Any other change of a request.
LEMMA SetBusy ==
  ASSUME TypeOK, BusyNamesHolder, NEW w \in Workflows, NEW r, Set(w, r),
         r.answer = "busy" => r.other # None
  PROVE  BusyNamesHolder'
BY DEF BusyNamesHolder, TypeOK, Set

\* An end of a workflow.
LEMMA EndBusy ==
  ASSUME TypeOK, BusyNamesHolder, NEW w \in Workflows, NEW from, NEW state, NEW stage,
         NEW answer, answer # "busy", End(w, from, state, stage, answer)
  PROVE  BusyNamesHolder'
<1>1. PICK pc : pc = IF state \in TerminalStates THEN "ending" ELSE "leaving"
  OBVIOUS
<1>2. PICK r : r = [wf[w] EXCEPT !.pc = pc, !.answer = answer]
  OBVIOUS
<1>3. wf[w] \in Request
  BY DEF TypeOK
<1>4. r.answer = answer
  BY <1>2, <1>3 DEF Request
<1>5. Set(w, r)
  BY <1>1, <1>2 DEF End
<1> QED BY <1>4, <1>5, SetBusy

\* Only the refusal of the slot answers with "busy", and names its holder.
LEMMA BusyStep == TypeOK /\ BusyNamesHolder /\ [Next]_vars => BusyNamesHolder'
<1> SUFFICES ASSUME TypeOK, BusyNamesHolder, [Next]_vars PROVE BusyNamesHolder'
  OBVIOUS
<1>1. CASE UNCHANGED vars
  BY <1>1 DEF vars, BusyNamesHolder
<1>2. CASE Restart
  <2>1. ASSUME NEW w \in Workflows PROVE wf'[w] = wf[w] \/ wf'[w].answer = "none"
    <3>1. Blank("gone", wf[w].accepted).answer = "none"
      BY DEF Blank
    <3>2. wf'[w] = wf[w] \/ wf'[w] = Blank("gone", wf[w].accepted)
      BY <1>2 DEF Restart
    <3> QED BY <3>1, <3>2
  <2> QED BY <2>1 DEF BusyNamesHolder
<1>3. ASSUME NEW w \in Workflows, Serve(w) \/ Submit(w) \/ CancelWorkflow(w)
      PROVE  BusyNamesHolder'
  <2>0. wf[w] \in Request /\ (wf[w].answer = "busy" => wf[w].other # None)
    BY DEF TypeOK, BusyNamesHolder
  <2>1. CASE Submit(w)
    BY <2>1, GotoBusy DEF Submit
  <2>2. CASE CancelWorkflow(w)
    <3>1. PICK r : r = [wf[w] EXCEPT !.stopAt = wf[w].attempted]
      OBVIOUS
    <3>2. r.answer = wf[w].answer /\ r.other = wf[w].other
      BY <2>0, <3>1 DEF Request
    <3> QED BY <2>0, <2>2, <3>1, <3>2, SetBusy DEF CancelWorkflow
  <2>3. CASE Blocked(w)
    <3>1. PICK r : r = [wf[w] EXCEPT !.pc = "answered", !.answer = "blocked"]
      OBVIOUS
    <3>2. r.answer = "blocked"
      BY <2>0, <3>1 DEF Request
    <3> QED BY <2>3, <3>1, <3>2, SetBusy DEF Blocked
  <2>4. CASE Rejected(w)
    <3>1. PICK r : r = [wf[w] EXCEPT !.pc = "answered", !.answer = "busy", !.other = active]
      OBVIOUS
    <3>2. r.other = active
      BY <2>0, <3>1 DEF Request
    <3> QED BY <2>4, <3>1, <3>2, SetBusy DEF Rejected, SlotTaken
  <2>5. CASE Register(w)
    <3>1. PICK r : r = [wf[w] EXCEPT !.pc = "accepted", !.accepted = TRUE]
      OBVIOUS
    <3>2. r.answer = wf[w].answer /\ r.other = wf[w].other
      BY <2>0, <3>1 DEF Request
    <3> QED BY <2>0, <2>5, <3>1, <3>2, SetBusy DEF Register
  <2>6. CASE \/ Announce(w) \/ CallLinkedIn(w) \/ ReportImported(w) \/ PrepareBatch(w)
             \/ CallDetails(w) \/ ReportEnriched(w) \/ StageProgress(w)
    <3>1. \E pc : Goto(w, pc)
      BY <2>6 DEF Announce, CallLinkedIn, ReportImported, PrepareBatch, CallDetails,
         ReportEnriched, StageProgress, Report
    <3> QED BY <3>1, GotoBusy
  <2>7. CASE ImportReturns(w) \/ BatchLoop(w) \/ Interrupt(w) \/ ReleaseAtEnd(w) \/ Leave(w)
    <3>1. \E pc : Goto(w, pc)
      BY <2>7 DEF ImportReturns, BatchLoop, Interrupt, ReleaseAtEnd, Leave
    <3> QED BY <3>1, GotoBusy
  <2>8. CASE CountCandidates(w)
    <3>1. PICK n : Set(w, [wf[w] EXCEPT !.pc = "loop", !.total = n])
      BY <2>8 DEF CountCandidates
    <3>2. PICK r : r = [wf[w] EXCEPT !.pc = "loop", !.total = n]
      OBVIOUS
    <3>3. r.answer = wf[w].answer /\ r.other = wf[w].other
      BY <2>0, <3>2 DEF Request
    <3> QED BY <2>0, <3>1, <3>2, <3>3, SetBusy
  <2>9. CASE EnrichmentReturns(w)
    BY <2>0, <2>9 DEF EnrichmentReturns, Set, Request, BusyNamesHolder, TypeOK
  <2>10. CASE ReportImportFailed(w) \/ ReportCompleted(w) \/ ReportCancelled(w)
    BY <2>10, EndBusy DEF ReportImportFailed, ReportCompleted, ReportCancelled
  <2>11. CASE Throws(w)
    <3>1. PICK r : r = [wf[w] EXCEPT !.pc = "leaving", !.answer = "problem"]
      OBVIOUS
    <3>2. r.answer = "problem"
      BY <2>0, <3>1 DEF Request
    <3> QED BY <2>11, <3>1, <3>2, SetBusy DEF Throws
  <2> QED BY <1>3, <2>1, <2>2, <2>3, <2>4, <2>5, <2>6, <2>7, <2>8, <2>9, <2>10, <2>11
          DEF Serve, Step
<1> QED BY <1>1, <1>2, <1>3 DEF Next

\* What is pushed to the tab is an update of a workflow.
LEMMA PushedType ==
  ASSUME TypeOK, TypeOK', MessagesOK
  PROVE  Pushed \in Seq([id : Workflows, update : Update])
<1> DEFINE new == {w \in Workflows : /\ Connected
                                     /\ handler[w] = "waiting"
                                     /\ Len(events'[w]) > Len(events[w])}
<1>1. CASE new = {}
  BY <1>1 DEF Pushed, MessagesOK
<1>2. CASE new # {}
  <2>1. PICK w \in new : w = CHOOSE v \in new : TRUE
    BY <1>2
  <2>2. w \in Workflows /\ Len(events'[w]) > Len(events[w])
    BY <2>1
  <2> HIDE DEF new
  <2>3. events'[w] \in Seq(Update)
    BY <2>2 DEF TypeOK
  <2>4. Len(events'[w]) \in 1 .. Len(events'[w])
    <3>1. PICK n \in Nat : n = Len(events[w])
      BY <2>2 DEF TypeOK
    <3>2. PICK m \in Nat : m = Len(events'[w])
      BY <2>3
    <3> QED BY <2>2, <3>1, <3>2
  <2>5. events'[w][Len(events'[w])] \in Update
    BY <2>3, <2>4
  <2>6. PICK m \in [id : Workflows, update : Update] :
           m = [id |-> w, update |-> events'[w][Len(events'[w])]]
    BY <2>2, <2>5
  <2>7. Pushed = Append(pushes, m)
    BY <1>2, <2>1, <2>6 DEF Pushed, new
  <2>8. pushes \in Seq([id : Workflows, update : Update])
    BY DEF MessagesOK
  <2> QED BY <2>7, <2>8
<1> QED BY <1>1, <1>2

-----------------------------------------------------------------------------
(* Steps of the tab *)

\* One handler goes on.
LEMMA HandlerType ==
  ASSUME MessagesOK, NEW w \in Workflows, NEW h \in Handlers,
         handler' = [handler EXCEPT ![w] = h]
  PROVE  /\ handler' \in [Workflows -> Handlers]
         /\ handler'[w] = h
         /\ \A v \in Workflows : v # w => handler'[v] = handler[v]
BY DEF MessagesOK

\* The submit handler: whoever leaves "connecting" tracks a workflow.
LEMMA HandlerStep ==
  ASSUME PageInv, NEW w \in Workflows, Click(w) \/ Handle(w) \/ FailGuard(w)
  PROVE  PageGood' /\ MessagesOK'
<1>1. TypeOK /\ BusyNamesHolder /\ PageGood /\ MessagesOK
  BY PageParts
<1>2. page \in GoodPages(Connecting) /\ page \in Page /\ PollsOK(page.polls)
  BY <1>1 DEF PageGood, GoodPages
<1>3. PICK h \in Handlers : handler' = [handler EXCEPT ![w] = h]
  BY DEF Handlers, Click, Handle, PassGuard, FailGuard, Post, Attach, AnswerArrives, Done
<1>4. /\ handler' \in [Workflows -> Handlers] /\ handler'[w] = h
      /\ \A v \in Workflows : v # w => handler'[v] = handler[v]
  BY <1>1, <1>3, HandlerType
<1>5. MessagesOK'
  BY <1>1, <1>4 DEF MessagesOK, Click, Handle, PassGuard, FailGuard, Post, Attach, AnswerArrives, Done
<1>6. handler[w] # "connecting" /\ Connecting => Connecting'
  BY <1>4 DEF Connecting
<1>7. CASE Click(w) \/ FailGuard(w)
  <2>1. page' = page /\ (Connecting => Connecting')
    BY <1>6, <1>7 DEF Click, FailGuard
  <2> QED BY <1>2, <1>5, <2>1 DEF PageGood, GoodPages
<1>8. CASE PassGuard(w)
  <2>1. Connecting'
    <3>1. handler'[w] = "connecting"
      BY <1>1, <1>8 DEF PassGuard, MessagesOK
    <3> QED BY <3>1 DEF Connecting
  <2>2. PICK q : q = [page EXCEPT !.submitting = TRUE]
    OBVIOUS
  <2>3. q \in Page /\ q.polls = page.polls /\ q.tracked = page.tracked
    BY <1>2, <2>2 DEF Page
  <2>4. page' = q
    BY <1>8, <2>2 DEF PassGuard
  <2> QED BY <1>2, <1>5, <2>1, <2>3, <2>4 DEF PageGood, GoodPages
<1>9. CASE Post(w)
  <2>1. FreePolls(page) # {}
    BY <1>9 DEF Post
  <2>2. PICK p \in Page : /\ p = Begin(page, w) /\ PollsOK(p.polls) /\ p.tracked = w /\ w # None
                          /\ \E i \in Polls : p.polls[i].pc # "off"
    BY <1>2, <2>1, BeginType
  <2>3. PICK q : q = [p EXCEPT !.promise = TRUE]
    OBVIOUS
  <2>4. q \in Page /\ q.polls = p.polls /\ q.tracked = p.tracked
    BY <2>2, <2>3 DEF Page
  <2>5. page' = q
    BY <1>9, <2>2, <2>3 DEF Post
  <2> QED BY <1>5, <2>2, <2>4, <2>5 DEF PageGood, GoodPages
<1>10. CASE Attach(w)
  <2>1. FreePolls(page) # {} /\ wf[w].answer = "busy" /\ page' = Begin(page, wf[w].other)
    BY <1>10 DEF Attach, Done
  <2>2. wf[w].other \in Workflows
    BY <1>1, <2>1 DEF BusyNamesHolder, TypeOK, Request
  <2>3. Begin(page, wf[w].other) \in GoodPages(Connecting')
    BY <1>2, <2>1, <2>2, BeginGood
  <2> QED BY <1>5, <2>1, <2>3 DEF PageGood
<1>11. CASE AnswerArrives(w)
  <2>1. Connecting => Connecting'
    BY <1>6, <1>11 DEF AnswerArrives
  <2>2. page \in GoodPages(Connecting')
    BY <1>2, <2>1 DEF GoodPages
  <2>3. Apply(page, w, [state |-> "failed", stage |-> "completed"]) \in GoodPages(Connecting')
    BY <2>2, ApplyGood
  <2>4. Reset(page) \in GoodPages(Connecting')
    BY <1>2, ResetGood
  <2>5. [page EXCEPT !.url = TRUE, !.leaving = TRUE] \in GoodPages(Connecting')
    <3>1. PICK q : q = [page EXCEPT !.url = TRUE, !.leaving = TRUE]
      OBVIOUS
    <3>2. q \in Page /\ q.polls = page.polls /\ q.tracked = page.tracked /\ q.leaving = TRUE
      BY <1>2, <3>1 DEF Page
    <3> QED BY <2>2, <3>1, <3>2 DEF GoodPages
  <2>6. \/ page' = Apply(page, w, [state |-> "failed", stage |-> "completed"])
        \/ page' = [page EXCEPT !.url = TRUE, !.leaving = TRUE]
        \/ page' = Reset(page)
    BY <1>11 DEF AnswerArrives, Done
  <2> QED BY <1>5, <2>3, <2>4, <2>5, <2>6 DEF PageGood
<1> QED BY <1>7, <1>8, <1>9, <1>10, <1>11 DEF Handle

\* The events of a batch are numbered updates.
LEMMA BatchType ==
  ASSUME TypeOK, NEW w \in Workflows, NEW after \in Nat
  PROVE  GetBatch(w, after) \in Seq(Event)
<1>1. PICK n \in Nat : n = Len(events[w])
  BY DEF TypeOK
<1>2. \A k \in 1 .. n : events[w][k] \in Update
  BY <1>1 DEF TypeOK
<1>3. Numbered(w) = [k \in 1 .. n |-> [sequence |-> k, update |-> events[w][k]]]
  BY <1>1 DEF Numbered
<1>4. \A k \in 1 .. n : [sequence |-> k, update |-> events[w][k]] \in Event
  BY <1>2 DEF Event
<1>5. Numbered(w) \in Seq(Event) /\ Len(Numbered(w)) = n
  BY <1>1, <1>3, <1>4
<1>6. <<>> \in Seq(Event)
  OBVIOUS
<1>7. SubSeq(Numbered(w), after + 1, n) \in Seq(Event)
  <2>1. \A k \in after + 1 .. n : Numbered(w)[k] \in Event
    BY <1>3, <1>4
  <2>2. after + 1 \in Nat
    OBVIOUS
  <2> HIDE DEF Event
  <2> QED BY <1>5, <2>1, <2>2, SubSeqProperties
<1> QED BY <1>1, <1>6, <1>7 DEF GetBatch

\* The polls: one that no longer has anything to track ends, any other goes on.
LEMMA PollsStep ==
  ASSUME PageInv, NEW i \in Polls, PollStep(i) \/ LosePoll(i)
  PROVE  PageGood' /\ MessagesOK'
<1>1. TypeOK /\ BusyNamesHolder /\ PageGood /\ MessagesOK
  BY PageParts
<1>2. page \in GoodPages(Connecting) /\ page \in Page /\ PollsOK(page.polls)
  BY <1>1 DEF PageGood, GoodPages
<1>3. UNCHANGED handler /\ MessagesOK'
  BY <1>1 DEF MessagesOK, PollStep, LosePoll, TimerFires, ServePoll, ReceivePoll
<1>4. Connecting' <=> Connecting
  BY <1>3 DEF Connecting
<1>5. page.polls[i] \in Poll /\ (page.polls[i].pc \in {"sent", "answered"} => page.polls[i].id # None)
  BY <1>2 DEF PollsOK
<1>6. SUFFICES page' \in GoodPages(Connecting)
  BY <1>3, <1>4 DEF PageGood, GoodPages
<1>7. CASE TimerFires(i)
  <2>1. CASE page.tracked = None
    <3>1. SetPoll(page, i, OffPoll) \in GoodPages(Connecting)
      BY <1>2, <2>1, OffPollType, SetPollGood
    <3> QED BY <1>7, <2>1, <3>1 DEF TimerFires
  <2>2. CASE page.tracked # None
    <3>1. page.tracked \in Workflows /\ page.seq \in Nat
      BY <1>2, <2>2 DEF Page
    <3>2. PICK poll \in Poll : poll = SentPoll(page.tracked, page.seq) /\ poll.pc = "sent" /\ poll.id # None
      BY <3>1, SentPollType
    <3>3. SetPoll(page, i, poll) \in GoodPages(Connecting)
      BY <1>2, <3>2, SetPollGood
    <3> QED BY <1>7, <2>2, <3>2, <3>3 DEF TimerFires
  <2> QED BY <2>1, <2>2
<1>8. CASE ServePoll(i)
  <2>1. PICK poll \in Poll : poll = page.polls[i] /\ poll.pc = "sent" /\ poll.id \in Workflows
    BY <1>5, <1>8 DEF ServePoll, Poll
  <2>2. PICK batch \in Seq(Event) : batch = GetBatch(poll.id, poll.after)
    BY <1>1, <2>1, BatchType DEF Poll
  <2>3. PICK b \in BOOLEAN : b = (poll.id \in known)
    <3>1. CASE poll.id \in known
      <4>1. TRUE = (poll.id \in known)
        BY <3>1
      <4> QED BY <4>1
    <3>2. CASE poll.id \notin known
      <4>1. FALSE = (poll.id \in known)
        BY <3>2
      <4> QED BY <4>1
    <3> QED BY <3>1, <3>2
  <2>4. PICK q : q = [poll EXCEPT !.pc = "answered", !.found = b, !.events = batch]
    OBVIOUS
  <2>5. q \in Poll /\ q.pc = "answered" /\ q.id = poll.id
    BY <2>4 DEF Poll
  <2>6. q.id # None
    BY <2>1, <2>5, ConstantsAssumption
  <2>7. SetPoll(page, i, q) \in GoodPages(Connecting)
    BY <1>2, <2>5, <2>6, SetPollGood
  <2>8. page' = SetPoll(page, i, q)
    BY <1>8, <2>1, <2>2, <2>3, <2>4 DEF ServePoll
  <2> QED BY <2>7, <2>8
<1>9. CASE ReceivePoll(i)
  <2>1. PICK poll \in Poll : poll = page.polls[i]
    BY <1>5
  <2>2. ApplyAll(page, poll.id, poll.events) \in GoodPages(Connecting)
    <3>1. poll.events \in Seq(Event)
      BY DEF Poll
    <3> QED BY <1>2, <3>1, ApplyAllGood
  <2>3. Reset(page) \in GoodPages(Connecting)
    BY <1>2, ResetGood
  <2>4. PICK p \in GoodPages(Connecting) :
           p = IF poll.found THEN ApplyAll(page, poll.id, poll.events) ELSE Reset(page)
    BY <2>2, <2>3
  <2>5. Rearm(p, i) \in GoodPages(Connecting)
    BY RearmGood
  <2> QED BY <1>9, <2>1, <2>4, <2>5 DEF ReceivePoll
<1>10. CASE LosePoll(i)
  BY <1>2, <1>10, RearmGood DEF LosePoll
<1> QED BY <1>7, <1>8, <1>9, <1>10 DEF PollStep

\* A pushed update.
LEMMA PushStep ==
  ASSUME PageInv, ReceivePush
  PROVE  PageGood' /\ MessagesOK'
<1>1. PageGood /\ MessagesOK
  BY PageParts
<1>2. MessagesOK'
  BY <1>1 DEF MessagesOK, ReceivePush
<1>3. Connecting' <=> Connecting
  BY DEF Connecting, ReceivePush
<1>4. page' \in GoodPages(Connecting)
  BY <1>1, ApplyGood DEF PageGood, ReceivePush
<1> QED BY <1>2, <1>3, <1>4 DEF PageGood, GoodPages

\* A new document asks at once for the workflow it finds in the storage.
LEMMA FreshPageType ==
  /\ FreshPage \in Page /\ PollsOK(FreshPage.polls) /\ FreePolls(FreshPage) # {}
  /\ FreshPage.tracked = None /\ FreshPage.submitting = FALSE
<1>1. PICK off \in Poll : off = OffPoll /\ off.pc = "off"
  BY OffPollType
<1>2. PICK polls : polls = [i \in Polls |-> off]
  OBVIOUS
<1>3. polls \in [Polls -> Poll] /\ \A i \in Polls : polls[i].pc = "off"
  BY <1>1, <1>2
<1>4. FreshPage.polls = polls
  BY <1>1, <1>2 DEF FreshPage
<1>5. PollsOK(FreshPage.polls)
  BY <1>3, <1>4 DEF PollsOK
<1>6. FreshPage \in Page
  <2>1. FreshPage = [tracked |-> None, seq |-> 0, submitting |-> FALSE, busy |-> FALSE,
                     promise |-> FALSE, url |-> FALSE, leaving |-> FALSE,
                     polls |-> polls, timer |-> NoTimer]
    BY <1>1, <1>2 DEF FreshPage
  <2> QED BY <1>3, <2>1 DEF Page, NoTimer
<1>7. FreePolls(FreshPage) # {}
  <2>1. FreshPage.timer = NoTimer
    BY DEF FreshPage
  <2>2. StopPolling(FreshPage) = [FreshPage EXCEPT !.timer = NoTimer]
    BY <2>1 DEF StopPolling
  <2>3. StopPolling(FreshPage).polls = polls
    BY <1>4, <1>6, <2>2 DEF Page
  <2>4. 1 \in Polls
    BY PageAssumption DEF Polls
  <2> QED BY <1>3, <2>3, <2>4 DEF FreePolls
<1> QED BY <1>5, <1>6, <1>7 DEF FreshPage

\* A reload, whoever causes it.
LEMMA LoadStep ==
  ASSUME PageInv, Navigate \/ UserReloads
  PROVE  PageGood' /\ MessagesOK'
<1>1. PageGood /\ MessagesOK /\ Load
  BY PageParts DEF Navigate, UserReloads
<1>2. page \in Page
  BY <1>1 DEF PageGood, GoodPages
<1>3. MessagesOK'
  <2>1. handler' \in [Workflows -> Handlers]
    BY <1>1 DEF Load, MessagesOK, Handlers
  <2>2. pushes' \in Seq([id : Workflows, update : Update])
    BY <1>1 DEF Load
  <2>3. losses' \in Nat /\ reloads' \in Nat
    BY <1>1 DEF Load, MessagesOK, Navigate, UserReloads
  <2> QED BY <2>1, <2>2, <2>3 DEF MessagesOK
<1>4. page' \in GoodPages(Connecting')
  <2>1. CASE page.tracked = None
    <3>1. page' = FreshPage
      BY <1>1, <2>1 DEF Load, Reloaded
    <3> QED BY <3>1, FreshPageType DEF GoodPages
  <2>2. CASE page.tracked # None
    <3>1. page.tracked \in Workflows
      BY <1>2, <2>2 DEF Page
    <3>2. PICK p \in Page :
             /\ p = Begin(FreshPage, page.tracked) /\ PollsOK(p.polls) /\ p.tracked # None
             /\ \E i \in Polls : p.polls[i].pc # "off"
      BY <2>2, <3>1, FreshPageType, BeginType
    <3>3. PICK q : q = [p EXCEPT !.submitting = TRUE]
      OBVIOUS
    <3>4. q \in Page /\ q.polls = p.polls /\ q.tracked = p.tracked
      BY <3>2, <3>3 DEF Page
    <3>5. page' = q
      BY <1>1, <2>2, <3>2, <3>3 DEF Load, Reloaded
    <3> QED BY <3>2, <3>4, <3>5 DEF GoodPages
  <2> QED BY <2>1, <2>2
<1> QED BY <1>3, <1>4 DEF PageGood

-----------------------------------------------------------------------------
(* The theorems *)

\* Every step of the composition is one of the server, which the tab only
\* looks at, or one of the tab, which leaves the server alone.
LEMMA WhoseStep ==
  ASSUME PageNext
  PROVE  \/ Next /\ Unattended
         \/ UNCHANGED vars
BY DEF PageNext, Arrive, ServerStep, ServerMay, Next, Serve, Click, Handle, FailGuard, PassGuard,
   Post, Attach, AnswerArrives, Done, PollStep, LosePoll, TimerFires, ServePoll, ReceivePoll,
   ReceivePush, Navigate, UserReloads, Load

\* A fresh page beside a fresh server.
LEMMA InitPageInv == PageInit => PageInv
<1> SUFFICES ASSUME PageInit PROVE PageInv
  OBVIOUS
<1>1. TypeOK
  BY InitTypeOK DEF PageInit
<1>2. BusyNamesHolder
  BY DEF PageInit, Init, BusyNamesHolder, NewRequest, Blank
<1>3. PageGood
  BY FreshPageType DEF PageInit, PageGood, GoodPages
<1>4. MessagesOK
  BY DEF PageInit, MessagesOK, Handlers
<1> QED BY <1>1, <1>2, <1>3, <1>4, PageParts

\* The steps, one by one.
LEMMA StepPageInv == PageInv /\ [PageNext]_allVars => PageInv'
<1> SUFFICES ASSUME PageInv, [PageNext]_allVars PROVE PageInv'
  OBVIOUS
<1>1. TypeOK /\ BusyNamesHolder /\ PageGood /\ MessagesOK
  BY PageParts
<1>2. [Next]_vars
  BY WhoseStep DEF allVars
<1>3. TypeOK' /\ BusyNamesHolder'
  BY <1>1, <1>2, TypeStep, BusyStep
<1>4. PageGood' /\ MessagesOK'
  <2>1. CASE UNCHANGED pageVars
    BY <1>1, <2>1 DEF pageVars, PageGood, MessagesOK, Connecting
  <2>2. CASE Unattended
    <3>1. Pushed \in Seq([id : Workflows, update : Update])
      BY <1>1, <1>3, PushedType
    <3> QED BY <1>1, <2>2, <3>1 DEF Unattended, PageGood, MessagesOK, Connecting
  <2>3. ASSUME NEW w \in Workflows, Click(w) \/ Handle(w) \/ FailGuard(w)
        PROVE  PageGood' /\ MessagesOK'
    BY <2>3, HandlerStep
  <2>4. ASSUME NEW i \in Polls, PollStep(i) \/ LosePoll(i)
        PROVE  PageGood' /\ MessagesOK'
    BY <2>4, PollsStep
  <2>5. CASE ReceivePush
    BY <2>5, PushStep
  <2>6. CASE Navigate \/ UserReloads
    BY <2>6, LoadStep
  <2> QED BY <2>1, <2>2, <2>3, <2>4, <2>5, <2>6
          DEF PageNext, allVars, Arrive, ServerStep, ServerMay
<1>5. (TypeOK /\ BusyNamesHolder /\ PageGood /\ MessagesOK)' => PageInv'
  BY PageParts, PTL
<1> QED BY <1>3, <1>4, <1>5

\* The tab, its polls and its messages keep their types, whoever is refused
\* the slot is told who has it, and nothing is left over: PageInv is an
\* inductive invariant of jobs-page.js beside the server.
THEOREM PageInvariance == PageSpec => []PageInv
<1> QED BY InitPageInv, StepPageInv, PTL DEF PageSpec

\* Every variable of the page script, of its polls and of the messages under
\* way to it keeps its type, in every composition of a tab with the server.
THEOREM PageTypeCorrect == PageSpec => []PageTypeOK
<1>1. PageInv => PageTypeOK
  BY DEF PageInv
<1> QED BY <1>1, PageInvariance, PTL

\* A page that tracks a workflow always has a poll loop that goes on, and its
\* form is blocked only while a tracked workflow, a handler about to track one
\* or a navigation will free it, for any number of polls, losses, pushes,
\* reloads and server restarts.
THEOREM NothingLeftOver == PageSpec => []NothingIsLeftOver
<1>1. PageInv => NothingIsLeftOver
  BY DEF PageInv
<1> QED BY <1>1, PageInvariance, PTL

\* Beside a tab the server does nothing that JobsWorkflow does not: clicks,
\* polls, pushes and reloads leave the store and the workflows alone.
THEOREM ServerIsTheWorkflow == PageSpec => Spec
<1>1. PageInit => Init
  BY DEF PageInit
<1>2. [PageNext]_allVars => [Next]_vars
  BY WhoseStep DEF allVars
<1> QED BY <1>1, <1>2, PTL DEF PageSpec, Spec

\* ... so the user's slot stays exclusive whatever the page does: no second
\* click, no reload and no attachment to a workflow lets two of them run.
THEOREM SlotExclusiveBesidePage == PageSpec => []SlotIsExclusive
BY ServerIsTheWorkflow, SlotExclusive, PTL

=============================================================================
