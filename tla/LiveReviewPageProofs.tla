------------------------ MODULE LiveReviewPageProofs ------------------------
(***************************************************************************)
(* Proofs about LiveReviewPage, for every set of runs and every bound: what *)
(* the page shows is true of the run it shows, its timer follows that run   *)
(* unless the page forgot it, and the state is type-correct.                *)
(*                                                                         *)
(* The parts of the inductive invariant Inv are in LiveReviewPage.  A step  *)
(* disturbs few of them, so the lemmas come in layers: what the operators   *)
(* on a page record preserve; that whatever is true of a run stays true as  *)
(* rows grow (Grows); who waits for whose answer; the page's steps; the     *)
(* server's.                                                                *)
(***************************************************************************)
EXTENDS LiveReviewPage, WellFoundedInduction, TLAPS

-----------------------------------------------------------------------------
(* The operators *)

\* p is a page record that shows what is true, and its polls have answers.
GoodPage(p) ==
    /\ p \in Page
    /\ ShownTrue(p)
    /\ \A poll \in p.polls : poll.upto <= Len(log[poll.run])

\* A finite set of naturals has a greatest member, which Max gives.
LEMMA MaxIn ==
  ASSUME NEW n \in Nat, NEW S \in SUBSET (0 .. n), S # {}
  PROVE  Max(S) \in S /\ \A x \in S : Max(S) >= x
<1> DEFINE T == {n - x : x \in S}
<1>1. T \in SUBSET Nat /\ T # {}
  <2>1. \A x \in S : x \in 0 .. n /\ n - x \in Nat
    OBVIOUS
  <2> QED BY <2>1
<1>2. IsWellFoundedOn(OpToRel(<, Nat), Nat)
  BY NatLessThanWellFounded, Zenon
<1>3. PICK y \in T : \A z \in T : ~ (<<z, y>> \in OpToRel(<, Nat))
  <2> HIDE DEF T
  <2> QED BY <1>1, <1>2, WFMin, Zenon
<1>4. \A z \in T : ~ (z < y)
  <2> HIDE DEF T
  <2> QED BY <1>1, <1>3 DEF OpToRel
<1>5. PICK x \in S : y = n - x
  OBVIOUS
<1>6. \A z \in S : x >= z
  <2> TAKE z \in S
  <2>1. n - z \in T
    OBVIOUS
  <2>2. ~ (n - z < y)
    BY <2>1, <1>4
  <2> QED BY <2>2, <1>5
<1> QED BY <1>5, <1>6 DEF Max

\* GoodPage looks at a few fields only.
LEMMA SameShown ==
  ASSUME NEW p, NEW q \in Page, GoodPage(p), q.run = p.run, q.items = p.items,
         q.state = p.state, q.timer = p.timer, q.forgot = p.forgot, q.polls = p.polls
  PROVE  GoodPage(q)
BY DEF GoodPage, ShownTrue

\* The fields GoodPage does not look at may change.
LEMMA OtherFields ==
  ASSUME NEW p, GoodPage(p), NEW b \in BOOLEAN
  PROVE  /\ GoodPage([p EXCEPT !.asked = b])
         /\ GoodPage([p EXCEPT !.loading = b])
         /\ GoodPage([p EXCEPT !.ready = b])
         /\ GoodPage([p EXCEPT !.syncing = b])
<1>1. p \in Page
  BY DEF GoodPage
<1>2. [p EXCEPT !.asked = b] \in Page
  BY <1>1 DEF Page
<1>3. [p EXCEPT !.loading = b] \in Page
  BY <1>1 DEF Page
<1>4. [p EXCEPT !.ready = b] \in Page
  BY <1>1 DEF Page
<1>5. [p EXCEPT !.syncing = b] \in Page
  BY <1>1 DEF Page
<1> QED BY <1>1, <1>2, <1>3, <1>4, <1>5, SameShown DEF Page

\* Whether there is a connection has no part in GoodPage.
LEMMA LinkField ==
  ASSUME NEW p, GoodPage(p), NEW l \in {"off", "retrying", "on"}
  PROVE  GoodPage([p EXCEPT !.link = l])
<1>1. p \in Page
  BY DEF GoodPage
<1>2. [p EXCEPT !.link = l] \in Page
  BY <1>1 DEF Page
<1> QED BY <1>1, <1>2, SameShown DEF Page

\* Nor has which buttons are enabled.
LEMMA OnField ==
  ASSUME NEW p, GoodPage(p), NEW S \in SUBSET {"start", "resume", "stop"}
  PROVE  GoodPage([p EXCEPT !.on = S])
<1>1. p \in Page
  BY DEF GoodPage
<1>2. [p EXCEPT !.on = S] \in Page
  BY <1>1 DEF Page
<1> QED BY <1>1, <1>2, SameShown DEF Page

\* Enabling the buttons that fit leaves a good page good.
LEMMA RefreshedGood ==
  ASSUME NEW p, GoodPage(p)
  PROVE  GoodPage(Refreshed(p))
<1>1. ButtonsOf(p) \in SUBSET {"start", "resume", "stop"}
  BY DEF ButtonsOf
<1> QED BY <1>1, OnField DEF Refreshed

\* Its fields but the enabled buttons are those of p.
LEMMA RefreshedRun ==
  ASSUME NEW p \in Page
  PROVE  Refreshed(p).run = p.run /\ Refreshed(p).link = p.link
BY DEF Refreshed, Page

\* So does forgetting which events were applied.
LEMMA ResetGood ==
  ASSUME NEW p, GoodPage(p)
  PROVE  GoodPage(Reset(p))
<1>1. p \in Page
  BY DEF GoodPage
<1> DEFINE q == [p EXCEPT !.seq = 0, !.seen = {}]
<1>2. q \in Page
  BY <1>1 DEF Page
<1>3. /\ q.run = p.run /\ q.items = p.items /\ q.state = p.state /\ q.timer = p.timer
      /\ q.forgot = p.forgot /\ q.polls = p.polls
  BY <1>1 DEF Page
<1>4. Reset(p) = q
  BY DEF Reset
<1> HIDE DEF q
<1> QED BY <1>2, <1>3, <1>4, SameShown

\* A request for events that the server has not read yet is a good poll.
LEMMA PolledGood ==
  ASSUME NEW p, GoodPage(p), NEW r \in Runs, log \in [Runs -> Seq(Event)]
  PROVE  GoodPage(Polled(p, r)) /\ Polled(p, r).run = p.run /\ Polled(p, r).link = p.link
<1>1. p \in Page
  BY DEF GoodPage
<1> DEFINE a == [run |-> r, after |-> p.seq, upto |-> NotRead]
           q == [p EXCEPT !.polls = @ \cup {a}]
<1>2. a \in Poll /\ a.upto <= Len(log[a.run])
  BY <1>1 DEF Page, Poll, NotRead
<1>3. q \in Page
  BY <1>1, <1>2 DEF Page
<1>4. /\ q.run = p.run /\ q.items = p.items /\ q.state = p.state /\ q.timer = p.timer
      /\ q.forgot = p.forgot /\ q.polls = p.polls \cup {a} /\ q.link = p.link
  BY <1>1 DEF Page
<1>5. Polled(p, r) = q \/ Polled(p, r) = p
  BY DEF Polled
<1> HIDE DEF a, q
<1>6. GoodPage(q)
  BY <1>2, <1>3, <1>4 DEF GoodPage, ShownTrue
<1> QED BY <1>4, <1>5, <1>6

\* Moving the timer to the shown run, which is shown as running.
LEMMA PollingGood ==
  ASSUME NEW p, GoodPage(p), log \in [Runs -> Seq(Event)], ReviewAssumption,
         p.run # None => p.state = "Running"
  PROVE  GoodPage(Polling(p, p.run)) /\ Polling(p, p.run).run = p.run
<1>1. p \in Page
  BY DEF GoodPage
<1> DEFINE q == [p EXCEPT !.timer = p.run, !.forgot = FALSE]
<1>2. q \in Page
  BY <1>1 DEF Page
<1>3. /\ q.run = p.run /\ q.items = p.items /\ q.state = p.state /\ q.timer = p.run
      /\ q.forgot = FALSE /\ q.polls = p.polls
  BY <1>1 DEF Page
<1>4. Polling(p, p.run) = IF p.run = None THEN q ELSE Polled(q, p.run)
  BY DEF Polling
<1>5. p.run \in Runs \cup {None}
  BY <1>1 DEF Page
<1> HIDE DEF q
<1>6. GoodPage(q)
  BY <1>2, <1>3 DEF GoodPage, ShownTrue, Active
<1>7. p.run \in Runs => GoodPage(Polled(q, p.run)) /\ Polled(q, p.run).run = q.run
  BY <1>6, PolledGood
<1> QED BY <1>3, <1>4, <1>5, <1>6, <1>7

\* What becomes of a page record whose run is forgotten is one.
LEMMA ForgottenPage ==
  ASSUME NEW p \in Page, NEW state \in {"Running", "Idle"}, NEW b \in BOOLEAN
  PROVE  [p EXCEPT !.run = None, !.state = state, !.asked = FALSE, !.items = {}, !.forgot = b] \in Page
<1>1. PICK q : q = [p EXCEPT !.run = None, !.state = state]
  OBVIOUS
<1>2. q \in Page
  BY <1>1 DEF Page, Active
<1>3. PICK t : t = [q EXCEPT !.asked = FALSE, !.forgot = b]
  OBVIOUS
<1>4. t \in Page
  BY <1>2, <1>3 DEF Page
<1>5. [t EXCEPT !.items = {}] \in Page
  BY <1>4 DEF Page
<1>6. [p EXCEPT !.run = None, !.state = state, !.asked = FALSE, !.items = {}, !.forgot = b]
        = [t EXCEPT !.items = {}]
  BY <1>1, <1>3
<1> QED BY <1>5, <1>6, Zenon

\* A page that forgets its run is good: its timer counts as forgotten.
LEMMA ForgottenGood ==
  ASSUME NEW p, GoodPage(p), NEW state \in {"Running", "Idle"}
  PROVE  /\ GoodPage(Forgotten(p, state))
         /\ Forgotten(p, state).run = None
         /\ Forgotten(p, state).link = p.link
<1>1. p \in Page
  BY DEF GoodPage
<1> DEFINE a == [p EXCEPT !.run = None, !.state = state, !.asked = FALSE, !.items = {},
                          !.forgot = p.forgot \/ p.timer # None]
           q == [a EXCEPT !.seq = 0, !.seen = {}]
<1>2. a \in Page
  <2>1. PICK b \in BOOLEAN : b = (p.forgot \/ p.timer # None)
    OBVIOUS
  <2>2. a = [p EXCEPT !.run = None, !.state = state, !.asked = FALSE, !.items = {}, !.forgot = b]
    BY <2>1
  <2>3. [p EXCEPT !.run = None, !.state = state, !.asked = FALSE, !.items = {}, !.forgot = b] \in Page
    BY <1>1, <2>1, ForgottenPage, Zenon
  <2> QED BY <2>2, <2>3, Zenon
<1>3. /\ a.run = None /\ a.state = state /\ a.items = {} /\ a.timer = p.timer
      /\ a.polls = p.polls /\ a.link = p.link
  BY <1>1 DEF Page
<1>4. a.forgot = (p.forgot \/ p.timer # None)
  <2>1. DOMAIN p = DOMAIN a /\ "forgot" \in DOMAIN p
    BY <1>1 DEF Page
  <2> QED BY <2>1, Zenon
<1>5. a.timer # None => a.forgot
  BY <1>3, <1>4, Zenon
<1>6. Forgotten(p, state) = Reset(a)
  BY DEF Forgotten
<1>7. q \in Page /\ q.run = a.run /\ q.link = a.link
  <2> HIDE DEF a
  <2> QED BY <1>2 DEF Page
<1>8. Reset(a) = q
  BY DEF Reset
<1> HIDE DEF a, q
<1>9. GoodPage(a)
  BY <1>1, <1>2, <1>3, <1>5 DEF GoodPage, ShownTrue, Known
<1> QED BY <1>3, <1>6, <1>7, <1>8, <1>9, ResetGood

\* Events of the store applied to a good page.
LEMMA AppliedGood ==
  ASSUME NEW p, GoodPage(p), NEW r \in Runs, TypeOK, ServerInv,
         NEW ns, ns \subseteq DOMAIN log[r]
  PROVE  GoodPage(Applied(p, r, ns)) /\ Applied(p, r, ns).polls = p.polls
<1> DEFINE new == New(p, r, ns)
           events == [n \in new |-> log[r][n]]
           run == IF p.run = None THEN r ELSE p.run
           items == {<<r, events[n].done>> :
                        n \in {m \in new : events[m].stage = "candidate-processed"}}
           q == [p EXCEPT
                   !.run = run,
                   !.seq = Max({p.seq} \cup new),
                   !.seen = p.seen \cup new,
                   !.state = events[Max(new)].state,
                   !.asked = Asked(p, events),
                   !.items = p.items \cup items,
                   !.timer = IF \E n \in new : events[n].state \in Terminal THEN None
                             ELSE p.timer]
<1>1. p \in Page
  BY DEF GoodPage
<1>2. log[r] \in Seq(Event) /\ Len(log[r]) \in Nat /\ DOMAIN log[r] = 1 .. Len(log[r])
  BY DEF TypeOK
<1>3. new \subseteq DOMAIN log[r]
  BY DEF New
<1>4. SUFFICES ASSUME new # {} PROVE GoodPage(q) /\ q.polls = p.polls
  <2>1. CASE new = {}
    BY <2>1 DEF Applied
  <2>2. CASE new # {}
    <3>1. Applied(p, r, ns) = Refreshed(q)
      BY <2>2 DEF Applied
    <3>2. GoodPage(q) /\ q.polls = p.polls
      BY <2>2, <1>4
    <3>3. Refreshed(q).polls = q.polls
      <4> HIDE DEF q
      <4> QED BY <3>2 DEF Refreshed, GoodPage, Page
    <3> HIDE DEF q
    <3> QED BY <3>1, <3>2, <3>3, RefreshedGood
  <2> QED BY <2>1, <2>2
<1>5. p.run \in {None, r} /\ run = r
  BY <1>4 DEF New
<1>6. \A n \in new : events[n] = log[r][n] /\ events[n] \in Event
                     /\ True(r, events[n].state, events[n].done)
  BY <1>2, <1>3 DEF ServerInv, AllTrue
<1>7. Max(new) \in new
  <2>1. new \in SUBSET (0 .. Len(log[r]))
    BY <1>2, <1>3
  <2> HIDE DEF new
  <2> QED BY <2>1, <1>2, <1>4, MaxIn
<1>8. Max({p.seq} \cup new) \in Nat
  <2> DEFINE S == {p.seq} \cup new
             m == p.seq + Len(log[r])
  <2>1. p.seq \in Nat /\ m \in Nat
    BY <1>1, <1>2 DEF Page
  <2>2. S \in SUBSET (0 .. m) /\ S # {}
    BY <1>2, <1>3, <2>1
  <2>3. Max(S) \in S
    <3> HIDE DEF S, m
    <3> QED BY <2>1, <2>2, MaxIn
  <2> QED BY <2>1, <2>2, <2>3
<1>9. Asked(p, events) \in BOOLEAN
  BY <1>1 DEF Asked, Page
<1>10. p.seen \cup new \in SUBSET (Nat \ {0})
  BY <1>1, <1>2, <1>3 DEF Page
<1>11. items \subseteq Runs \X Nat /\ (\A item \in items : item[1] = r /\ item[2] <= row[r].done)
  <2> HIDE DEF events, new
  <2> QED BY <1>6 DEF Event, True
<1> DEFINE timer == IF \E n \in new : events[n].state \in Terminal THEN None ELSE p.timer
           state == events[Max(new)].state
           seq == Max({p.seq} \cup new)
           seen == p.seen \cup new
           asked == Asked(p, events)
<1>12. timer \in {None, p.timer} /\ timer \in Runs \cup {None}
  BY <1>1 DEF Page
<1>13. state \in Active \cup Terminal /\ (state \in Terminal => r \in ended /\ timer = None)
  <2> HIDE DEF new, events
  <2> QED BY <1>6, <1>7 DEF Event, True
<1>14. Known(r)
  BY <1>2, <1>3, <1>4 DEF ServerInv
<1>15. q = [p EXCEPT !.run = r, !.seq = seq, !.seen = seen, !.state = state, !.asked = asked,
                     !.items = p.items \cup items, !.timer = timer]
  BY <1>5
<1>16. \A item \in p.items : item[1] = r /\ item[2] <= row[r].done
  BY <1>5 DEF GoodPage, ShownTrue
<1> HIDE DEF q, items, timer, state, seq, seen, asked, new, events, run
<1>17. q \in Page
  BY <1>1, <1>8, <1>9, <1>10, <1>11, <1>12, <1>13, <1>15 DEF Page, seq, seen, asked
<1>18. /\ q.run = r /\ q.items = p.items \cup items /\ q.state = state /\ q.timer = timer
       /\ q.forgot = p.forgot /\ q.polls = p.polls
  BY <1>1, <1>15 DEF Page
<1>19. timer # None => timer = r \/ p.forgot
  BY <1>5, <1>12 DEF GoodPage, ShownTrue
<1>20. ShownTrue(q)
  BY <1>11, <1>13, <1>14, <1>16, <1>18, <1>19, ReviewAssumption DEF ShownTrue
<1> QED BY <1>17, <1>18, <1>20 DEF GoodPage

\* A true snapshot of a run.
LEMMA SnapshotGood ==
  ASSUME NEW p, GoodPage(p), NEW s \in Snapshot, s.run # None, TypeOK, Known(s.run),
         True(s.run, s.status, s.done)
  PROVE  GoodPage(SnapshotApplied(p, s))
<1>1. p \in Page
  BY DEF GoodPage
<1>2. /\ s.run \in Runs /\ s.status \in Active \cup Terminal \cup {"Idle"}
      /\ s.cancel \in BOOLEAN /\ s.done \in Nat
  BY DEF Snapshot
<1> DEFINE c == IF s.run = p.run THEN p ELSE Reset(p)
           items == {<<s.run, i>> : i \in 1 .. s.done}
           a == [c EXCEPT !.run = s.run, !.state = s.status, !.asked = s.cancel, !.items = items]
           q == Refreshed(a)
           w == [q EXCEPT !.timer = None]
           t == [q EXCEPT !.timer = s.run, !.forgot = FALSE]
<1>3. GoodPage(c) /\ c \in Page
  BY ResetGood DEF GoodPage
<1>4. row[s.run].done \in Nat /\ s.done <= row[s.run].done
  BY <1>2 DEF True, TypeOK, Row
<1>5. /\ items \in SUBSET (Runs \X Nat)
      /\ \A item \in items : item[1] = s.run /\ item[2] <= row[s.run].done
  BY <1>2, <1>4
<1>6. SnapshotApplied(p, s) = IF s.status = "Running" THEN Polling(q, s.run) ELSE Polled(w, s.run)
  BY DEF SnapshotApplied
<1> HIDE DEF c, items
<1>7. a \in Page
  BY <1>2, <1>3, <1>5 DEF Page
<1>8. /\ a.run = s.run /\ a.state = s.status /\ a.items = items /\ a.polls = c.polls
  BY <1>2, <1>3 DEF Page
<1> HIDE DEF a
<1>9. ButtonsOf(a) \in SUBSET {"start", "resume", "stop"}
  BY DEF ButtonsOf
<1>10. q = [a EXCEPT !.on = ButtonsOf(a)]
  BY DEF Refreshed
<1> DEFINE on == ButtonsOf(a)
<1> HIDE DEF q, on
<1>11. q \in Page /\ q.run = a.run /\ q.state = a.state /\ q.items = a.items /\ q.polls = a.polls
  BY <1>7, <1>9, <1>10 DEF Page, on
<1>12. /\ w \in Page /\ w.run = s.run /\ w.state = s.status /\ w.items = items
       /\ w.polls = c.polls /\ w.timer = None
  BY <1>8, <1>11 DEF Page
<1>13. /\ t \in Page /\ t.run = s.run /\ t.state = s.status /\ t.items = items
       /\ t.polls = c.polls /\ t.timer = s.run
  BY <1>2, <1>8, <1>11 DEF Page
<1>14. Polling(q, s.run) = Polled(t, s.run)
  BY <1>2, ReviewAssumption DEF Polling
<1> HIDE DEF w, t
<1>15. s.status \in Terminal => s.run \in ended
  BY DEF True
<1>16. GoodPage(w)
  BY <1>2, <1>3, <1>5, <1>12, <1>15, ReviewAssumption DEF GoodPage, ShownTrue
<1>17. s.status = "Running" => GoodPage(t)
  BY <1>2, <1>3, <1>5, <1>13, <1>15 DEF GoodPage, ShownTrue, Active
<1>18. log \in [Runs -> Seq(Event)]
  BY DEF TypeOK
<1> QED BY <1>2, <1>6, <1>14, <1>16, <1>17, <1>18, PolledGood

-----------------------------------------------------------------------------
(* What every step keeps *)

\* The inductive invariant.
Inv == /\ TypeOK /\ ServerInv /\ CommandsInv /\ HandlersInv
       /\ ShownTrue(page) /\ TransitInv

\* Runs come into being, get ahead and are over: never back.
Grows ==
    /\ row' \in [Runs -> Row] /\ ended' \in SUBSET Runs /\ ended \subseteq ended'
    /\ \A r \in Runs : /\ row[r].status # "Absent" => row'[r].status # "Absent"
                       /\ row[r].done <= row'[r].done
                       /\ row'[r].status \in Terminal => r \in ended'
                       /\ row'[r].status = "Absent" => row'[r] = row[r]

\* What is true of a run stays true.
LEMMA TrueStays ==
  ASSUME TypeOK, Grows, NEW r \in Runs, NEW state, NEW done \in Nat
  PROVE  /\ True(r, state, done) => True(r, state, done)'
         /\ Known(r) => Known(r)'
<1>1. row[r].done \in Nat /\ row'[r].done \in Nat
  BY DEF TypeOK, Grows, Row
<1> QED BY <1>1 DEF True, Known, Grows

\* No row changes.
LEMMA SameRows ==
  ASSUME TypeOK, ServerInv, UNCHANGED <<row, ended>>
  PROVE  Grows
<1>1. \A r \in Runs : row[r].done \in Nat
  BY DEF TypeOK, Row
<1> QED BY <1>1 DEF Grows, ServerInv, TypeOK

\* One row is saved.
LEMMA RecordGrows ==
  ASSUME TypeOK, ServerInv, NEW r \in Runs, NEW new \in Row, Record(r, new),
         new.status # "Absent", row[r].done <= new.done
  PROVE  Grows
<1> DEFINE rows == [row EXCEPT ![r] = new]
<1>1. rows \in [Runs -> Row] /\ rows[r] = new /\ (\A s \in Runs : s # r => rows[s] = row[s])
  BY DEF TypeOK
<1>2. row' = rows /\ ended' = ended \cup {s \in Runs : rows[s].status \in Terminal}
  BY DEF Record, Over
<1>3. \A s \in Runs : row[s].done \in Nat
  BY DEF TypeOK, Row
<1>4. ended \in SUBSET Runs
  BY DEF TypeOK
<1> HIDE DEF rows
<1> QED BY <1>1, <1>2, <1>3, <1>4 DEF Grows

\* What recovery leaves of a row.
LEMMA RecoveredRow ==
  ASSUME TypeOK, NEW r \in Runs
  PROVE  /\ Recovered \in [Runs -> Row]
         /\ Recovered[r].done = row[r].done /\ row[r].done \in Nat
         /\ Recovered[r].status = "Absent" <=> row[r].status = "Absent"
         /\ Recovered[r].status = "Absent" => Recovered[r] = row[r]
<1>1. \A s \in Runs : row[s] \in Row
  BY DEF TypeOK
<1>2. \A s \in Runs : [row[s] EXCEPT !.status = "Cancelled", !.cancel = TRUE] \in Row
  BY <1>1 DEF Row, Terminal
<1>3. Recovered \in [Runs -> Row]
  BY <1>1, <1>2 DEF Recovered
<1>4. LET c == [row[r] EXCEPT !.status = "Cancelled", !.cancel = TRUE]
      IN  c.done = row[r].done /\ c.status = "Cancelled"
  BY <1>1 DEF Row
<1>5. row[r].done \in Nat
  BY <1>1 DEF Row
<1>6. \/ Recovered[r] = row[r]
      \/ /\ row[r].status \in Active
         /\ Recovered[r] = [row[r] EXCEPT !.status = "Cancelled", !.cancel = TRUE]
  BY DEF Recovered
<1> QED BY <1>3, <1>4, <1>5, <1>6 DEF Active

\* Recovery only ends runs.
LEMMA RecoverGrows ==
  ASSUME TypeOK, ServerInv, Recover
  PROVE  Grows
<1>1. ended \in SUBSET Runs
  BY DEF TypeOK
<1>2. row' = Recovered /\ ended' = ended \cup {r \in Runs : Recovered[r].status \in Terminal}
  BY DEF Recover, Over
<1>3. \A r \in Runs : /\ Recovered \in [Runs -> Row]
                      /\ Recovered[r].done = row[r].done /\ row[r].done \in Nat
                      /\ (Recovered[r].status = "Absent" <=> row[r].status = "Absent")
                      /\ (Recovered[r].status = "Absent" => Recovered[r] = row[r])
  BY RecoveredRow
<1>4. Recovered \in [Runs -> Row]
  <2>1. CASE Runs = {}
    BY <2>1 DEF Recovered
  <2>2. CASE Runs # {}
    BY <2>2, <1>3
  <2> QED BY <2>1, <2>2
<1> QED BY <1>1, <1>2, <1>3, <1>4 DEF Grows

-----------------------------------------------------------------------------
(* The parts of the invariant that a step leaves alone *)

\* A run that exists goes on existing.
LEMMA KnownStays ==
  ASSUME TypeOK, Grows, NEW r \in Runs \cup {None}, Known(r)
  PROVE  Known(r)'
BY ReviewAssumption DEF Known, Grows

\* A sequence of true events stays one.
LEMMA AllTrueStays ==
  ASSUME TypeOK, Grows, NEW r \in Runs, NEW events \in Seq(Event), AllTrue(r, events)
  PROVE  AllTrue(r, events)'
<1> SUFFICES ASSUME NEW n \in DOMAIN events
             PROVE  True(r, events[n].state, events[n].done)'
  BY DEF AllTrue
<1>1. events[n] \in Event
  OBVIOUS
<1>2. PICK done \in Nat : done = events[n].done
  BY <1>1 DEF Event
<1>3. PICK state : state = events[n].state
  OBVIOUS
<1>4. True(r, state, done)
  BY <1>2, <1>3 DEF AllTrue
<1>5. True(r, state, done)'
  BY <1>4, TrueStays
<1> QED BY <1>2, <1>3, <1>5 DEF True

\* The log stays; executors have what they had to publish, or nothing.
LEMMA ServerKept ==
  ASSUME TypeOK, ServerInv, Grows, UNCHANGED <<newest, log>>,
         \A r \in Runs : /\ exec'[r].out \in {exec[r].out, <<>>}
                         /\ exec'[r].pc # "none" => exec[r].pc # "none" \/ Known(r)
  PROVE  ServerInv'
<1>1. Known(newest)'
  <2>1. newest \in Runs \cup {None} /\ Known(newest)
    BY DEF TypeOK, ServerInv
  <2> QED BY <2>1, ReviewAssumption DEF Known, Grows
<1>2. ASSUME NEW r \in Runs
      PROVE  /\ row'[r].status \in Terminal => r \in ended'
             /\ row'[r].status = "Absent" => row'[r].done = 0
             /\ log'[r] # <<>> \/ exec'[r].pc # "none" \/ exec'[r].out # <<>> => Known(r)'
             /\ AllTrue(r, log[r])' /\ AllTrue(r, exec[r].out)'
  <2>1. log[r] # <<>> \/ exec[r].pc # "none" \/ exec[r].out # <<>> => Known(r)
    BY DEF ServerInv
  <2>2. Known(r) => Known(r)'
    BY KnownStays
  <2>3. PICK events \in Seq(Event) : events = log[r]
    BY DEF TypeOK
  <2>4. AllTrue(r, events)'
    BY <2>3, AllTrueStays DEF ServerInv
  <2>5. PICK out \in Seq(Event) : out = exec[r].out
    BY DEF TypeOK, Executor
  <2>6. AllTrue(r, out)'
    BY <2>5, AllTrueStays DEF ServerInv
  <2>7. AllTrue(r, log[r])'
    BY <2>3, <2>4 DEF AllTrue
  <2>8. AllTrue(r, exec[r].out)'
    <3>1. CASE exec'[r].out = exec[r].out
      BY <3>1, <2>5, <2>6 DEF AllTrue
    <3>2. CASE exec'[r].out = <<>>
      BY <3>2 DEF AllTrue
    <3> QED BY <3>1, <3>2
  <2>9. row'[r].status = "Absent" => row'[r].done = 0
    BY DEF Grows, ServerInv
  <2> QED BY <2>1, <2>2, <2>7, <2>8, <2>9 DEF Grows
<1> QED BY <1>1, <1>2 DEF ServerInv

\* Handler record h is one that button or chain k may have.
GoodHandler(k, h) ==
    /\ h \in Handler
    /\ h.pc = "link" => k \in {"init", "start", "resume"}
    /\ h.pc \in {"posted", "answered", "refused"} => k \in {"start", "resume", "stop"}
    /\ Known(h.run)
    /\ h.snap.run # None => Known(h.snap.run) /\ True(h.snap.run, h.snap.status, h.snap.done)

\* The handlers' part of the invariant, handler by handler.
LEMMA HandlersAreGood ==
  ASSUME TypeOK
  PROVE  HandlersInv <=> \A k \in Chains : GoodHandler(k, cmd[k])
BY DEF HandlersInv, GoodHandler, TypeOK

\* What a handler knows stays true.
LEMMA HandlerStays ==
  ASSUME TypeOK, Grows, NEW k, NEW h, GoodHandler(k, h)
  PROVE  GoodHandler(k, h)'
<1>1. h \in Handler /\ h.run \in Runs \cup {None} /\ h.snap \in Snapshot
  BY DEF GoodHandler, Handler
<1>2. h.snap.run \in Runs \cup {None} /\ h.snap.done \in Nat
  BY <1>1 DEF Snapshot
<1>3. Known(h.run)'
  BY <1>1, KnownStays DEF GoodHandler
<1>4. h.snap.run # None => Known(h.snap.run)' /\ True(h.snap.run, h.snap.status, h.snap.done)'
  BY <1>2, TrueStays DEF GoodHandler
<1> QED BY <1>3, <1>4 DEF GoodHandler

\* A handler that has just gone on knows no snapshot.
LEMMA DoingGood ==
  ASSUME NEW k, NEW pc \in {"idle", "link", "ready", "posted", "answered", "refused", "load"},
         NEW r \in Runs \cup {None}, Known(r),
         pc = "link" => k \in {"init", "start", "resume"},
         pc \in {"posted", "answered", "refused"} => k \in {"start", "resume", "stop"}
  PROVE  GoodHandler(k, Doing(pc, r))
<1>1. NoRun \in Snapshot /\ NoRun.run = None
  BY DEF NoRun, Snapshot
<1>2. /\ Doing(pc, r) \in Handler /\ Doing(pc, r).pc = pc /\ Doing(pc, r).run = r
      /\ Doing(pc, r).snap = NoRun
  BY <1>1 DEF Doing, Handler
<1> QED BY <1>1, <1>2 DEF GoodHandler

\* An idle handler knows nothing.
LEMMA IdleGood == \A k : GoodHandler(k, Idle)
BY DoingGood DEF Idle, Known

\* The server does nothing the page could see of p but go on.
LEMMA PageStays ==
  ASSUME TypeOK, Grows, NEW p, GoodPage(p),
         \A r \in Runs : Len(log[r]) <= Len(log'[r]), log' \in [Runs -> Seq(Event)]
  PROVE  GoodPage(p)'
<1>1. /\ p \in Page /\ p.run \in Runs \cup {None} /\ p.items \in SUBSET (Runs \X Nat)
      /\ p.polls \in SUBSET Poll
  BY DEF GoodPage, Page
<1>2. Known(p.run)'
  BY <1>1, KnownStays DEF GoodPage, ShownTrue
<1>3. ASSUME NEW item \in p.items
      PROVE  item[1] = p.run /\ item[2] <= row'[item[1]].done
  <2>1. item[1] \in Runs /\ item[2] \in Nat
    BY <1>1
  <2>2. row[item[1]].done \in Nat /\ row'[item[1]].done \in Nat
    BY <2>1 DEF TypeOK, Grows, Row
  <2>3. item[1] = p.run /\ item[2] <= row[item[1]].done
    BY DEF GoodPage, ShownTrue
  <2> QED BY <2>1, <2>2, <2>3 DEF Grows
<1>4. ASSUME NEW poll \in p.polls PROVE poll.upto <= Len(log'[poll.run])
  <2>1. poll.run \in Runs /\ poll.upto \in Int
    BY <1>1 DEF Poll, NotRead
  <2>2. Len(log[poll.run]) \in Nat /\ Len(log'[poll.run]) \in Nat
    BY <2>1 DEF TypeOK
  <2>3. poll.upto <= Len(log[poll.run])
    BY DEF GoodPage
  <2> QED BY <2>1, <2>2, <2>3
<1>5. p.run # None /\ p.state \in Terminal => p.run \in ended'
  BY DEF GoodPage, ShownTrue, Grows
<1>6. ShownTrue(p)'
  BY <1>2, <1>3, <1>5 DEF GoodPage, ShownTrue
<1> QED BY <1>1, <1>4, <1>6 DEF GoodPage

-----------------------------------------------------------------------------
(* Who waits for an answer *)

\* The part of the invariant about commands, executors and who waits for them.
WaitsInv ==
    /\ inbox \in SUBSET Command /\ exec \in [Runs -> Executor]
    /\ \A c \in inbox : c.by # "nobody" => cmd[c.by].pc = "posted"
    /\ \A r \in Runs : exec[r].by # "nobody" => cmd[exec[r].by].pc = "posted"
    /\ CommandsInv

\* Sequences of pushed messages.
Pushing == Seq([run : Runs, sequence : Nat])

\* The handlers others answer are waiting.
LEMMA Waiters ==
  ASSUME TypeOK
  PROVE  /\ \A c \in inbox : c.by # "nobody" => c.by \in Chains /\ cmd[c.by].pc = "posted"
         /\ \A r \in Runs : exec[r].by # "nobody" =>
                               exec[r].by \in Chains /\ cmd[exec[r].by].pc = "posted"
<1>1. \A c \in inbox : c \in Command
  BY DEF TypeOK
<1>2. \A r \in Runs : exec[r] \in Executor
  BY DEF TypeOK
<1>3. /\ \A c \in inbox : c.by # "nobody" => cmd[c.by].pc = "posted"
      /\ \A r \in Runs : exec[r].by # "nobody" => cmd[exec[r].by].pc = "posted"
  BY DEF TypeOK
<1>4. \A c \in inbox : c.by # "nobody" => c.by \in Chains
  BY <1>1 DEF Command, Chains
<1>5. \A r \in Runs : exec[r].by # "nobody" => exec[r].by \in Chains
  BY <1>2 DEF Executor, Chains
<1> QED BY <1>3, <1>4, <1>5

\* Handlers that do not wait may go on; commands and executors stay, or lose
\* whoever waits for them.
LEMMA WaitsKept ==
  ASSUME TypeOK, CommandsInv, Grows, inbox' = inbox, exec' \in [Runs -> Executor],
         \A r \in Runs : exec'[r].by \in {exec[r].by, "nobody"},
         \A k \in Chains : cmd[k].pc = "posted" => cmd'[k] = cmd[k]
  PROVE  WaitsInv'
<1>1. \A c \in inbox : c \in Command /\ c.run \in Runs \cup {None} /\ (c.by # "nobody" => c.by \in Chains)
  BY DEF TypeOK, Command, Chains
<1>2. \A r \in Runs : exec[r].by # "nobody" => exec[r].by \in Chains
  BY DEF TypeOK, Executor, Chains
<1>3. \A c \in inbox : Known(c.run)'
  <2> TAKE c \in inbox
  <2> QED BY <1>1 DEF CommandsInv, Known, Grows
<1>4. \A c \in inbox : c.by # "nobody" => cmd'[c.by].pc = "posted"
  BY <1>1 DEF TypeOK
<1>5. \A r \in Runs : exec'[r].by # "nobody" => cmd'[exec'[r].by].pc = "posted"
  <2> TAKE r \in Runs
  <2>1. exec'[r].by # "nobody" => exec'[r].by = exec[r].by
    OBVIOUS
  <2> QED BY <2>1, Waiters
<1>6. CommandsInv'
  BY <1>3 DEF CommandsInv
<1> QED BY <1>4, <1>5, <1>6 DEF WaitsInv, TypeOK

\* Command c leaves the server, with its answer.
LEMMA WaitsAnswered ==
  ASSUME TypeOK, CommandsInv, Grows, NEW c \in inbox, inbox' = inbox \ {c}, exec' = exec,
         NEW pc, NEW r, Answer(c.by, pc, r)
  PROVE  WaitsInv'
<1>1. \A d \in inbox : d \in Command /\ d.run \in Runs \cup {None} /\ (d.by # "nobody" => d.by \in Chains)
  BY DEF TypeOK, Command, Chains
<1>2. \A s \in Runs : exec[s].by # "nobody" => exec[s].by \in Chains
  BY DEF TypeOK, Executor, Chains
<1>3. \A d \in inbox : Known(d.run)'
  <2> TAKE d \in inbox
  <2> QED BY <1>1 DEF CommandsInv, Known, Grows
<1>4. \A k \in Chains : k # c.by => cmd'[k] = cmd[k]
  BY DEF Answer, TypeOK
<1>5. \A d \in inbox' : d.by # "nobody" => d.by # c.by
  BY DEF CommandsInv
<1>6. \A s \in Runs : exec[s].by # "nobody" => exec[s].by # c.by
  BY DEF CommandsInv
<1>7. \A d \in inbox' : d.by # "nobody" => cmd'[d.by].pc = "posted"
  BY <1>1, <1>4, <1>5 DEF TypeOK
<1>8. \A s \in Runs : exec'[s].by # "nobody" => cmd'[exec'[s].by].pc = "posted"
  BY <1>2, <1>4, <1>6 DEF TypeOK
<1>9. CommandsInv'
  BY <1>3 DEF CommandsInv
<1> QED BY <1>7, <1>8, <1>9 DEF WaitsInv, TypeOK

\* The executor of run r ends, with its answer.
LEMMA WaitsEnded ==
  ASSUME TypeOK, CommandsInv, Grows, NEW r \in Runs, inbox' = inbox,
         exec' = [exec EXCEPT ![r] = NoExecutor], NEW pc, Answer(exec[r].by, pc, r)
  PROVE  WaitsInv'
<1>1. \A d \in inbox : d \in Command /\ d.run \in Runs \cup {None} /\ (d.by # "nobody" => d.by \in Chains)
  BY DEF TypeOK, Command, Chains
<1>2. \A s \in Runs : exec[s].by # "nobody" => exec[s].by \in Chains
  BY DEF TypeOK, Executor, Chains
<1>3. \A d \in inbox : Known(d.run)'
  <2> TAKE d \in inbox
  <2> QED BY <1>1 DEF CommandsInv, Known, Grows
<1>4. \A k \in Chains : k # exec[r].by => cmd'[k] = cmd[k]
  BY DEF Answer, TypeOK
<1>5. \A d \in inbox : d.by # "nobody" => d.by # exec[r].by
  BY DEF CommandsInv
<1>6. NoExecutor \in Executor /\ NoExecutor.by = "nobody"
  BY DEF NoExecutor, Executor
<1>7. exec' \in [Runs -> Executor] /\ exec'[r] = NoExecutor /\ \A s \in Runs : s # r => exec'[s] = exec[s]
  BY <1>6 DEF TypeOK
<1>8. \A s \in Runs : s # r /\ exec[s].by # "nobody" => exec[s].by # exec[r].by
  BY DEF CommandsInv
<1>9. \A d \in inbox : d.by # "nobody" => cmd'[d.by].pc = "posted"
  BY <1>1, <1>4, <1>5 DEF TypeOK
<1>10. \A s \in Runs : exec'[s].by # "nobody" => cmd'[exec'[s].by].pc = "posted"
  BY <1>2, <1>4, <1>6, <1>7, <1>8 DEF TypeOK
<1>11. \A s \in Runs : exec'[s].by \in {exec[s].by, "nobody"}
  BY <1>6, <1>7
<1>12. CommandsInv'
  BY <1>3, <1>11 DEF CommandsInv
<1> QED BY <1>7, <1>9, <1>10, <1>12 DEF WaitsInv, TypeOK

\* Command c begins an execution of run r, which answers it.
LEMMA WaitsBegun ==
  ASSUME TypeOK, CommandsInv, Grows, NEW c \in inbox, NEW r \in Runs, NEW out \in Seq(Event),
         c.kind # "stop", Begin(r, c, out), cmd' = cmd
  PROVE  /\ WaitsInv'
         /\ exec'[r].out = out
         /\ \A s \in Runs : s # r => exec'[s] = exec[s]
<1>1. \A d \in inbox : d \in Command /\ d.run \in Runs \cup {None} /\ (d.by # "nobody" => d.by \in Chains)
  BY DEF TypeOK, Command, Chains
<1> DEFINE e == [pc |-> "created", by |-> c.by, push |-> c.push, out |-> out]
<1>2. e \in Executor /\ e.by = c.by /\ e.out = out
  <2>1. c.by \in {"start", "resume", "nobody"} /\ c.push \in BOOLEAN
    BY DEF TypeOK, Command, CommandsInv
  <2> QED BY <2>1 DEF Executor
<1>3. \A d \in inbox : Known(d.run)'
  <2> TAKE d \in inbox
  <2> QED BY <1>1 DEF CommandsInv, Known, Grows
<1>4. inbox' = inbox \ {c} /\ exec' = [exec EXCEPT ![r] = e]
  BY DEF Begin
<1> HIDE DEF e
<1>5. exec' \in [Runs -> Executor] /\ exec'[r] = e /\ \A s \in Runs : s # r => exec'[s] = exec[s]
  BY <1>2, <1>4 DEF TypeOK
<1>6. \A d \in inbox' : d.by # "nobody" => cmd'[d.by].pc = "posted"
  BY <1>4 DEF TypeOK
<1>7. \A s \in Runs : exec'[s].by # "nobody" => cmd'[exec'[s].by].pc = "posted"
  <2> TAKE s \in Runs
  <2>1. CASE s = r
    BY <2>1, <1>2, <1>5, Waiters
  <2>2. CASE s # r
    BY <2>2, <1>5, Waiters
  <2> QED BY <2>1, <2>2
<1>8. \A d, f \in inbox' : d.by = f.by => d = f \/ d.by = "nobody"
  BY <1>4 DEF CommandsInv
<1>9. \A s, t \in Runs : exec'[s].by = exec'[t].by => s = t \/ exec'[s].by = "nobody"
  BY <1>2, <1>5 DEF CommandsInv
<1>10. \A d \in inbox', s \in Runs : d.by = exec'[s].by => d.by = "nobody"
  BY <1>2, <1>4, <1>5 DEF CommandsInv
<1>11. CommandsInv'
  BY <1>3, <1>4, <1>8, <1>9, <1>10 DEF CommandsInv
<1> QED BY <1>2, <1>4, <1>5, <1>6, <1>7, <1>11 DEF WaitsInv, TypeOK

\* A button's handler posts its command.
LEMMA WaitsPosted ==
  ASSUME TypeOK, CommandsInv, Grows, exec' = exec, NEW k \in {"start", "resume", "stop"},
         cmd[k].pc # "posted", NEW p \in Page, Known(p.run),
         k # "start" => p.run # None, Post(k, p)
  PROVE  WaitsInv'
<1>1. \A d \in inbox : d \in Command /\ d.run \in Runs \cup {None} /\ (d.by # "nobody" => d.by \in Chains)
  BY DEF TypeOK, Command, Chains
<1>2. \A s \in Runs : exec[s].by # "nobody" => exec[s].by \in Chains
  BY DEF TypeOK, Executor, Chains
<1> DEFINE c == [kind |-> k, run |-> p.run, by |-> k, push |-> p.link = "on", saved |-> FALSE]
<1>3. p.run \in Runs \cup {None}
  BY DEF Page
<1>4. c \in Command /\ c.kind = k /\ c.run = p.run /\ c.by = k /\ ~c.saved
  BY <1>3 DEF Command
<1>5. inbox' = inbox \cup {c}
  BY DEF Post
<1>6. k \in Chains /\ cmd'[k].pc = "posted" /\ \A j \in Chains : j # k => cmd'[j] = cmd[j]
  BY DEF Post, Doing, TypeOK, Chains
<1> HIDE DEF c
<1>7. \A d \in inbox : d.by # k
  BY DEF TypeOK
<1>8. \A s \in Runs : exec[s].by # k
  BY DEF TypeOK
<1>9. \A d \in inbox : Known(d.run)'
  <2> TAKE d \in inbox
  <2> QED BY <1>1 DEF CommandsInv, Known, Grows
<1>10. Known(c.run)'
  BY <1>3, <1>4 DEF Known, Grows
<1>11. \A d \in inbox' : d.by # "nobody" => cmd'[d.by].pc = "posted"
  BY <1>1, <1>4, <1>5, <1>6, <1>7 DEF TypeOK
<1>12. \A s \in Runs : exec'[s].by # "nobody" => cmd'[exec'[s].by].pc = "posted"
  BY <1>2, <1>6, <1>8 DEF TypeOK
<1>13. \A d \in inbox' : /\ d.by \in {d.kind, "nobody"}
                         /\ d.kind = "start" \/ d.run # None
                         /\ d.saved => d.kind = "stop"
                         /\ Known(d.run)'
  BY <1>4, <1>5, <1>9, <1>10 DEF CommandsInv
<1>14. \A d, f \in inbox' : d.by = f.by => d = f \/ d.by = "nobody"
  BY <1>4, <1>5, <1>7 DEF CommandsInv
<1>15. \A d \in inbox', s \in Runs : d.by = exec'[s].by => d.by = "nobody"
  BY <1>4, <1>5, <1>8 DEF CommandsInv
<1>16. CommandsInv'
  BY <1>13, <1>14, <1>15 DEF CommandsInv
<1> QED BY <1>4, <1>5, <1>11, <1>12, <1>16 DEF WaitsInv, TypeOK

\* What a command loses by being nobody's, or having no connection, is its waiter.
LEMMA CommandChanged ==
  ASSUME NEW c \in Command, NEW k
  PROVE  LET d == [c EXCEPT !.by = IF @ = k THEN "nobody" ELSE @]
         IN  /\ d \in Command /\ d.kind = c.kind /\ d.run = c.run /\ d.saved = c.saved
             /\ d.by = IF c.by = k THEN "nobody" ELSE c.by
BY DEF Command

\* The same for an executor.
LEMMA ExecutorChanged ==
  ASSUME NEW e \in Executor, NEW k
  PROVE  LET f == [e EXCEPT !.by = IF @ = k THEN "nobody" ELSE @]
         IN  /\ f \in Executor /\ f.pc = e.pc /\ f.out = e.out
             /\ f.by = IF e.by = k THEN "nobody" ELSE e.by
BY DEF Executor

\* Nobody waits any more for what handler k has posted.
LEMMA WaitsAbandoned ==
  ASSUME TypeOK, CommandsInv, Grows, NEW k \in Chains, Abandon(k),
         \A j \in Chains : j # k => cmd'[j] = cmd[j]
  PROVE  /\ WaitsInv'
         /\ \A r \in Runs : exec'[r].pc = exec[r].pc /\ exec'[r].out = exec[r].out
<1>1. \A d \in inbox : d \in Command /\ d.run \in Runs \cup {None} /\ (d.by # "nobody" => d.by \in Chains)
  BY DEF TypeOK, Command, Chains
<1>2. \A s \in Runs : exec[s] \in Executor /\ (exec[s].by # "nobody" => exec[s].by \in Chains)
  BY DEF TypeOK, Executor, Chains
<1>3. \A d \in inbox' : \E c \in inbox : /\ d \in Command /\ d.kind = c.kind /\ d.run = c.run
                                         /\ d.saved = c.saved
                                         /\ d.by = IF c.by = k THEN "nobody" ELSE c.by
                                         /\ d = [c EXCEPT !.by = IF @ = k THEN "nobody" ELSE @]
  <2> TAKE d \in inbox'
  <2>1. PICK c \in inbox : d = [c EXCEPT !.by = IF @ = k THEN "nobody" ELSE @]
    BY DEF Abandon
  <2>2. c \in Command
    BY <1>1
  <2>3. /\ d \in Command /\ d.kind = c.kind /\ d.run = c.run /\ d.saved = c.saved
        /\ d.by = IF c.by = k THEN "nobody" ELSE c.by
    BY <2>1, <2>2, CommandChanged
  <2> QED BY <2>1, <2>3
<1>4. \A s \in Runs : /\ exec'[s] \in Executor /\ exec'[s].pc = exec[s].pc /\ exec'[s].out = exec[s].out
                      /\ exec'[s].by = IF exec[s].by = k THEN "nobody" ELSE exec[s].by
  <2> TAKE s \in Runs
  <2>1. exec'[s] = [exec[s] EXCEPT !.by = IF @ = k THEN "nobody" ELSE @]
    BY DEF Abandon
  <2>2. PICK e \in Executor : e = exec[s]
    BY <1>2
  <2> QED BY <2>1, <2>2, ExecutorChanged
<1>5. exec' \in [Runs -> Executor]
  BY <1>4 DEF Abandon
<1>6. \A d \in inbox : Known(d.run)'
  <2> TAKE d \in inbox
  <2> QED BY <1>1 DEF CommandsInv, Known, Grows
<1>7. \A d \in inbox' : d.by # "nobody" => cmd'[d.by].pc = "posted"
  <2> TAKE d \in inbox'
  <2>1. PICK c \in inbox : d.by = IF c.by = k THEN "nobody" ELSE c.by
    BY <1>3
  <2> QED BY <2>1, <1>1 DEF TypeOK
<1>8. \A s \in Runs : exec'[s].by # "nobody" => cmd'[exec'[s].by].pc = "posted"
  <2> TAKE s \in Runs
  <2>1. exec[s].by # "nobody" => cmd[exec[s].by].pc = "posted" /\ exec[s].by \in Chains
    BY <1>2 DEF TypeOK
  <2> QED BY <1>4, <2>1
<1>9. \A d \in inbox' : /\ d.by \in {d.kind, "nobody"}
                        /\ d.kind = "start" \/ d.run # None
                        /\ d.saved => d.kind = "stop"
                        /\ Known(d.run)'
  <2> TAKE d \in inbox'
  <2>1. PICK c \in inbox : /\ d.kind = c.kind /\ d.run = c.run /\ d.saved = c.saved
                           /\ d.by = IF c.by = k THEN "nobody" ELSE c.by
    BY <1>3
  <2>2. Known(d.run)'
    BY <2>1, <1>6 DEF Known
  <2> QED BY <2>1, <2>2 DEF CommandsInv
<1>10. \A d, f \in inbox' : d.by = f.by => d = f \/ d.by = "nobody"
  <2> TAKE d, f \in inbox'
  <2>1. PICK c \in inbox : /\ d.by = IF c.by = k THEN "nobody" ELSE c.by
                           /\ d = [c EXCEPT !.by = IF @ = k THEN "nobody" ELSE @]
    BY <1>3
  <2>2. PICK g \in inbox : /\ f.by = IF g.by = k THEN "nobody" ELSE g.by
                           /\ f = [g EXCEPT !.by = IF @ = k THEN "nobody" ELSE @]
    BY <1>3
  <2>3. d.by = f.by /\ d.by # "nobody" => c = g
    BY <2>1, <2>2 DEF CommandsInv
  <2> QED BY <2>1, <2>2, <2>3
<1>11. \A s, t \in Runs : exec'[s].by = exec'[t].by => s = t \/ exec'[s].by = "nobody"
  BY <1>4 DEF CommandsInv
<1>12. \A d \in inbox', s \in Runs : d.by = exec'[s].by => d.by = "nobody"
  <2> TAKE d \in inbox', s \in Runs
  <2>1. PICK c \in inbox : d.by = IF c.by = k THEN "nobody" ELSE c.by
    BY <1>3
  <2> QED BY <2>1, <1>4 DEF CommandsInv
<1>13. CommandsInv'
  BY <1>9, <1>11, <1>10, <1>12 DEF CommandsInv
<1>14. inbox' \in SUBSET Command
  BY <1>3
<1> QED BY <1>4, <1>5, <1>7, <1>8, <1>13, <1>14 DEF WaitsInv

-----------------------------------------------------------------------------
(* Steps of the page *)

\* The budget of outside moves is counted within its bound.
LEMMA UsedStays ==
  ASSUME TypeOK, Counted \/ UNCHANGED used
  PROVE  used' \in 0 .. MaxMoves
BY ReviewAssumption DEF TypeOK, Counted

\* One handler goes on.
LEMMA HandlerSet ==
  ASSUME TypeOK, HandlersInv, NEW k \in Chains, NEW h, GoodHandler(k, h),
         cmd' = [cmd EXCEPT ![k] = h]
  PROVE  /\ cmd' \in [Chains -> Handler]
         /\ \A j \in Chains : GoodHandler(j, cmd'[j])
         /\ \A j \in Chains : j # k => cmd'[j] = cmd[j]
<1>1. h \in Handler
  BY DEF GoodHandler
<1>2. /\ cmd' \in [Chains -> Handler] /\ cmd'[k] = h
      /\ \A j \in Chains : j # k => cmd'[j] = cmd[j]
  BY <1>1 DEF TypeOK
<1>3. \A j \in Chains : GoodHandler(j, cmd[j])
  BY HandlersAreGood
<1>4. ASSUME NEW j \in Chains PROVE GoodHandler(j, cmd'[j])
  <2>1. CASE j = k
    BY <2>1, <1>2
  <2>2. CASE j # k
    <3>1. cmd'[j] = cmd[j]
      BY <1>2, <2>2
    <3> QED BY <3>1, <1>3
  <2> QED BY <2>1, <2>2
<1> QED BY <1>2, <1>4

\* Handlers stay.
LEMMA HandlersSame ==
  ASSUME TypeOK, HandlersInv, UNCHANGED cmd
  PROVE  cmd' \in [Chains -> Handler] /\ \A j \in Chains : GoodHandler(j, cmd'[j])
<1>1. \A j \in Chains : GoodHandler(j, cmd[j])
  BY HandlersAreGood
<1>2. cmd' = cmd
  OBVIOUS
<1> QED BY <1>1, <1>2 DEF TypeOK

\* The messages under way are about events in the store.
GoodPushes(s) ==
    /\ s \in Pushing
    /\ \A i \in DOMAIN s : s[i].sequence \in DOMAIN log[s[i].run]

\* The messages' part of the invariant, as GoodPushes.
LEMMA PushesAreGood ==
  ASSUME TypeOK, TransitInv
  PROVE  GoodPushes(pushes) /\ (pushes # <<>> => GoodPushes(Tail(pushes)))
<1>1. GoodPushes(pushes)
  BY DEF GoodPushes, TypeOK, TransitInv, Pushing
<1>2. ASSUME pushes # <<>> PROVE GoodPushes(Tail(pushes))
  <2>1. pushes \in Pushing
    BY <1>1 DEF GoodPushes
  <2>2. Tail(pushes) \in Pushing
    BY <1>2, <2>1 DEF Pushing
  <2>3. \A i \in DOMAIN Tail(pushes) : i + 1 \in DOMAIN pushes /\ Tail(pushes)[i] = pushes[i + 1]
    BY <1>2, <2>1 DEF Pushing
  <2> QED BY <1>1, <2>2, <2>3 DEF GoodPushes
<1> QED BY <1>1, <1>2

\* The page's part of the invariant, as GoodPage.
LEMMA PageIsGood ==
  ASSUME TypeOK, ShownTrue(page), TransitInv
  PROVE  GoodPage(page)
BY DEF TypeOK, TransitInv, GoodPage

\* A step that leaves rows and logs alone keeps the invariant when what it
\* leaves behind on the page is good.
LEMMA PageStep ==
  ASSUME Inv, UNCHANGED <<row, newest, log, ended>>, WaitsInv',
         \A r \in Runs : exec'[r].pc = exec[r].pc /\ exec'[r].out = exec[r].out,
         GoodPage(page'),
         cmd' \in [Chains -> Handler], \A k \in Chains : GoodHandler(k, cmd'[k]),
         GoodPushes(pushes'), used' \in 0 .. MaxMoves
  PROVE  Inv'
<1>0. TypeOK /\ ServerInv
  BY DEF Inv
<1>1. Grows
  BY <1>0, SameRows
<1>2. ServerInv'
  BY <1>0, <1>1, ServerKept
<1>3. CommandsInv'
  BY DEF WaitsInv
<1>4. TypeOK'
  <2>1. page' \in Page
    BY DEF GoodPage
  <2>2. pushes' \in Pushing
    BY DEF GoodPushes
  <2> QED BY <1>0, <2>1, <2>2 DEF WaitsInv, TypeOK, Pushing
<1>5. HandlersInv'
  BY DEF GoodHandler, HandlersInv, Known, True
<1>6. ShownTrue(page)'
  BY DEF GoodPage, ShownTrue, Known
<1>7. TransitInv'
  BY DEF TransitInv, GoodPage, GoodPushes
<1> QED BY <1>2, <1>3, <1>4, <1>5, <1>6, <1>7 DEF Inv

\* The same for a step that leaves executors, too.
LEMMA PageStepOnly ==
  ASSUME Inv, UNCHANGED <<row, newest, log, ended, exec>>, WaitsInv', GoodPage(page'),
         cmd' \in [Chains -> Handler], \A k \in Chains : GoodHandler(k, cmd'[k]),
         GoodPushes(pushes'), used' \in 0 .. MaxMoves
  PROVE  Inv'
BY PageStep

\* The facts about the state before the step that the actions need.
LEMMA Before ==
  ASSUME Inv
  PROVE  /\ TypeOK /\ ServerInv /\ CommandsInv /\ HandlersInv /\ TransitInv
         /\ GoodPage(page) /\ page \in Page
         /\ log \in [Runs -> Seq(Event)]
         /\ GoodPushes(pushes)
         /\ \A k \in Chains : GoodHandler(k, cmd[k]) /\ cmd[k].run \in Runs \cup {None}
         /\ page.run \in Runs \cup {None} /\ Known(page.run)
<1>1. /\ TypeOK /\ ServerInv /\ CommandsInv /\ HandlersInv /\ TransitInv
      /\ GoodPage(page) /\ page \in Page /\ log \in [Runs -> Seq(Event)]
  BY PageIsGood DEF Inv, TypeOK
<1>2. GoodPushes(pushes)
  BY <1>1, PushesAreGood
<1>3. \A k \in Chains : GoodHandler(k, cmd[k])
  BY <1>1, HandlersAreGood
<1>4. \A k \in Chains : cmd[k].run \in Runs \cup {None}
  BY <1>1 DEF TypeOK, Handler
<1> QED BY <1>1, <1>2, <1>3, <1>4 DEF GoodPage, ShownTrue, Page

\* The page's own steps: commands, executors and messages stay.
LEMMA QuietStep ==
  ASSUME Inv, UNCHANGED <<row, newest, log, ended, exec, inbox, pushes>>,
         Counted \/ UNCHANGED used,
         GoodPage(page'),
         cmd' \in [Chains -> Handler], \A k \in Chains : GoodHandler(k, cmd'[k]),
         \A k \in Chains : cmd[k].pc = "posted" => cmd'[k] = cmd[k]
  PROVE  Inv'
<1>1. Grows
  BY Before, SameRows
<1>2. exec' \in [Runs -> Executor] /\ \A r \in Runs : exec'[r].by \in {exec[r].by, "nobody"}
  BY Before DEF TypeOK
<1>3. WaitsInv'
  BY <1>1, <1>2, Before, WaitsKept
<1>4. GoodPushes(pushes')
  BY Before
<1>5. used' \in 0 .. MaxMoves
  BY Before, UsedStays
<1> QED BY <1>3, <1>4, <1>5, PageStepOnly

\* A click that posts its command.
LEMMA PostStep ==
  ASSUME Inv, UNCHANGED <<row, newest, log, ended, exec, pushes>>, Counted \/ UNCHANGED used,
         NEW k \in {"start", "resume", "stop"}, cmd[k].pc # "posted",
         NEW p, GoodPage(p), k # "start" => p.run # None, Post(k, p)
  PROVE  Inv'
<1>1. Grows
  BY Before, SameRows
<1>2. p \in Page /\ Known(p.run) /\ p.run \in Runs \cup {None}
  BY DEF GoodPage, ShownTrue, Page
<1>3. WaitsInv'
  BY <1>1, <1>2, Before, WaitsPosted
<1>4. GoodPage(page')
  <2>1. p.on \ {k} \in SUBSET {"start", "resume", "stop"}
    BY <1>2 DEF Page
  <2>2. page' = [p EXCEPT !.on = p.on \ {k}]
    BY DEF Post
  <2> QED BY <2>1, <2>2, OnField
<1>5. GoodHandler(k, Doing("posted", p.run))
  BY <1>2, DoingGood
<1>6. cmd' = [cmd EXCEPT ![k] = Doing("posted", p.run)] /\ k \in Chains
  BY DEF Post, Chains
<1>7. cmd' \in [Chains -> Handler] /\ \A j \in Chains : GoodHandler(j, cmd'[j])
  BY <1>5, <1>6, Before, HandlerSet
<1>8. GoodPushes(pushes') /\ used' \in 0 .. MaxMoves
  BY Before, UsedStays
<1> QED BY <1>3, <1>4, <1>7, <1>8, PageStepOnly

\* Start: the run shown is forgotten and a start command posted.
LEMMA PostStartStep ==
  ASSUME Inv, UNCHANGED <<row, newest, log, ended, exec, pushes>>, Counted \/ UNCHANGED used,
         cmd["start"].pc # "posted", NEW p, GoodPage(p), PostStart(p)
  PROVE  Inv'
<1>1. GoodPage(Forgotten(p, "Running"))
  BY ForgottenGood
<1>2. GoodPage(Refreshed(Forgotten(p, "Running")))
  BY <1>1, RefreshedGood
<1> QED BY <1>2, PostStep DEF PostStart

\* Resume: the command for the shown run is posted, if one is shown.
LEMMA PostResumeStep ==
  ASSUME Inv, UNCHANGED <<row, newest, log, ended, exec, pushes>>, Counted \/ UNCHANGED used,
         cmd["resume"].pc # "posted", NEW p, GoodPage(p), PostResume(p)
  PROVE  Inv'
<1>1. CASE p.run = None
  <2>1. page' = p /\ cmd' = [cmd EXCEPT !["resume"] = Idle] /\ UNCHANGED inbox
    BY <1>1 DEF PostResume
  <2>2. "resume" \in Chains /\ GoodHandler("resume", Idle)
    BY IdleGood DEF Chains
  <2>3. /\ cmd' \in [Chains -> Handler]
        /\ \A j \in Chains : GoodHandler(j, cmd'[j])
        /\ \A j \in Chains : j # "resume" => cmd'[j] = cmd[j]
    BY <2>1, <2>2, Before, HandlerSet
  <2>4. \A j \in Chains : cmd[j].pc = "posted" => cmd'[j] = cmd[j]
    BY <2>3
  <2> QED BY <2>1, <2>3, <2>4, QuietStep
<1>2. CASE p.run # None
  <2>1. Post("resume", p)
    BY <1>2 DEF PostResume
  <2> QED BY <1>2, <2>1, PostStep
<1> QED BY <1>1, <1>2

\* What the handlers do before they wait for a run, or after a failure.
LEMMA LoadRunGood ==
  ASSUME Inv, NEW k \in Chains, NEW p, GoodPage(p), LoadRun(k, p)
  PROVE  /\ GoodPage(page') /\ cmd' \in [Chains -> Handler]
         /\ \A j \in Chains : GoodHandler(j, cmd'[j])
         /\ \A j \in Chains : j # k => cmd'[j] = cmd[j]
<1>1. p.run \in Runs \cup {None} /\ Known(p.run)
  BY DEF GoodPage, ShownTrue, Page
<1> DEFINE h == IF p.run = None THEN Idle ELSE Doing("load", p.run)
<1>2. GoodHandler(k, h)
  BY <1>1, DoingGood, IdleGood
<1>3. page' = p /\ cmd' = [cmd EXCEPT ![k] = h]
  BY DEF LoadRun
<1> HIDE DEF h
<1> QED BY <1>2, <1>3, Before, HandlerSet

\* The handler goes on to ask for the latest run.
LEMMA LoadLatestGood ==
  ASSUME Inv, NEW k \in Chains, NEW p, GoodPage(p), LoadLatest(k, p)
  PROVE  /\ GoodPage(page') /\ cmd' \in [Chains -> Handler]
         /\ \A j \in Chains : GoodHandler(j, cmd'[j])
         /\ \A j \in Chains : j # k => cmd'[j] = cmd[j]
<1> DEFINE h == IF p.loading THEN Idle ELSE Doing("load", None)
<1>1. Known(None)
  BY DEF Known
<1>2. GoodHandler(k, h)
  BY <1>1, DoingGood, IdleGood
<1>3. page' = [p EXCEPT !.loading = TRUE] /\ cmd' = [cmd EXCEPT ![k] = h]
  BY DEF LoadLatest
<1> HIDE DEF h
<1>4. GoodPage(page')
  BY <1>3, OtherFields
<1> QED BY <1>2, <1>3, <1>4, Before, HandlerSet

\* The handler's catch block: it ends, the page is good.
LEMMA CaughtGood ==
  ASSUME Inv, NEW k \in Chains, NEW p, GoodPage(p), Caught(k, p)
  PROVE  /\ GoodPage(page') /\ cmd' \in [Chains -> Handler]
         /\ \A j \in Chains : GoodHandler(j, cmd'[j])
         /\ \A j \in Chains : j # k => cmd'[j] = cmd[j]
<1> DEFINE q == IF cmd[k].pc \in {"load", "loaded"} /\ cmd[k].run = None
                THEN [p EXCEPT !.loading = FALSE, !.syncing = FALSE] ELSE p
           a == [p EXCEPT !.loading = FALSE]
           b == [a EXCEPT !.syncing = FALSE]
           c == [q EXCEPT !.asked = FALSE]
<1>1. GoodPage(a)
  BY OtherFields
<1>2. GoodPage(b)
  <2> HIDE DEF a
  <2> QED BY <1>1, OtherFields
<1>3. [p EXCEPT !.loading = FALSE, !.syncing = FALSE] = b
  OBVIOUS
<1>4. GoodPage(q)
  <2> HIDE DEF b
  <2> QED BY <1>2, <1>3
<1>5. cmd' = [cmd EXCEPT ![k] = Idle] /\ page' \in {Refreshed(c), Refreshed(q), q}
  BY DEF Caught
<1> HIDE DEF q
<1>6. GoodPage(c)
  BY <1>4, OtherFields
<1> HIDE DEF c
<1>7. GoodPage(Refreshed(c)) /\ GoodPage(Refreshed(q))
  BY <1>4, <1>6, RefreshedGood
<1>8. GoodPage(page')
  BY <1>4, <1>5, <1>7
<1>9. GoodHandler(k, Idle)
  BY IdleGood
<1> QED BY <1>5, <1>8, <1>9, Before, HandlerSet

\* A click on an enabled button.
LEMMA ClickStep ==
  ASSUME Inv, Click
  PROVE  Inv'
<1>1. CASE ClickStart
  <2>1. cmd["start"] = Idle /\ cmd["start"].pc # "posted" /\ Counted
    BY <1>1 DEF ClickStart, MayClick, Idle, Doing
  <2>2. UNCHANGED <<row, newest, log, ended, exec, pushes>>
    BY <1>1 DEF ClickStart, Unserved
  <2>3. CASE page.link = "off"
    <3>1. cmd' = [cmd EXCEPT !["start"] = Doing("link", None)] /\ UNCHANGED <<inbox, page>>
      BY <1>1, <2>3 DEF ClickStart
    <3>2. "start" \in Chains /\ GoodHandler("start", Doing("link", None))
      BY DoingGood DEF Chains, Known
    <3>3. /\ cmd' \in [Chains -> Handler]
          /\ \A j \in Chains : GoodHandler(j, cmd'[j])
          /\ \A j \in Chains : j # "start" => cmd'[j] = cmd[j]
      BY <3>1, <3>2, Before, HandlerSet
    <3>4. \A j \in Chains : cmd[j].pc = "posted" => cmd'[j] = cmd[j]
      BY <2>1, <3>3
    <3>5. GoodPage(page')
      BY <3>1, Before
    <3> QED BY <2>1, <2>2, <3>1, <3>3, <3>4, <3>5, QuietStep
  <2>4. CASE page.link # "off"
    <3>1. PostStart(page)
      BY <1>1, <2>4 DEF ClickStart
    <3> QED BY <2>1, <2>2, <3>1, Before, PostStartStep
  <2> QED BY <2>3, <2>4
<1>2. CASE ClickResume
  <2>1. cmd["resume"] = Idle /\ cmd["resume"].pc # "posted" /\ Counted
    BY <1>2 DEF ClickResume, MayClick, Idle, Doing
  <2>2. UNCHANGED <<row, newest, log, ended, exec, pushes>>
    BY <1>2 DEF ClickResume, Unserved
  <2>3. CASE page.link = "off"
    <3>1. cmd' = [cmd EXCEPT !["resume"] = Doing("link", None)] /\ UNCHANGED <<inbox, page>>
      BY <1>2, <2>3 DEF ClickResume
    <3>2. "resume" \in Chains /\ GoodHandler("resume", Doing("link", None))
      BY DoingGood DEF Chains, Known
    <3>3. /\ cmd' \in [Chains -> Handler]
          /\ \A j \in Chains : GoodHandler(j, cmd'[j])
          /\ \A j \in Chains : j # "resume" => cmd'[j] = cmd[j]
      BY <3>1, <3>2, Before, HandlerSet
    <3>4. \A j \in Chains : cmd[j].pc = "posted" => cmd'[j] = cmd[j]
      BY <2>1, <3>3
    <3>5. GoodPage(page')
      BY <3>1, Before
    <3> QED BY <2>1, <2>2, <3>1, <3>3, <3>4, <3>5, QuietStep
  <2>4. CASE page.link # "off"
    <3>1. PostResume(page)
      BY <1>2, <2>4 DEF ClickResume
    <3> QED BY <2>1, <2>2, <3>1, Before, PostResumeStep
  <2> QED BY <2>3, <2>4
<1>3. CASE ClickStop
  <2> DEFINE p == [page EXCEPT !.asked = TRUE]
  <2>1. cmd["stop"] = Idle /\ cmd["stop"].pc # "posted" /\ Counted /\ page.run # None
    BY <1>3 DEF ClickStop, MayClick, Idle, Doing
  <2>2. UNCHANGED <<row, newest, log, ended, exec, pushes>> /\ Post("stop", Refreshed(p))
    BY <1>3 DEF ClickStop, Unserved
  <2>3. GoodPage(p)
    BY Before, OtherFields
  <2>4. p \in Page /\ p.run = page.run
    BY Before DEF Page
  <2> HIDE DEF p
  <2>5. GoodPage(Refreshed(p)) /\ Refreshed(p).run # None
    BY <2>1, <2>3, <2>4, RefreshedGood, RefreshedRun
  <2> QED BY <2>1, <2>2, <2>5, PostStep
<1>4. CASE ClickLatest
  <2>1. cmd["latest"] = Idle /\ cmd["latest"].pc # "posted" /\ Counted /\ "latest" \in Chains
    BY <1>4 DEF ClickLatest, Idle, Doing, Chains
  <2>2. UNCHANGED <<row, newest, log, ended, exec, inbox, pushes>> /\ LoadLatest("latest", page)
    BY <1>4 DEF ClickLatest, Unserved
  <2>3. /\ GoodPage(page') /\ cmd' \in [Chains -> Handler]
        /\ \A j \in Chains : GoodHandler(j, cmd'[j])
        /\ \A j \in Chains : j # "latest" => cmd'[j] = cmd[j]
    BY <2>1, <2>2, Before, LoadLatestGood
  <2>4. \A j \in Chains : cmd[j].pc = "posted" => cmd'[j] = cmd[j]
    BY <2>1, <2>3
  <2> QED BY <2>1, <2>2, <2>3, <2>4, QuietStep
<1> QED BY <1>1, <1>2, <1>3, <1>4 DEF Click

\* A handler that does not wait for a command goes on, and nothing else.
LEMMA HandlerStep ==
  ASSUME Inv, UNCHANGED <<row, newest, log, ended, exec, inbox, pushes>>,
         Counted \/ UNCHANGED used, NEW k \in Chains, cmd[k].pc # "posted",
         GoodPage(page'), cmd' \in [Chains -> Handler],
         \A j \in Chains : GoodHandler(j, cmd'[j]),
         \A j \in Chains : j # k => cmd'[j] = cmd[j]
  PROVE  Inv'
<1>1. \A j \in Chains : cmd[j].pc = "posted" => cmd'[j] = cmd[j]
  OBVIOUS
<1> QED BY <1>1, QuietStep

\* The connection is there; the handler that waited for it goes on.
LEMMA LinkedStep ==
  ASSUME Inv, NEW k \in Chains, Linked(k)
  PROVE  Inv'
<1> DEFINE p == [page EXCEPT !.link = "on"]
<1>1. cmd[k].pc = "link" /\ cmd[k].pc # "posted" /\ k \in {"init", "start", "resume"}
  BY Before DEF Linked, GoodHandler
<1>2. UNCHANGED <<row, newest, log, ended, exec, pushes, used>>
  BY DEF Linked, Unserved
<1>3. GoodPage(p)
  BY Before, LinkField
<1>4. CASE k = "init"
  <2>1. page' = p /\ cmd' = [cmd EXCEPT ![k].pc = "ready"] /\ UNCHANGED inbox
    BY <1>4 DEF Linked
  <2> DEFINE h == [cmd[k] EXCEPT !.pc = "ready"]
  <2>2. cmd' = [cmd EXCEPT ![k] = h]
    BY <2>1
  <2>3. GoodHandler(k, h)
    <3>1. cmd[k] \in Handler /\ GoodHandler(k, cmd[k])
      BY Before DEF GoodHandler
    <3>2. h \in Handler /\ h.pc = "ready" /\ h.run = cmd[k].run /\ h.snap = cmd[k].snap
      BY <3>1 DEF Handler
    <3> HIDE DEF h
    <3> QED BY <3>1, <3>2 DEF GoodHandler
  <2> HIDE DEF h, p
  <2>4. /\ cmd' \in [Chains -> Handler]
        /\ \A j \in Chains : GoodHandler(j, cmd'[j])
        /\ \A j \in Chains : j # k => cmd'[j] = cmd[j]
    BY <2>2, <2>3, Before, HandlerSet
  <2> QED BY <1>1, <1>2, <1>3, <2>1, <2>4, HandlerStep
<1>5. CASE k = "start"
  <2>1. PostStart(p)
    BY <1>5 DEF Linked
  <2> HIDE DEF p
  <2> QED BY <1>1, <1>2, <1>3, <1>5, <2>1, PostStartStep
<1>6. CASE k = "resume"
  <2>1. PostResume(p)
    BY <1>6 DEF Linked
  <2> HIDE DEF p
  <2> QED BY <1>1, <1>2, <1>3, <1>6, <2>1, PostResumeStep
<1> QED BY <1>1, <1>4, <1>5, <1>6

\* The connection cannot be made; the handler goes on without.
LEMMA NotLinkedStep ==
  ASSUME Inv, NEW k \in Chains, NotLinked(k)
  PROVE  Inv'
<1> DEFINE h == IF k = "init" THEN Doing("ready", None) ELSE Idle
<1>1. GoodHandler(k, h)
  BY DoingGood, IdleGood DEF Known
<1>2. /\ cmd' = [cmd EXCEPT ![k] = h] /\ cmd[k].pc # "posted" /\ Counted /\ page' = page
      /\ UNCHANGED <<row, newest, log, ended, exec, inbox, pushes>>
  BY DEF NotLinked, Unserved
<1> HIDE DEF h
<1>3. /\ cmd' \in [Chains -> Handler]
      /\ \A j \in Chains : GoodHandler(j, cmd'[j])
      /\ \A j \in Chains : j # k => cmd'[j] = cmd[j]
  BY <1>1, <1>2, Before, HandlerSet
<1>4. GoodPage(page')
  BY <1>2, Before
<1> QED BY <1>2, <1>3, <1>4, HandlerStep

\* The readiness is known; the initial load begins.
LEMMA ReadiedStep ==
  ASSUME Inv, Readied
  PROVE  Inv'
<1>1. PICK ready \in BOOLEAN : LoadLatest("init", Refreshed([page EXCEPT !.ready = ready]))
  BY DEF Readied
<1>2. /\ cmd["init"].pc # "posted" /\ "init" \in Chains
      /\ UNCHANGED <<row, newest, log, ended, exec, inbox, pushes, used>>
  BY DEF Readied, Unserved, Chains
<1> DEFINE p == Refreshed([page EXCEPT !.ready = ready])
<1>3. GoodPage([page EXCEPT !.ready = ready])
  BY Before, OtherFields
<1>4. GoodPage(p)
  BY <1>3, RefreshedGood
<1> HIDE DEF p
<1>5. /\ GoodPage(page') /\ cmd' \in [Chains -> Handler]
      /\ \A j \in Chains : GoodHandler(j, cmd'[j])
      /\ \A j \in Chains : j # "init" => cmd'[j] = cmd[j]
  BY <1>1, <1>2, <1>4, LoadLatestGood DEF p
<1> QED BY <1>2, <1>5, HandlerStep

\* A button that is enabled again, and the page of a run taken for running.
LEMMA UnloadedGood ==
  ASSUME Inv, NEW k \in {"start", "resume", "stop"}
  PROVE  GoodPage(Unloaded(k))
<1>1. page.on \cup {k} \in SUBSET {"start", "resume", "stop"}
  BY Before DEF Page
<1> QED BY <1>1, Before, OnField DEF Unloaded

\* A page whose run is taken for running and polled is good.
LEMMA ResumedGood ==
  ASSUME Inv, NEW p, GoodPage(p)
  PROVE  GoodPage(Resumed(p))
<1> DEFINE a == [p EXCEPT !.state = "Running", !.asked = FALSE]
           q == Refreshed(a)
<1>1. p \in Page
  BY DEF GoodPage
<1>2. a \in Page
  BY <1>1 DEF Page, Active
<1>3. /\ a.run = p.run /\ a.items = p.items /\ a.timer = p.timer /\ a.forgot = p.forgot
      /\ a.polls = p.polls /\ a.state = "Running"
  BY <1>1 DEF Page
<1> HIDE DEF a
<1>4. GoodPage(a)
  BY <1>2, <1>3 DEF GoodPage, ShownTrue, Active, Terminal
<1>5. GoodPage(q)
  BY <1>4, RefreshedGood
<1>6. q.run = p.run /\ q.state = "Running"
  BY <1>2, <1>3 DEF Refreshed, Page
<1>7. Resumed(p) = Polling(q, q.run)
  <2>1. Resumed(p) = Polling(q, p.run)
    BY DEF Resumed, a
  <2> HIDE DEF q
  <2> QED BY <1>6, <2>1
<1> HIDE DEF q
<1> QED BY <1>5, <1>6, <1>7, Before, ReviewAssumption, PollingGood

\* A start that is answered shows its run, if none is shown.
LEMMA StartedGood ==
  ASSUME Inv, NEW r \in Runs \cup {None}, Known(r), page.run = None \/ r = page.run
  PROVE  GoodPage(Polling(Refreshed([page EXCEPT !.run = r, !.state = "Running"]), r))
<1> DEFINE a == [page EXCEPT !.run = r, !.state = "Running"]
           q == Refreshed(a)
<1>1. page \in Page /\ GoodPage(page)
  BY Before
<1>2. a \in Page
  BY <1>1 DEF Page, Active
<1>3. /\ a.run = r /\ a.items = page.items /\ a.timer = page.timer /\ a.forgot = page.forgot
      /\ a.polls = page.polls /\ a.state = "Running"
  BY <1>1 DEF Page
<1>4. Polling(q, r) = LET w == [q EXCEPT !.timer = r, !.forgot = FALSE] IN
                      IF r = None THEN w ELSE Polled(w, r)
  BY DEF Polling
<1> DEFINE w == [q EXCEPT !.timer = r, !.forgot = FALSE]
<1>5. q = [a EXCEPT !.on = ButtonsOf(a)] /\ ButtonsOf(a) \in SUBSET {"start", "resume", "stop"}
  BY DEF Refreshed, ButtonsOf
<1> DEFINE on == ButtonsOf(a)
<1> HIDE DEF a, q, on
<1>6. /\ q \in Page /\ q.run = r /\ q.items = page.items /\ q.state = "Running"
      /\ q.polls = page.polls
  BY <1>2, <1>3, <1>5 DEF Page, on
<1>7. /\ w \in Page /\ w.run = r /\ w.items = page.items /\ w.state = "Running" /\ w.timer = r
      /\ w.polls = page.polls
  BY <1>6 DEF Page
<1> HIDE DEF w
<1>8. GoodPage(w)
  BY <1>1, <1>7 DEF GoodPage, ShownTrue, Active, Terminal
<1>9. r # None => GoodPage(Polled(w, r))
  BY <1>8, Before, PolledGood
<1>10. Polling(q, r) = IF r = None THEN w ELSE Polled(w, r)
  BY <1>4 DEF w
<1> QED BY <1>8, <1>9, <1>10 DEF q, a

\* The answer to a command arrives.
LEMMA AnsweredStep ==
  ASSUME Inv, NEW k \in Chains, Answered(k)
  PROVE  Inv'
<1>1. cmd[k].pc # "posted" /\ k \in {"start", "resume", "stop"}
  BY Before DEF Answered, GoodHandler
<1>2. UNCHANGED <<row, newest, log, ended, exec, inbox, pushes, used>>
  BY DEF Answered, Unserved
<1>3. PICK p : GoodPage(p) /\ LoadRun(k, p)
  <2>1. CASE k = "start"
    <3> DEFINE r == IF page.run = None THEN cmd[k].run ELSE page.run
    <3>1. LoadRun(k, Polling(Refreshed([page EXCEPT !.run = r, !.state = "Running"]), r))
      BY <2>1 DEF Answered
    <3>2. r \in Runs \cup {None} /\ Known(r) /\ (page.run = None \/ r = page.run)
      BY Before DEF GoodHandler
    <3> HIDE DEF r
    <3> QED BY <3>1, <3>2, StartedGood
  <2>2. CASE k = "resume"
    <3>1. LoadRun(k, Resumed(page))
      BY <2>2 DEF Answered
    <3> QED BY <3>1, Before, ResumedGood
  <2>3. CASE k = "stop"
    <3>1. LoadRun(k, Unloaded(k))
      BY <2>3 DEF Answered
    <3> QED BY <1>1, <3>1, UnloadedGood
  <2> QED BY <1>1, <2>1, <2>2, <2>3
<1>4. /\ GoodPage(page') /\ cmd' \in [Chains -> Handler]
      /\ \A j \in Chains : GoodHandler(j, cmd'[j])
      /\ \A j \in Chains : j # k => cmd'[j] = cmd[j]
  BY <1>3, LoadRunGood
<1> QED BY <1>1, <1>2, <1>4, HandlerStep

\* A request whose waiter goes on without the answer.
LEMMA AbandonStep ==
  ASSUME Inv, Counted \/ UNCHANGED used, UNCHANGED pushes, NEW k \in Chains, Abandon(k),
         GoodPage(page'), cmd' \in [Chains -> Handler],
         \A j \in Chains : GoodHandler(j, cmd'[j]),
         \A j \in Chains : j # k => cmd'[j] = cmd[j]
  PROVE  Inv'
<1>1. UNCHANGED <<row, newest, log, ended>>
  BY DEF Abandon
<1>2. Grows
  BY <1>1, Before, SameRows
<1>3. WaitsInv' /\ \A r \in Runs : exec'[r].pc = exec[r].pc /\ exec'[r].out = exec[r].out
  BY <1>2, Before, WaitsAbandoned
<1>4. GoodPushes(pushes') /\ used' \in 0 .. MaxMoves
  BY Before, UsedStays
<1> QED BY <1>1, <1>3, <1>4, PageStep

\* A command is taken for accepted without its answer.
LEMMA TimeOutStep ==
  ASSUME Inv, NEW k \in Chains, TimeOut(k)
  PROVE  Inv'
<1>1. k \in {"start", "resume"} /\ Abandon(k) /\ UNCHANGED <<pushes, used>>
  BY DEF TimeOut
<1>2. GoodPage(Unloaded(k))
  BY <1>1, UnloadedGood
<1>3. GoodPage(Resumed(Unloaded(k)))
  BY <1>2, ResumedGood
<1>4. LoadLatest(k, Unloaded(k)) \/ LoadRun(k, Resumed(Unloaded(k)))
  BY DEF TimeOut
<1>5. /\ GoodPage(page') /\ cmd' \in [Chains -> Handler]
      /\ \A j \in Chains : GoodHandler(j, cmd'[j])
      /\ \A j \in Chains : j # k => cmd'[j] = cmd[j]
  BY <1>2, <1>3, <1>4, LoadLatestGood, LoadRunGood
<1> QED BY <1>1, <1>5, AbandonStep

\* The refusal of a command arrives.
LEMMA RefusedStep ==
  ASSUME Inv, NEW k \in Chains, Refused(k)
  PROVE  Inv'
<1>1. /\ cmd[k].pc # "posted" /\ Caught(k, Unloaded(k))
      /\ UNCHANGED <<row, newest, log, ended, exec, inbox, pushes, used>>
  BY DEF Refused, Unserved
<1>2. k \in {"start", "resume", "stop"}
  BY Before DEF Refused, GoodHandler
<1>3. /\ GoodPage(page') /\ cmd' \in [Chains -> Handler]
      /\ \A j \in Chains : GoodHandler(j, cmd'[j])
      /\ \A j \in Chains : j # k => cmd'[j] = cmd[j]
  BY <1>1, <1>2, UnloadedGood, CaughtGood
<1> QED BY <1>1, <1>3, HandlerStep

\* A request or its answer is lost.
LEMMA LoseStep ==
  ASSUME Inv, NEW k \in Chains, Lose(k)
  PROVE  Inv'
<1>1. Counted /\ UNCHANGED pushes /\ Abandon(k)
  BY DEF Lose
<1> DEFINE p == IF cmd[k].pc = "posted" THEN Unloaded(k) ELSE page
<1>2. GoodPage(p)
  <2>1. CASE cmd[k].pc = "posted"
    <3>1. k \in {"start", "resume", "stop"}
      BY <2>1, Before DEF GoodHandler
    <3> QED BY <2>1, <3>1, UnloadedGood
  <2>2. CASE cmd[k].pc # "posted"
    BY <2>2, Before
  <2> QED BY <2>1, <2>2
<1>3. Caught(k, p)
  BY DEF Lose
<1> HIDE DEF p
<1>4. /\ GoodPage(page') /\ cmd' \in [Chains -> Handler]
      /\ \A j \in Chains : GoodHandler(j, cmd'[j])
      /\ \A j \in Chains : j # k => cmd'[j] = cmd[j]
  BY <1>2, <1>3, CaughtGood
<1> QED BY <1>1, <1>4, AbandonStep

\* A snapshot, or that there is none, arrives.
LEMMA LoadedStep ==
  ASSUME Inv, NEW k \in Chains, Loaded(k)
  PROVE  Inv'
<1> DEFINE s == cmd[k].snap
           latest == cmd[k].run = None
           p == IF s.run = None THEN NoRunApplied(page) ELSE SnapshotApplied(page, s)
           q == [p EXCEPT !.loading = @ /\ ~latest, !.syncing = @ /\ ~latest]
<1>1. /\ cmd[k].pc = "loaded" /\ cmd' = [cmd EXCEPT ![k] = Idle]
      /\ page' = (IF q.syncing # p.syncing THEN Refreshed(q) ELSE q)
      /\ UNCHANGED <<row, newest, log, ended, exec, inbox, pushes, used>>
  BY DEF Loaded, Unserved
<1>2. GoodPage(p)
  <2>1. CASE s.run = None
    <3>1. GoodPage(Forgotten(page, "Idle"))
      BY Before, ForgottenGood
    <3>2. GoodPage(NoRunApplied(page))
      BY <3>1, RefreshedGood DEF NoRunApplied
    <3> QED BY <2>1, <3>2
  <2>2. CASE s.run # None
    <3>1. s \in Snapshot /\ Known(s.run) /\ True(s.run, s.status, s.done)
      BY <2>2, Before DEF GoodHandler, Handler
    <3>2. GoodPage(SnapshotApplied(page, s))
      <4> HIDE DEF s
      <4> QED BY <2>2, <3>1, Before, SnapshotGood
    <3> QED BY <2>2, <3>2
  <2> QED BY <2>1, <2>2
<1>3. GoodPage(q)
  <2> DEFINE a == [p EXCEPT !.loading = FALSE]
             b == [a EXCEPT !.syncing = FALSE]
  <2> HIDE DEF p
  <2>1. p \in Page
    BY <1>2 DEF GoodPage
  <2>2. GoodPage(a)
    BY <1>2, OtherFields
  <2>3. GoodPage(b)
    <3> HIDE DEF a
    <3> QED BY <2>2, OtherFields
  <2>4. CASE latest
    <3>1. q = b
      BY <2>4
    <3> QED BY <2>3, <3>1
  <2>5. CASE ~latest
    <3>1. q = p
      BY <2>1, <2>5 DEF Page
    <3> QED BY <1>2, <3>1
  <2> QED BY <2>4, <2>5
<1>4. GoodPage(page')
  <2> HIDE DEF p, q
  <2> QED BY <1>1, <1>3, RefreshedGood
<1>5. GoodHandler(k, Idle) /\ cmd[k].pc # "posted"
  BY <1>1, IdleGood
<1>6. /\ cmd' \in [Chains -> Handler]
      /\ \A j \in Chains : GoodHandler(j, cmd'[j])
      /\ \A j \in Chains : j # k => cmd'[j] = cmd[j]
  BY <1>1, <1>5, Before, HandlerSet
<1> HIDE DEF p, q
<1> QED BY <1>1, <1>4, <1>5, <1>6, HandlerStep

\* The page alone.
LEMMA ScreenStep ==
  ASSUME Inv, UNCHANGED <<row, newest, log, ended, exec, inbox, cmd>>,
         Counted \/ UNCHANGED used, GoodPage(page'), GoodPushes(pushes')
  PROVE  Inv'
<1>1. Grows
  BY Before, SameRows
<1>2. exec' \in [Runs -> Executor] /\ \A r \in Runs : exec'[r].by \in {exec[r].by, "nobody"}
  BY Before DEF TypeOK
<1>3. WaitsInv'
  BY <1>1, <1>2, Before, WaitsKept
<1>4. cmd' \in [Chains -> Handler] /\ \A k \in Chains : GoodHandler(k, cmd'[k])
  BY Before, HandlersSame
<1>5. used' \in 0 .. MaxMoves
  BY Before, UsedStays
<1> QED BY <1>3, <1>4, <1>5, PageStepOnly

\* The timer polls its run.
LEMMA TickStep ==
  ASSUME Inv, Tick
  PROVE  Inv'
<1>1. page' = Polled(page, page.timer) /\ page.timer # None /\ pushes' = pushes
  BY DEF Tick
<1>2. page.timer \in Runs
  BY <1>1, Before DEF Page
<1>3. GoodPage(page') /\ GoodPushes(pushes')
  BY <1>1, <1>2, Before, PolledGood
<1>4. UNCHANGED <<row, newest, log, ended, exec, inbox, cmd, used>>
  BY DEF Tick, Unserved
<1> QED BY <1>3, <1>4, ScreenStep

\* Fewer polls are as good.
LEMMA DroppedGood ==
  ASSUME NEW p, GoodPage(p), NEW poll
  PROVE  GoodPage([p EXCEPT !.polls = @ \ {poll}])
<1> DEFINE q == [p EXCEPT !.polls = @ \ {poll}]
<1>1. p \in Page
  BY DEF GoodPage
<1>2. q \in Page
  BY <1>1 DEF Page
<1>3. /\ q.run = p.run /\ q.items = p.items /\ q.state = p.state /\ q.timer = p.timer
      /\ q.forgot = p.forgot /\ q.polls = p.polls \ {poll}
  BY <1>1 DEF Page
<1> HIDE DEF q
<1>4. GoodPage(q)
  BY <1>2, <1>3 DEF GoodPage, ShownTrue
<1> QED BY <1>4 DEF q

\* A poll is lost.
LEMMA LosePollStep ==
  ASSUME Inv, NEW poll \in page.polls, LosePoll(poll)
  PROVE  Inv'
<1>1. GoodPage(page') /\ GoodPushes(pushes')
  BY Before, DroppedGood DEF LosePoll
<1>2. UNCHANGED <<row, newest, log, ended, exec, inbox, cmd>> /\ Counted
  BY DEF LosePoll, Unserved
<1> QED BY <1>1, <1>2, ScreenStep

\* The answer to a poll is applied.
LEMMA ApplyPollStep ==
  ASSUME Inv, NEW poll \in page.polls, ApplyPoll(poll)
  PROVE  Inv'
<1> DEFINE d == [page EXCEPT !.polls = @ \ {poll}]
           ns == poll.after + 1 .. poll.upto
           p == Applied(d, poll.run, ns)
           q == [p EXCEPT !.seq = Max({@, poll.upto})]
<1>1. /\ page' = q /\ poll.upto # NotRead /\ pushes' = pushes
      /\ UNCHANGED <<row, newest, log, ended, exec, inbox, cmd, used>>
  BY DEF ApplyPoll, Unserved
<1>2. GoodPage(d)
  BY Before, DroppedGood
<1>3. poll.run \in Runs /\ poll.after \in Nat /\ poll.upto \in Nat /\ poll.upto <= Len(log[poll.run])
  <2>1. poll \in Poll /\ poll.upto <= Len(log[poll.run])
    BY Before DEF Page, GoodPage
  <2> QED BY <1>1, <2>1 DEF Poll
<1>4. ns \subseteq DOMAIN log[poll.run]
  <2>1. DOMAIN log[poll.run] = 1 .. Len(log[poll.run]) /\ Len(log[poll.run]) \in Nat
    BY <1>3, Before
  <2> QED BY <1>3, <2>1
<1>5. GoodPage(p)
  <2> HIDE DEF d, ns
  <2> QED BY <1>2, <1>3, <1>4, Before, AppliedGood
<1>6. GoodPage(q)
  <2> DEFINE m == Max({p.seq, poll.upto})
  <2> HIDE DEF p
  <2>1. p \in Page /\ p.seq \in Nat
    BY <1>5 DEF GoodPage, Page
  <2>2. m \in Nat
    <3> DEFINE S == {p.seq, poll.upto}
    <3>1. S \in SUBSET (0 .. p.seq + poll.upto) /\ S # {} /\ p.seq + poll.upto \in Nat
      BY <1>3, <2>1
    <3>2. S \in SUBSET Nat
      BY <1>3, <2>1
    <3>3. Max(S) \in S
      <4> HIDE DEF S
      <4> QED BY <3>1, MaxIn
    <3> QED BY <3>2, <3>3
  <2> HIDE DEF m
  <2> DEFINE w == [p EXCEPT !.seq = m]
  <2>3. /\ w \in Page /\ w.run = p.run /\ w.items = p.items /\ w.state = p.state
        /\ w.timer = p.timer /\ w.forgot = p.forgot /\ w.polls = p.polls
    BY <2>1, <2>2 DEF Page
  <2>4. q = w
    BY DEF m
  <2> HIDE DEF q, w
  <2> QED BY <1>5, <2>3, <2>4, SameShown
<1> HIDE DEF q
<1>7. GoodPage(page') /\ GoodPushes(pushes')
  BY <1>1, <1>6, Before
<1> QED BY <1>1, <1>7, ScreenStep

\* The first of a sequence is one of its members.
LEMMA FirstIn ==
  ASSUME NEW T, NEW s \in Seq(T), s # <<>>
  PROVE  1 \in DOMAIN s /\ s[1] \in T
OBVIOUS

\* What is left of a good sequence of messages is good.
LEMMA MembersIn ==
  ASSUME NEW T, NEW s \in Seq(T)
  PROVE  \A i \in DOMAIN s : s[i] \in T
OBVIOUS

\* A pushed event arrives.
LEMMA PushedStep ==
  ASSUME Inv, Pushed
  PROVE  Inv'
<1>1. /\ pushes # <<>> /\ page' = Applied(page, pushes[1].run, {pushes[1].sequence})
      /\ pushes' = Tail(pushes)
      /\ UNCHANGED <<row, newest, log, ended, exec, inbox, cmd, used>>
  BY DEF Pushed, Unserved
<1>2. GoodPushes(pushes')
  BY <1>1, Before, PushesAreGood
<1>3. 1 \in DOMAIN pushes /\ pushes[1].run \in Runs
  <2>1. pushes \in Seq([run : Runs, sequence : Nat])
    BY Before DEF TypeOK
  <2>2. 1 \in DOMAIN pushes /\ pushes[1] \in [run : Runs, sequence : Nat]
    BY <1>1, <2>1, FirstIn
  <2> QED BY <2>2
<1>4. {pushes[1].sequence} \subseteq DOMAIN log[pushes[1].run]
  BY <1>3, Before DEF GoodPushes
<1>5. GoodPage(page')
  BY <1>1, <1>3, <1>4, Before, AppliedGood
<1> QED BY <1>1, <1>2, <1>5, ScreenStep

\* The connection is back.
LEMMA ReconnectStep ==
  ASSUME Inv, Reconnect
  PROVE  Inv'
<1> DEFINE p == [page EXCEPT !.link = "on"]
           q == [page EXCEPT !.link = "off"]
<1>1. /\ page' \in {q, IF p.run = None THEN p ELSE Polled(p, p.run)}
      /\ UNCHANGED <<row, newest, log, ended, exec, inbox, cmd, used, pushes>>
  BY DEF Reconnect, Unserved
<1>2. GoodPage(p) /\ GoodPage(q)
  BY Before, LinkField
<1> HIDE DEF p, q
<1>3. p.run \in Runs \cup {None}
  BY <1>2 DEF GoodPage, Page
<1>4. p.run # None => GoodPage(Polled(p, p.run))
  BY <1>2, <1>3, Before, PolledGood
<1>5. GoodPage(page') /\ GoodPushes(pushes')
  BY <1>1, <1>2, <1>4, Before
<1> QED BY <1>1, <1>5, ScreenStep

\* The connection is lost, and with it the messages under way.
LEMMA DisconnectStep ==
  ASSUME Inv, Disconnect
  PROVE  Inv'
<1>1. /\ pushes' = <<>> /\ page' = [page EXCEPT !.link = "retrying"]
      /\ exec' = [r \in Runs |-> [exec[r] EXCEPT !.push = FALSE]]
      /\ inbox' = {[c EXCEPT !.push = FALSE] : c \in inbox}
      /\ UNCHANGED <<row, newest, log, ended, cmd>> /\ Counted
  BY DEF Disconnect, Unlink
<1>2. Grows
  BY <1>1, Before, SameRows
<1>3. \A c \in inbox : c \in Command /\ c.run \in Runs \cup {None}
  BY Before DEF TypeOK, Command
<1>4. \A d \in inbox' : \E c \in inbox : /\ d = [c EXCEPT !.push = FALSE] /\ d \in Command
                                         /\ d.kind = c.kind /\ d.run = c.run
                                         /\ d.saved = c.saved /\ d.by = c.by
  <2> TAKE d \in inbox'
  <2>1. PICK c \in inbox : d = [c EXCEPT !.push = FALSE]
    BY <1>1
  <2>2. /\ d \in Command /\ d.kind = c.kind /\ d.run = c.run
        /\ d.saved = c.saved /\ d.by = c.by
    BY <1>3, <2>1 DEF Command
  <2> QED BY <2>1, <2>2
<1>5. \A r \in Runs : /\ exec'[r] \in Executor /\ exec'[r].pc = exec[r].pc
                      /\ exec'[r].by = exec[r].by /\ exec'[r].out = exec[r].out
  <2> TAKE r \in Runs
  <2>1. exec[r] \in Executor /\ exec'[r] = [exec[r] EXCEPT !.push = FALSE]
    BY <1>1, Before DEF TypeOK
  <2> QED BY <2>1 DEF Executor
<1>6. \A c \in inbox : Known(c.run)'
  <2> TAKE c \in inbox
  <2>1. Known(c.run)
    BY Before DEF CommandsInv
  <2>2. row' = row
    BY <1>1
  <2> QED BY <2>1, <2>2 DEF Known
<1>7. exec' \in [Runs -> Executor] /\ inbox' \in SUBSET Command
  BY <1>1, <1>4, <1>5
<1>8. \A d \in inbox' : /\ d.by # "nobody" => cmd'[d.by].pc = "posted"
                        /\ d.by \in {d.kind, "nobody"}
                        /\ d.kind = "start" \/ d.run # None
                        /\ d.saved => d.kind = "stop"
                        /\ Known(d.run)'
  <2> TAKE d \in inbox'
  <2>1. PICK c \in inbox : /\ d.kind = c.kind /\ d.run = c.run
                           /\ d.saved = c.saved /\ d.by = c.by
    BY <1>4
  <2>2. Known(d.run)'
    BY <2>1, <1>6 DEF Known
  <2>3. TypeOK /\ CommandsInv /\ cmd' = cmd
    BY <1>1, Before
  <2> QED BY <2>1, <2>2, <2>3 DEF CommandsInv, TypeOK
<1>9. \A d, f \in inbox' : d.by = f.by => d = f \/ d.by = "nobody"
  <2> TAKE d, f \in inbox'
  <2>1. PICK c \in inbox : d = [c EXCEPT !.push = FALSE] /\ d.by = c.by
    BY <1>4
  <2>2. PICK g \in inbox : f = [g EXCEPT !.push = FALSE] /\ f.by = g.by
    BY <1>4
  <2>3. d.by = f.by /\ d.by # "nobody" => c = g
    BY <2>1, <2>2, Before DEF CommandsInv
  <2> QED BY <2>1, <2>2, <2>3
<1>10. \A s, t \in Runs : exec'[s].by = exec'[t].by => s = t \/ exec'[s].by = "nobody"
  BY <1>5, Before DEF CommandsInv
<1>11. \A d \in inbox', s \in Runs : d.by = exec'[s].by => d.by = "nobody"
  <2> TAKE d \in inbox', s \in Runs
  <2>1. PICK c \in inbox : d.by = c.by
    BY <1>4
  <2>2. c.by = exec[s].by => c.by = "nobody"
    BY Before DEF CommandsInv
  <2>3. exec'[s].by = exec[s].by
    BY <1>5
  <2> QED BY <2>1, <2>2, <2>3
<1>12. CommandsInv'
  BY <1>8, <1>9, <1>10, <1>11 DEF CommandsInv
<1>13. \A r \in Runs : exec'[r].by # "nobody" => cmd'[exec'[r].by].pc = "posted"
  BY <1>1, <1>5, Before DEF TypeOK
<1>14. WaitsInv'
  BY <1>7, <1>8, <1>12, <1>13 DEF WaitsInv
<1>15. GoodPage(page')
  BY <1>1, Before, LinkField
<1>16. cmd' \in [Chains -> Handler] /\ \A k \in Chains : GoodHandler(k, cmd'[k])
  BY <1>1, Before, HandlersSame
<1>17. GoodPushes(pushes')
  BY <1>1 DEF GoodPushes, Pushing
<1>18. used' \in 0 .. MaxMoves
  BY <1>1, Before, UsedStays
<1> QED BY <1>1, <1>5, <1>14, <1>15, <1>16, <1>17, <1>18, PageStep

-----------------------------------------------------------------------------
(* Steps of the server *)

\* A step of the server, after which the page shows p.
LEMMA ServerStep ==
  ASSUME Inv, Grows, ServerInv', WaitsInv', HandlersInv', cmd' \in [Chains -> Handler],
         NEW p, GoodPage(p), page' = p, newest' \in Runs \cup {None},
         log' \in [Runs -> Seq(Event)], \A r \in Runs : Len(log[r]) <= Len(log'[r]),
         pushes' \in Pushing,
         \A i \in DOMAIN pushes' : pushes'[i].sequence \in DOMAIN log'[pushes'[i].run],
         Counted \/ UNCHANGED used
  PROVE  Inv'
<1>1. GoodPage(p)'
  BY Before, PageStays
<1>2. p \in Page /\ ShownTrue(page)'
  BY <1>1 DEF GoodPage, ShownTrue, Known
<1>3. TransitInv'
  BY <1>1 DEF GoodPage, TransitInv
<1>4. used' \in 0 .. MaxMoves
  BY Before, UsedStays
<1>5. TypeOK'
  BY <1>2, <1>4 DEF WaitsInv, Grows, TypeOK, Pushing
<1>6. CommandsInv'
  BY DEF WaitsInv
<1> QED BY <1>2, <1>3, <1>5, <1>6 DEF Inv

\* Logs and messages stay.
LEMMA SilentStep ==
  ASSUME Inv, Grows, ServerInv', WaitsInv', HandlersInv', cmd' \in [Chains -> Handler],
         NEW p, GoodPage(p), page' = p, newest' \in Runs \cup {None},
         UNCHANGED <<log, pushes>>, Counted \/ UNCHANGED used
  PROVE  Inv'
<1>1. /\ log' \in [Runs -> Seq(Event)] /\ log' = log
      /\ \A r \in Runs : Len(log[r]) \in Nat
  BY Before
<1>2. /\ pushes' \in Pushing
      /\ \A i \in DOMAIN pushes' : pushes'[i].sequence \in DOMAIN log'[pushes'[i].run]
  BY <1>1, Before DEF GoodPushes
<1>3. \A r \in Runs : Len(log[r]) <= Len(log'[r])
  BY <1>1
<1> QED BY <1>1, <1>2, <1>3, ServerStep

\* The server leaves the handlers alone.
LEMMA HandlersKept ==
  ASSUME TypeOK, HandlersInv, Grows, UNCHANGED cmd
  PROVE  HandlersInv' /\ cmd' \in [Chains -> Handler]
<1>1. cmd' = cmd /\ cmd \in [Chains -> Handler]
  BY DEF TypeOK
<1>2. ASSUME NEW k \in Chains
      PROVE  /\ cmd'[k].pc = "link" => k \in {"init", "start", "resume"}
             /\ cmd'[k].pc \in {"posted", "answered", "refused"} => k \in {"start", "resume", "stop"}
             /\ Known(cmd[k].run)'
             /\ cmd'[k].snap.run # None =>
                  Known(cmd[k].snap.run)' /\ True(cmd[k].snap.run, cmd[k].snap.status, cmd[k].snap.done)'
  <2>1. PICK h : h = cmd[k]
    OBVIOUS
  <2>2. GoodHandler(k, h)
    BY <2>1, HandlersAreGood
  <2>3. GoodHandler(k, h)'
    BY <2>2, HandlerStays
  <2> QED BY <1>1, <2>1, <2>3 DEF GoodHandler, Known, True
<1> QED BY <1>1, <1>2 DEF HandlersInv

\* A waiting handler is answered.
LEMMA HandlersAnswered ==
  ASSUME TypeOK, HandlersInv, Grows, NEW j \in {"start", "resume", "stop", "nobody"},
         NEW pc \in {"answered", "refused"}, NEW r \in Runs \cup {None}, Known(r),
         Answer(j, pc, r)
  PROVE  HandlersInv' /\ cmd' \in [Chains -> Handler]
<1>1. CASE j = "nobody"
  BY <1>1, HandlersKept DEF Answer
<1>2. CASE j # "nobody"
  <2>1. j \in {"start", "resume", "stop"} /\ j \in Chains
    BY <1>2 DEF Chains
  <2> DEFINE g == Doing(pc, r)
  <2>2. GoodHandler(j, g)
    BY <2>1, DoingGood
  <2>3. cmd' = [cmd EXCEPT ![j] = g]
    BY <1>2 DEF Answer
  <2> HIDE DEF g
  <2>4. cmd' \in [Chains -> Handler] /\ \A k \in Chains : GoodHandler(k, cmd'[k])
    BY <2>1, <2>2, <2>3, HandlerSet
  <2>5. ASSUME NEW k \in Chains
        PROVE  /\ cmd'[k].pc = "link" => k \in {"init", "start", "resume"}
               /\ cmd'[k].pc \in {"posted", "answered", "refused"} => k \in {"start", "resume", "stop"}
               /\ Known(cmd[k].run)'
               /\ cmd'[k].snap.run # None =>
                    Known(cmd[k].snap.run)' /\ True(cmd[k].snap.run, cmd[k].snap.status, cmd[k].snap.done)'
    <3>1. PICK h : h = cmd'[k]
      OBVIOUS
    <3>2. GoodHandler(k, h)
      BY <2>4, <3>1
    <3>3. GoodHandler(k, h)'
      BY <3>2, HandlerStays
    <3> QED BY <3>1, <3>3 DEF GoodHandler, Known, True
  <2> QED BY <2>4, <2>5 DEF HandlersInv
<1> QED BY <1>1, <1>2

\* What a command of the inbox looks like.
LEMMA CommandFacts ==
  ASSUME Inv, NEW c \in inbox
  PROVE  /\ c \in Command /\ c.run \in Runs \cup {None} /\ Known(c.run)
         /\ c.by \in {"start", "resume", "stop", "nobody"} /\ c.by \in {c.kind, "nobody"}
         /\ c.kind # "start" => c.run \in Runs
         /\ c.saved => c.kind = "stop"
<1>1. c \in Command
  BY Before DEF TypeOK
<1>2. /\ c.by \in {c.kind, "nobody"} /\ (c.kind = "start" \/ c.run # None)
      /\ (c.saved => c.kind = "stop") /\ Known(c.run)
  BY Before DEF CommandsInv
<1> QED BY <1>1, <1>2 DEF Command

\* An event that is true after the step.
NowTrue(r, e) == e.done <= row'[r].done /\ (e.state \in Terminal => r \in ended')

\* The server does what is true: what it adds to logs and executors is.
LEMMA ServerGrown ==
  ASSUME TypeOK, ServerInv, Grows, Known(newest)',
         \A r \in Runs : log'[r] # <<>> \/ exec'[r].pc # "none" \/ exec'[r].out # <<>> => Known(r)',
         \A r \in Runs : \A n \in DOMAIN log'[r] :
            (n \in DOMAIN log[r] /\ log'[r][n] = log[r][n]) \/ NowTrue(r, log'[r][n]),
         \A r \in Runs : \/ exec'[r].out = exec[r].out
                         \/ \A n \in DOMAIN exec'[r].out : NowTrue(r, exec'[r].out[n])
  PROVE  ServerInv'
<1>1. ASSUME NEW r \in Runs
      PROVE  /\ row'[r].status \in Terminal => r \in ended'
             /\ row'[r].status = "Absent" => row'[r].done = 0
             /\ AllTrue(r, log[r])' /\ AllTrue(r, exec[r].out)'
  <2>1. \A n \in DOMAIN log[r] : log[r][n] \in Event /\ True(r, log[r][n].state, log[r][n].done)
    BY DEF TypeOK, ServerInv, AllTrue
  <2>2. \A n \in DOMAIN exec[r].out : /\ exec[r].out[n] \in Event
                                      /\ True(r, exec[r].out[n].state, exec[r].out[n].done)
    <3>1. exec[r].out \in Seq(Event)
      BY DEF TypeOK, Executor
    <3> QED BY <3>1 DEF ServerInv, AllTrue
  <2>3. ASSUME NEW e \in Event, True(r, e.state, e.done) PROVE NowTrue(r, e)
    <3>1. e.done \in Nat /\ row[r].done \in Nat /\ row'[r].done \in Nat
      BY DEF Event, TypeOK, Grows, Row
    <3> QED BY <3>1, <2>3 DEF True, NowTrue, Grows
  <2>4. \A n \in DOMAIN log'[r] : NowTrue(r, log'[r][n])
    BY <2>1, <2>3
  <2>5. \A n \in DOMAIN exec'[r].out : NowTrue(r, exec'[r].out[n])
    BY <2>2, <2>3
  <2>6. AllTrue(r, log[r])' /\ AllTrue(r, exec[r].out)'
    BY <2>4, <2>5 DEF AllTrue, True, NowTrue
  <2>7. row'[r].status = "Absent" => row'[r].done = 0
    BY DEF Grows, ServerInv
  <2> QED BY <2>6, <2>7 DEF Grows
<1> QED BY <1>1 DEF ServerInv

\* A start command is served: a new run is created.
LEMMA ServeStartStep ==
  ASSUME Inv, NEW c \in inbox, ServeStart(c)
  PROVE  Inv'
<1>1. PICK r \in Runs :
          /\ row[r].status = "Absent"
          /\ row' = [Recovered EXCEPT ![r] = [NoRow EXCEPT !.status = "Pending"]]
          /\ newest' = r
          /\ Begin(r, c, <<Happens("Pending", "snapshot-created", 0)>>)
  BY DEF ServeStart
<1>2. /\ c.kind = "start" /\ ended' = Over(Recovered)
      /\ UNCHANGED <<log, page, cmd, pushes, used>>
  BY DEF ServeStart
<1> DEFINE new == [NoRow EXCEPT !.status = "Pending"]
           e == Happens("Pending", "snapshot-created", 0)
           out == <<e>>
<1>3. new \in Row /\ new.status = "Pending" /\ new.done = 0
  BY DEF NoRow, Row, Active
<1>4. e \in Event /\ e.state = "Pending" /\ e.done = 0
  BY DEF Happens, Event, Active
<1>5. out \in Seq(Event) /\ out # <<>> /\ \A n \in DOMAIN out : out[n] = e
  <2> HIDE DEF e
  <2> QED BY <1>4
<1> HIDE DEF new, e, out
<1>6. Recovered \in [Runs -> Row]
  BY <1>1, Before, RecoveredRow
<1>7. row' = [Recovered EXCEPT ![r] = new] /\ Begin(r, c, out)
  BY <1>1 DEF new, out, e
<1>8. \A s \in Runs : /\ Recovered[s].done = row[s].done /\ row[s].done \in Nat
                      /\ (Recovered[s].status = "Absent" <=> row[s].status = "Absent")
                      /\ (Recovered[s].status = "Absent" => Recovered[s] = row[s])
  BY Before, RecoveredRow
<1>9. row[r].done = 0
  BY <1>1, Before DEF ServerInv
<1>10. row'[r] = new /\ \A s \in Runs : s # r => row'[s] = Recovered[s]
  BY <1>6, <1>7
<1>11. row' \in [Runs -> Row]
  BY <1>3, <1>6, <1>7
<1>12. Grows
  <2>1. ended \in SUBSET Runs
    BY Before DEF TypeOK
  <2>2. ended' = ended \cup {s \in Runs : Recovered[s].status \in Terminal}
    BY <1>2 DEF Over
  <2>3. \A s \in Runs : s # r => /\ row[s].status # "Absent" => row'[s].status # "Absent"
                                 /\ row[s].done <= row'[s].done
                                 /\ row'[s].status \in Terminal => s \in ended'
                                 /\ row'[s].status = "Absent" => row'[s] = row[s]
    BY <1>8, <1>10, <2>2
  <2>4. /\ row'[r].status \notin Terminal /\ row'[r].status # "Absent"
        /\ row[r].done <= row'[r].done
    BY <1>3, <1>9, <1>10 DEF Terminal
  <2> QED BY <1>11, <2>1, <2>2, <2>3, <2>4 DEF Grows
<1>13. /\ WaitsInv' /\ exec'[r].out = out
       /\ \A s \in Runs : s # r => exec'[s] = exec[s]
  BY <1>2, <1>5, <1>7, <1>12, Before, WaitsBegun
<1>14. Known(r)'
  BY <1>3, <1>10 DEF Known
<1>15. ServerInv'
  <2>1. \A s \in Runs : log[s] # <<>> \/ exec[s].pc # "none" \/ exec[s].out # <<>> => Known(s)
    BY Before DEF ServerInv
  <2>2. \A s \in Runs : log'[s] # <<>> \/ exec'[s].pc # "none" \/ exec'[s].out # <<>> => Known(s)'
    <3> TAKE s \in Runs
    <3>1. CASE s = r
      BY <3>1, <1>3, <1>10 DEF Known
    <3>2. CASE s # r
      BY <3>2, <1>2, <1>12, <1>13, <2>1, Before DEF Known, Grows
    <3> QED BY <3>1, <3>2
  <2>3. \A n \in DOMAIN exec'[r].out : NowTrue(r, exec'[r].out[n])
    BY <1>3, <1>4, <1>5, <1>10, <1>13 DEF NowTrue, Terminal
  <2>4. \A s \in Runs : \/ exec'[s].out = exec[s].out
                         \/ \A n \in DOMAIN exec'[s].out : NowTrue(s, exec'[s].out[n])
    BY <1>13, <2>3
  <2>5. Known(newest)'
    BY <1>1, <1>3, <1>10 DEF Known
  <2>6. log' = log
    BY <1>2
  <2> QED BY <1>12, <2>2, <2>4, <2>5, <2>6, Before, ServerGrown
<1>16. HandlersInv' /\ cmd' \in [Chains -> Handler]
  BY <1>2, <1>12, Before, HandlersKept
<1> QED BY <1>1, <1>2, <1>12, <1>13, <1>15, <1>16, Before, SilentStep

\* A resume command is served: an execution of its run begins.
LEMMA ServeResumeStep ==
  ASSUME Inv, NEW c \in inbox, ServeResume(c)
  PROVE  Inv'
<1>1. /\ c.kind = "resume" /\ Begin(c.run, c, <<>>)
      /\ UNCHANGED <<row, newest, log, page, cmd, pushes, used, ended>>
  BY DEF ServeResume
<1>2. c.run \in Runs /\ Known(c.run)
  BY <1>1, CommandFacts
<1>3. Grows
  BY <1>1, Before, SameRows
<1>4. /\ WaitsInv' /\ exec'[c.run].out = <<>>
      /\ \A s \in Runs : s # c.run => exec'[s] = exec[s]
  <2>0. <<>> \in Seq(Event)
    OBVIOUS
  <2>1. PICK out \in Seq(Event) : out = <<>>
    BY <2>0
  <2>2. Begin(c.run, c, out) /\ c.kind # "stop" /\ cmd' = cmd
    BY <1>1, <2>1
  <2>3. TypeOK /\ CommandsInv
    BY Before
  <2> QED BY <1>2, <1>3, <2>1, <2>2, <2>3, WaitsBegun
<1>5. ServerInv'
  <2>1. \A s \in Runs : /\ exec'[s].out \in {exec[s].out, <<>>}
                        /\ exec'[s].pc # "none" => exec[s].pc # "none" \/ Known(s)
    BY <1>2, <1>4
  <2> QED BY <1>1, <1>3, <2>1, Before, ServerKept
<1>6. HandlersInv' /\ cmd' \in [Chains -> Handler]
  BY <1>1, <1>3, Before, HandlersKept
<1>7. newest' \in Runs \cup {None}
  BY <1>1, Before DEF TypeOK
<1> QED BY <1>1, <1>3, <1>4, <1>5, <1>6, <1>7, Before, SilentStep

\* A command is answered at once.
LEMMA AnsweredAtOnce ==
  ASSUME Inv, NEW c \in inbox, NEW pc \in {"answered", "refused"}, Answer(c.by, pc, c.run),
         inbox' = inbox \ {c}, UNCHANGED <<row, newest, log, exec, page, pushes, ended>>,
         Counted \/ UNCHANGED used
  PROVE  Inv'
<1>1. Grows
  BY Before, SameRows
<1>2. WaitsInv'
  BY <1>1, Before, WaitsAnswered
<1>3. HandlersInv' /\ cmd' \in [Chains -> Handler]
  BY <1>1, Before, CommandFacts, HandlersAnswered
<1>4. ServerInv'
  BY <1>1, Before, ServerKept
<1>5. newest' \in Runs \cup {None}
  BY Before DEF TypeOK
<1> QED BY <1>1, <1>2, <1>3, <1>4, <1>5, Before, SilentStep

\* A command that finds nothing to do is answered.
LEMMA ServeNothingStep ==
  ASSUME Inv, NEW c \in inbox, ServeNothing(c)
  PROVE  Inv'
BY AnsweredAtOnce DEF ServeNothing

\* A command is refused.
LEMMA RefuseStep ==
  ASSUME Inv, NEW c \in inbox, Refuse(c)
  PROVE  Inv'
<1>1. Counted \/ UNCHANGED used
  BY DEF Refuse
<1> QED BY <1>1, AnsweredAtOnce DEF Refuse

\* A created execution is refused by its readiness check.
LEMMA RefuseCreatedStep ==
  ASSUME Inv, NEW r \in Runs, RefuseCreated(r)
  PROVE  Inv'
<1>1. /\ exec[r].pc = "created" /\ Counted /\ Answer(exec[r].by, "refused", r)
      /\ exec' = [exec EXCEPT ![r] = NoExecutor]
      /\ UNCHANGED <<row, newest, log, inbox, page, pushes, ended>>
  BY DEF RefuseCreated
<1>2. Grows
  BY <1>1, Before, SameRows
<1>3. WaitsInv'
  BY <1>1, <1>2, Before, WaitsEnded
<1>4. exec[r].by \in {"start", "resume", "stop", "nobody"} /\ Known(r)
  BY <1>1, Before DEF TypeOK, Executor, ServerInv
<1>5. HandlersInv' /\ cmd' \in [Chains -> Handler]
  BY <1>1, <1>2, <1>4, Before, HandlersAnswered
<1>6. \A s \in Runs : /\ exec'[s].out \in {exec[s].out, <<>>}
                      /\ exec'[s].pc # "none" => exec[s].pc # "none" \/ Known(s)
  BY <1>1, Before DEF TypeOK, NoExecutor
<1>7. ServerInv'
  BY <1>1, <1>2, <1>6, Before, ServerKept
<1>8. newest' \in Runs \cup {None}
  BY <1>1, Before DEF TypeOK
<1> QED BY <1>1, <1>2, <1>3, <1>5, <1>7, <1>8, Before, SilentStep

\* A stop command saves its request; the event is still to come.
LEMMA ServeStopStep ==
  ASSUME Inv, NEW c \in inbox, ServeStop(c)
  PROVE  Inv'
<1> DEFINE r == c.run
           new == [row[r] EXCEPT !.cancel = TRUE]
           d == [c EXCEPT !.saved = TRUE]
<1>1. /\ c.kind = "stop" /\ ~c.saved /\ row[r].status \in Active /\ Record(r, new)
      /\ inbox' = (inbox \ {c}) \cup {d}
      /\ UNCHANGED <<newest, log, exec, page, cmd, pushes, used>>
  BY DEF ServeStop
<1>2. c \in Command /\ r \in Runs
  BY <1>1, CommandFacts
<1>3. row[r] \in Row
  BY <1>2, Before DEF TypeOK
<1>4. new \in Row /\ new.status = row[r].status /\ new.done = row[r].done /\ row[r].done \in Nat
  BY <1>3 DEF Row
<1>5. Grows
  <2>1. row[r].status # "Absent" /\ row[r].done <= new.done
    BY <1>1, <1>4 DEF Active
  <2> HIDE DEF new, r
  <2> QED BY <1>1, <1>2, <1>4, <2>1, Before, RecordGrows
<1>6. /\ d \in Command /\ d.kind = c.kind /\ d.run = c.run /\ d.saved /\ d.by = c.by
  BY <1>2 DEF Command
<1> HIDE DEF new, d
<1>7. \A f \in inbox : Known(f.run)'
  <2> TAKE f \in inbox
  <2>1. Known(f.run) /\ f.run \in Runs \cup {None}
    BY CommandFacts
  <2> QED BY <1>5, <2>1 DEF Known, Grows
<1>8. Known(d.run)'
  BY <1>6, <1>7 DEF Known
<1>9. CommandsInv /\ TypeOK
  BY Before
<1>10. \A f \in inbox' : /\ f.by \in {f.kind, "nobody"}
                         /\ f.kind = "start" \/ f.run # None
                         /\ f.saved => f.kind = "stop"
                         /\ Known(f.run)'
  BY <1>1, <1>6, <1>7, <1>8, <1>9 DEF CommandsInv
<1>11. \A f, g \in inbox' : f.by = g.by => f = g \/ f.by = "nobody"
  BY <1>1, <1>6, <1>9 DEF CommandsInv
<1>12. \A f \in inbox', s \in Runs : f.by = exec'[s].by => f.by = "nobody"
  BY <1>1, <1>6, <1>9 DEF CommandsInv
<1>13. \A s, t \in Runs : exec'[s].by = exec'[t].by => s = t \/ exec'[s].by = "nobody"
  BY <1>1, <1>9 DEF CommandsInv
<1>14. CommandsInv'
  BY <1>10, <1>11, <1>12, <1>13 DEF CommandsInv
<1>15. \A f \in inbox' : f.by # "nobody" => cmd'[f.by].pc = "posted"
  BY <1>1, <1>6, <1>9 DEF TypeOK
<1>16. WaitsInv'
  BY <1>1, <1>6, <1>9, <1>14, <1>15 DEF WaitsInv, TypeOK
<1>17. HandlersInv' /\ cmd' \in [Chains -> Handler]
  BY <1>1, <1>5, Before, HandlersKept
<1>18. ServerInv'
  <2>1. \A s \in Runs : /\ exec'[s].out \in {exec[s].out, <<>>}
                        /\ exec'[s].pc # "none" => exec[s].pc # "none" \/ Known(s)
    BY <1>1
  <2> QED BY <1>1, <1>5, <2>1, Before, ServerKept
<1>19. newest' \in Runs \cup {None} /\ UNCHANGED <<log, pushes, page, used>>
  BY <1>1, <1>9 DEF TypeOK
<1> QED BY <1>5, <1>16, <1>17, <1>18, <1>19, Before, SilentStep

\* An event is appended to the log of run r.
LEMMA Appended ==
  ASSUME Inv, NEW r \in Runs, NEW e \in Event, log' = [log EXCEPT ![r] = Append(@, e)]
  PROVE  /\ log' \in [Runs -> Seq(Event)]
         /\ \A s \in Runs : Len(log[s]) <= Len(log'[s]) /\ DOMAIN log[s] \subseteq DOMAIN log'[s]
         /\ Len(log[r]) + 1 \in DOMAIN log'[r]
         /\ \A s \in Runs : s # r => log'[s] = log[s]
         /\ \A n \in DOMAIN log'[r] : (n \in DOMAIN log[r] /\ log'[r][n] = log[r][n]) \/ log'[r][n] = e
<1>1. \A s \in Runs : log[s] \in Seq(Event) /\ Len(log[s]) \in Nat
  BY Before
<1> DEFINE new == Append(log[r], e)
<1>2. /\ new \in Seq(Event) /\ Len(new) = Len(log[r]) + 1
      /\ DOMAIN new = 1 .. Len(log[r]) + 1 /\ DOMAIN log[r] = 1 .. Len(log[r])
      /\ \A n \in DOMAIN new : new[n] = IF n \in DOMAIN log[r] THEN log[r][n] ELSE e
  BY <1>1
<1>3. log' = [log EXCEPT ![r] = new] /\ log \in [Runs -> Seq(Event)]
  BY Before
<1> HIDE DEF new
<1>4. log' \in [Runs -> Seq(Event)] /\ log'[r] = new /\ \A s \in Runs : s # r => log'[s] = log[s]
  BY <1>2, <1>3
<1>5. \A s \in Runs : Len(log[s]) <= Len(log'[s]) /\ DOMAIN log[s] \subseteq DOMAIN log'[s]
  <2> TAKE s \in Runs
  <2>1. CASE s = r
    BY <2>1, <1>1, <1>2, <1>4
  <2>2. CASE s # r
    BY <2>2, <1>1, <1>4
  <2> QED BY <2>1, <2>2
<1>6. Len(log[r]) + 1 \in DOMAIN new
  BY <1>1, <1>2
<1> QED BY <1>2, <1>4, <1>5, <1>6

\* An event that is true is published: logs grow, messages may be sent.
LEMMA PublishedStep ==
  ASSUME Inv, NEW r \in Runs, NEW e \in Event, True(r, e.state, e.done), Known(r),
         log' = [log EXCEPT ![r] = Append(@, e)],
         UNCHANGED <<row, newest, ended, page, used>>,
         pushes' \in {pushes, Append(pushes, [run |-> r, sequence |-> Len(log[r]) + 1])},
         \A s \in Runs : /\ exec'[s].out \in {exec[s].out, <<>>}
                         /\ exec'[s].pc # "none" => exec[s].pc # "none" \/ Known(s),
         WaitsInv', HandlersInv', cmd' \in [Chains -> Handler]
  PROVE  Inv'
<1>1. Grows
  BY Before, SameRows
<1>2. /\ log' \in [Runs -> Seq(Event)]
      /\ \A s \in Runs : Len(log[s]) <= Len(log'[s]) /\ DOMAIN log[s] \subseteq DOMAIN log'[s]
      /\ Len(log[r]) + 1 \in DOMAIN log'[r]
      /\ \A s \in Runs : s # r => log'[s] = log[s]
      /\ \A n \in DOMAIN log'[r] : (n \in DOMAIN log[r] /\ log'[r][n] = log[r][n]) \/ log'[r][n] = e
  <2>1. log' = [log EXCEPT ![r] = Append(@, e)]
    OBVIOUS
  <2>2. log' \in [Runs -> Seq(Event)]
    BY <2>1, Appended
  <2>3. \A s \in Runs : Len(log[s]) <= Len(log'[s]) /\ DOMAIN log[s] \subseteq DOMAIN log'[s]
    BY <2>1, Appended
  <2>4. Len(log[r]) + 1 \in DOMAIN log'[r]
    BY <2>1, Appended
  <2>5. \A s \in Runs : s # r => log'[s] = log[s]
    BY <2>1, Appended
  <2>6. \A n \in DOMAIN log'[r] : (n \in DOMAIN log[r] /\ log'[r][n] = log[r][n]) \/ log'[r][n] = e
    BY <2>1, Appended
  <2> QED BY <2>2, <2>3, <2>4, <2>5, <2>6
<1>3. NowTrue(r, e)
  BY DEF NowTrue, True
<1>4. ServerInv'
  <2>1. \A s \in Runs : \A n \in DOMAIN log'[s] :
          (n \in DOMAIN log[s] /\ log'[s][n] = log[s][n]) \/ NowTrue(s, log'[s][n])
    <3> TAKE s \in Runs
    <3>1. CASE s = r
      BY <3>1, <1>2, <1>3
    <3>2. CASE s # r
      BY <3>2, <1>2
    <3> QED BY <3>1, <3>2
  <2>2. \A s \in Runs : \/ exec'[s].out = exec[s].out
                        \/ \A n \in DOMAIN exec'[s].out : NowTrue(s, exec'[s].out[n])
    <3> TAKE s \in Runs
    <3>1. CASE exec'[s].out = exec[s].out
      BY <3>1
    <3>2. CASE exec'[s].out = <<>>
      BY <3>2
    <3> QED BY <3>1, <3>2
  <2>3. ServerInv
    BY Before
  <2>4. \A s \in Runs : log'[s] # <<>> \/ exec'[s].pc # "none" \/ exec'[s].out # <<>> => Known(s)'
    <3> TAKE s \in Runs
    <3>1. Known(s) <=> Known(s)'
      BY DEF Known
    <3>2. log[s] # <<>> \/ exec[s].pc # "none" \/ exec[s].out # <<>> => Known(s)
      BY <2>3 DEF ServerInv
    <3>3. CASE s = r
      BY <3>1, <3>3
    <3>4. CASE s # r
      BY <1>2, <3>1, <3>2, <3>4
    <3> QED BY <3>3, <3>4
  <2>5. Known(newest)'
    BY <2>3 DEF ServerInv, Known
  <2> QED BY <1>1, <2>1, <2>2, <2>3, <2>4, <2>5, Before, ServerGrown
<1> DEFINE m == [run |-> r, sequence |-> Len(log[r]) + 1]
<1>5. m \in [run : Runs, sequence : Nat] /\ m.run = r /\ m.sequence = Len(log[r]) + 1
  <2>1. Len(log[r]) \in Nat
    BY Before
  <2> QED BY <2>1
<1>6. pushes \in Pushing /\ \A i \in DOMAIN pushes : /\ pushes[i].run \in Runs
                                                     /\ pushes[i].sequence \in DOMAIN log[pushes[i].run]
  <2>1. pushes \in Pushing /\ \A i \in DOMAIN pushes : pushes[i].sequence \in DOMAIN log[pushes[i].run]
    BY Before DEF GoodPushes
  <2>2. \A i \in DOMAIN pushes : pushes[i] \in [run : Runs, sequence : Nat]
    BY <2>1, MembersIn DEF Pushing
  <2> QED BY <2>1, <2>2
<1>7. /\ pushes' \in Pushing
      /\ \A i \in DOMAIN pushes' : pushes'[i].sequence \in DOMAIN log'[pushes'[i].run]
  <2>1. CASE pushes' = pushes
    BY <1>2, <1>6, <2>1
  <2>2. CASE pushes' = Append(pushes, m)
    <3>1. pushes' \in Pushing
      BY <1>5, <1>6, <2>2 DEF Pushing
    <3>2. \A i \in DOMAIN pushes' : \/ i \in DOMAIN pushes /\ pushes'[i] = pushes[i]
                                    \/ pushes'[i] = m
      <4> HIDE DEF m
      <4> QED BY <1>6, <2>2 DEF Pushing
    <3> HIDE DEF m
    <3> QED BY <1>2, <1>5, <1>6, <3>1, <3>2
  <2> QED BY <2>1, <2>2 DEF m
<1>8. newest' \in Runs \cup {None}
  BY Before DEF TypeOK
<1> QED BY <1>1, <1>2, <1>4, <1>7, <1>8, Before, ServerStep

\* The event of a stop command is published and the command answered.
LEMMA PublishStopStep ==
  ASSUME Inv, NEW c \in inbox, PublishStop(c)
  PROVE  Inv'
<1> DEFINE r == c.run
           e == Happens("Running", "cancel-requested", row[r].done)
<1>1. /\ c.saved /\ log' = [log EXCEPT ![r] = Append(@, e)]
      /\ Answer(c.by, "answered", c.run) /\ inbox' = inbox \ {c}
      /\ UNCHANGED <<row, newest, exec, page, pushes, used, ended>>
  BY DEF PublishStop
<1>2. /\ r \in Runs /\ Known(r) /\ c.by \in {"start", "resume", "stop", "nobody"}
  BY <1>1, CommandFacts
<1>3. row[r].done \in Nat
  BY <1>2, Before DEF TypeOK, Row
<1>4. e \in Event /\ True(r, e.state, e.done)
  BY <1>3 DEF Happens, Event, Active, Terminal, True
<1>5. Grows
  BY <1>1, Before, SameRows
<1>6. WaitsInv'
  BY <1>1, <1>5, Before, WaitsAnswered
<1>7. HandlersInv' /\ cmd' \in [Chains -> Handler]
  BY <1>1, <1>2, <1>5, Before, HandlersAnswered
<1>8. \A s \in Runs : /\ exec'[s].out \in {exec[s].out, <<>>}
                      /\ exec'[s].pc # "none" => exec[s].pc # "none" \/ Known(s)
  BY <1>1
<1> HIDE DEF e
<1> QED BY <1>1, <1>2, <1>4, <1>6, <1>7, <1>8, PublishedStep

\* An executor saves its row, and keeps the event about it for later.
LEMMA SavedStep ==
  ASSUME Inv, NEW r \in Runs, NEW new \in Row, Record(r, new), new.status # "Absent",
         row[r].done <= new.done,
         NEW e \in Event, e.state = new.status, e.done = new.done,
         NEW pc \in {"working", "done"},
         exec' = [exec EXCEPT ![r].pc = pc, ![r].out = <<e>>],
         UNCHANGED <<newest, log, inbox, page, cmd, pushes>>, Counted \/ UNCHANGED used
  PROVE  Inv'
<1>1. Grows
  BY Before, RecordGrows
<1>2. row'[r] = new /\ (new.status \in Terminal => r \in ended')
  <2>1. row'[r] = new
    BY Before DEF Record, TypeOK
  <2>2. new.status \in Terminal => r \in ended'
    BY <1>1, <2>1 DEF Grows
  <2> QED BY <2>1, <2>2
<1> DEFINE out == <<e>>
           a == [exec[r] EXCEPT !.pc = pc]
           b == [a EXCEPT !.out = out]
<1>3. out \in Seq(Event) /\ \A n \in DOMAIN out : out[n] = e
  OBVIOUS
<1>4. exec[r] \in Executor
  BY Before DEF TypeOK
<1>5. exec' = [exec EXCEPT ![r] = b]
  BY Before DEF TypeOK
<1> HIDE DEF out
<1>6. b \in Executor /\ b.by = exec[r].by /\ b.out = out /\ b.pc = pc
  BY <1>3, <1>4 DEF Executor
<1> HIDE DEF b
<1>7. /\ exec' \in [Runs -> Executor] /\ exec'[r] = b
      /\ \A s \in Runs : s # r => exec'[s] = exec[s]
  <2>1. exec \in [Runs -> Executor]
    BY Before DEF TypeOK
  <2>2. exec' \in [Runs -> Executor] /\ exec'[r] = b
    BY <1>5, <1>6, <2>1
  <2>3. \A s \in Runs : s # r => exec'[s] = exec[s]
    BY <1>5, <2>1
  <2> QED BY <2>2, <2>3
<1>8. \A s \in Runs : exec'[s].by \in {exec[s].by, "nobody"}
  BY <1>6, <1>7
<1>9. WaitsInv'
  BY <1>1, <1>7, <1>8, Before, WaitsKept
<1>10. HandlersInv' /\ cmd' \in [Chains -> Handler]
  BY <1>1, Before, HandlersKept
<1>11. ServerInv'
  <2>1. \A n \in DOMAIN exec'[r].out : NowTrue(r, exec'[r].out[n])
    <3>1. new.done \in Nat
      BY DEF Row
    <3> QED BY <1>2, <1>3, <1>6, <1>7, <3>1 DEF NowTrue
  <2>2. \A s \in Runs : \/ exec'[s].out = exec[s].out
                        \/ \A n \in DOMAIN exec'[s].out : NowTrue(s, exec'[s].out[n])
    BY <1>7, <2>1
  <2>3. \A s \in Runs : log'[s] # <<>> \/ exec'[s].pc # "none" \/ exec'[s].out # <<>> => Known(s)'
    <3> TAKE s \in Runs
    <3>1. log[s] # <<>> \/ exec[s].pc # "none" \/ exec[s].out # <<>> => Known(s)
      BY Before DEF ServerInv
    <3>2. Known(s) => Known(s)'
      BY <1>1, Before, KnownStays
    <3>3. CASE s = r
      BY <1>2, <3>3 DEF Known
    <3>4. CASE s # r
      BY <1>7, <3>1, <3>2, <3>4
    <3> QED BY <3>3, <3>4
  <2>4. Known(newest)'
    <3>1. newest \in Runs \cup {None} /\ Known(newest) /\ newest' = newest
      BY Before DEF TypeOK, ServerInv
    <3> QED BY <1>1, <3>1 DEF Known, Grows
  <2>5. log' = log
    OBVIOUS
  <2> QED BY <1>1, <2>2, <2>3, <2>4, <2>5, Before, ServerGrown
<1>12. newest' \in Runs \cup {None}
  BY Before DEF TypeOK
<1> QED BY <1>1, <1>9, <1>10, <1>11, <1>12, Before, SilentStep

\* An executor starts its run.
LEMMA StartRunStep ==
  ASSUME Inv, NEW r \in Runs, StartRun(r)
  PROVE  Inv'
<1> DEFINE new == [row[r] EXCEPT !.status = "Running", !.cancel = FALSE]
           e == Happens("Running", "run-started", row[r].done)
<1>1. row[r] \in Row /\ row[r].done \in Nat
  BY Before DEF TypeOK, Row
<1>2. new \in Row /\ new.status = "Running" /\ new.done = row[r].done
  BY <1>1 DEF Row, Active
<1>3. e \in Event /\ e.state = "Running" /\ e.done = row[r].done
  BY <1>1 DEF Happens, Event, Active
<1>4. Record(r, new) /\ exec' = [exec EXCEPT ![r].pc = "working", ![r].out = <<e>>]
  BY DEF StartRun
<1>5. UNCHANGED <<newest, log, inbox, page, cmd, pushes, used>>
  BY DEF StartRun
<1> HIDE DEF new, e
<1>6. row[r].done <= new.done
  BY <1>1, <1>2
<1> QED BY <1>2, <1>3, <1>4, <1>5, <1>6, SavedStep

\* A row that an executor saves while it works, with the event about it.
LEMMA WorkStep ==
  ASSUME Inv, NEW r \in Runs, NEW new \in Row, new.status # "Absent", row[r].done <= new.done,
         NEW pc \in {"working", "done"}, NEW stage \in {"candidate-processed", "end"},
         Step(r, new, pc, stage), Counted \/ UNCHANGED used
  PROVE  Inv'
<1> DEFINE e == Happens(new.status, stage, new.done)
<1>1. e \in Event /\ e.state = new.status /\ e.done = new.done
  BY DEF Happens, Event, Row
<1>2. /\ Record(r, new) /\ exec' = [exec EXCEPT ![r].pc = pc, ![r].out = <<e>>]
      /\ UNCHANGED <<newest, log, inbox, page, cmd, pushes>>
  BY DEF Step
<1> HIDE DEF e
<1> QED BY <1>1, <1>2, SavedStep

\* A candidate is decided.
LEMMA DecideStep ==
  ASSUME Inv, NEW r \in Runs, Decide(r)
  PROVE  Inv'
<1> DEFINE new == [row[r] EXCEPT !.done = @ + 1]
<1>1. Step(r, new, "working", "candidate-processed") /\ exec[r].pc = "working" /\ UNCHANGED used
  BY DEF Decide, Step
<1>2. row[r] \in Row /\ row[r].status # "Absent"
  <2>1. exec[r].pc # "none" => Known(r)
    BY Before DEF ServerInv
  <2>2. row[r] \in Row
    BY Before DEF TypeOK
  <2> QED BY <1>1, <2>1, <2>2, ReviewAssumption DEF Known
<1>3. new \in Row /\ new.status = row[r].status /\ row[r].done <= new.done
  BY <1>2 DEF Row
<1> HIDE DEF new
<1> QED BY <1>1, <1>2, <1>3, WorkStep

\* An executor ends its run.
LEMMA EndingStep ==
  ASSUME Inv, NEW r \in Runs, Ending(r)
  PROVE  Inv'
<1>1. PICK status \in {"Completed", "Cancelled", "Failed"} : EndRun(r, status)
  BY DEF Ending
<1>2. Counted \/ UNCHANGED used
  BY DEF Ending
<1> DEFINE new == [row[r] EXCEPT !.status = status]
<1>3. row[r] \in Row
  BY Before DEF TypeOK
<1>4. new \in Row /\ new.status = status /\ new.done = row[r].done /\ row[r].done \in Nat
  BY <1>3 DEF Row, Terminal
<1>5. Step(r, new, "done", "end")
  BY <1>1 DEF EndRun
<1> HIDE DEF new
<1>6. row[r].done <= new.done /\ new.status # "Absent"
  BY <1>4
<1> QED BY <1>2, <1>4, <1>5, <1>6, WorkStep

\* An executor publishes its next event.
LEMMA PublishStep ==
  ASSUME Inv, NEW r \in Runs, Publish(r)
  PROVE  Inv'
<1> DEFINE e == exec[r].out[1]
<1>1. exec[r].out # <<>> /\ exec[r] \in Executor /\ exec[r].out \in Seq(Event)
  BY Before DEF Publish, TypeOK, Executor
<1>2. 1 \in DOMAIN exec[r].out /\ e \in Event
  BY <1>1, FirstIn
<1>3. True(r, e.state, e.done)
  BY <1>2, Before DEF ServerInv, AllTrue
<1>4. /\ log' = [log EXCEPT ![r] = Append(@, e)]
      /\ pushes' \in {pushes, Append(pushes, [run |-> r, sequence |-> Len(log[r]) + 1])}
      /\ UNCHANGED <<row, newest, inbox, page, used, ended>>
  BY DEF Publish
<1>5. Grows
  BY <1>4, Before, SameRows
<1>6. Known(r)
  BY <1>1, Before DEF ServerInv
<1>7. CASE exec[r].pc = "done"
  <2> DEFINE pc == IF row[r].status = "Failed" THEN "refused" ELSE "answered"
  <2>1. exec' = [exec EXCEPT ![r] = NoExecutor] /\ Answer(exec[r].by, pc, r) /\ inbox' = inbox
    BY <1>4, <1>7 DEF Publish
  <2>2. pc \in {"answered", "refused"}
    OBVIOUS
  <2> HIDE DEF pc, e
  <2>3. WaitsInv'
    BY <1>5, <2>1, Before, WaitsEnded
  <2>4. exec[r].by \in {"start", "resume", "stop", "nobody"}
    BY <1>1 DEF Executor
  <2>5. HandlersInv' /\ cmd' \in [Chains -> Handler]
    BY <1>5, <1>6, <2>1, <2>2, <2>4, Before, HandlersAnswered
  <2>6. \A s \in Runs : /\ exec'[s].out \in {exec[s].out, <<>>}
                        /\ exec'[s].pc # "none" => exec[s].pc # "none" \/ Known(s)
    BY <2>1, Before DEF TypeOK, NoExecutor
  <2> QED BY <1>2, <1>3, <1>4, <1>6, <2>3, <2>5, <2>6, PublishedStep
<1>8. CASE exec[r].pc # "done"
  <2> DEFINE a == [exec[r] EXCEPT !.out = <<>>]
  <2>1. exec' = [exec EXCEPT ![r] = a] /\ UNCHANGED cmd /\ inbox' = inbox
    BY <1>4, <1>8 DEF Publish
  <2>2. a \in Executor /\ a.by = exec[r].by /\ a.pc = exec[r].pc /\ a.out = <<>>
    <3>1. PICK out \in Seq(Event) : out = <<>>
      <4>1. <<>> \in Seq(Event)
        OBVIOUS
      <4> QED BY <4>1
    <3>2. a = [exec[r] EXCEPT !.out = out]
      BY <3>1
    <3>3. exec[r] \in Executor
      BY <1>1
    <3> HIDE DEF a
    <3> QED BY <3>1, <3>2, <3>3 DEF Executor
  <2> HIDE DEF a, e
  <2>3. /\ exec' \in [Runs -> Executor] /\ exec'[r] = a
        /\ \A s \in Runs : s # r => exec'[s] = exec[s]
    BY <2>1, <2>2, Before DEF TypeOK
  <2>4. \A s \in Runs : /\ exec'[s].out \in {exec[s].out, <<>>}
                        /\ exec'[s].pc # "none" => exec[s].pc # "none" \/ Known(s)
                        /\ exec'[s].by \in {exec[s].by, "nobody"}
    BY <2>2, <2>3
  <2>5. WaitsInv'
    BY <1>5, <2>1, <2>3, <2>4, Before, WaitsKept
  <2>6. HandlersInv' /\ cmd' \in [Chains -> Handler]
    BY <1>5, <2>1, Before, HandlersKept
  <2> QED BY <1>2, <1>3, <1>4, <1>6, <2>4, <2>5, <2>6, PublishedStep
<1> QED BY <1>7, <1>8

\* Another tab's commands.
LEMMA OtherTabStep ==
  ASSUME Inv, OtherTab
  PROVE  Inv'
<1>1. PICK kind \in {"start", "resume", "stop"}, r \in Runs \cup {None} :
          /\ (kind = "start") <=> (r = None)
          /\ r # None => row[r].status # "Absent"
          /\ inbox' = inbox \cup {[kind |-> kind, run |-> r, by |-> "nobody",
                                   push |-> FALSE, saved |-> FALSE]}
  BY DEF OtherTab
<1>2. Counted /\ UNCHANGED <<row, newest, log, exec, page, cmd, pushes, ended>>
  BY DEF OtherTab
<1> DEFINE c == [kind |-> kind, run |-> r, by |-> "nobody", push |-> FALSE, saved |-> FALSE]
<1>3. c \in Command /\ c.kind = kind /\ c.run = r /\ c.by = "nobody" /\ ~c.saved
  BY DEF Command
<1>4. inbox' = inbox \cup {c} /\ row' = row /\ exec' = exec /\ cmd' = cmd
  BY <1>1, <1>2
<1> HIDE DEF c
<1>5. Grows
  BY <1>2, Before, SameRows
<1>6. Known(c.run)'
  BY <1>1, <1>3, <1>4 DEF Known
<1>7. TypeOK /\ CommandsInv
  BY Before
<1>8. \A d \in inbox : Known(d.run)'
  <2> TAKE d \in inbox
  <2>1. Known(d.run)
    BY <1>7 DEF CommandsInv
  <2> QED BY <1>4, <2>1 DEF Known
<1>9. \A d \in inbox' : /\ d.by \in {d.kind, "nobody"}
                        /\ d.kind = "start" \/ d.run # None
                        /\ d.saved => d.kind = "stop"
                        /\ Known(d.run)'
  BY <1>1, <1>3, <1>4, <1>6, <1>7, <1>8 DEF CommandsInv
<1>10. CommandsInv'
  <2>1. \A d, f \in inbox' : d.by = f.by => d = f \/ d.by = "nobody"
    BY <1>3, <1>4, <1>7 DEF CommandsInv
  <2>2. \A d \in inbox', s \in Runs : d.by = exec'[s].by => d.by = "nobody"
    BY <1>3, <1>4, <1>7 DEF CommandsInv
  <2>3. \A s, t \in Runs : exec'[s].by = exec'[t].by => s = t \/ exec'[s].by = "nobody"
    BY <1>4, <1>7 DEF CommandsInv
  <2> QED BY <1>9, <2>1, <2>2, <2>3 DEF CommandsInv
<1>11. WaitsInv'
  BY <1>3, <1>4, <1>7, <1>10 DEF WaitsInv, TypeOK
<1>12. cmd' \in [Chains -> Handler] /\ \A k \in Chains : GoodHandler(k, cmd'[k])
  BY <1>4, Before, HandlersSame
<1>13. GoodPage(page') /\ GoodPushes(pushes') /\ used' \in 0 .. MaxMoves
  BY <1>2, Before, UsedStays
<1> QED BY <1>2, <1>11, <1>12, <1>13, PageStepOnly

\* The server reads a run, after the recovery of all.
LEMMA ReadRunStep ==
  ASSUME Inv, NEW k \in Chains, ReadRun(k)
  PROVE  Inv'
<1> DEFINE r == IF cmd[k].run = None THEN newest ELSE cmd[k].run
           s == IF r = None THEN NoRun
                ELSE [run |-> r, status |-> Recovered[r].status, cancel |-> Recovered[r].cancel,
                      done |-> Recovered[r].done]
           h == [cmd[k] EXCEPT !.pc = "loaded", !.snap = s]
<1>1. /\ cmd[k].pc = "load" /\ cmd' = [cmd EXCEPT ![k] = h] /\ Recover
      /\ UNCHANGED <<newest, log, exec, inbox, page, pushes, used>>
  <2>1. cmd' = [cmd EXCEPT ![k].pc = "loaded", ![k].snap = s]
    BY DEF ReadRun
  <2>2. cmd' = [cmd EXCEPT ![k] = h]
    BY <2>1, Before DEF TypeOK
  <2> QED BY <2>2 DEF ReadRun
<1>2. Grows
  BY <1>1, Before, RecoverGrows
<1>3. cmd[k] \in Handler /\ Known(cmd[k].run) /\ cmd[k].run \in Runs \cup {None}
  BY Before DEF GoodHandler
<1>4. r \in Runs \cup {None} /\ Known(r)
  BY <1>3, Before DEF TypeOK, ServerInv
<1>5. row' = Recovered
  BY <1>1 DEF Recover
<1>6. PICK v \in Snapshot :
        /\ v = s
        /\ v.run # None => /\ v.run \in Runs /\ Known(v.run)'
                           /\ v.status = row'[v.run].status /\ v.done = row'[v.run].done
  <2>1. CASE r = None
    <3>1. s = NoRun
      BY <2>1
    <3>2. NoRun \in Snapshot /\ NoRun.run = None
      BY DEF NoRun, Snapshot
    <3> QED BY <3>1, <3>2
  <2>2. CASE r # None
    <3>1. r \in Runs /\ Recovered \in [Runs -> Row] /\ Recovered[r].status # "Absent"
      BY <1>4, <2>2, Before, RecoveredRow DEF Known
    <3>2. Recovered[r] \in Row
      BY <3>1
    <3>3. s = [run |-> r, status |-> Recovered[r].status, cancel |-> Recovered[r].cancel,
               done |-> Recovered[r].done]
      BY <2>2
    <3> HIDE DEF r, s
    <3>4. /\ s \in Snapshot /\ s.run = r /\ s.status = Recovered[r].status
          /\ s.done = Recovered[r].done
      BY <3>1, <3>2, <3>3 DEF Row, Snapshot
    <3>5. PICK v : v = s
      OBVIOUS
    <3>6. v \in Snapshot /\ v.run \in Runs /\ row'[v.run] = Recovered[v.run] /\ v.run = r
      BY <1>5, <3>1, <3>4, <3>5
    <3>7. Known(v.run)'
      BY <3>1, <3>6 DEF Known
    <3> QED BY <3>4, <3>5, <3>6, <3>7
  <2> QED BY <2>1, <2>2
<1> HIDE DEF s, r
<1>7. PICK g \in Handler : g = h /\ g.pc = "loaded" /\ g.run = cmd[k].run /\ g.snap = v
  <2>1. h = [cmd[k] EXCEPT !.pc = "loaded", !.snap = v]
    BY <1>6
  <2>2. PICK c \in Handler : c = cmd[k]
    BY <1>3
  <2> HIDE DEF h
  <2>3. h = [pc |-> "loaded", run |-> c.run, snap |-> v]
    BY <2>1, <2>2 DEF Handler
  <2>4. h \in Handler /\ h.pc = "loaded" /\ h.run = c.run /\ h.snap = v
    BY <2>3 DEF Handler
  <2> QED BY <2>2, <2>4
<1> HIDE DEF h
<1>8. /\ cmd' \in [Chains -> Handler] /\ cmd'[k] = g
      /\ \A j \in Chains : j # k => cmd'[j] = cmd[j]
  <2>1. cmd \in [Chains -> Handler]
    BY Before DEF TypeOK
  <2> QED BY <1>1, <1>7, <2>1
<1>9. ASSUME NEW j \in Chains
      PROVE  /\ cmd'[j].pc = "link" => j \in {"init", "start", "resume"}
             /\ cmd'[j].pc \in {"posted", "answered", "refused"} => j \in {"start", "resume", "stop"}
             /\ Known(cmd[j].run)'
             /\ cmd'[j].snap.run # None =>
                  Known(cmd[j].snap.run)' /\ True(cmd[j].snap.run, cmd[j].snap.status, cmd[j].snap.done)'
  <2>1. CASE j = k
    <3>1. Known(g.run)'
      <4>1. Known(g.run) /\ g.run \in Runs \cup {None}
        BY <1>3, <1>7
      <4> QED BY <1>2, <4>1, Before, KnownStays
    <3>2. v.run # None => True(v.run, v.status, v.done)'
      <4>1. \A t \in Runs : row'[t].done \in Nat
        BY <1>2 DEF Grows, Row
      <4> QED BY <1>2, <1>6, <4>1 DEF True, Grows
    <3>3. cmd'[j] = g /\ g.snap = v /\ g.pc = "loaded"
      BY <2>1, <1>7, <1>8
    <3> QED BY <1>6, <3>1, <3>2, <3>3 DEF Known, True
  <2>2. CASE j # k
    <3>1. PICK f : f = cmd[j]
      OBVIOUS
    <3>2. GoodHandler(j, f)
      BY <3>1, Before
    <3>3. GoodHandler(j, f)'
      BY <1>2, <3>2, Before, HandlerStays
    <3>4. cmd'[j] = f
      BY <1>8, <2>2, <3>1
    <3> QED BY <3>3, <3>4 DEF GoodHandler, Known, True
  <2> QED BY <2>1, <2>2
<1>10. HandlersInv'
  BY <1>9 DEF HandlersInv
<1>11. exec' \in [Runs -> Executor] /\ exec' = exec
  BY <1>1, Before DEF TypeOK
<1>12. WaitsInv'
  <2>1. \A j \in Chains : cmd[j].pc = "posted" => cmd'[j] = cmd[j]
    BY <1>1, <1>8
  <2> QED BY <1>1, <1>2, <1>11, <2>1, Before, WaitsKept
<1>13. ServerInv'
  BY <1>1, <1>2, Before, ServerKept
<1>14. newest' \in Runs \cup {None}
  BY <1>1, Before DEF TypeOK
<1> QED BY <1>1, <1>2, <1>8, <1>10, <1>12, <1>13, <1>14, Before, SilentStep

\* The server reads the events a poll asks for.
LEMMA ReadPollStep ==
  ASSUME Inv, NEW poll \in page.polls, ReadPoll(poll)
  PROVE  Inv'
<1> DEFINE a == [poll EXCEPT !.upto = Len(log[poll.run])]
           p == [page EXCEPT !.polls = (@ \ {poll}) \cup {a}]
<1>1. page' = p /\ Recover /\ UNCHANGED <<newest, log, exec, inbox, cmd, pushes, used>>
  BY DEF ReadPoll
<1>2. Grows
  BY <1>1, Before, RecoverGrows
<1>3. poll \in Poll
  BY Before DEF Page
<1>4. a \in Poll /\ a.upto <= Len(log[a.run])
  <2>1. poll.run \in Runs /\ Len(log[poll.run]) \in Nat
    BY <1>3, Before DEF Poll
  <2> QED BY <1>3, <2>1 DEF Poll
<1> HIDE DEF a
<1>5. /\ p \in Page /\ p.run = page.run /\ p.items = page.items /\ p.state = page.state
      /\ p.timer = page.timer /\ p.forgot = page.forgot
      /\ p.polls = (page.polls \ {poll}) \cup {a}
  BY <1>4, Before DEF Page
<1> HIDE DEF p
<1>6. GoodPage(p)
  BY <1>4, <1>5, Before DEF GoodPage, ShownTrue
<1>7. exec' \in [Runs -> Executor] /\ exec' = exec
  BY <1>1, Before DEF TypeOK
<1>8. WaitsInv'
  BY <1>1, <1>2, <1>7, Before, WaitsKept
<1>9. ServerInv'
  BY <1>1, <1>2, Before, ServerKept
<1>10. HandlersInv' /\ cmd' \in [Chains -> Handler]
  BY <1>1, <1>2, Before, HandlersKept
<1>11. newest' \in Runs \cup {None}
  BY <1>1, Before DEF TypeOK
<1> QED BY <1>1, <1>2, <1>6, <1>8, <1>9, <1>10, <1>11, Before, SilentStep

\* A restart takes executors, commands, messages, events and polls.
LEMMA RestartStep ==
  ASSUME Inv, Restart
  PROVE  Inv'
<1> DEFINE p == [page EXCEPT !.polls = {}, !.link = IF @ = "on" THEN "retrying" ELSE @]
<1>1. /\ exec' = [r \in Runs |-> NoExecutor] /\ inbox' = {} /\ log' = [r \in Runs |-> <<>>]
      /\ pushes' = <<>> /\ page' = p /\ Counted
      /\ cmd' = [k \in Chains |-> IF cmd[k].pc = "posted" THEN Doing("refused", None) ELSE cmd[k]]
  BY DEF Restart
<1>2. row' = row /\ newest' = newest /\ ended' = ended
  BY DEF Restart
<1>3. Grows
  BY <1>2, Before, SameRows
<1>4. /\ p \in Page /\ p.run = page.run /\ p.items = page.items /\ p.state = page.state
      /\ p.timer = page.timer /\ p.forgot = page.forgot /\ p.polls = {}
  <2>1. PICK g \in Page : g = page
    BY Before
  <2>2. PICK l \in {"off", "on", "retrying"} : l = IF g.link = "on" THEN "retrying" ELSE g.link
    BY <2>1 DEF Page
  <2>3. p = [g EXCEPT !.polls = {}, !.link = l]
    BY <2>1, <2>2
  <2> HIDE DEF p
  <2> QED BY <2>1, <2>2, <2>3 DEF Page
<1> HIDE DEF p
<1>5. ShownTrue(p)
  BY <1>4, Before DEF GoodPage, ShownTrue
<1>6. ShownTrue(page)'
  BY <1>1, <1>2, <1>5 DEF ShownTrue, Known
<1>7. TransitInv'
  BY <1>1, <1>4 DEF TransitInv
<1>8. NoExecutor \in Executor /\ NoExecutor.by = "nobody" /\ NoExecutor.pc = "none" /\ NoExecutor.out = <<>>
  BY DEF NoExecutor, Executor
<1>9. \A r \in Runs : exec'[r] = NoExecutor /\ log'[r] = <<>>
  BY <1>1
<1>10. exec' \in [Runs -> Executor]
  BY <1>1, <1>8
<1>11. log' \in [Runs -> Seq(Event)]
  <2>1. <<>> \in Seq(Event)
    OBVIOUS
  <2> QED BY <1>1, <2>1
<1>12. CommandsInv'
  BY <1>1, <1>8, <1>9 DEF CommandsInv
<1>13. WaitsInv'
  BY <1>1, <1>8, <1>9, <1>10, <1>12 DEF WaitsInv
<1>14. ServerInv'
  <2>1. Known(newest)'
    BY <1>2, Before DEF ServerInv, Known
  <2>2. \A r \in Runs : /\ row'[r].status \in Terminal => r \in ended'
                        /\ row'[r].status = "Absent" => row'[r].done = 0
    BY <1>2, Before DEF ServerInv
  <2>3. \A r \in Runs : AllTrue(r, log[r])' /\ AllTrue(r, exec[r].out)'
    BY <1>8, <1>9 DEF AllTrue
  <2> QED BY <1>8, <1>9, <2>1, <2>2, <2>3 DEF ServerInv
<1>15. cmd' \in [Chains -> Handler] /\ \A k \in Chains : GoodHandler(k, cmd'[k])
  <2>1. ASSUME NEW k \in Chains PROVE GoodHandler(k, cmd'[k])
    <3>1. CASE cmd[k].pc = "posted"
      <4>1. k \in {"start", "resume", "stop"}
        BY <3>1, Before DEF GoodHandler
      <4>2. GoodHandler(k, Doing("refused", None))
        BY <4>1, DoingGood DEF Known
      <4> QED BY <1>1, <3>1, <4>2
    <3>2. CASE cmd[k].pc # "posted"
      BY <1>1, <3>2, Before
    <3> QED BY <3>1, <3>2
  <2>2. \A k \in Chains : cmd'[k] \in Handler
    BY <2>1 DEF GoodHandler
  <2> QED BY <1>1, <2>1, <2>2
<1>16. HandlersInv'
  BY <1>2, <1>15 DEF GoodHandler, HandlersInv, Known, True
<1>17. pushes' \in Pushing /\ used' \in 0 .. MaxMoves
  BY <1>1, Before, UsedStays DEF Pushing
<1>18. TypeOK'
  <2>1. row \in [Runs -> Row] /\ newest \in Runs \cup {None} /\ ended \in SUBSET Runs
    BY Before DEF TypeOK
  <2> QED BY <1>1, <1>2, <1>4, <1>11, <1>13, <1>15, <1>17, <2>1 DEF WaitsInv, TypeOK, Pushing
<1> QED BY <1>6, <1>7, <1>12, <1>14, <1>16, <1>18 DEF Inv

-----------------------------------------------------------------------------
(* Theorems *)

\* The invariant holds initially.
LEMMA InitInv == Init => Inv
<1> SUFFICES ASSUME Init PROVE Inv
  OBVIOUS
<1> DEFINE over == [NoRow EXCEPT !.status = "Cancelled", !.cancel = TRUE]
<1>1. /\ NoRow \in Row /\ over \in Row /\ NoRow.status = "Absent" /\ over.status = "Cancelled"
      /\ NoRow.done = 0 /\ over.done = 0
  BY DEF NoRow, Row, Terminal
<1>2. row = [r \in Runs |-> IF r = Earlier THEN over ELSE NoRow]
  BY DEF Init
<1> HIDE DEF over
<1>3. /\ row \in [Runs -> Row] /\ \A r \in Runs : row[r] = IF r = Earlier THEN over ELSE NoRow
  BY <1>1, <1>2
<1>4. /\ newest = Earlier /\ newest \in Runs \cup {None} /\ ended = Runs \cap {Earlier}
  BY ReviewAssumption DEF Init
<1>5. Known(newest)
  BY <1>1, <1>3, <1>4 DEF Known
<1>6. /\ \A r \in Runs : log[r] = <<>> /\ exec[r] = NoExecutor
      /\ log = [r \in Runs |-> <<>>] /\ exec = [r \in Runs |-> NoExecutor]
      /\ inbox = {} /\ pushes = <<>> /\ used = 0
  BY DEF Init
<1>7. NoExecutor \in Executor /\ NoExecutor.by = "nobody" /\ NoExecutor.pc = "none" /\ NoExecutor.out = <<>>
  BY DEF NoExecutor, Executor
<1>8. log \in [Runs -> Seq(Event)] /\ exec \in [Runs -> Executor] /\ inbox \in SUBSET Command
  <2>1. <<>> \in Seq(Event)
    OBVIOUS
  <2> QED BY <1>6, <1>7, <2>1
<1>9. page \in Page /\ page.run = None /\ page.items = {} /\ page.timer = None /\ page.polls = {}
  BY DEF Init, Page
<1>10. ShownTrue(page)
  BY <1>9 DEF ShownTrue, Known
<1>11. cmd \in [Chains -> Handler] /\ \A k \in Chains : GoodHandler(k, cmd[k])
  <2>1. cmd = [c \in Chains |-> IF c = "init" THEN Doing("link", None) ELSE Idle]
    BY DEF Init
  <2>2. GoodHandler("init", Doing("link", None))
    BY DoingGood DEF Known
  <2>3. \A k \in Chains : GoodHandler(k, cmd[k])
    BY <2>1, <2>2, IdleGood
  <2>4. \A k \in Chains : cmd[k] \in Handler
    BY <2>3 DEF GoodHandler
  <2> QED BY <2>1, <2>3, <2>4
<1>12. HandlersInv
  BY <1>11 DEF GoodHandler, HandlersInv
<1>13. CommandsInv
  BY <1>6, <1>7 DEF CommandsInv
<1>14. TransitInv
  BY <1>6, <1>9 DEF TransitInv
<1>15. ServerInv
  <2>1. \A r \in Runs : /\ row[r].status \in Terminal => r \in ended
                        /\ row[r].status = "Absent" => row[r].done = 0
    BY <1>1, <1>3, <1>4 DEF Terminal
  <2>2. \A r \in Runs : AllTrue(r, log[r]) /\ AllTrue(r, exec[r].out)
    BY <1>6, <1>7 DEF AllTrue
  <2> QED BY <1>5, <1>6, <1>7, <2>1, <2>2 DEF ServerInv
<1>16. TypeOK
  <2>1. pushes \in Seq([run : Runs, sequence : Nat]) /\ used \in 0 .. MaxMoves /\ ended \in SUBSET Runs
    BY <1>4, <1>6, ReviewAssumption
  <2> QED BY <1>3, <1>4, <1>6, <1>7, <1>8, <1>9, <1>11, <2>1 DEF TypeOK
<1> QED BY <1>10, <1>12, <1>13, <1>14, <1>15, <1>16 DEF Inv

\* A stuttering step keeps the invariant.
LEMMA Stutter ==
  ASSUME Inv, UNCHANGED vars
  PROVE  Inv'
<1>1. UNCHANGED <<row, newest, log, ended, exec, inbox, cmd, page, pushes, used>>
  BY DEF vars, server
<1>2. GoodPage(page') /\ GoodPushes(pushes')
  BY <1>1, Before
<1> QED BY <1>1, <1>2, ScreenStep

\* Every step keeps the invariant.
LEMMA NextInv == Inv /\ [Next]_vars => Inv'
<1> SUFFICES ASSUME Inv, [Next]_vars PROVE Inv'
  OBVIOUS
<1>1. CASE Click
  BY <1>1, ClickStep
<1>2. CASE OtherTab
  BY <1>2, OtherTabStep
<1>3. CASE Serve
  <2>1. PICK c \in inbox : \/ ServeStart(c) \/ ServeResume(c) \/ ServeNothing(c) \/ Refuse(c)
                           \/ ServeStop(c) \/ PublishStop(c)
    BY <1>3 DEF Serve
  <2> QED BY <2>1, ServeStartStep, ServeResumeStep, ServeNothingStep, RefuseStep, ServeStopStep,
             PublishStopStep
<1>4. CASE Execute
  <2>1. PICK r \in Runs : \/ StartRun(r) \/ RefuseCreated(r) \/ Decide(r) \/ Ending(r)
                          \/ Publish(r)
    BY <1>4 DEF Execute
  <2> QED BY <2>1, StartRunStep, RefuseCreatedStep, DecideStep, EndingStep, PublishStep
<1>5. CASE Readied
  BY <1>5, ReadiedStep
<1>6. CASE Answers
  <2>1. PICK k \in Chains : Linked(k) \/ Answered(k) \/ Refused(k) \/ ReadRun(k) \/ Loaded(k)
    BY <1>6 DEF Answers
  <2> QED BY <2>1, LinkedStep, AnsweredStep, RefusedStep, ReadRunStep, LoadedStep
<1>7. CASE Pushed
  BY <1>7, PushedStep
<1>8. CASE Reconnect
  BY <1>8, ReconnectStep
<1>9. CASE Tick
  BY <1>9, TickStep
<1>10. CASE ReadPolls
  BY <1>10, ReadPollStep DEF ReadPolls
<1>11. CASE ApplyPolls
  BY <1>11, ApplyPollStep DEF ApplyPolls
<1>12. CASE Fault
  BY <1>12, NotLinkedStep, TimeOutStep, LoseStep, LosePollStep, DisconnectStep, RestartStep DEF Fault
<1>13. CASE UNCHANGED vars
  BY <1>13, Stutter
<1> QED BY <1>1, <1>2, <1>3, <1>4, <1>5, <1>6, <1>7, <1>8, <1>9, <1>10, <1>11, <1>12, <1>13
        DEF Next, Works

\* The inductive invariant holds in every reachable state.
THEOREM Invariance == Spec => []Inv
BY InitInv, NextInv, PTL DEF Spec

\* The state of page and server is type-correct, and only a handler that waits
\* for its answer is the one that a command under way or an executor answers.
THEOREM TypeCorrect == Spec => []TypeOK
<1>1. Inv => TypeOK
  BY DEF Inv
<1> QED BY <1>1, Invariance, PTL

\* Whatever answers, events and snapshots arrive late, the page shows results
\* of the run it shows only, that the server has saved, and no made-up end.
THEOREM Truth == Spec => []ShownIsTrue
<1>1. Inv => ShownIsTrue
  BY DEF Inv, ShownTrue, ShownIsTrue, ItemsOfRun, OverIsTrue
<1> QED BY <1>1, Invariance, PTL

\* A page that shows a run and polls shows it as active and polls that run,
\* unless it forgot its run while the timer was on.
THEOREM Timer == Spec => []TimerFollowsRun
<1>1. Inv => TimerFollowsRun
  BY DEF Inv, ShownTrue, TimerFollowsRun
<1> QED BY <1>1, Invariance, PTL
=============================================================================
