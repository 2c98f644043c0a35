-------------------------- MODULE AdminUsersProofs --------------------------
(***************************************************************************)
(* Proofs about AdminUsers, for any number of tabs, users and moves: the    *)
(* rows of a tab show only what was stored, the page shown is one there is, *)
(* and no user is deleted twice from one tab.                               *)
(*                                                                          *)
(* The invariant is split by the part of the state it is about.  For each   *)
(* part, a lemma says that a step that leaves the part alone, or changes    *)
(* it at one place, keeps it; each action then needs to say only what is    *)
(* true of the row, the confirmation or the form it puts there.             *)
(***************************************************************************)
EXTENDS AdminUsers, FiniteSetTheorems, SequenceTheorems, TLAPS

-----------------------------------------------------------------------------
(* The invariant, one part for each part of the state *)

\* The users, and what each has ever held.
TableOK ==
    /\ users \in Seq(User) /\ Len(users) \in 0 .. MaxUsers
    /\ stored \in [Ids -> SUBSET State]
    /\ \A i \in 1 .. Len(users) : users[i].state \in stored[i]

\* The rows of each tab, no two alike, and the page that is shown.
PagesOK ==
    /\ shown \in [Tabs -> Seq(1 .. Len(users))] /\ \A t \in Tabs : IsInjective(shown[t])
    /\ page \in [Tabs -> Nat \ {0}]
    /\ PageInRange

\* Row r of user i is one a tab may have.
GoodRow(r, i) ==
    /\ r \in Row
    /\ IF i <= Len(users) THEN RowStored(r, i) ELSE r = ViewRow(SomeState)

\* Every row is one a tab may have.
RowsOK ==
    /\ row \in [Tabs -> [Ids -> Row]]
    /\ \A t \in Tabs, i \in Ids : GoodRow(row[t][i], i)

\* The confirmations there are.
Modal == [shown : Stages, asked : {0} \cup Ids]

\* Confirmation m of tab t asks about a row that is not being deleted.
GoodModal(m, t) ==
    /\ m \in Modal
    /\ m.asked # 0 =>
          m.asked <= Len(users) /\ m.shown # "closed" /\ ~Deleting(row[t][m.asked])

\* Every confirmation is one its tab may have.
ModalsOK == modal \in [Tabs -> Modal] /\ \A t \in Tabs : GoodModal(modal[t], t)

\* Rows asked about and rows being deleted are in the table.
ListedOK ==
    \A t \in Tabs, i \in Ids :
       modal[t].asked = i \/ Deleting(row[t][i]) => Contains(shown[t], i)

\* The forms there are.
Creation == [stage : {"none", "sent", "checked", "ok", "no"}, login : Logins \cup {""},
             id : {0} \cup Ids]

\* Form c asks for a user name, and the user it has been told of is in the table.
GoodCreate(c) ==
    /\ c \in Creation
    /\ c.stage # "none" => c.login \in Logins
    /\ c.stage = "ok" => c.id \in 1 .. Len(users) /\ SomeState \in stored[c.id]

\* Every form is one a tab may have.
CreatesOK == create \in [Tabs -> Creation] /\ \A t \in Tabs : GoodCreate(create[t])

\* The inductive invariant.
Inv == TypeOK /\ RowsInv /\ StoredInv /\ PageInRange /\ DeletedOnce

\* The invariant is the conjunction of these parts.
LEMMA Parts ==
  Inv <=> /\ TableOK /\ PagesOK /\ RowsOK /\ ModalsOK /\ ListedOK /\ CreatesOK
          /\ used \in 0 .. MaxMoves
<1>1. ASSUME Inv
      PROVE  TableOK /\ PagesOK /\ RowsOK /\ ModalsOK /\ ListedOK /\ CreatesOK /\ used \in 0 .. MaxMoves
  <2>1. TableOK
    <3>1. users \in Seq(User) /\ Len(users) <= MaxUsers
      BY <1>1 DEF Inv, TypeOK
    <3>2. Len(users) \in 0 .. MaxUsers
      BY <3>1, AdminAssumption
    <3> QED BY <1>1, <3>1, <3>2 DEF Inv, TypeOK, TableOK, StoredInv
  <2>2. PagesOK
    BY <1>1 DEF Inv, TypeOK, PagesOK
  <2>3. RowsOK
    <3>1. \A t \in Tabs, i \in Ids : row[t][i] \in Row
      <4>1. row \in [Tabs -> [Ids -> Row]]
        BY <1>1 DEF Inv, TypeOK
      <4> QED BY <4>1
    <3>2. \A t \in Tabs, i \in Ids :
             IF i <= Len(users) THEN RowStored(row[t][i], i) ELSE row[t][i] = ViewRow(SomeState)
      BY <1>1 DEF Inv, RowsInv
    <3>3. row \in [Tabs -> [Ids -> Row]]
      BY <1>1 DEF Inv, TypeOK
    <3> QED BY <3>1, <3>2, <3>3 DEF RowsOK, GoodRow
  <2>4. ModalsOK
    <3>1. modal \in [Tabs -> Modal]
      BY <1>1 DEF Inv, TypeOK, Modal
    <3>2. ASSUME NEW t \in Tabs PROVE GoodModal(modal[t], t)
      <4>1. modal[t] \in Modal
        BY <3>1
      <4>2. modal[t].asked # 0 => modal[t].shown # "closed"
        BY <1>1 DEF Inv, DeletedOnce, QuestionIsOpen
      <4>3. ASSUME modal[t].asked # 0
            PROVE  modal[t].asked <= Len(users) /\ ~Deleting(row[t][modal[t].asked])
        <5>1. PICK i \in Ids : i = modal[t].asked
          BY <4>1, <4>3 DEF Modal
        <5>2. ~Deleting(row[t][i]) /\ Contains(shown[t], i)
          BY <1>1, <5>1 DEF Inv, DeletedOnce, OneDeletion
        <5>3. shown[t] \in Seq(1 .. Len(users))
          BY <1>1 DEF Inv, TypeOK
        <5>4. i \in 1 .. Len(users)
          BY <5>2, <5>3 DEF Contains
        <5> QED BY <5>1, <5>2, <5>4
      <4> QED BY <4>1, <4>2, <4>3 DEF GoodModal
    <3> QED BY <3>1, <3>2 DEF ModalsOK
  <2>5. CreatesOK
    BY <1>1 DEF Inv, TypeOK, StoredInv, CreatesOK, GoodCreate, Creation
  <2>6. ListedOK
    BY <1>1 DEF Inv, DeletedOnce, OneDeletion, ListedOK
  <2> QED BY <1>1, <2>1, <2>2, <2>3, <2>4, <2>5, <2>6 DEF Inv, TypeOK
<1>2. ASSUME TableOK, PagesOK, RowsOK, ModalsOK, ListedOK, CreatesOK, used \in 0 .. MaxMoves
      PROVE  Inv
  <2>1. TypeOK
    <3>1. users \in Seq(User) /\ Len(users) <= MaxUsers
      BY <1>2, AdminAssumption DEF TableOK
    <3>2. modal \in [Tabs -> Modal] /\ create \in [Tabs -> Creation]
      BY <1>2 DEF ModalsOK, ListedOK, CreatesOK
    <3> QED BY <1>2, <3>1, <3>2 DEF TypeOK, TableOK, PagesOK, RowsOK, Modal, Creation
  <2>2. RowsInv
    BY <1>2 DEF RowsInv, RowsOK, GoodRow
  <2>3. StoredInv
    BY <1>2 DEF StoredInv, TableOK, CreatesOK, GoodCreate
  <2>4. QuestionIsOpen
    BY <1>2 DEF QuestionIsOpen, ModalsOK, GoodModal
  <2>5. OneDeletion
    <3>1. \A t \in Tabs, i \in Ids : modal[t].asked = i => ~Deleting(row[t][i])
      BY <1>2 DEF ModalsOK, GoodModal, Ids
    <3> QED BY <1>2, <3>1 DEF OneDeletion, ListedOK
  <2> QED BY <1>2, <2>1, <2>2, <2>3, <2>4, <2>5 DEF Inv, DeletedOnce, PagesOK
<1> QED BY <1>1, <1>2

\* The same of the state after a step.
LEMMA NextParts ==
  TableOK' /\ PagesOK' /\ RowsOK' /\ ModalsOK' /\ ListedOK' /\ CreatesOK' /\ used' \in 0 .. MaxMoves => Inv'
<1>1. (TableOK /\ PagesOK /\ RowsOK /\ ModalsOK /\ ListedOK /\ CreatesOK /\ used \in 0 .. MaxMoves)' => Inv'
  BY Parts, PTL
<1> QED BY <1>1

-----------------------------------------------------------------------------
(* The operators *)

\* Days, their ends, and back.
LEMMA DateFacts ==
  /\ \A e \in Instants : DateOf(e) \in Dates
  /\ \A d \in Dates : EndOfDay(d) \in Instants /\ DateOf(EndOfDay(d)) = d
<1>1. ASSUME NEW e \in Instants PROVE DateOf(e) \in Dates
  <2>1. CASE e = Never
    BY <2>1 DEF DateOf, Dates, Never
  <2>2. ASSUME NEW d \in Days, e = 2 * d \/ e = 2 * d + 1 PROVE DateOf(e) \in Dates
    <3>1. d \in Nat
      BY AdminAssumption
    <3>2. DateOf(e) = d
      BY <2>2, <3>1 DEF DateOf
    <3> QED BY <3>2 DEF Dates
  <2> QED BY <2>1, <2>2 DEF Instants
<1>2. ASSUME NEW d \in Dates PROVE EndOfDay(d) \in Instants /\ DateOf(EndOfDay(d)) = d
  <2>1. CASE d = Never
    BY <2>1 DEF EndOfDay, DateOf, Instants, Never
  <2>2. CASE d # Never
    <3>1. d \in Nat /\ d \in Days
      BY <2>2, AdminAssumption DEF Dates
    <3>2. EndOfDay(d) = 2 * d + 1
      BY <2>2 DEF EndOfDay
    <3> QED BY <3>1, <3>2 DEF Instants, DateOf
  <2> QED BY <2>1, <2>2
<1> QED BY <1>1, <1>2

\* The state of a new user is a state.
LEMMA SomeStateType == SomeState \in State
<1>1. (CHOOSE n \in Names : TRUE) \in Names
  BY AdminAssumption
<1>2. (CHOOSE d \in Days : TRUE) \in Days
  BY AdminAssumption
<1>3. 2 * (CHOOSE d \in Days : TRUE) \in Instants
  BY <1>2 DEF Instants
<1> QED BY <1>1, <1>3 DEF SomeState, State

\* What the inputs show of a state.
LEMMA InputType ==
  ASSUME NEW state \in State
  PROVE  InputOf(state) \in [name : Names, date : Dates, active : BOOLEAN]
<1>1. DateOf(state.expires) \in Dates
  BY DateFacts DEF State
<1> QED BY <1>1 DEF InputOf, State

\* No post is a post, under way nowhere.
LEMMA NoPostType == NoPost \in Post /\ NoPost.stage = "none"
BY SomeStateType DEF NoPost, Post

\* A post that is sent carries what it was given.
LEMMA SentType ==
  ASSUME NEW kind \in {"profile", "toggle", "delete"}, NEW state \in State
  PROVE  /\ Sent(kind, state) \in Post
         /\ Sent(kind, state).stage = "sent" /\ Sent(kind, state).kind = kind
         /\ Sent(kind, state).sent = state
BY DEF Sent, Post

\* A row as it is first shown.
LEMMA ViewRowType ==
  ASSUME NEW state \in State
  PROVE  /\ ViewRow(state) \in Row /\ ViewRow(state).base = state
         /\ ViewRow(state).save = NoPost /\ ViewRow(state).delete = NoPost
         /\ ~Saving(ViewRow(state)) /\ ~Deleting(ViewRow(state))
<1>1. InputOf(state) \in [name : Names, date : Dates, active : BOOLEAN]
  BY InputType
<1> HIDE DEF InputOf
<1> QED BY <1>1, NoPostType DEF ViewRow, Row, Saving, Deleting

\* What the inputs stand for is a state, and the baseline is the base, to the day.
LEMMA CurrentType ==
  ASSUME NEW r \in Row
  PROVE  /\ Current(r) \in State /\ Baseline(r) \in State
         /\ Baseline(r).name = r.base.name /\ Baseline(r).active = r.base.active
         /\ DateOf(Baseline(r).expires) = DateOf(r.base.expires)
<1>1. r.base \in State /\ r.input \in [name : Names, date : Dates, active : BOOLEAN]
  BY DEF Row
<1>2. EndOfDay(r.input.date) \in Instants
  BY <1>1, DateFacts
<1>3. Current(r) \in State
  BY <1>1, <1>2 DEF Current, State
<1>4. DateOf(r.base.expires) \in Dates
  BY <1>1, DateFacts DEF State
<1>5. PICK e \in Instants : e = EndOfDay(DateOf(r.base.expires)) /\ DateOf(e) = DateOf(r.base.expires)
  BY <1>4, DateFacts
<1>6. Baseline(r) = [r.base EXCEPT !.expires = e]
  BY <1>1, <1>5 DEF Baseline, State
<1>7. PICK b \in State : b = r.base
  BY <1>1
<1>8. [b EXCEPT !.expires = e] \in State
  BY DEF State
<1> QED BY <1>3, <1>5, <1>6, <1>7, <1>8 DEF State

\* There is at least one page.
LEMMA SomePage ==
  ASSUME NEW S, NEW rows \in Seq(S)
  PROVE  TotalPages(rows) \in Nat \ {0}
<1>1. CASE rows = <<>>
  BY <1>1 DEF TotalPages
<1>2. CASE rows # <<>>
  <2>1. Len(rows) \in Nat /\ Len(rows) # 0
    BY <1>2
  <2>2. PageSize \in Nat /\ PageSize > 0
    BY AdminAssumption
  <2>3. \A n, p \in Nat : p > 0 /\ n >= p => n \div p \in Nat /\ n \div p # 0
    OBVIOUS
  <2> QED BY <1>2, <2>1, <2>2, <2>3 DEF TotalPages
<1> QED BY <1>1, <1>2

-----------------------------------------------------------------------------
(* The parts that a step leaves alone *)

\* Users are not taken out of the table, and what was stored stays noted.
Grows ==
    /\ Len(users) \in Nat /\ Len(users') \in Nat /\ Len(users) <= Len(users')
    /\ \A i \in Ids : i <= Len(users) => stored[i] \subseteq stored'[i]

\* What is stored of all users is left alone.
LEMMA SameTable ==
  ASSUME TableOK, UNCHANGED <<users, stored>>
  PROVE  Grows /\ TableOK' /\ Len(users') = Len(users)
BY DEF Grows, TableOK

\* What was stored stays noted.
LEMMA StateStoredStays ==
  ASSUME Grows, NEW i \in Ids, i <= Len(users), NEW state
  PROVE  /\ StateStored(state, i) => StateStored(state, i)'
         /\ ProfileStored(state, i) => ProfileStored(state, i)'
         /\ ActiveStored(state.active, i) => ActiveStored(state.active, i)'
<1>1. stored[i] \subseteq stored'[i]
  BY DEF Grows
<1>2. NameStored(state.name, i) => NameStored(state.name, i)'
  BY <1>1 DEF NameStored
<1>3. DateStored(DateOf(state.expires), i) => DateStored(DateOf(state.expires), i)'
  BY <1>1 DEF DateStored
<1>4. ActiveStored(state.active, i) => ActiveStored(state.active, i)'
  BY <1>1 DEF ActiveStored
<1> QED BY <1>2, <1>3, <1>4 DEF StateStored, ProfileStored

\* A state that is stored, or was, is stored field by field.
LEMMA WasStored ==
  ASSUME NEW i \in Ids, NEW state \in stored[i]
  PROVE  StateStored(state, i)
BY DEF StateStored, ProfileStored, NameStored, DateStored, ActiveStored

\* What a row says stays true.
LEMMA RowStoredStays ==
  ASSUME Grows, NEW i \in Ids, i <= Len(users), NEW r, RowStored(r, i)
  PROVE  RowStored(r, i)'
<1>1. PICK base, seen, sent : base = r.base /\ seen = r.save.seen /\ sent = r.save.sent
  OBVIOUS
<1>2. StateStored(base, i) => StateStored(base, i)'
  BY StateStoredStays
<1>3. StateStored(seen, i) => StateStored(seen, i)'
  BY StateStoredStays
<1>4. /\ ProfileStored(sent, i) => ProfileStored(sent, i)'
      /\ ActiveStored(sent.active, i) => ActiveStored(sent.active, i)'
  BY StateStoredStays
<1> QED BY <1>1, <1>2, <1>3, <1>4 DEF RowStored

\* A row that may be had before a step that adds no user may be had after it.
LEMMA GoodRowStays ==
  ASSUME Grows, Len(users') = Len(users), NEW i \in Ids, NEW r, GoodRow(r, i)
  PROVE  GoodRow(r, i)'
BY RowStoredStays DEF GoodRow

\* The rows are left alone.
LEMMA SameRows ==
  ASSUME RowsOK, Grows, Len(users') = Len(users), row' = row
  PROVE  RowsOK'
<1>1. ASSUME NEW t \in Tabs, NEW i \in Ids
      PROVE  GoodRow(row[t][i], i)'
  <2>1. PICK r : r = row[t][i]
    OBVIOUS
  <2>2. GoodRow(r, i)
    BY <2>1 DEF RowsOK
  <2>3. GoodRow(r, i)'
    BY <2>2, GoodRowStays
  <2>4. r = row'[t][i]
    BY <2>1
  <2> QED BY <2>3, <2>4
<1> QED BY <1>1 DEF RowsOK

\* One row of a tab changes.
LEMMA RowSet ==
  ASSUME RowsOK, Grows, Len(users') = Len(users), NEW t \in Tabs, NEW i \in Ids,
         NEW r, GoodRow(r, i)', row'[t][i] = r, row' \in [Tabs -> [Ids -> Row]],
         \A u \in Tabs, j \in Ids : u # t \/ j # i => row'[u][j] = row[u][j]
  PROVE  RowsOK'
<1>1. ASSUME NEW u \in Tabs, NEW j \in Ids
      PROVE  GoodRow(row[u][j], j)'
  <2>1. CASE u = t /\ j = i
    BY <2>1
  <2>2. CASE u # t \/ j # i
    <3>1. PICK q : q = row[u][j]
      OBVIOUS
    <3>2. GoodRow(q, j)
      BY <3>1 DEF RowsOK
    <3>3. GoodRow(q, j)'
      BY <3>2, GoodRowStays
    <3>4. q = row'[u][j]
      BY <2>2, <3>1
    <3> QED BY <3>3, <3>4
  <2> QED BY <2>1, <2>2
<1> QED BY <1>1 DEF RowsOK

\* The tables of the tabs are left alone.
LEMMA SamePages ==
  ASSUME PagesOK, Grows, UNCHANGED <<shown, page>>
  PROVE  PagesOK'
<1>1. 1 .. Len(users) \subseteq 1 .. Len(users')
  BY DEF Grows
<1>2. \A t \in Tabs : shown[t] \in Seq(1 .. Len(users'))
  <2> TAKE t \in Tabs
  <2>1. PICK s \in Seq(1 .. Len(users)) : s = shown[t]
    BY DEF PagesOK
  <2>2. Len(s) \in Nat /\ \A k \in 1 .. Len(s) : s[k] \in 1 .. Len(users')
    BY <1>1
  <2>3. s = [k \in 1 .. Len(s) |-> s[k]]
    OBVIOUS
  <2>4. [k \in 1 .. Len(s) |-> s[k]] \in Seq(1 .. Len(users'))
    BY <2>2
  <2>5. s \in Seq(1 .. Len(users'))
    BY <2>3, <2>4
  <2> QED BY <2>1, <2>5
<1>3. shown' \in [Tabs -> Seq(1 .. Len(users'))]
  BY <1>2 DEF PagesOK
<1> QED BY <1>3 DEF PagesOK, PageInRange

\* Confirmations are left alone, and no deletion begins.
LEMMA SameModals ==
  ASSUME ModalsOK, Grows, modal' = modal,
         \A t \in Tabs, i \in Ids : Deleting(row'[t][i]) => Deleting(row[t][i])
  PROVE  ModalsOK'
<1>1. ASSUME NEW t \in Tabs PROVE GoodModal(modal[t], t)'
  <2>1. PICK m \in Modal : m = modal[t] /\ m = modal'[t]
    BY DEF ModalsOK
  <2>2. GoodModal(m, t)
    BY <2>1 DEF ModalsOK
  <2>3. CASE m.asked = 0
    BY <2>1, <2>3 DEF GoodModal
  <2>4. CASE m.asked # 0
    <3>1. m.asked \in Ids
      BY <2>4 DEF Modal
    <3>2. m.asked <= Len(users')
      BY <2>2, <2>4, <3>1 DEF Grows, GoodModal, Ids
    <3>3. ~Deleting(row'[t][m.asked])
      BY <2>1, <2>2, <2>4, <3>1 DEF GoodModal
    <3> QED BY <2>1, <2>2, <2>4, <3>2, <3>3 DEF GoodModal, Deleting
  <2> QED BY <2>3, <2>4
<1> QED BY <1>1 DEF ModalsOK

\* The tables are left alone, and each row asked about or being deleted was, or
\* is in the table.
LEMMA SameListed ==
  ASSUME ListedOK, shown' = shown,
         \A t \in Tabs, i \in Ids : modal'[t].asked = i \/ Deleting(row'[t][i]) =>
            modal[t].asked = i \/ Deleting(row[t][i]) \/ Contains(shown[t], i)
  PROVE  ListedOK'
BY DEF ListedOK, Deleting

\* The confirmation of one tab changes, rows do not.
LEMMA ModalSet ==
  ASSUME ModalsOK, UNCHANGED <<users, row>>, NEW t \in Tabs, NEW m, GoodModal(m, t),
         modal' = [modal EXCEPT ![t] = m]
  PROVE  ModalsOK'
<1>1. m \in Modal
  BY DEF GoodModal
<1>2. modal' \in [Tabs -> Modal] /\ modal'[t] = m /\ \A u \in Tabs : u # t => modal'[u] = modal[u]
  BY <1>1 DEF ModalsOK
<1>3. ASSUME NEW u \in Tabs PROVE GoodModal(modal[u], u)'
  <2>1. PICK q : q = modal'[u]
    OBVIOUS
  <2>2. GoodModal(q, u)
    BY <2>1, <1>2 DEF ModalsOK
  <2>3. GoodModal(q, u)'
    BY <2>2 DEF GoodModal, Deleting
  <2> QED BY <2>1, <2>3
<1> QED BY <1>2, <1>3 DEF ModalsOK

\* The forms are left alone, or one of them changes.
LEMMA GoodCreateStays ==
  ASSUME Grows, NEW c, GoodCreate(c)
  PROVE  GoodCreate(c)'
<1>1. c \in Creation
  BY DEF GoodCreate
<1>2. CASE c.stage = "ok"
  <2>1. c.id \in 1 .. Len(users) /\ c.id \in {0} \cup Ids
    BY <1>1, <1>2 DEF GoodCreate, Creation
  <2>2. c.id \in Ids /\ c.id \in 1 .. Len(users')
    BY <2>1 DEF Grows
  <2> QED BY <1>1, <1>2, <2>1, <2>2 DEF GoodCreate, Grows
<1>3. CASE c.stage # "ok"
  BY <1>1, <1>3 DEF GoodCreate
<1> QED BY <1>2, <1>3

\* The forms are left alone.
LEMMA SameCreates ==
  ASSUME CreatesOK, Grows, create' = create
  PROVE  CreatesOK'
<1>1. ASSUME NEW t \in Tabs PROVE GoodCreate(create[t])'
  <2>1. PICK c : c = create[t] /\ c = create'[t]
    OBVIOUS
  <2>2. GoodCreate(c)'
    BY <2>1, GoodCreateStays DEF CreatesOK
  <2> QED BY <2>1, <2>2
<1> QED BY <1>1 DEF CreatesOK

\* The form of one tab changes.
LEMMA CreateSet ==
  ASSUME CreatesOK, Grows, NEW t \in Tabs, NEW c, GoodCreate(c)', create' = [create EXCEPT ![t] = c]
  PROVE  CreatesOK'
<1>1. c \in Creation
  BY DEF GoodCreate
<1>2. /\ create' \in [Tabs -> Creation] /\ create'[t] = c
      /\ \A u \in Tabs : u # t => create'[u] = create[u]
  BY <1>1 DEF CreatesOK
<1>3. ASSUME NEW u \in Tabs PROVE GoodCreate(create[u])'
  <2>1. PICK q : q = create'[u]
    OBVIOUS
  <2>2. GoodCreate(q)'
    <3>1. CASE u = t
      BY <3>1, <2>1, <1>2
    <3>2. CASE u # t
      BY <3>2, <2>1, <1>2, GoodCreateStays DEF CreatesOK
    <3> QED BY <3>1, <3>2
  <2> QED BY <2>1, <2>2
<1> QED BY <1>2, <1>3 DEF CreatesOK

\* The moves are counted within their bound.
LEMMA UsedStays ==
  ASSUME Inv, Counted \/ UNCHANGED used
  PROVE  used' \in 0 .. MaxMoves
<1>1. used \in 0 .. MaxMoves
  BY Parts
<1> QED BY <1>1, AdminAssumption DEF Counted

-----------------------------------------------------------------------------
(* Steps of the page *)

\* One row of a tab changes, and is not deleted if it was not.
LEMMA RowStep ==
  ASSUME Inv, NEW t \in Tabs, NEW i \in 1 .. Len(users), NEW r, GoodRow(r, i),
         row' = [row EXCEPT ![t][i] = r],
         Deleting(r) => Deleting(row[t][i]),
         UNCHANGED <<users, shown, page, modal, create, stored>>, Counted \/ UNCHANGED used
  PROVE  Inv'
<1>1. TableOK /\ PagesOK /\ RowsOK /\ ModalsOK /\ ListedOK /\ CreatesOK
  BY Parts
<1>2. Grows /\ TableOK' /\ Len(users') = Len(users)
  BY <1>1, SameTable
<1>3. i \in Ids
  BY <1>1, AdminAssumption DEF TableOK, Ids
<1>4. GoodRow(r, i)'
  BY <1>2, <1>3, GoodRowStays
<1>5. /\ row' \in [Tabs -> [Ids -> Row]] /\ row'[t][i] = r
      /\ \A u \in Tabs, j \in Ids : u # t \/ j # i => row'[u][j] = row[u][j]
  BY <1>1, <1>3 DEF RowsOK, GoodRow
<1>6. RowsOK'
  BY <1>1, <1>2, <1>3, <1>4, <1>5, RowSet
<1>7. \A u \in Tabs, j \in Ids : Deleting(row'[u][j]) => Deleting(row[u][j])
  <2> TAKE u \in Tabs, j \in Ids
  <2>1. CASE u = t /\ j = i
    BY <2>1, <1>5
  <2>2. CASE u # t \/ j # i
    BY <2>2, <1>5
  <2> QED BY <2>1, <2>2
<1>8. ModalsOK' /\ ListedOK'
  BY <1>1, <1>2, <1>7, SameModals, SameListed
<1>9. PagesOK' /\ CreatesOK'
  BY <1>1, <1>2, SamePages, SameCreates
<1> QED BY <1>2, <1>6, <1>8, <1>9, UsedStays, NextParts

\* What the invariant says of one row.
LEMMA RowFacts ==
  ASSUME Inv, NEW t \in Tabs, NEW i \in 1 .. Len(users)
  PROVE  /\ i \in Ids /\ row[t][i] \in Row /\ GoodRow(row[t][i], i) /\ RowStored(row[t][i], i)
         /\ row \in [Tabs -> [Ids -> Row]] /\ users[i] \in User
         /\ users[i].state \in State /\ users[i].state \in stored[i]
<1>1. TableOK /\ RowsOK
  BY Parts
<1>2. i \in Ids
  BY <1>1, AdminAssumption DEF TableOK, Ids
<1>3. GoodRow(row[t][i], i) /\ row \in [Tabs -> [Ids -> Row]]
  BY <1>1, <1>2 DEF RowsOK
<1>4. RowStored(row[t][i], i)
  BY <1>3 DEF GoodRow
<1>5. users[i] \in User /\ users[i].state \in stored[i]
  BY <1>1 DEF TableOK
<1> QED BY <1>2, <1>3, <1>4, <1>5 DEF GoodRow, User

\* A row that has no post under way differs in its inputs only.
LEMMA InputsGood ==
  ASSUME NEW i \in Ids, NEW r, GoodRow(r, i), i <= Len(users), NEW q \in Row,
         q.base = r.base, q.save = r.save, q.delete = r.delete
  PROVE  GoodRow(q, i) /\ Saving(q) = Saving(r) /\ Deleting(q) = Deleting(r)
BY DEF GoodRow, RowStored, Saving, Deleting

\* Opening a row for editing fills its inputs.
LEMMA OpenEditStep ==
  ASSUME Inv, NEW t \in Tabs, NEW i \in 1 .. Len(users), OpenEdit(t, i)
  PROVE  Inv'
<1>1. PICK r \in Row : r = row[t][i]
  BY RowFacts
<1>2. GoodRow(r, i) /\ i \in Ids
  BY <1>1, RowFacts
<1>3. PICK input \in [name : Names, date : Dates, active : BOOLEAN] : input = InputOf(r.base)
  BY InputType DEF Row
<1>4. PICK q : q = [r EXCEPT !.editing = TRUE, !.input = input]
  OBVIOUS
<1>5. q \in Row /\ q.base = r.base /\ q.save = r.save /\ q.delete = r.delete
  BY <1>4 DEF Row
<1>6. GoodRow(q, i) /\ Saving(q) = Saving(r) /\ Deleting(q) = Deleting(r)
  BY <1>2, <1>5, InputsGood
<1>7. row' = [row EXCEPT ![t][i] = q]
  BY <1>1, <1>3, <1>4 DEF OpenEdit
<1> QED BY <1>1, <1>6, <1>7, RowStep DEF OpenEdit

\* Editing changes the inputs only.
LEMMA EditRowStep ==
  ASSUME Inv, NEW t \in Tabs, NEW i \in 1 .. Len(users), EditRow(t, i)
  PROVE  Inv'
<1>1. PICK r \in Row : r = row[t][i]
  BY RowFacts
<1>2. GoodRow(r, i) /\ i \in Ids
  BY <1>1, RowFacts
<1>3. PICK name \in Names, date \in Dates, active \in BOOLEAN :
         row' = [row EXCEPT ![t][i].input = [name |-> name, date |-> date, active |-> active]]
  BY DEF EditRow
<1>4. PICK input \in [name : Names, date : Dates, active : BOOLEAN] :
         input = [name |-> name, date |-> date, active |-> active]
  OBVIOUS
<1>5. PICK q : q = [r EXCEPT !.input = input]
  OBVIOUS
<1>6. q \in Row /\ q.base = r.base /\ q.save = r.save /\ q.delete = r.delete
  BY <1>5 DEF Row
<1>7. GoodRow(q, i) /\ Saving(q) = Saving(r) /\ Deleting(q) = Deleting(r)
  BY <1>2, <1>6, InputsGood
<1>8. row' = [row EXCEPT ![t][i] = q]
  BY <1>1, <1>3, <1>4, <1>5
<1> QED BY <1>1, <1>7, <1>8, RowStep DEF EditRow

\* Closing a row changes its mode only.
LEMMA CloseEditStep ==
  ASSUME Inv, NEW t \in Tabs, NEW i \in 1 .. Len(users), CloseEdit(t, i)
  PROVE  Inv'
<1>1. PICK r \in Row : r = row[t][i]
  BY RowFacts
<1>2. GoodRow(r, i) /\ i \in Ids
  BY <1>1, RowFacts
<1>3. PICK q : q = [r EXCEPT !.editing = FALSE]
  OBVIOUS
<1>4. q \in Row /\ q.base = r.base /\ q.save = r.save /\ q.delete = r.delete
  BY <1>3 DEF Row
<1>5. GoodRow(q, i) /\ Saving(q) = Saving(r) /\ Deleting(q) = Deleting(r)
  BY <1>2, <1>4, InputsGood
<1>6. row' = [row EXCEPT ![t][i] = q]
  BY <1>1, <1>3 DEF CloseEdit
<1> QED BY <1>1, <1>5, <1>6, RowStep DEF CloseEdit

\* The profile of a toggle that comes first is the baseline's.
LEMMA SaveRowStep ==
  ASSUME Inv, NEW t \in Tabs, NEW i \in 1 .. Len(users), SaveRow(t, i)
  PROVE  Inv'
<1>1. PICK r \in Row : r = row[t][i]
  BY RowFacts
<1>2. GoodRow(r, i) /\ RowStored(r, i) /\ i \in Ids
  BY <1>1, RowFacts
<1>3. PICK kind \in {"profile", "toggle"} :
         kind = IF [Current(r) EXCEPT !.active = r.base.active] # Baseline(r) THEN "profile"
                ELSE "toggle"
  OBVIOUS
<1>4. PICK sent \in State : sent = Current(r)
  BY CurrentType
<1>5. PICK p \in Post : p = Sent(kind, sent) /\ p.stage = "sent" /\ p.kind = kind /\ p.sent = sent
  BY SentType
<1>6. PICK q : q = [r EXCEPT !.save = p]
  OBVIOUS
<1>7. q \in Row /\ q.base = r.base /\ q.save = p /\ q.delete = r.delete
  BY <1>6 DEF Row
<1>8. ~Deleting(r) /\ ~Deleting(q)
  BY <1>1, <1>7 DEF SaveRow, MayAct, Deleting
<1>9. ASSUME kind = "toggle" PROVE ProfileStored(sent, i)
  <2>1. [sent EXCEPT !.active = r.base.active] = Baseline(r)
    BY <1>3, <1>4, <1>9
  <2>2. sent.name = Baseline(r).name /\ sent.expires = Baseline(r).expires
    BY <2>1 DEF State
  <2>3. sent.name = r.base.name /\ DateOf(sent.expires) = DateOf(r.base.expires)
    BY <2>2, CurrentType
  <2>4. ProfileStored(r.base, i)
    BY <1>2 DEF RowStored, StateStored
  <2> QED BY <2>3, <2>4 DEF ProfileStored
<1>10. RowStored(q, i)
  BY <1>2, <1>5, <1>7, <1>9 DEF RowStored, Saving
<1>11. GoodRow(q, i)
  BY <1>7, <1>8, <1>10 DEF GoodRow, Saving, Deleting
<1>12. row' = [row EXCEPT ![t][i] = q]
  <2>1. row' = [row EXCEPT ![t][i].save = p]
    BY <1>1, <1>3, <1>4, <1>5 DEF SaveRow
  <2> QED BY <2>1, <1>1, <1>6
<1> QED BY <1>1, <1>8, <1>11, <1>12, RowStep DEF SaveRow

\* Post p takes the place of the one that saves, or deletes, a row.
PutSave(t, i, p) == row' = [row EXCEPT ![t][i].save = p]
PutDelete(t, i, p) == row' = [row EXCEPT ![t][i].delete = p]

\* The answers to the posts, refusals, and what the service has read.
LEMMA SaveSet ==
  ASSUME Inv, NEW t \in Tabs, NEW i \in 1 .. Len(users), Saving(row[t][i]), NEW p \in Post,
         p.stage # "none" =>
            /\ p.kind = row[t][i].save.kind /\ p.sent = row[t][i].save.sent
            /\ p.stage = "read" => StateStored(p.seen, i)
            /\ p.stage # "ok",
         PutSave(t, i, p),
         UNCHANGED <<users, shown, page, modal, create, stored>>, Counted \/ UNCHANGED used
  PROVE  Inv'
<1>1. PICK r \in Row : r = row[t][i]
  BY RowFacts
<1>2. GoodRow(r, i) /\ RowStored(r, i) /\ i \in Ids
  BY <1>1, RowFacts
<1>3. PICK q : q = [r EXCEPT !.save = p]
  OBVIOUS
<1>4. q \in Row /\ q.base = r.base /\ q.save = p /\ q.delete = r.delete
  BY <1>3 DEF Row
<1>5. RowStored(q, i)
  BY <1>1, <1>2, <1>4 DEF RowStored, Saving
<1>6. GoodRow(q, i) /\ Deleting(q) = Deleting(r)
  BY <1>2, <1>4, <1>5 DEF GoodRow, Deleting
<1>7. row' = [row EXCEPT ![t][i] = q]
  BY <1>1, <1>3 DEF PutSave
<1> QED BY <1>1, <1>6, <1>7, RowStep

\* The same of the deletion of a row: its data is left as it is.
LEMMA DeleteSet ==
  ASSUME Inv, NEW t \in Tabs, NEW i \in 1 .. Len(users), Deleting(row[t][i]), NEW p \in Post,
         PutDelete(t, i, p),
         UNCHANGED <<users, shown, page, modal, create, stored>>, Counted \/ UNCHANGED used
  PROVE  Inv'
<1>1. PICK r \in Row : r = row[t][i]
  BY RowFacts
<1>2. GoodRow(r, i) /\ RowStored(r, i) /\ i \in Ids
  BY <1>1, RowFacts
<1>3. PICK q : q = [r EXCEPT !.delete = p]
  OBVIOUS
<1>4. q \in Row /\ q.base = r.base /\ q.save = r.save /\ q.delete = p
  BY <1>3 DEF Row
<1>5. GoodRow(q, i)
  BY <1>1, <1>2, <1>4 DEF GoodRow, RowStored, Saving, Deleting
<1>6. row' = [row EXCEPT ![t][i] = q]
  BY <1>1, <1>3 DEF PutDelete
<1> QED BY <1>5, <1>6, RowStep

\* The answer to a profile makes way for the toggle, if there is one; else what
\* was sent, and is stored, is what the row shows.
LEMMA AnsweredStep ==
  ASSUME Inv, NEW t \in Tabs, NEW i \in 1 .. Len(users), Answered(t, i)
  PROVE  Inv'
<1>1. PICK r \in Row : r = row[t][i]
  BY RowFacts
<1>2. GoodRow(r, i) /\ RowStored(r, i) /\ i \in Ids /\ i <= Len(users)
  BY <1>1, RowFacts
<1>3. r.save.stage = "ok" /\ Saving(r) /\ r.save.kind \in {"profile", "toggle"}
  BY <1>1, <1>2 DEF Answered, RowStored, Saving
<1>4. PICK sent \in State : sent = r.save.sent
  BY DEF Row, Post
<1>5. ProfileStored(sent, i)
  BY <1>2, <1>3, <1>4 DEF RowStored
<1>6. CASE r.save.kind = "profile" /\ r.base.active # sent.active
  <2>1. PICK p \in Post : p = Sent("toggle", sent) /\ p.stage = "sent" /\ p.kind = "toggle" /\ p.sent = sent
    BY SentType
  <2>2. PICK q : q = [r EXCEPT !.save = p]
    OBVIOUS
  <2>3. q \in Row /\ q.base = r.base /\ q.save = p /\ q.delete = r.delete
    BY <2>2 DEF Row
  <2>4. RowStored(q, i)
    BY <1>2, <1>5, <2>1, <2>3 DEF RowStored
  <2>5. GoodRow(q, i) /\ Deleting(q) = Deleting(r)
    BY <1>2, <2>3, <2>4 DEF GoodRow, Deleting
  <2>6. row' = [row EXCEPT ![t][i] = q]
    BY <1>1, <1>4, <1>6, <2>1, <2>2 DEF Answered
  <2> QED BY <1>1, <1>3, <2>5, <2>6, RowStep DEF Answered
<1>7. CASE ~(r.save.kind = "profile" /\ r.base.active # sent.active)
  <2>1. PICK v \in Row : v = ViewRow(sent) /\ v.base = sent /\ ~Saving(v)
    BY ViewRowType
  <2>2. PICK q : q = [v EXCEPT !.delete = r.delete]
    OBVIOUS
  <2>3. q \in Row /\ q.base = sent /\ q.save = v.save /\ q.delete = r.delete
    BY <2>1, <2>2 DEF Row
  <2>4. ActiveStored(sent.active, i)
    <3>1. CASE r.save.kind = "toggle"
      BY <3>1, <1>2, <1>3, <1>4 DEF RowStored
    <3>2. CASE r.base.active = sent.active
      BY <3>2, <1>2 DEF RowStored, StateStored
    <3> QED BY <1>3, <1>7, <3>1, <3>2
  <2>5. RowStored(q, i)
    BY <1>5, <2>1, <2>3, <2>4 DEF RowStored, StateStored, Saving
  <2>6. GoodRow(q, i) /\ Deleting(q) = Deleting(r)
    BY <1>2, <2>3, <2>5 DEF GoodRow, Deleting
  <2>7. row' = [row EXCEPT ![t][i] = q]
    BY <1>1, <1>4, <1>7, <2>1, <2>2 DEF Answered, RowSaved
  <2> QED BY <1>1, <1>3, <2>6, <2>7, RowStep DEF Answered
<1> QED BY <1>6, <1>7

\* A refused save is taken off its row.
LEMMA NotSavedStep ==
  ASSUME Inv, NEW t \in Tabs, NEW i \in 1 .. Len(users), NotSaved(t, i)
  PROVE  Inv'
BY NoPostType, SaveSet DEF NotSaved, Saving, PutSave

\* A refused deletion is taken off its row.
LEMMA NotDeletedStep ==
  ASSUME Inv, NEW t \in Tabs, NEW i \in 1 .. Len(users), NotDeleted(t, i)
  PROVE  Inv'
BY NoPostType, DeleteSet DEF NotDeleted, Deleting, PutDelete

\* A refused or lost post.
LEMMA NoType ==
  ASSUME NEW p \in Post
  PROVE  /\ [p EXCEPT !.stage = "no"] \in Post /\ [p EXCEPT !.stage = "no"].stage = "no"
         /\ [p EXCEPT !.stage = "no"].kind = p.kind /\ [p EXCEPT !.stage = "no"].sent = p.sent
BY DEF Post

\* A save is refused, or its answer lost.
LEMMA SaveLost ==
  ASSUME Inv, NEW t \in Tabs, NEW i \in 1 .. Len(users), Saving(row[t][i]),
         row' = [row EXCEPT ![t][i].save.stage = "no"],
         UNCHANGED <<users, shown, page, modal, create, stored>>, Counted \/ UNCHANGED used
  PROVE  Inv'
<1>1. row[t][i] \in Row
  BY RowFacts
<1>2. PICK p \in Post : p = row[t][i].save
  BY <1>1 DEF Row
<1>3. PICK q \in Post : q = [p EXCEPT !.stage = "no"] /\ q.stage = "no" /\ q.kind = p.kind /\ q.sent = p.sent
  BY NoType
<1>4. PutSave(t, i, q)
  BY <1>2, <1>3 DEF PutSave
<1> QED BY <1>2, <1>3, <1>4, SaveSet

\* A deletion's answer is lost.
LEMMA DeleteLost ==
  ASSUME Inv, NEW t \in Tabs, NEW i \in 1 .. Len(users), Deleting(row[t][i]),
         row' = [row EXCEPT ![t][i].delete.stage = "no"],
         UNCHANGED <<users, shown, page, modal, create, stored>>, Counted \/ UNCHANGED used
  PROVE  Inv'
<1>1. row[t][i] \in Row
  BY RowFacts
<1>2. PICK p \in Post : p = row[t][i].delete
  BY <1>1 DEF Row
<1>3. PICK q \in Post : q = [p EXCEPT !.stage = "no"]
  BY NoType
<1>4. PutDelete(t, i, q)
  BY <1>2, <1>3 DEF PutDelete
<1> QED BY <1>4, DeleteSet

\* The connection of either breaks.
LEMMA LoseStep ==
  ASSUME Inv, NEW t \in Tabs, NEW i \in 1 .. Len(users), Lose(t, i)
  PROVE  Inv'
BY SaveLost, DeleteLost DEF Lose

\* The service refuses a profile.
LEMMA RefuseProfileStep ==
  ASSUME Inv, NEW t \in Tabs, NEW i \in 1 .. Len(users), RefuseProfile(t, i)
  PROVE  Inv'
BY SaveLost DEF RefuseProfile, Saving

\* What the service finds of a user is what is stored.
LEMMA ServeReadStep ==
  ASSUME Inv, NEW t \in Tabs, NEW i \in 1 .. Len(users), ServeRead(t, i)
  PROVE  Inv'
<1>1. /\ row[t][i] \in Row /\ users[i].state \in State /\ users[i].state \in stored[i] /\ i \in Ids
      /\ users[i] \in User
  BY RowFacts
<1>2. ASSUME NEW p \in Post
      PROVE  /\ ReadUser(p, i) \in Post /\ ReadUser(p, i).kind = p.kind /\ ReadUser(p, i).sent = p.sent
             /\ ReadUser(p, i).stage \in {"no", "read"}
             /\ ReadUser(p, i).stage = "read" => ReadUser(p, i).seen = users[i].state
  <2>1. CASE users[i].deleted
    BY <2>1, NoType DEF ReadUser
  <2>2. CASE ~users[i].deleted
    <3>1. PICK state \in State : state = users[i].state
      BY <1>1
    <3>2. ReadUser(p, i) = [p EXCEPT !.stage = "read", !.seen = state]
      BY <2>2, <3>1 DEF ReadUser
    <3> QED BY <3>1, <3>2 DEF Post
  <2> QED BY <2>1, <2>2
<1>3. StateStored(users[i].state, i)
  BY <1>1, WasStored
<1>4. CASE row[t][i].save.stage = "sent" /\ row' = [row EXCEPT ![t][i].save = ReadUser(@, i)]
  <2>1. PICK p \in Post : p = row[t][i].save
    BY <1>1 DEF Row
  <2>2. PICK q \in Post : /\ q = ReadUser(p, i) /\ q.kind = p.kind /\ q.sent = p.sent
                          /\ q.stage \in {"no", "read"}
                          /\ q.stage = "read" => q.seen = users[i].state
    BY <1>2
  <2>3. PutSave(t, i, q)
    BY <1>4, <2>1, <2>2 DEF PutSave
  <2> QED BY <1>3, <1>4, <2>1, <2>2, <2>3, SaveSet DEF ServeRead, Saving
<1>5. CASE row[t][i].delete.stage = "sent" /\ row' = [row EXCEPT ![t][i].delete = ReadUser(@, i)]
  <2>1. PICK p \in Post : p = row[t][i].delete
    BY <1>1 DEF Row
  <2>2. PICK q \in Post : q = ReadUser(p, i)
    BY <1>2
  <2>3. PutDelete(t, i, q)
    BY <1>5, <2>1, <2>2 DEF PutDelete
  <2> QED BY <1>5, <2>3, DeleteSet DEF ServeRead, Deleting
<1> QED BY <1>4, <1>5 DEF ServeRead

\* The confirmation of a tab changes, and nothing else.
LEMMA ModalStep ==
  ASSUME Inv, NEW t \in Tabs, NEW m, GoodModal(m, t), modal' = [modal EXCEPT ![t] = m],
         m.asked \in {0, modal[t].asked} \/ Contains(shown[t], m.asked),
         UNCHANGED <<users, shown, page, row, create, stored>>, Counted \/ UNCHANGED used
  PROVE  Inv'
<1>1. TableOK /\ PagesOK /\ RowsOK /\ ModalsOK /\ ListedOK /\ CreatesOK
  BY Parts
<1>2. Grows /\ TableOK' /\ Len(users') = Len(users)
  BY <1>1, SameTable
<1>3. ModalsOK'
  BY <1>1, ModalSet
<1>4. PagesOK' /\ CreatesOK' /\ RowsOK'
  BY <1>1, <1>2, SamePages, SameCreates, SameRows
<1>5. ListedOK'
  <2>1. modal'[t] = m /\ \A u \in Tabs : u # t => modal'[u] = modal[u]
    BY <1>1 DEF ModalsOK
  <2>2. \A i \in Ids : i # 0
    BY DEF Ids
  <2>3. \A u \in Tabs, i \in Ids : modal'[u].asked = i => modal[u].asked = i \/ Contains(shown[u], i)
    BY <2>1, <2>2
  <2> QED BY <1>1, <2>3, SameListed
<1> QED BY <1>2, <1>3, <1>4, <1>5, UsedStays, NextParts

\* What the invariant says of one confirmation.
LEMMA ModalFacts ==
  ASSUME Inv, NEW t \in Tabs
  PROVE  modal[t] \in Modal /\ GoodModal(modal[t], t) /\ modal \in [Tabs -> Modal]
BY Parts DEF ModalsOK, GoodModal

\* What the invariant says of the pages of a tab.
LEMMA PageFacts ==
  ASSUME Inv, NEW t \in Tabs
  PROVE  /\ shown[t] \in Seq(1 .. Len(users)) /\ IsInjective(shown[t])
         /\ page[t] \in Nat \ {0} /\ page[t] <= TotalPages(shown[t])
         /\ TotalPages(shown[t]) \in Nat \ {0}
<1>1. PagesOK
  BY Parts
<1>2. shown[t] \in Seq(1 .. Len(users))
  BY <1>1 DEF PagesOK
<1> QED BY <1>1, <1>2, SomePage DEF PagesOK, PageInRange

\* A modal that is shown is not closed, and asks what it asked.
LEMMA ShownType ==
  ASSUME NEW m \in Modal
  PROVE  /\ Shown(m) \in Modal /\ Shown(m).asked = m.asked
         /\ Shown(m).shown # "closed"
<1>1. PICK stage \in Stages \ {"closed"} :
         stage = CASE m.shown = "closed"   -> "fading"
                   [] m.shown = "backdrop" -> "again"
                   [] OTHER                -> m.shown
  BY DEF Modal, Stages
<1>2. Shown(m) = [m EXCEPT !.shown = stage]
  BY <1>1 DEF Shown
<1> QED BY <1>1, <1>2 DEF Modal

\* The question is put about a row of the table that is not being deleted.
LEMMA ClickDeleteStep ==
  ASSUME Inv, NEW t \in Tabs, NEW i \in 1 .. Len(users), ClickDelete(t, i)
  PROVE  Inv'
<1>1. PICK m \in Modal : m = modal[t]
  BY ModalFacts
<1>2. i \in Ids /\ i <= Len(users) /\ row[t][i] \in Row
  BY RowFacts
<1>3. i \in Visible(t) /\ ~Deleting(row[t][i])
  BY DEF ClickDelete, MayDelete, MayAct, Reachable
<1>4. Contains(shown[t], i)
  <2>1. shown[t] \in Seq(1 .. Len(users))
    BY PageFacts
  <2>2. \E k \in DOMAIN shown[t] : shown[t][k] = i
    BY <1>3 DEF Visible
  <2> QED BY <2>1, <2>2 DEF Contains
<1>5. PICK s \in Modal : s = Shown(m) /\ s.shown # "closed"
  BY ShownType
<1>6. PICK n : n = [s EXCEPT !.asked = i]
  OBVIOUS
<1>7. n \in Modal /\ n.asked = i /\ n.shown # "closed"
  BY <1>2, <1>5, <1>6 DEF Modal
<1>8. GoodModal(n, t)
  BY <1>2, <1>3, <1>7 DEF GoodModal
<1>9. modal' = [modal EXCEPT ![t] = n]
  BY <1>1, <1>5, <1>6 DEF ClickDelete
<1> QED BY <1>4, <1>7, <1>8, <1>9, ModalStep DEF ClickDelete

\* The question stays about the row it was put about.
LEMMA FadedStep ==
  ASSUME Inv, NEW t \in Tabs, Faded(t)
  PROVE  Inv'
<1>1. PICK m \in Modal : m = modal[t] /\ GoodModal(m, t)
  BY ModalFacts
<1>2. PICK stage \in Stages \ {"closed"} : modal' = [modal EXCEPT ![t].shown = stage]
  BY DEF Faded, Stages
<1>3. PICK n : n = [m EXCEPT !.shown = stage]
  OBVIOUS
<1>4. n \in Modal /\ n.asked = m.asked /\ n.shown = stage
  BY <1>3 DEF Modal
<1>5. GoodModal(n, t)
  BY <1>1, <1>4 DEF GoodModal
<1>6. modal' = [modal EXCEPT ![t] = n]
  BY <1>1, <1>2, <1>3
<1> QED BY <1>1, <1>4, <1>5, <1>6, ModalStep DEF Faded

\* A confirmation that nobody waits for asks about no row.
LEMMA AskedNone ==
  ASSUME NEW t, NEW m \in Modal, m.asked = 0
  PROVE  GoodModal(m, t)
BY DEF GoodModal

\* Hiding changes how a confirmation is shown only.
LEMMA HiddenType ==
  ASSUME NEW m \in Modal
  PROVE  /\ Hidden(m) \in Modal /\ Hidden(m).asked = m.asked
         /\ m.shown # "closed" => Hidden(m).shown # "closed"
<1>1. PICK stage \in Stages : stage = IF m.shown = "open" THEN "closing" ELSE m.shown
  BY DEF Modal, Stages
<1>2. Hidden(m) = [m EXCEPT !.shown = stage]
  BY <1>1 DEF Hidden
<1> QED BY <1>1, <1>2 DEF Modal

\* A cancelled confirmation asks what it asked, or nothing.
LEMMA CancelStep ==
  ASSUME Inv, NEW t \in Tabs, Cancel(t)
  PROVE  Inv'
<1>1. PICK m \in Modal : m = modal[t] /\ GoodModal(m, t)
  BY ModalFacts
<1>2. PICK h \in Modal : h = Hidden(m) /\ h.asked = m.asked /\ (m.shown # "closed" => h.shown # "closed")
  BY HiddenType
<1>3. CASE modal' = [modal EXCEPT ![t] = Hidden(@)]
  <2>1. GoodModal(h, t)
    BY <1>1, <1>2 DEF GoodModal
  <2>2. modal' = [modal EXCEPT ![t] = h]
    BY <1>1, <1>2, <1>3
  <2> QED BY <1>1, <1>2, <2>1, <2>2, ModalStep DEF Cancel
<1>4. CASE modal' = [modal EXCEPT ![t] = [Hidden(@) EXCEPT !.asked = 0]]
  <2>1. PICK n : n = [h EXCEPT !.asked = 0]
    OBVIOUS
  <2>2. n \in Modal /\ n.asked = 0
    BY <2>1 DEF Modal
  <2>3. GoodModal(n, t)
    BY <2>2, AskedNone
  <2>4. modal' = [modal EXCEPT ![t] = n]
    BY <1>1, <1>2, <1>4, <2>1
  <2> QED BY <2>2, <2>3, <2>4, ModalStep DEF Cancel
<1> QED BY <1>3, <1>4 DEF Cancel

\* A closed confirmation asks about nothing.
LEMMA ClosedType == Closed \in Modal /\ Closed.asked = 0
BY DEF Closed, Modal, Stages

\* A confirmation that is hidden has been answered.
LEMMA ModalHiddenStep ==
  ASSUME Inv, NEW t \in Tabs, ModalHidden(t)
  PROVE  Inv'
<1>1. PICK m \in Modal : modal' = [modal EXCEPT ![t] = m] /\ m.asked = 0
  <2>1. [shown |-> "fading", asked |-> 0] \in Modal
    BY DEF Modal, Stages
  <2> QED BY <2>1, ClosedType DEF ModalHidden
<1>2. GoodModal(m, t)
  BY <1>1, AskedNone
<1> QED BY <1>1, <1>2, ModalStep DEF ModalHidden

\* One tab's confirmation is closed or answered while its rows change.
LEMMA AnsweredModal ==
  ASSUME ModalsOK, UNCHANGED users, NEW t \in Tabs, modal' \in [Tabs -> Modal],
         modal'[t].asked = 0,
         \A u \in Tabs : u # t => modal'[u] = modal[u] /\ row'[u] = row[u]
  PROVE  ModalsOK'
<1>1. ASSUME NEW u \in Tabs PROVE GoodModal(modal[u], u)'
  <2>1. PICK m \in Modal : m = modal'[u]
    OBVIOUS
  <2>2. GoodModal(m, u)'
    <3>1. CASE u = t
      BY <3>1, <2>1 DEF GoodModal
    <3>2. CASE u # t
      <4>1. m = modal[u] /\ GoodModal(m, u) /\ row'[u] = row[u]
        BY <3>2, <2>1 DEF ModalsOK
      <4> QED BY <4>1 DEF GoodModal, Deleting
    <3> QED BY <3>1, <3>2
  <2> QED BY <2>1, <2>2
<1> QED BY <1>1 DEF ModalsOK

\* A confirmed deletion is posted: its row is in the table.
LEMMA ConfirmStep ==
  ASSUME Inv, NEW t \in Tabs, Confirm(t)
  PROVE  Inv'
<1>1. TableOK /\ PagesOK /\ RowsOK /\ ModalsOK /\ ListedOK /\ CreatesOK
  BY Parts
<1>2. Grows /\ TableOK' /\ Len(users') = Len(users)
  BY <1>1, SameTable DEF Confirm
<1>3. PICK m \in Modal : m = modal[t] /\ GoodModal(m, t)
  BY ModalFacts
<1>4. PICK h \in Modal : h = Hidden(m)
  BY HiddenType
<1>5. PICK n : n = [h EXCEPT !.asked = 0]
  OBVIOUS
<1>6. n \in Modal /\ n.asked = 0
  BY <1>5 DEF Modal
<1>7. modal' = [modal EXCEPT ![t] = n]
  BY <1>3, <1>4, <1>5 DEF Confirm
<1>8. modal' \in [Tabs -> Modal] /\ modal'[t].asked = 0 /\ \A u \in Tabs : u # t => modal'[u] = modal[u]
  BY <1>1, <1>6, <1>7 DEF ModalsOK
<1>9. /\ RowsOK' /\ \A u \in Tabs : u # t => row'[u] = row[u]
      /\ \A u \in Tabs, j \in Ids : Deleting(row'[u][j]) =>
            modal[u].asked = j \/ Deleting(row[u][j])
  <2>1. CASE m.asked = 0
    BY <1>1, <1>2, <1>3, <2>1, SameRows DEF Confirm
  <2>2. CASE m.asked # 0
    <3>1. PICK i \in Ids : i = m.asked
      BY <2>2 DEF Modal
    <3>2. i \in 1 .. Len(users)
      BY <1>1, <1>3, <2>2, <3>1 DEF GoodModal, Ids, TableOK
    <3>3. PICK r \in Row : r = row[t][i] /\ GoodRow(r, i) /\ RowStored(r, i)
      BY <3>2, RowFacts
    <3>4. PICK p \in Post : p = Sent("delete", r.base)
      BY SentType DEF Row
    <3>5. PICK q : q = [r EXCEPT !.delete = p]
      OBVIOUS
    <3>6. q \in Row /\ q.base = r.base /\ q.save = r.save
      BY <3>5 DEF Row
    <3>7. RowStored(q, i)
      BY <3>3, <3>6 DEF RowStored, Saving
    <3>8. GoodRow(q, i)
      BY <3>2, <3>3, <3>6, <3>7 DEF GoodRow
    <3>9. GoodRow(q, i)'
      BY <1>2, <3>8, GoodRowStays
    <3>10. row' = [row EXCEPT ![t][i] = q]
      BY <1>3, <2>2, <3>1, <3>3, <3>4, <3>5 DEF Confirm
    <3>11. /\ row' \in [Tabs -> [Ids -> Row]] /\ row'[t][i] = q
           /\ \A u \in Tabs, j \in Ids : u # t \/ j # i => row'[u][j] = row[u][j]
           /\ \A u \in Tabs : u # t => row'[u] = row[u]
      BY <1>1, <3>6, <3>10 DEF RowsOK
    <3>12. \A u \in Tabs, j \in Ids : Deleting(row'[u][j]) =>
              modal[u].asked = j \/ Deleting(row[u][j])
      BY <1>3, <3>1, <3>11
    <3> QED BY <1>1, <1>2, <3>9, <3>11, <3>12, RowSet
  <2> QED BY <2>1, <2>2
<1>10. ModalsOK'
  BY <1>1, <1>8, <1>9, AnsweredModal DEF Confirm
<1>11. PagesOK' /\ CreatesOK'
  BY <1>1, <1>2, SamePages, SameCreates DEF Confirm
<1>12. ListedOK'
  <2>1. \A u \in Tabs, j \in Ids : modal'[u].asked = j => modal[u].asked = j
    BY <1>8 DEF Ids
  <2> QED BY <1>1, <1>9, <2>1, SameListed DEF Confirm
<1> QED BY <1>2, <1>9, <1>10, <1>11, <1>12, UsedStays, NextParts DEF Confirm

-----------------------------------------------------------------------------
(* Steps that change the list of rows or its page *)

\* Another page of a tab is shown.
LEMMA PageStep ==
  ASSUME Inv, NEW t \in Tabs, NEW n \in Nat \ {0}, n <= TotalPages(shown[t]),
         page' = [page EXCEPT ![t] = n],
         UNCHANGED <<users, shown, row, modal, create, stored>>, Counted \/ UNCHANGED used
  PROVE  Inv'
<1>1. TableOK /\ PagesOK /\ RowsOK /\ ModalsOK /\ ListedOK /\ CreatesOK
  BY Parts
<1>2. Grows /\ TableOK' /\ Len(users') = Len(users)
  BY <1>1, SameTable
<1>3. /\ page' \in [Tabs -> Nat \ {0}] /\ page'[t] = n
      /\ \A u \in Tabs : u # t => page'[u] = page[u]
  BY <1>1 DEF PagesOK
<1>4. PageInRange'
  BY <1>1, <1>3 DEF PagesOK, PageInRange, TotalPages
<1>5. PagesOK'
  BY <1>1, <1>3, <1>4 DEF PagesOK
<1>6. ModalsOK' /\ ListedOK'
  BY <1>1, <1>2, SameModals, SameListed
<1>7. CreatesOK' /\ RowsOK'
  BY <1>1, <1>2, SameCreates, SameRows
<1> QED BY <1>2, <1>5, <1>6, <1>7, UsedStays, NextParts

\* There is a page before one that is not the first.
LEMMA PrevPageStep ==
  ASSUME Inv, NEW t \in Tabs, PrevPage(t)
  PROVE  Inv'
<1>1. PICK n \in Nat \ {0} : n = page[t] - 1
  BY PageFacts DEF PrevPage
<1>2. n <= TotalPages(shown[t])
  BY <1>1, PageFacts
<1>3. page' = [page EXCEPT ![t] = n]
  BY <1>1 DEF PrevPage
<1> QED BY <1>2, <1>3, PageStep DEF PrevPage

\* There is a page after one that is not the last.
LEMMA NextPageStep ==
  ASSUME Inv, NEW t \in Tabs, NextPage(t)
  PROVE  Inv'
<1>1. PICK n \in Nat \ {0} : n = page[t] + 1
  BY PageFacts DEF NextPage
<1>2. n <= TotalPages(shown[t])
  BY <1>1, PageFacts DEF NextPage
<1>3. page' = [page EXCEPT ![t] = n]
  BY <1>1 DEF NextPage
<1> QED BY <1>2, <1>3, PageStep DEF NextPage

\* Removing a row leaves the other rows, no two of them alike.
LEMMA RemovedRows ==
  ASSUME NEW S, NEW s \in Seq(S), IsInjective(s), NEW e
  PROVE  /\ RemoveFirst(s, e) \in Seq(S) /\ IsInjective(RemoveFirst(s, e))
         /\ \A x : x # e /\ Contains(s, x) => Contains(RemoveFirst(s, e), x)
<1>1. CASE ~ \E k \in 1 .. Len(s) : s[k] = e
  BY <1>1 DEF RemoveFirst
<1>2. CASE \E k \in 1 .. Len(s) : s[k] = e
  <2>1. PICK k \in 1 .. Len(s) : s[k] = e
    BY <1>2
  <2>2. \A j \in 1 .. Len(s) : s[j] = e => j = k
    BY <2>1 DEF IsInjective
  <2>3. {j \in 1 .. Len(s) : s[j] = e} = {k}
    BY <2>1, <2>2
  <2>4. Min({k}) = k
    BY DEF Min
  <2>5. RemoveFirst(s, e) = RemoveAt(s, k)
    BY <1>2, <2>3, <2>4 DEF RemoveFirst, SelectInSeq
  <2> DEFINE a == SubSeq(s, 1, k - 1)
             b == SubSeq(s, k + 1, Len(s))
  <2>6. k \in Int /\ Len(s) \in Nat /\ k - 1 \in Nat /\ k <= Len(s)
    OBVIOUS
  <2>7. a \in Seq(S) /\ Len(a) = k - 1 /\ \A j \in 1 .. k - 1 : a[j] = s[j]
    <3>1. \A j \in 1 .. k - 1 : s[j] \in S
      BY <2>6
    <3> QED BY <2>6, <3>1, SubSeqProperties
  <2>8. b \in Seq(S) /\ Len(b) = Len(s) - k /\ \A j \in 1 .. Len(s) - k : b[j] = s[k + j]
    <3>1. \A j \in k + 1 .. Len(s) : s[j] \in S
      BY <2>6
    <3>2. /\ b \in Seq(S) /\ Len(b) = IF k + 1 <= Len(s) THEN Len(s) - (k + 1) + 1 ELSE 0
          /\ \A j \in 1 .. Len(s) - (k + 1) + 1 : b[j] = s[(k + 1) + j - 1]
      BY <2>6, <3>1, SubSeqProperties
    <3> QED BY <2>6, <3>2
  <2> HIDE DEF a, b
  <2>9. PICK c : c = a \o b
    OBVIOUS
  <2>10. /\ c \in Seq(S) /\ Len(c) = Len(s) - 1
         /\ \A j \in 1 .. Len(s) - 1 : c[j] = IF j <= k - 1 THEN s[j] ELSE s[j + 1]
    <3>1. /\ c \in Seq(S) /\ Len(c) = Len(a) + Len(b)
          /\ \A j \in 1 .. Len(a) + Len(b) : c[j] = IF j <= Len(a) THEN a[j] ELSE b[j - Len(a)]
      BY <2>7, <2>8, <2>9, ConcatProperties
    <3>2. Len(a) + Len(b) = Len(s) - 1
      BY <2>6, <2>7, <2>8
    <3>3. ASSUME NEW j \in 1 .. Len(s) - 1 PROVE c[j] = IF j <= k - 1 THEN s[j] ELSE s[j + 1]
      <4>1. CASE j <= k - 1
        <5>1. j \in 1 .. k - 1
          BY <4>1, <2>6
        <5>2. c[j] = a[j]
          BY <5>1, <2>6, <2>7, <3>1, <3>2
        <5>3. a[j] = s[j]
          BY <5>1, <2>7
        <5> QED BY <4>1, <5>2, <5>3
      <4>2. CASE ~ (j <= k - 1)
        <5>1. j - (k - 1) \in 1 .. Len(s) - k
          BY <4>2, <2>6
        <5>2. c[j] = b[j - (k - 1)]
          BY <4>2, <2>6, <2>7, <3>1, <3>2
        <5>3. b[j - (k - 1)] = s[k + (j - (k - 1))]
          BY <5>1, <2>8
        <5>4. k + (j - (k - 1)) = j + 1
          BY <2>6
        <5> QED BY <4>2, <5>2, <5>3, <5>4
      <4> QED BY <4>1, <4>2
    <3> QED BY <3>1, <3>2, <3>3
  <2>11. IsInjective(c)
    <3>1. DOMAIN c = 1 .. Len(s) - 1 /\ DOMAIN s = 1 .. Len(s)
      BY <2>10
    <3>2. ASSUME NEW i \in 1 .. Len(s) - 1, NEW j \in 1 .. Len(s) - 1, c[i] = c[j] PROVE i = j
      <4>1. PICK x \in 1 .. Len(s) : x = IF i <= k - 1 THEN i ELSE i + 1
        BY <2>6
      <4>2. PICK y \in 1 .. Len(s) : y = IF j <= k - 1 THEN j ELSE j + 1
        BY <2>6
      <4>3. s[x] = c[i] /\ s[y] = c[j]
        BY <2>10, <4>1, <4>2
      <4>4. x = y
        BY <3>1, <3>2, <4>3 DEF IsInjective
      <4> QED BY <2>6, <4>1, <4>2, <4>4
    <3> QED BY <3>1, <3>2 DEF IsInjective
  <2>12. ASSUME NEW x, x # e, Contains(s, x) PROVE Contains(c, x)
    <3>1. PICK j \in 1 .. Len(s) : s[j] = x
      BY <2>12 DEF Contains
    <3>2. j # k
      BY <2>1, <2>12, <3>1
    <3>3. PICK l \in 1 .. Len(s) - 1 : l = IF j <= k - 1 THEN j ELSE j - 1
      BY <2>6, <3>2
    <3>4. c[l] = x
      BY <2>6, <2>10, <3>1, <3>2, <3>3
    <3> QED BY <2>10, <3>3, <3>4 DEF Contains
  <2>13. RemoveFirst(s, e) = c
    BY <2>5, <2>9 DEF RemoveAt, a, b
  <2> QED BY <2>10, <2>11, <2>12, <2>13
<1> QED BY <1>1, <1>2

\* The rows of one tab and the number of its page change.
LEMMA PagesSet ==
  ASSUME PagesOK, Grows, Len(users') = Len(users), NEW t \in Tabs, NEW rows \in Seq(1 .. Len(users)),
         IsInjective(rows), NEW n \in Nat \ {0}, n <= TotalPages(rows),
         shown' = [shown EXCEPT ![t] = rows], page' = [page EXCEPT ![t] = n]
  PROVE  PagesOK'
<1>1. /\ shown' \in [Tabs -> Seq(1 .. Len(users'))] /\ shown'[t] = rows
      /\ \A u \in Tabs : u # t => shown'[u] = shown[u]
  BY DEF PagesOK
<1>2. /\ page' \in [Tabs -> Nat \ {0}] /\ page'[t] = n
      /\ \A u \in Tabs : u # t => page'[u] = page[u]
  BY DEF PagesOK
<1>3. \A u \in Tabs : IsInjective(shown'[u]) /\ page'[u] <= TotalPages(shown'[u])
  <2> TAKE u \in Tabs
  <2>1. CASE u = t
    BY <2>1, <1>1, <1>2
  <2>2. CASE u # t
    BY <2>2, <1>1, <1>2 DEF PagesOK, PageInRange
  <2> QED BY <2>1, <2>2
<1> QED BY <1>1, <1>2, <1>3 DEF PagesOK, PageInRange, IsInjective, TotalPages

\* A deleted user's row leaves the page, whose number stays one there is.
LEMMA DeletedStep ==
  ASSUME Inv, NEW t \in Tabs, NEW i \in 1 .. Len(users), Deleted(t, i)
  PROVE  Inv'
<1>1. TableOK /\ PagesOK /\ RowsOK /\ ModalsOK /\ ListedOK /\ CreatesOK
  BY Parts
<1>2. Grows /\ TableOK' /\ Len(users') = Len(users)
  BY <1>1, SameTable DEF Deleted
<1>3. PICK rows \in Seq(1 .. Len(users)) :
         /\ rows = RemoveFirst(shown[t], i) /\ IsInjective(rows)
         /\ \A j : j # i /\ Contains(shown[t], j) => Contains(rows, j)
  BY PageFacts, RemovedRows
<1>4. PICK n \in Nat \ {0} : n = Clamped(t, rows) /\ n <= TotalPages(rows)
  <2>1. page[t] \in Nat \ {0}
    BY PageFacts
  <2>2. TotalPages(rows) \in Nat \ {0}
    BY SomePage
  <2> HIDE DEF TotalPages
  <2>3. Clamped(t, rows) \in Nat \ {0} /\ Clamped(t, rows) <= TotalPages(rows)
    BY <2>1, <2>2 DEF Clamped
  <2> QED BY <2>3
<1>5. PagesOK'
  <2>1. shown' = [shown EXCEPT ![t] = rows] /\ page' = [page EXCEPT ![t] = n]
    BY <1>3, <1>4 DEF Deleted
  <2> QED BY <1>1, <1>2, <1>3, <1>4, <2>1, PagesSet
<1>6. PICK r \in Row : r = row[t][i] /\ GoodRow(r, i) /\ RowStored(r, i) /\ i \in Ids
  BY RowFacts
<1>7. PICK p \in Post : p = NoPost /\ p.stage = "none"
  BY NoPostType
<1>8. PICK q : q = [r EXCEPT !.delete = p]
  OBVIOUS
<1>9. q \in Row /\ q.base = r.base /\ q.save = r.save /\ q.delete = p
  BY <1>8 DEF Row
<1>10. GoodRow(q, i)
  BY <1>6, <1>7, <1>9 DEF GoodRow, RowStored, Saving, Deleting
<1>11. GoodRow(q, i)'
  BY <1>2, <1>6, <1>10, GoodRowStays
<1>12. row' = [row EXCEPT ![t][i] = q]
  BY <1>6, <1>7, <1>8 DEF Deleted
<1>13. /\ row' \in [Tabs -> [Ids -> Row]] /\ row'[t][i] = q
       /\ \A u \in Tabs, j \in Ids : u # t \/ j # i => row'[u][j] = row[u][j]
  BY <1>1, <1>6, <1>9, <1>12 DEF RowsOK
<1>14. RowsOK'
  BY <1>1, <1>2, <1>6, <1>11, <1>13, RowSet
<1>15. \A u \in Tabs, j \in Ids : Deleting(row'[u][j]) => Deleting(row[u][j]) /\ (u # t \/ j # i)
  <2> TAKE u \in Tabs, j \in Ids
  <2>1. CASE u = t /\ j = i
    BY <2>1, <1>7, <1>9, <1>13 DEF Deleting
  <2>2. CASE u # t \/ j # i
    BY <2>2, <1>13
  <2> QED BY <2>1, <2>2
<1>16. ModalsOK'
  BY <1>1, <1>2, <1>15, SameModals DEF Deleted
<1>17. CreatesOK'
  BY <1>1, <1>2, SameCreates DEF Deleted
<1>18. ListedOK'
  <2>1. modal[t].asked # i
    BY <1>1, <1>6 DEF ModalsOK, GoodModal, Deleted, Deleting
  <2>2. shown'[t] = rows /\ \A u \in Tabs : u # t => shown'[u] = shown[u]
    BY <1>1, <1>3 DEF PagesOK, Deleted
  <2>3. ASSUME NEW u \in Tabs, NEW j \in Ids, modal[u].asked = j \/ Deleting(row'[u][j])
        PROVE  Contains(shown'[u], j)
    <3>1. Contains(shown[u], j) /\ (u # t \/ j # i)
      BY <1>1, <1>15, <2>1, <2>3 DEF ListedOK
    <3> QED BY <1>3, <2>2, <3>1
  <2> QED BY <2>3 DEF ListedOK, Deleting, Deleted
<1> QED BY <1>2, <1>5, <1>14, <1>16, <1>17, <1>18, UsedStays, NextParts DEF Deleted

-----------------------------------------------------------------------------
(* Steps that change the table *)

\* A user is changed: the change is noted.
LEMMA TableSet ==
  ASSUME TableOK, NEW i \in 1 .. Len(users), NEW u \in User, users' = [users EXCEPT ![i] = u],
         stored' = [stored EXCEPT ![i] = @ \cup {u.state}]
  PROVE  Grows /\ TableOK' /\ Len(users') = Len(users) /\ u.state \in stored'[i]
<1>1. i \in Ids /\ Len(users) \in Nat
  BY AdminAssumption DEF TableOK, Ids
<1>2. users' \in Seq(User) /\ Len(users') = Len(users) /\ users'[i] = u
      /\ \A j \in 1 .. Len(users) : j # i => users'[j] = users[j]
  BY DEF TableOK
<1>3. PICK s \in State : s = u.state
  BY DEF User
<1>4. stored[i] \in SUBSET State
  BY <1>1 DEF TableOK
<1>5. stored[i] \cup {s} \in SUBSET State
  BY <1>4
<1>6. /\ stored' \in [Ids -> SUBSET State] /\ stored'[i] = stored[i] \cup {s}
      /\ \A j \in Ids : j # i => stored'[j] = stored[j]
  BY <1>1, <1>3, <1>5 DEF TableOK
<1>7. \A j \in Ids : stored[j] \subseteq stored'[j]
  BY <1>6
<1>8. \A j \in 1 .. Len(users) : users'[j].state \in stored'[j]
  <2> TAKE j \in 1 .. Len(users)
  <2>1. j \in Ids
    BY AdminAssumption DEF TableOK, Ids
  <2>2. CASE j = i
    BY <2>2, <1>2, <1>3, <1>6
  <2>3. CASE j # i
    BY <2>1, <2>3, <1>2, <1>6 DEF TableOK
  <2> QED BY <2>2, <2>3
<1> QED BY <1>1, <1>2, <1>3, <1>6, <1>7, <1>8 DEF Grows, TableOK

\* A user with another state, deleted or not, is a user.
LEMMA UserType ==
  ASSUME NEW u \in User, NEW state \in State
  PROVE  /\ [u EXCEPT !.state = state] \in User /\ [u EXCEPT !.state = state].state = state
         /\ [u EXCEPT !.deleted = TRUE, !.state = state] \in User
         /\ [u EXCEPT !.deleted = TRUE, !.state = state].state = state
<1>1. PICK b \in BOOLEAN : b = TRUE
  OBVIOUS
<1>2. [u EXCEPT !.deleted = b, !.state = state] \in User
  BY DEF User
<1>3. [u EXCEPT !.deleted = b, !.state = state].state = state
  BY DEF User
<1>4. [u EXCEPT !.state = state] \in User /\ [u EXCEPT !.state = state].state = state
  BY DEF User
<1> QED BY <1>1, <1>2, <1>3, <1>4

\* A post is served: its user and its row change.
LEMMA ServeStep ==
  ASSUME Inv, NEW t \in Tabs, NEW i \in 1 .. Len(users), TableOK', Grows, Len(users') = Len(users),
         NEW r, GoodRow(r, i)', row' = [row EXCEPT ![t][i] = r],
         Deleting(r) => Deleting(row[t][i]),
         UNCHANGED <<shown, page, modal, create, used>>
  PROVE  Inv'
<1>1. TableOK /\ PagesOK /\ RowsOK /\ ModalsOK /\ ListedOK /\ CreatesOK
  BY Parts
<1>2. i \in Ids
  BY RowFacts
<1>3. /\ row' \in [Tabs -> [Ids -> Row]] /\ row'[t][i] = r
      /\ \A u \in Tabs, j \in Ids : u # t \/ j # i => row'[u][j] = row[u][j]
  BY <1>1, <1>2 DEF RowsOK, GoodRow
<1>4. RowsOK'
  BY <1>1, <1>2, <1>3, RowSet
<1>5. \A u \in Tabs, j \in Ids : Deleting(row'[u][j]) => Deleting(row[u][j])
  <2> TAKE u \in Tabs, j \in Ids
  <2>1. CASE u = t /\ j = i
    BY <2>1, <1>3
  <2>2. CASE u # t \/ j # i
    BY <2>2, <1>3
  <2> QED BY <2>1, <2>2
<1>6. ModalsOK' /\ ListedOK'
  BY <1>1, <1>5, SameModals, SameListed
<1>7. PagesOK' /\ CreatesOK'
  BY <1>1, SamePages, SameCreates
<1> QED BY <1>4, <1>6, <1>7, UsedStays, NextParts

\* The columns an update names take the values that were sent.
LEMMA WrittenType ==
  ASSUME NEW state \in State, NEW p \in Post
  PROVE  /\ Written(state, p) \in State
         /\ p.kind = "profile" =>
               /\ p.sent.name = p.seen.name \/ Written(state, p).name = p.sent.name
               /\ p.sent.expires = p.seen.expires \/ Written(state, p).expires = p.sent.expires
         /\ p.kind # "profile" =>
               p.sent.active = p.seen.active \/ Written(state, p).active = p.sent.active
<1>1. p.sent \in State /\ p.seen \in State
  BY DEF Post
<1>2. CASE p.kind = "profile"
  <2>1. PICK n \in Names : n = IF p.sent.name = p.seen.name THEN state.name ELSE p.sent.name
    BY <1>1 DEF State
  <2>2. PICK e \in Instants :
           e = IF p.sent.expires = p.seen.expires THEN state.expires ELSE p.sent.expires
    BY <1>1 DEF State
  <2>3. Written(state, p) = [state EXCEPT !.name = n, !.expires = e]
    BY <1>2, <2>1, <2>2 DEF Written
  <2>4. /\ Written(state, p) \in State /\ Written(state, p).name = n
        /\ Written(state, p).expires = e
    BY <2>3 DEF State
  <2> QED BY <1>2, <2>1, <2>2, <2>4
<1>3. CASE p.kind # "profile"
  <2>1. PICK b \in BOOLEAN :
           b = IF p.sent.active = p.seen.active THEN state.active ELSE p.sent.active
    BY <1>1 DEF State
  <2>2. Written(state, p) = [state EXCEPT !.active = b]
    BY <1>3, <2>1 DEF Written
  <2>3. Written(state, p) \in State /\ Written(state, p).active = b
    BY <2>2 DEF State
  <2> QED BY <1>3, <2>1, <2>3
<1> QED BY <1>2, <1>3

\* A served post says what it was sent with.
LEMMA ServedType ==
  ASSUME NEW p \in Post
  PROVE  /\ Served(p) \in Post /\ Served(p).stage = "ok"
         /\ Served(p).kind = p.kind /\ Served(p).sent = p.sent
<1>1. PICK s \in State : s = p.sent
  BY DEF Post
<1>2. Served(p) = [p EXCEPT !.stage = "ok", !.seen = s]
  BY <1>1 DEF Served
<1> QED BY <1>1, <1>2 DEF Post

\* What was sent differs from what was read where it is written, so that it is
\* stored, now or before, field by field.
LEMMA ServeSaveStep ==
  ASSUME Inv, NEW t \in Tabs, NEW i \in 1 .. Len(users), ServeSave(t, i)
  PROVE  Inv'
<1>1. /\ TableOK /\ i \in Ids /\ i <= Len(users)
      /\ users[i] \in User /\ users[i].state \in State
  BY Parts, RowFacts
<1>2. PICK r \in Row : r = row[t][i] /\ GoodRow(r, i) /\ RowStored(r, i)
  BY RowFacts
<1>3. PICK p \in Post : p = r.save /\ p.stage = "read"
  BY <1>2 DEF Row, ServeSave
<1>4. PICK state \in State :
         /\ state = Written(users[i].state, p)
         /\ p.kind = "profile" =>
               /\ p.sent.name = p.seen.name \/ state.name = p.sent.name
               /\ p.sent.expires = p.seen.expires \/ state.expires = p.sent.expires
         /\ p.kind # "profile" => p.sent.active = p.seen.active \/ state.active = p.sent.active
  BY <1>1, WrittenType
<1>5. PICK user \in User : user = [users[i] EXCEPT !.state = state] /\ user.state = state
  BY <1>1, UserType
<1>6. users' = [users EXCEPT ![i] = user] /\ stored' = [stored EXCEPT ![i] = @ \cup {user.state}]
  BY <1>2, <1>3, <1>4, <1>5 DEF ServeSave
<1>7. Grows /\ TableOK' /\ Len(users') = Len(users) /\ state \in stored'[i]
  BY <1>1, <1>5, <1>6, TableSet
<1>8. PICK s \in Post : s = Served(p) /\ s.stage = "ok" /\ s.kind = p.kind /\ s.sent = p.sent
  BY ServedType
<1>9. PICK q : q = [r EXCEPT !.save = s]
  OBVIOUS
<1>10. q \in Row /\ q.base = r.base /\ q.save = s /\ q.delete = r.delete
  BY <1>9 DEF Row
<1>11. PICK sent, seen, base : sent = p.sent /\ seen = p.seen /\ base = r.base
  OBVIOUS
<1>12. StateStored(base, i)' /\ StateStored(seen, i)'
  BY <1>1, <1>2, <1>3, <1>7, <1>11, StateStoredStays DEF RowStored
<1>13. NameStored(state.name, i)' /\ DateStored(DateOf(state.expires), i)' /\ ActiveStored(state.active, i)'
  BY <1>7 DEF NameStored, DateStored, ActiveStored
<1>14. p.kind \in {"profile", "toggle"}
  BY <1>2, <1>3 DEF RowStored, Saving
<1>15. ProfileStored(sent, i)'
  <2>1. CASE p.kind = "profile"
    <3>1. NameStored(sent.name, i)'
      BY <1>4, <1>11, <1>12, <1>13, <2>1 DEF StateStored, ProfileStored
    <3>2. DateStored(DateOf(sent.expires), i)'
      BY <1>4, <1>11, <1>12, <1>13, <2>1 DEF StateStored, ProfileStored
    <3> QED BY <3>1, <3>2 DEF ProfileStored
  <2>2. CASE p.kind = "toggle"
    <3>1. ProfileStored(sent, i)
      BY <1>2, <1>3, <1>11, <2>2 DEF RowStored, Saving
    <3> QED BY <1>1, <1>7, <3>1, StateStoredStays
  <2> QED BY <1>14, <2>1, <2>2
<1>16. p.kind = "toggle" => ActiveStored(sent.active, i)'
  BY <1>4, <1>11, <1>12, <1>13 DEF StateStored
<1>17. RowStored(q, i)'
  BY <1>8, <1>10, <1>11, <1>12, <1>14, <1>15, <1>16 DEF RowStored
<1>18. GoodRow(q, i)'
  BY <1>1, <1>7, <1>10, <1>17 DEF GoodRow
<1>19. row' = [row EXCEPT ![t][i] = q]
  BY <1>2, <1>3, <1>8, <1>9 DEF ServeSave
<1>20. Deleting(q) = Deleting(r)
  BY <1>10 DEF Deleting
<1> QED BY <1>2, <1>7, <1>18, <1>19, <1>20, ServeStep DEF ServeSave

\* A deletion is stored and leaves what the row shows as it is.
LEMMA ServeDeleteStep ==
  ASSUME Inv, NEW t \in Tabs, NEW i \in 1 .. Len(users), ServeDelete(t, i)
  PROVE  Inv'
<1>1. /\ TableOK /\ i \in Ids /\ i <= Len(users)
      /\ users[i] \in User /\ users[i].state \in State
  BY Parts, RowFacts
<1>2. PICK r \in Row : r = row[t][i] /\ GoodRow(r, i) /\ RowStored(r, i)
  BY RowFacts
<1>3. PICK p \in Post : p = r.delete /\ p.stage = "read"
  BY <1>2 DEF Row, ServeDelete
<1>4. PICK state \in State : state = [users[i].state EXCEPT !.active = @ /\ ~row[t][i].delete.seen.active]
  <2>1. PICK s \in State : s = users[i].state
    BY <1>1
  <2>2. PICK b \in BOOLEAN : b = (s.active /\ ~row[t][i].delete.seen.active)
    OBVIOUS
  <2>3. [s EXCEPT !.active = b] \in State
    BY DEF State
  <2> QED BY <2>1, <2>2, <2>3
<1>5. PICK user \in User : user = [users[i] EXCEPT !.deleted = TRUE, !.state = state] /\ user.state = state
  BY <1>1, UserType
<1>6. users' = [users EXCEPT ![i] = user] /\ stored' = [stored EXCEPT ![i] = @ \cup {user.state}]
  BY <1>4, <1>5 DEF ServeDelete
<1>7. Grows /\ TableOK' /\ Len(users') = Len(users)
  BY <1>1, <1>5, <1>6, TableSet
<1>8. PICK s \in Post : s = Served(p) /\ s.stage = "ok"
  BY ServedType
<1>9. PICK q : q = [r EXCEPT !.delete = s]
  OBVIOUS
<1>10. q \in Row /\ q.base = r.base /\ q.save = r.save /\ q.delete = s
  BY <1>9 DEF Row
<1>11. RowStored(r, i)'
  BY <1>1, <1>2, <1>7, RowStoredStays
<1>12. RowStored(q, i)'
  BY <1>10, <1>11 DEF RowStored, Saving
<1>13. Deleting(r)
  BY <1>3 DEF Deleting
<1>14. GoodRow(q, i)'
  BY <1>1, <1>2, <1>7, <1>10, <1>12, <1>13 DEF GoodRow, Saving, Deleting
<1>15. row' = [row EXCEPT ![t][i] = q]
  BY <1>2, <1>3, <1>8, <1>9 DEF ServeDelete
<1> QED BY <1>2, <1>7, <1>13, <1>14, <1>15, ServeStep DEF ServeDelete

-----------------------------------------------------------------------------
(* Steps of the form that creates a user *)

\* The form of a tab changes, and nothing else.
LEMMA CreateStep ==
  ASSUME Inv, NEW t \in Tabs, NEW c, GoodCreate(c), create' = [create EXCEPT ![t] = c],
         UNCHANGED <<users, shown, page, row, modal, stored>>, Counted \/ UNCHANGED used
  PROVE  Inv'
<1>1. TableOK /\ PagesOK /\ RowsOK /\ ModalsOK /\ ListedOK /\ CreatesOK
  BY Parts
<1>2. Grows /\ TableOK' /\ Len(users') = Len(users)
  BY <1>1, SameTable
<1>3. GoodCreate(c)'
  BY <1>2, GoodCreateStays
<1>4. CreatesOK'
  BY <1>1, <1>2, <1>3, CreateSet
<1>5. PagesOK' /\ RowsOK' /\ ModalsOK' /\ ListedOK'
  BY <1>1, <1>2, SamePages, SameRows, SameModals, SameListed
<1> QED BY <1>2, <1>4, <1>5, UsedStays, NextParts

\* What the invariant says of one form.
LEMMA CreateFacts ==
  ASSUME Inv, NEW t \in Tabs
  PROVE  create[t] \in Creation /\ GoodCreate(create[t]) /\ create \in [Tabs -> Creation]
BY Parts DEF CreatesOK, GoodCreate

\* A form that has not been told of a user says nothing of the table.
LEMMA NotTold ==
  ASSUME NEW c \in Creation, c.stage # "ok", c.stage = "none" \/ c.login \in Logins
  PROVE  GoodCreate(c)
BY DEF GoodCreate

\* An empty form is a form, under way nowhere.
LEMMA NoCreateType == NoCreate \in Creation /\ NoCreate.stage = "none"
BY DEF NoCreate, Creation

\* A form is sent with a user name.
LEMMA SubmitCreateStep ==
  ASSUME Inv, NEW t \in Tabs, NEW login \in Logins, SubmitCreate(t, login)
  PROVE  Inv'
<1>1. PICK c : c = [stage |-> "sent", login |-> login, id |-> 0]
  OBVIOUS
<1>2. c \in Creation /\ c.stage = "sent" /\ c.login \in Logins
  BY <1>1 DEF Creation
<1>3. GoodCreate(c)
  BY <1>2, NotTold
<1> QED BY <1>1, <1>3, CreateStep DEF SubmitCreate

\* The name is found taken or not.
LEMMA CheckNameStep ==
  ASSUME Inv, NEW t \in Tabs, CheckName(t)
  PROVE  Inv'
<1>1. PICK c \in Creation : c = create[t] /\ c.login \in Logins
  BY CreateFacts DEF GoodCreate, CheckName
<1>2. PICK stage \in {"no", "checked"} : stage = IF Taken(create[t].login) THEN "no" ELSE "checked"
  OBVIOUS
<1>3. PICK d : d = [c EXCEPT !.stage = stage]
  OBVIOUS
<1>4. d \in Creation /\ d.stage = stage /\ d.login = c.login
  BY <1>3 DEF Creation
<1>5. GoodCreate(d)
  BY <1>1, <1>4, NotTold
<1>6. create' = [create EXCEPT ![t] = d]
  BY <1>1, <1>2, <1>3 DEF CheckName
<1> QED BY <1>5, <1>6, CreateStep DEF CheckName

\* A refused form is empty again.
LEMMA NotCreatedStep ==
  ASSUME Inv, NEW t \in Tabs, NotCreated(t)
  PROVE  Inv'
BY NoCreateType, NotTold, CreateStep DEF NotCreated

\* A new user comes last in the table; until a tab shows it its row is blank.
LEMMA TableGrows ==
  ASSUME TableOK, NEW u \in User, u.state = SomeState, NEW id, id = Len(users) + 1, id <= MaxUsers,
         users' = Append(users, u), stored' = [stored EXCEPT ![id] = {SomeState}]
  PROVE  /\ Grows /\ TableOK' /\ Len(users') = id /\ id \in Ids /\ id # 0
         /\ SomeState \in stored'[id]
<1>1. users \in Seq(User) /\ Len(users) \in Nat /\ MaxUsers \in Nat
  BY AdminAssumption DEF TableOK
<1>2. id \in Ids /\ id # 0
  BY <1>1 DEF Ids
<1>3. /\ users' \in Seq(User) /\ Len(users') = id /\ users'[id] = u
      /\ \A j \in 1 .. Len(users) : users'[j] = users[j]
  BY <1>1
<1>4. {SomeState} \in SUBSET State
  BY SomeStateType
<1>5. /\ stored' \in [Ids -> SUBSET State] /\ stored'[id] = {SomeState}
      /\ \A j \in Ids : j # id => stored'[j] = stored[j]
  BY <1>2, <1>4 DEF TableOK
<1>6. \A j \in 1 .. id : users'[j].state \in stored'[j]
  <2> TAKE j \in 1 .. id
  <2>1. j \in Ids
    BY <1>1, <1>2 DEF Ids
  <2>2. CASE j = id
    BY <2>2, <1>3, <1>5
  <2>3. CASE j # id
    BY <2>1, <2>3, <1>1, <1>3, <1>5 DEF TableOK
  <2> QED BY <2>2, <2>3
<1>7. Grows
  BY <1>1, <1>3, <1>5 DEF Grows, Ids
<1> QED BY <1>1, <1>2, <1>3, <1>5, <1>6, <1>7 DEF TableOK

\* The table gets a row, that no tab shows yet, or the form's name is taken.
LEMMA CreateUserStep ==
  ASSUME Inv, NEW t \in Tabs, CreateUser(t)
  PROVE  Inv'
<1>1. TableOK /\ PagesOK /\ RowsOK /\ ModalsOK /\ ListedOK /\ CreatesOK
  BY Parts
<1>2. PICK c \in Creation : c = create[t] /\ c.stage = "checked" /\ c.login \in Logins
  BY CreateFacts DEF CreateUser, GoodCreate
<1>3. CASE Taken(c.login)
  <2>1. PICK d : d = [c EXCEPT !.stage = "no"]
    OBVIOUS
  <2>2. d \in Creation /\ d.stage = "no" /\ d.login = c.login
    BY <2>1 DEF Creation
  <2>3. GoodCreate(d)
    BY <1>2, <2>2, NotTold
  <2>4. create' = [create EXCEPT ![t] = d]
    BY <1>2, <1>3, <2>1 DEF CreateUser
  <2> QED BY <1>2, <1>3, <2>3, <2>4, CreateStep DEF CreateUser
<1>4. CASE ~Taken(c.login)
  <2>1. PICK id : id = Len(users) + 1
    OBVIOUS
  <2>2. PICK u : u = [login |-> c.login, state |-> SomeState, deleted |-> FALSE]
    OBVIOUS
  <2>3. /\ id <= MaxUsers /\ users' = Append(users, u)
        /\ stored' = [stored EXCEPT ![id] = {SomeState}]
        /\ create' = [create EXCEPT ![t].stage = "ok", ![t].id = id]
        /\ UNCHANGED <<shown, page, row, modal, used>>
    BY <1>2, <1>4, <2>1, <2>2 DEF CreateUser
  <2>4. u \in User /\ u.state = SomeState
    BY <1>2, <2>2, SomeStateType DEF User
  <2>5. /\ Grows /\ TableOK' /\ Len(users') = id /\ id \in Ids /\ id # 0
        /\ SomeState \in stored'[id]
    BY <1>1, <2>1, <2>3, <2>4, TableGrows
  <2>6. PagesOK' /\ ModalsOK' /\ ListedOK'
    BY <1>1, <2>3, <2>5, SamePages, SameModals, SameListed
  <2>7. RowsOK'
    <3>1. ASSUME NEW v \in Tabs, NEW i \in Ids PROVE GoodRow(row[v][i], i)'
      <4>1. PICK r : r = row[v][i]
        OBVIOUS
      <4>2. GoodRow(r, i)
        BY <1>1, <4>1 DEF RowsOK
      <4>3. i \in Nat /\ Len(users) \in Nat
        BY <1>1 DEF Ids, TableOK
      <4>4. CASE i <= Len(users)
        <5>1. RowStored(r, i)'
          BY <2>5, <4>2, <4>4, RowStoredStays DEF GoodRow
        <5> QED BY <2>1, <2>3, <2>5, <4>1, <4>2, <4>3, <4>4, <5>1 DEF GoodRow
      <4>5. CASE i = id
        <5>1. r = ViewRow(SomeState)
          BY <2>1, <4>2, <4>3, <4>5 DEF GoodRow
        <5>2. r.base = SomeState /\ r.save = NoPost
          BY <5>1, ViewRowType, SomeStateType
        <5>3. StateStored(SomeState, i)'
          BY <2>5, <4>5 DEF StateStored, ProfileStored, NameStored, DateStored, ActiveStored
        <5>4. RowStored(r, i)'
          BY <5>2, <5>3, NoPostType DEF RowStored, Saving
        <5> QED BY <2>3, <2>5, <4>1, <4>2, <4>3, <4>5, <5>4 DEF GoodRow
      <4>6. CASE ~ (i <= Len(users)) /\ i # id
        BY <2>1, <2>3, <2>5, <4>1, <4>2, <4>3, <4>6 DEF GoodRow
      <4> QED BY <4>4, <4>5, <4>6
    <3>2. row' \in [Tabs -> [Ids -> Row]]
      BY <1>1, <2>3 DEF RowsOK
    <3> QED BY <3>1, <3>2 DEF RowsOK
  <2>8. CreatesOK'
    <3>1. PICK d : d = [c EXCEPT !.stage = "ok", !.id = id]
      OBVIOUS
    <3>2. d \in Creation /\ d.id = id /\ d.login = c.login
      BY <2>5, <3>1 DEF Creation
    <3>3. d.id \in 1 .. Len(users')
      BY <2>5, <3>2 DEF Ids
    <3>4. GoodCreate(d)'
      BY <1>2, <2>5, <3>2, <3>3 DEF GoodCreate
    <3>5. create' = [create EXCEPT ![t] = d]
      BY <1>1, <1>2, <2>3, <3>1 DEF CreatesOK
    <3> QED BY <1>1, <2>5, <3>4, <3>5, CreateSet
  <2> QED BY <2>3, <2>5, <2>6, <2>7, <2>8, UsedStays, NextParts
<1> QED BY <1>3, <1>4

\* A row that comes last is not one of the others.
LEMMA AppendedRows ==
  ASSUME NEW S, NEW s \in Seq(S), IsInjective(s), NEW e \in S, ~Contains(s, e)
  PROVE  /\ Append(s, e) \in Seq(S) /\ IsInjective(Append(s, e))
         /\ \A x : Contains(s, x) => Contains(Append(s, e), x)
<1>1. PICK c : c = Append(s, e)
  OBVIOUS
<1>2. /\ c \in Seq(S) /\ Len(c) = Len(s) + 1 /\ c[Len(s) + 1] = e
      /\ \A j \in 1 .. Len(s) : c[j] = s[j]
  BY <1>1
<1>3. \A j \in 1 .. Len(s) : s[j] # e
  BY DEF Contains
<1>4. DOMAIN c = 1 .. Len(s) + 1 /\ DOMAIN s = 1 .. Len(s) /\ Len(s) \in Nat
  BY <1>2
<1>5. ASSUME NEW i \in 1 .. Len(s) + 1, NEW j \in 1 .. Len(s) + 1, c[i] = c[j] PROVE i = j
  <2>1. CASE i \in 1 .. Len(s) /\ j \in 1 .. Len(s)
    BY <1>2, <1>4, <1>5, <2>1 DEF IsInjective
  <2>2. CASE ~ (i \in 1 .. Len(s) /\ j \in 1 .. Len(s))
    BY <1>2, <1>3, <1>4, <1>5, <2>2
  <2> QED BY <2>1, <2>2
<1>6. IsInjective(c)
  BY <1>4, <1>5 DEF IsInjective
<1>7. ASSUME NEW x, Contains(s, x) PROVE Contains(c, x)
  <2>1. PICK j \in 1 .. Len(s) : s[j] = x
    BY <1>7 DEF Contains
  <2>2. j \in 1 .. Len(c) /\ c[j] = x
    BY <1>2, <1>4, <2>1
  <2> QED BY <2>2 DEF Contains
<1> QED BY <1>1, <1>2, <1>6, <1>7

\* The row of the user that was created is blank until it is filled in.
LEMMA UserCreatedStep ==
  ASSUME Inv, NEW t \in Tabs, UserCreated(t)
  PROVE  Inv'
<1>1. TableOK /\ PagesOK /\ RowsOK /\ ModalsOK /\ ListedOK /\ CreatesOK
  BY Parts
<1>2. Grows /\ TableOK' /\ Len(users') = Len(users)
  BY <1>1, SameTable DEF UserCreated
<1>3. CreatesOK'
  <2>1. GoodCreate(NoCreate)
    BY NoCreateType, NotTold
  <2>2. GoodCreate(NoCreate)'
    BY <1>2, <2>1, GoodCreateStays
  <2> QED BY <1>1, <1>2, <2>2, CreateSet DEF UserCreated
<1>4. PICK id : id = create[t].id /\ id \in 1 .. Len(users) /\ SomeState \in stored[id]
  BY CreateFacts DEF GoodCreate, UserCreated
<1>5. CASE Contains(shown[t], id)
  <2>1. UNCHANGED <<users, shown, page, row, modal, stored, used>>
    BY <1>4, <1>5 DEF UserCreated
  <2>2. PagesOK' /\ RowsOK' /\ ModalsOK' /\ ListedOK'
    BY <1>1, <1>2, <2>1, SamePages, SameRows, SameModals, SameListed
  <2> QED BY <1>2, <1>3, <2>1, <2>2, UsedStays, NextParts
<1>6. CASE ~Contains(shown[t], id)
  <2>1. PICK rows : rows = Append(shown[t], id)
    OBVIOUS
  <2>2. /\ rows \in Seq(1 .. Len(users)) /\ IsInjective(rows)
        /\ \A j : Contains(shown[t], j) => Contains(rows, j)
    BY <1>4, <1>6, <2>1, PageFacts, AppendedRows
  <2>3. PICK n \in Nat \ {0} : n = TotalPages(rows)
    BY <2>2, SomePage
  <2>4. PICK v \in Row : v = ViewRow(SomeState) /\ v.base = SomeState /\ v.save = NoPost /\ v.delete = NoPost
    BY SomeStateType, ViewRowType
  <2>5. /\ shown' = [shown EXCEPT ![t] = rows] /\ page' = [page EXCEPT ![t] = n]
        /\ row' = [row EXCEPT ![t][id] = v] /\ UNCHANGED <<users, modal, stored, used>>
    BY <1>4, <1>6, <2>1, <2>3, <2>4 DEF UserCreated
  <2>6. PagesOK'
    <3>1. n <= TotalPages(rows)
      BY <2>3
    <3> QED BY <1>1, <1>2, <2>2, <2>5, <3>1, PagesSet
  <2>7. id \in Ids /\ id <= Len(users)
    BY <1>4, RowFacts
  <2>8. ~Saving(v) /\ ~Deleting(v)
    BY <2>4, NoPostType DEF Saving, Deleting
  <2>9. GoodRow(v, id)
    BY <1>4, <2>4, <2>7, <2>8, WasStored, NoPostType DEF GoodRow, RowStored
  <2>10. GoodRow(v, id)'
    BY <1>2, <2>7, <2>9, GoodRowStays
  <2>11. /\ row' \in [Tabs -> [Ids -> Row]] /\ row'[t][id] = v
         /\ \A u \in Tabs, j \in Ids : u # t \/ j # id => row'[u][j] = row[u][j]
    BY <1>1, <2>5, <2>7 DEF RowsOK
  <2>12. RowsOK'
    BY <1>1, <1>2, <2>7, <2>10, <2>11, RowSet
  <2>13. \A u \in Tabs, j \in Ids : Deleting(row'[u][j]) => Deleting(row[u][j])
    <3> TAKE u \in Tabs, j \in Ids
    <3>1. CASE u = t /\ j = id
      BY <3>1, <2>8, <2>11
    <3>2. CASE u # t \/ j # id
      BY <3>2, <2>11
    <3> QED BY <3>1, <3>2
  <2>14. ModalsOK'
    BY <1>1, <1>2, <2>5, <2>13, SameModals
  <2>15. ListedOK'
    <3>1. shown'[t] = rows /\ \A u \in Tabs : u # t => shown'[u] = shown[u]
      BY <1>1, <2>5 DEF PagesOK
    <3>2. ASSUME NEW u \in Tabs, NEW j \in Ids, modal[u].asked = j \/ Deleting(row'[u][j])
          PROVE  Contains(shown'[u], j)
      BY <1>1, <2>2, <2>13, <3>1, <3>2 DEF ListedOK
    <3> QED BY <2>5, <3>2 DEF ListedOK, Deleting
  <2> QED BY <1>2, <1>3, <2>5, <2>6, <2>12, <2>14, <2>15, UsedStays, NextParts
<1> QED BY <1>5, <1>6

-----------------------------------------------------------------------------
(* Loading the page, and the specification *)

\* Everything of the tab is as the table has it; nothing is under way.
LEMMA LoadStep ==
  ASSUME Inv, NEW t \in Tabs, Load(t)
  PROVE  Inv'
<1>1. TableOK /\ PagesOK /\ RowsOK /\ ModalsOK /\ ListedOK /\ CreatesOK
  BY Parts
<1>2. Grows /\ TableOK' /\ Len(users') = Len(users)
  BY <1>1, SameTable DEF Load
<1>3. CreatesOK'
  <2>1. GoodCreate(NoCreate)
    BY NoCreateType, NotTold
  <2>2. GoodCreate(NoCreate)'
    BY <1>2, <2>1, GoodCreateStays
  <2> QED BY <1>1, <1>2, <2>2, CreateSet DEF Load
<1>4. PICK present : present = {i \in DOMAIN users : ~users[i].deleted}
  OBVIOUS
<1>5. PICK ids \in [1 .. Cardinality(present) -> present] :
         /\ \A j, k \in DOMAIN ids : j < k => ids[j] < ids[k]
         /\ shown' = [shown EXCEPT ![t] = ids]
  BY <1>4 DEF Load
<1>6. Len(users) \in Nat /\ DOMAIN users = 1 .. Len(users) /\ present \subseteq 1 .. Len(users)
  BY <1>1, <1>4 DEF TableOK
<1>7. PICK m \in Nat : m = Cardinality(present)
  <2>1. 1 \in Int /\ Len(users) \in Int
    BY <1>6
  <2>2. IsFiniteSet(1 .. Len(users))
    BY <2>1, FS_Interval
  <2>3. IsFiniteSet(present)
    BY <1>6, <2>2, FS_Subset
  <2>4. Cardinality(present) \in Nat
    BY <2>3, FS_CardinalityType
  <2> QED BY <2>4
<1>8. ids \in Seq(1 .. Len(users))
  <2>1. ids \in [1 .. m -> 1 .. Len(users)]
    BY <1>6, <1>7
  <2> QED BY <2>1
<1>9. IsInjective(ids)
  <2>1. DOMAIN ids = 1 .. m /\ \A j \in 1 .. m : ids[j] \in 1 .. Len(users)
    BY <1>6, <1>7
  <2>2. ASSUME NEW i \in 1 .. m, NEW j \in 1 .. m, ids[i] = ids[j] PROVE i = j
    <3>1. i < j => ids[i] < ids[j]
      BY <1>5, <2>1
    <3>2. j < i => ids[j] < ids[i]
      BY <1>5, <2>1
    <3>3. ids[i] \in Nat
      BY <2>1
    <3> QED BY <2>2, <3>1, <3>2, <3>3
  <2> QED BY <2>1, <2>2 DEF IsInjective
<1>10. PagesOK'
  <2>1. 1 \in Nat \ {0} /\ 1 <= TotalPages(ids)
    BY <1>8, SomePage
  <2>2. page' = [page EXCEPT ![t] = 1]
    BY DEF Load
  <2> QED BY <1>1, <1>2, <1>5, <1>8, <1>9, <2>1, <2>2, PagesSet
<1>11. PICK f : f = [i \in Ids |-> ViewRow(IF i <= Len(users) THEN users[i].state ELSE SomeState)]
  OBVIOUS
<1>12. ASSUME NEW i \in Ids
       PROVE  GoodRow(f[i], i)' /\ f[i] \in Row /\ ~Saving(f[i]) /\ ~Deleting(f[i])
  <2>1. PICK state : state = IF i <= Len(users) THEN users[i].state ELSE SomeState
    OBVIOUS
  <2>2. f[i] = ViewRow(state)
    BY <1>11, <2>1
  <2>3. i <= Len(users) => users[i] \in User /\ users[i].state \in stored[i]
    BY <1>1, <1>6 DEF TableOK, Ids
  <2>4. state \in State
    BY <2>1, <2>3, SomeStateType DEF User
  <2>5. PICK v \in Row : /\ v = f[i] /\ v = ViewRow(state) /\ v.base = state /\ v.save = NoPost
                         /\ ~Saving(v) /\ ~Deleting(v)
    BY <2>2, <2>4, ViewRowType
  <2>6. GoodRow(v, i)
    <3>1. CASE i <= Len(users)
      BY <2>1, <2>3, <2>5, <3>1, WasStored, NoPostType DEF GoodRow, RowStored
    <3>2. CASE ~ (i <= Len(users))
      BY <2>1, <2>5, <3>2 DEF GoodRow
    <3> QED BY <3>1, <3>2
  <2>7. GoodRow(v, i)'
    BY <1>2, <2>6, GoodRowStays
  <2> QED BY <2>5, <2>7
<1>13. /\ row' \in [Tabs -> [Ids -> Row]] /\ row'[t] = f
       /\ \A u \in Tabs : u # t => row'[u] = row[u]
  <2>1. f \in [Ids -> Row]
    BY <1>11, <1>12
  <2>2. row' = [row EXCEPT ![t] = f]
    BY <1>11 DEF Load
  <2> QED BY <1>1, <2>1, <2>2 DEF RowsOK
<1>14. RowsOK'
  <2>1. ASSUME NEW u \in Tabs, NEW i \in Ids PROVE GoodRow(row[u][i], i)'
    <3>1. PICK r : r = row'[u][i]
      OBVIOUS
    <3>2. CASE u = t
      <4>1. r = f[i]
        BY <1>13, <3>1, <3>2
      <4> QED BY <1>12, <3>1, <4>1
    <3>3. CASE u # t
      <4>1. r = row[u][i] /\ GoodRow(r, i)
        BY <1>1, <1>13, <3>1, <3>3 DEF RowsOK
      <4>2. GoodRow(r, i)'
        BY <1>2, <4>1, GoodRowStays
      <4> QED BY <3>1, <4>2
    <3> QED BY <3>2, <3>3
  <2> QED BY <1>13, <2>1 DEF RowsOK
<1>15. ModalsOK'
  <2>1. /\ modal' \in [Tabs -> Modal] /\ modal'[t].asked = 0
        /\ \A u \in Tabs : u # t => modal'[u] = modal[u]
    BY <1>1, ClosedType DEF Load, ModalsOK
  <2>2. UNCHANGED users
    BY DEF Load
  <2> QED BY <1>1, <1>13, <2>1, <2>2, AnsweredModal
<1>16. ListedOK'
  <2>1. ASSUME NEW u \in Tabs, NEW j \in Ids, modal'[u].asked = j \/ Deleting(row'[u][j])
        PROVE  Contains(shown'[u], j)
    <3>1. CASE u = t
      <4>1. modal'[u].asked = 0 /\ j # 0
        BY <1>1, <3>1, ClosedType DEF Load, ModalsOK, Ids
      <4>2. row'[u][j] = f[j]
        BY <1>13, <3>1
      <4> QED BY <1>12, <2>1, <4>1, <4>2
    <3>2. CASE u # t
      <4>1. modal'[u] = modal[u] /\ row'[u] = row[u] /\ shown'[u] = shown[u]
        BY <1>1, <1>5, <1>13, <3>2 DEF Load, ModalsOK, PagesOK
      <4> QED BY <1>1, <2>1, <4>1 DEF ListedOK
    <3> QED BY <3>1, <3>2
  <2> QED BY <2>1 DEF ListedOK, Deleting
<1> QED BY <1>2, <1>3, <1>10, <1>14, <1>15, <1>16, UsedStays, NextParts DEF Load

\* The tabs as they are opened.
LEMMA InitInv == Init => Inv
<1> SUFFICES ASSUME Init PROVE Inv
  OBVIOUS
<1>1. Present \in Nat /\ MaxUsers \in Nat /\ Present <= MaxUsers
  BY AdminAssumption
<1>2. PICK login \in [1 .. Present -> Logins] :
         users = [i \in 1 .. Present |->
                    [login |-> login[i], state |-> SomeState, deleted |-> FALSE]]
  BY DEF Init
<1>3. users \in [1 .. Present -> User] /\ \A i \in 1 .. Present : users[i].state = SomeState
  <2>1. ASSUME NEW i \in 1 .. Present
        PROVE  users[i] \in User /\ users[i].state = SomeState
    BY <1>2, SomeStateType DEF User
  <2> QED BY <1>2, <2>1
<1>4. users \in Seq(User) /\ Len(users) = Present
  BY <1>1, <1>3
<1>5. TableOK
  <2>1. stored \in [Ids -> SUBSET State]
    BY SomeStateType DEF Init
  <2>2. \A i \in 1 .. Present : users[i].state \in stored[i]
    BY <1>1, <1>3 DEF Init, Ids
  <2> QED BY <1>1, <1>4, <2>1, <2>2 DEF TableOK
<1>6. PagesOK
  <2>1. PICK ids : ids = [i \in 1 .. Present |-> i]
    OBVIOUS
  <2>2. ids \in [1 .. Present -> 1 .. Len(users)]
    BY <1>4, <2>1
  <2>3. ids \in Seq(1 .. Len(users)) /\ IsInjective(ids)
    BY <1>1, <2>1, <2>2 DEF IsInjective
  <2>4. TotalPages(ids) \in Nat \ {0}
    BY <2>3, SomePage
  <2>5. shown = [t \in Tabs |-> ids] /\ page = [t \in Tabs |-> 1]
    BY <2>1 DEF Init
  <2>6. \A t \in Tabs : shown[t] = ids /\ page[t] = 1
    BY <2>5
  <2>7. PageInRange
    BY <2>4, <2>6 DEF PageInRange
  <2>8. \A t \in Tabs : IsInjective(shown[t])
    BY <2>3, <2>6
  <2>9. shown \in [Tabs -> Seq(1 .. Len(users))] /\ page \in [Tabs -> Nat \ {0}]
    BY <2>3, <2>5
  <2> QED BY <2>7, <2>8, <2>9 DEF PagesOK
<1>7. RowsOK
  <2>1. PICK v \in Row : /\ v = ViewRow(SomeState) /\ v.base = SomeState /\ v.save = NoPost
                         /\ ~Saving(v) /\ ~Deleting(v)
    BY SomeStateType, ViewRowType
  <2>2. row = [t \in Tabs |-> [i \in Ids |-> v]]
    BY <2>1 DEF Init
  <2>3. ASSUME NEW i \in Ids PROVE GoodRow(v, i)
    <3>1. CASE i <= Len(users)
      <4>1. SomeState \in stored[i]
        BY <1>4, <3>1 DEF Init
      <4> QED BY <2>1, <3>1, <4>1, WasStored, NoPostType DEF GoodRow, RowStored
    <3>2. CASE ~ (i <= Len(users))
      BY <2>1, <3>2 DEF GoodRow
    <3> QED BY <3>1, <3>2
  <2>4. row \in [Tabs -> [Ids -> Row]] /\ \A t \in Tabs, i \in Ids : row[t][i] = v
    BY <2>2
  <2> QED BY <2>3, <2>4 DEF RowsOK
<1>8. ModalsOK
  <2>1. modal \in [Tabs -> Modal] /\ \A t \in Tabs : modal[t] = Closed
    BY ClosedType DEF Init
  <2> QED BY <2>1, ClosedType, AskedNone DEF ModalsOK
<1>9. CreatesOK
  <2>1. create \in [Tabs -> Creation] /\ \A t \in Tabs : create[t] = NoCreate
    BY NoCreateType DEF Init
  <2> QED BY <2>1, NoCreateType, NotTold DEF CreatesOK
<1>10. used \in 0 .. MaxMoves
  BY AdminAssumption DEF Init
<1>11. ListedOK
  <2>1. PICK v : v = ViewRow(SomeState) /\ ~Deleting(v)
    BY SomeStateType, ViewRowType
  <2>2. \A t \in Tabs, i \in Ids : row[t][i] = v
    BY <2>1 DEF Init
  <2>3. \A t \in Tabs : modal[t].asked = 0
    BY ClosedType DEF Init
  <2>4. \A i \in Ids : i # 0
    BY DEF Ids
  <2> QED BY <2>1, <2>2, <2>3, <2>4 DEF ListedOK
<1> QED BY <1>5, <1>6, <1>7, <1>8, <1>9, <1>10, <1>11, Parts

\* Nothing changes.
LEMMA Stutter ==
  ASSUME Inv, UNCHANGED vars
  PROVE  Inv'
<1>1. TableOK /\ PagesOK /\ RowsOK /\ ModalsOK /\ ListedOK /\ CreatesOK
  BY Parts
<1>2. Grows /\ TableOK' /\ Len(users') = Len(users)
  BY <1>1, SameTable DEF vars
<1>3. PagesOK' /\ RowsOK' /\ ModalsOK' /\ ListedOK' /\ CreatesOK'
  BY <1>1, <1>2, SamePages, SameRows, SameModals, SameListed, SameCreates DEF vars
<1> QED BY <1>2, <1>3, UsedStays, NextParts DEF vars

\* Every step keeps the invariant.
LEMMA NextInv == Inv /\ [Next]_vars => Inv'
<1> SUFFICES ASSUME Inv, [Next]_vars PROVE Inv'
  OBVIOUS
<1>1. CASE UNCHANGED vars
  BY <1>1, Stutter
<1>2. ASSUME NEW t \in Tabs,
             \/ PrevPage(t) \/ NextPage(t) \/ Load(t)
             \/ Faded(t) \/ Confirm(t) \/ Cancel(t) \/ ModalHidden(t)
             \/ \E login \in Logins : SubmitCreate(t, login)
             \/ CheckName(t) \/ CreateUser(t) \/ UserCreated(t) \/ NotCreated(t)
      PROVE  Inv'
  BY <1>2, PrevPageStep, NextPageStep, LoadStep, FadedStep, ConfirmStep, CancelStep,
     ModalHiddenStep, SubmitCreateStep, CheckNameStep, CreateUserStep, UserCreatedStep,
     NotCreatedStep
<1>3. ASSUME NEW t \in Tabs, NEW i \in 1 .. Len(users),
             \/ OpenEdit(t, i) \/ EditRow(t, i) \/ CloseEdit(t, i) \/ SaveRow(t, i)
             \/ Answered(t, i) \/ NotSaved(t, i)
             \/ ClickDelete(t, i) \/ Deleted(t, i) \/ NotDeleted(t, i)
      PROVE  Inv'
  BY <1>3, OpenEditStep, EditRowStep, CloseEditStep, SaveRowStep, AnsweredStep, NotSavedStep,
     ClickDeleteStep, DeletedStep, NotDeletedStep
<1>4. ASSUME NEW t \in Tabs, NEW i \in 1 .. Len(users),
             \/ ServeRead(t, i) \/ RefuseProfile(t, i) \/ ServeSave(t, i) \/ ServeDelete(t, i)
             \/ Lose(t, i)
      PROVE  Inv'
  BY <1>4, ServeReadStep, RefuseProfileStep, ServeSaveStep, ServeDeleteStep, LoseStep
<1> QED BY <1>1, <1>2, <1>3, <1>4 DEF Next

\* The invariant holds in every reachable state.
THEOREM Invariance == Spec => []Inv
<1>1. Init => Inv
  BY InitInv
<1>2. Inv /\ [Next]_vars => Inv'
  BY NextInv
<1> QED BY <1>1, <1>2, PTL DEF Spec

-----------------------------------------------------------------------------
(* The properties *)

\* Every part of the page's and the table's state has its type, and no tab
\* shows a row twice (appendCreatedUserRow, deleteUserRow).
THEOREM TypeCorrect == Spec => []TypeOK
<1>1. Inv => TypeOK
  BY DEF Inv
<1> QED BY <1>1, Invariance, PTL

\* What a row shows was stored at some time, field by field
\* (updateRowViewFromState). A row's baseline is, because the row is one it may have.
THEOREM ShownWasStored == Spec => []ShownIsStored
<1>1. ASSUME Inv PROVE ShownIsStored
  <2>1. ASSUME NEW t \in Tabs, NEW k \in DOMAIN shown[t],
               NEW field \in DOMAIN InputOf(row[t][shown[t][k]].base)
        PROVE  \E state \in stored[shown[t][k]] :
                  InputOf(state)[field] = InputOf(row[t][shown[t][k]].base)[field]
    <3>1. PICK i \in 1 .. Len(users) : i = shown[t][k]
      BY <1>1, PageFacts
    <3>2. PICK base : base = row[t][i].base /\ StateStored(base, i)
      BY <1>1, RowFacts DEF RowStored
    <3>3. field \in {"name", "date", "active"}
      BY <2>1, <3>1, <3>2 DEF InputOf
    <3>4. \E state \in stored[i] : state.name = base.name
      BY <3>2 DEF StateStored, ProfileStored, NameStored
    <3>5. \E state \in stored[i] : DateOf(state.expires) = DateOf(base.expires)
      BY <3>2 DEF StateStored, ProfileStored, DateStored
    <3>6. \E state \in stored[i] : state.active = base.active
      BY <3>2 DEF StateStored, ActiveStored
    <3>7. ASSUME NEW state
          PROVE  /\ InputOf(state)["name"] = state.name
                 /\ InputOf(state)["date"] = DateOf(state.expires)
                 /\ InputOf(state)["active"] = state.active
      BY DEF InputOf
    <3>8. \E state \in stored[i] : InputOf(state)[field] = InputOf(base)[field]
      <4>1. CASE field = "name"
        BY <4>1, <3>4, <3>7
      <4>2. CASE field = "date"
        BY <4>2, <3>5, <3>7
      <4>3. CASE field = "active"
        BY <4>3, <3>6, <3>7
      <4> QED BY <3>3, <4>1, <4>2, <4>3
    <3> QED BY <3>1, <3>2, <3>8
  <2> QED BY <2>1 DEF ShownIsStored
<1> QED BY <1>1, Invariance, PTL

\* The number of the page shown is one there is, whatever rows were added
\* and removed (updateUsersPagination).
THEOREM PageExists == Spec => []PageInRange
<1>1. Inv => PageInRange
  BY DEF Inv
<1> QED BY <1>1, Invariance, PTL

\* No user is deleted twice from one tab, each question is about a row that is
\* there, and one somebody waits for can be answered, however the modal fades
\* (requestSoftDeleteConfirmation, deleteUserRow).
THEOREM DeletionOnce == Spec => []DeletedOnce
<1>1. Inv => DeletedOnce
  BY DEF Inv
<1> QED BY <1>1, Invariance, PTL

=============================================================================
