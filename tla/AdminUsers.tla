----------------------------- MODULE AdminUsers -----------------------------
(***************************************************************************)
(* User administration: the users page of the browser (admin-users-page.js) *)
(* in several tabs, beside AdminUserManagementService, whose operations     *)
(* read a user's row, look at it and write it.                              *)
(*                                                                          *)
(* A user's expiry is an instant, two to a day: 2d is some time of day d,   *)
(* 2d + 1 its end; Never is the empty date.  All tabs are in one time zone. *)
(*                                                                          *)
(* Left out: the super-admin's row (it has no buttons, and the service      *)
(* refuses to change it), passwords, password helpers, validation texts,    *)
(* toasts, icons, forms sent without script.                                *)
(***************************************************************************)
EXTENDS Integers, Sequences, FiniteSets, SequencesExt

CONSTANTS
    Tabs,
    Logins,     \* user names
    Names,      \* display names
    Days,       \* days an expiry may fall on
    PageSize,   \* usersPaginationState.pageSize
    Present,    \* how many users there are when the tabs are opened
    MaxUsers,   \* users in the table (a bound)
    MaxMoves    \* the admin's moves and lost answers, in all (a bound)

ASSUME AdminAssumption ==
    /\ Days \subseteq Nat \ {0} /\ PageSize \in Nat \ {0}
    /\ Present \in 0 .. MaxUsers /\ MaxUsers \in Nat /\ MaxMoves \in Nat
    /\ Names # {} /\ Cardinality(Logins) >= Present /\ Days # {}

VARIABLES
    users,  \* the table of users; a user's id is its place in it
    shown,  \* the ids of the rows of each tab, in order
    page,   \* currentPage
    row,    \* the state of each row of each tab
    modal,  \* the confirmation of a deletion
    create, \* the form that creates a user
    stored, \* history: what each user's row has ever held
    used    \* how many of MaxMoves have been made

vars == <<users, shown, page, row, modal, create, stored, used>>

-----------------------------------------------------------------------------
(* Dates *)

Never == 0
Dates == Days \cup {Never}
Instants == {Never} \cup {2 * d : d \in Days} \cup {2 * d + 1 : d \in Days}

\* toLocalDateInputValue
DateOf(instant) == instant \div 2

\* localDateToUtcIsoAtEndOfDay
EndOfDay(date) == IF date = Never THEN Never ELSE 2 * date + 1

-----------------------------------------------------------------------------
(* Types *)

Ids == 1 .. MaxUsers

\* What is shown of a user, and sent to change it.
State == [name : Names, expires : Instants, active : BOOLEAN]

User == [login : Logins, state : State, deleted : BOOLEAN]

\* A post under way: not read yet, the row read, answered.
Post == [stage : {"none", "sent", "read", "ok", "no"}, kind : {"profile", "toggle", "delete"},
         sent : State, seen : State]

\* initialDisplayName, initialExpiresUtc, initialIsActive; the inputs; the posts
\* of saveEditableRow and deleteUserRow, under way while `saving' and `deleting'.
Row == [editing : BOOLEAN, base : State,
        input : [name : Names, date : Dates, active : BOOLEAN],
        save : Post, delete : Post]

SomeState == [name |-> CHOOSE n \in Names : TRUE,
              expires |-> 2 * (CHOOSE d \in Days : TRUE), active |-> TRUE]

InputOf(state) == [name |-> state.name, date |-> DateOf(state.expires), active |-> state.active]

NoPost == [stage |-> "none", kind |-> "profile", sent |-> SomeState, seen |-> SomeState]

\* initializeEditableUserRow
ViewRow(state) == [editing |-> FALSE, base |-> state, input |-> InputOf(state),
                   save |-> NoPost, delete |-> NoPost]

\* The modal: it fades in, is open, fades out; then only its backdrop does
\* (`backdrop'), during which it may be shown again (`again').
Stages == {"closed", "fading", "open", "closing", "backdrop", "again"}

\* Every part of the state has its type, and no row is shown twice.
TypeOK ==
    /\ users \in Seq(User) /\ Len(users) <= MaxUsers
    /\ shown \in [Tabs -> Seq(1 .. Len(users))] /\ \A t \in Tabs : IsInjective(shown[t])
    /\ page \in [Tabs -> Nat \ {0}]
    /\ row \in [Tabs -> [Ids -> Row]]
    /\ modal \in [Tabs -> [shown : Stages, asked : {0} \cup Ids]]
    /\ create \in [Tabs -> [stage : {"none", "sent", "checked", "ok", "no"},
                            login : Logins \cup {""}, id : {0} \cup Ids]]
    /\ stored \in [Ids -> SUBSET State]
    /\ used \in 0 .. MaxMoves

NoCreate == [stage |-> "none", login |-> "", id |-> 0]

Closed == [shown |-> "closed", asked |-> 0]

Init ==
    /\ \E login \in [1 .. Present -> Logins] :
          /\ IsInjective(login)
          /\ users = [i \in 1 .. Present |->
                         [login |-> login[i], state |-> SomeState, deleted |-> FALSE]]
    /\ shown = [t \in Tabs |-> [i \in 1 .. Present |-> i]]
    /\ page = [t \in Tabs |-> 1]
    /\ row = [t \in Tabs |-> [i \in Ids |-> ViewRow(SomeState)]]
    /\ modal = [t \in Tabs |-> Closed]
    /\ create = [t \in Tabs |-> NoCreate]
    /\ stored = [i \in Ids |-> IF i <= Present THEN {SomeState} ELSE {}]
    /\ used = 0

Counted == used < MaxMoves /\ used' = used + 1

-----------------------------------------------------------------------------
(* The pages of the table *)

\* getUsersTotalPages
TotalPages(rows) == IF rows = <<>> THEN 1 ELSE (Len(rows) + PageSize - 1) \div PageSize

Visible(t) == {shown[t][k] : k \in {k \in DOMAIN shown[t] :
                  k > (page[t] - 1) * PageSize /\ k <= page[t] * PageSize}}

\* Mutant of PrevPage: the listener relies on the button being disabled.
PrevPageAlways(t) ==
    /\ modal[t].shown # "open" /\ Counted
    /\ page' = [page EXCEPT ![t] = @ - 1]
    /\ UNCHANGED <<users, shown, row, modal, create, stored>>

PrevPage(t) ==
    /\ page[t] > 1 /\ modal[t].shown # "open" /\ Counted
    /\ page' = [page EXCEPT ![t] = @ - 1]
    /\ UNCHANGED <<users, shown, row, modal, create, stored>>

NextPage(t) ==
    /\ page[t] < TotalPages(shown[t]) /\ modal[t].shown # "open" /\ Counted
    /\ page' = [page EXCEPT ![t] = @ + 1]
    /\ UNCHANGED <<users, shown, row, modal, create, stored>>

\* The page is loaded again, its rows ordered by id; whatever was under way in
\* it is gone.
Load(t) ==
    LET present == {i \in DOMAIN users : ~users[i].deleted} IN
    /\ Counted
    /\ \E ids \in [1 .. Cardinality(present) -> present] :
          /\ \A j, k \in DOMAIN ids : j < k => ids[j] < ids[k]
          /\ shown' = [shown EXCEPT ![t] = ids]
    /\ page' = [page EXCEPT ![t] = 1]
    /\ row' = [row EXCEPT ![t] = [i \in Ids |-> ViewRow(IF i <= Len(users) THEN users[i].state
                                                        ELSE SomeState)]]
    /\ modal' = [modal EXCEPT ![t] = Closed]
    /\ create' = [create EXCEPT ![t] = NoCreate]
    /\ UNCHANGED <<users, stored>>

-----------------------------------------------------------------------------
(* A row: editing and saving *)

\* readRowCurrentState and readRowBaselineState
Current(r) == [name |-> r.input.name, expires |-> EndOfDay(r.input.date), active |-> r.input.active]
Baseline(r) == [r.base EXCEPT !.expires = EndOfDay(DateOf(@))]

Dirty(r) == r.editing /\ Current(r) # Baseline(r)
Saving(r) == r.save.stage # "none"
Deleting(r) == r.delete.stage # "none"

\* The backdrop keeps only the mouse off the page: the keyboard is kept off it
\* by the focus trap, from when the modal has faded in until it is hidden.
Reachable(t, i) == i \in Visible(t) /\ modal[t].shown # "open"

\* The listener of a row's edit button.
MayAct(t, i) == Reachable(t, i) /\ ~Saving(row[t][i]) /\ ~Deleting(row[t][i])

OpenEdit(t, i) ==
    /\ MayAct(t, i) /\ ~row[t][i].editing /\ Counted
    /\ row' = [row EXCEPT ![t][i] = [@ EXCEPT !.editing = TRUE, !.input = InputOf(row[t][i].base)]]
    /\ UNCHANGED <<users, shown, page, modal, create, stored>>

\* The inputs are not disabled while the row is being saved.
EditRow(t, i) ==
    /\ Reachable(t, i) /\ row[t][i].editing /\ Counted
    /\ \E name \in Names, date \in Dates, active \in BOOLEAN :
          LET input == [name |-> name, date |-> date, active |-> active] IN
          input # row[t][i].input /\ row' = [row EXCEPT ![t][i].input = input]
    /\ UNCHANGED <<users, shown, page, modal, create, stored>>

CloseEdit(t, i) ==
    /\ MayAct(t, i) /\ row[t][i].editing /\ ~Dirty(row[t][i]) /\ Counted
    /\ row' = [row EXCEPT ![t][i].editing = FALSE]
    /\ UNCHANGED <<users, shown, page, modal, create, stored>>

Sent(kind, state) == [stage |-> "sent", kind |-> kind, sent |-> state, seen |-> state]

\* saveEditableRow: the profile first, if it changed, then the activation.
SaveRow(t, i) ==
    LET r == row[t][i]
        kind == IF [Current(r) EXCEPT !.active = r.base.active] # Baseline(r) THEN "profile"
                ELSE "toggle"
    IN  /\ MayAct(t, i) /\ Dirty(r) /\ Counted
        /\ row' = [row EXCEPT ![t][i].save = Sent(kind, Current(r))]
        /\ UNCHANGED <<users, shown, page, modal, create, stored>>

\* Mutant of RowSaved: the inputs are read when the answer arrives.
RowSavedAsShown(r) == ViewRow(Current(r))

\* updateRowViewFromState(row, elements, current) and setRowEditing(false); the
\* edits made since are overwritten.
RowSaved(r) == [ViewRow(r.save.sent) EXCEPT !.delete = r.delete]

Answered(t, i) ==
    LET r == row[t][i] IN
    /\ r.save.stage = "ok"
    /\ row' = [row EXCEPT ![t][i] =
                  IF r.save.kind = "profile" /\ r.base.active # r.save.sent.active
                  THEN [r EXCEPT !.save = Sent("toggle", r.save.sent)]
                  ELSE RowSaved(r)]
    /\ UNCHANGED <<users, shown, page, modal, create, stored, used>>

\* A refused post: the row stays in edit mode, its baseline as it was, also
\* when the profile has been saved and the activation has not.
NotSaved(t, i) ==
    /\ row[t][i].save.stage = "no"
    /\ row' = [row EXCEPT ![t][i].save = NoPost]
    /\ UNCHANGED <<users, shown, page, modal, create, stored, used>>

-----------------------------------------------------------------------------
(* Deleting *)

\* Mutant of MayDelete: the listener does not look at the row's flags.
MayDeleteAlways(t, i) == Reachable(t, i) /\ row[t][i].base.name \in Names

\* The listener of a row's delete button.
MayDelete(t, i) == MayAct(t, i)

\* show(): nothing happens to a modal that is shown or fades.
Shown(m) == [m EXCEPT !.shown = CASE @ = "closed"   -> "fading"
                                  [] @ = "backdrop" -> "again"
                                  [] OTHER          -> @]

\* requestSoftDeleteConfirmation: one question at a time.
ClickDelete(t, i) ==
    /\ MayDelete(t, i) /\ modal[t].asked = 0 /\ Counted
    /\ modal' = [modal EXCEPT ![t] = [Shown(@) EXCEPT !.asked = i]]
    /\ UNCHANGED <<users, shown, page, row, create, stored>>

\* The modal has faded in, or out.
Faded(t) ==
    /\ \/ modal[t].shown = "fading" /\ modal' = [modal EXCEPT ![t].shown = "open"]
       \/ modal[t].shown = "closing" /\ modal' = [modal EXCEPT ![t].shown = "backdrop"]
    /\ UNCHANGED <<users, shown, page, row, create, stored, used>>

\* hide() does nothing to a modal that is hidden or fades.
Hidden(m) == [m EXCEPT !.shown = IF @ = "open" THEN "closing" ELSE @]

\* The confirm button, also of a modal that fades: the post is sent before
\* anything else happens, whatever the row's flags are by now.
Confirm(t) ==
    LET i == modal[t].asked IN
    /\ modal[t].shown \in {"fading", "open", "closing"}
    /\ i # 0 \/ modal[t].shown = "open"
    /\ modal' = [modal EXCEPT ![t] = [Hidden(@) EXCEPT !.asked = 0]]
    /\ row' = IF i = 0 THEN row
              ELSE [row EXCEPT ![t][i].delete = Sent("delete", row[t][i].base)]
    /\ UNCHANGED <<users, shown, page, create, stored, used>>

\* The cancel button, also of a modal that fades, or the Escape key, which
\* leaves the answer to `hidden'.
Cancel(t) ==
    /\ modal[t].shown \in {"fading", "open", "closing"}
    /\ \/ modal[t].shown = "open" /\ modal' = [modal EXCEPT ![t] = Hidden(@)]
       \/ /\ modal[t].asked # 0
          /\ modal' = [modal EXCEPT ![t] = [Hidden(@) EXCEPT !.asked = 0]]
    /\ UNCHANGED <<users, shown, page, row, create, stored, used>>

\* hidden.bs.modal: a question that is still open is answered with no, also
\* the one for which the modal was shown again.
ModalHidden(t) ==
    /\ modal[t].shown \in {"backdrop", "again"}
    /\ modal' = [modal EXCEPT ![t] =
                    IF @.shown = "again" THEN [shown |-> "fading", asked |-> 0] ELSE Closed]
    /\ UNCHANGED <<users, shown, page, row, create, stored, used>>

\* Mutant of Clamped: the number of the page is left as it is.
ClampedNot(t, rows) == page[t] + 0 * Len(rows)

Clamped(t, rows) == IF page[t] <= TotalPages(rows) THEN page[t] ELSE TotalPages(rows)

\* deleteUserRow: the row is removed and the pages are laid out again.
Deleted(t, i) ==
    LET rows == RemoveFirst(shown[t], i) IN
    /\ row[t][i].delete.stage = "ok"
    /\ shown' = [shown EXCEPT ![t] = rows]
    /\ page' = [page EXCEPT ![t] = Clamped(t, rows)]
    /\ row' = [row EXCEPT ![t][i].delete = NoPost]
    /\ UNCHANGED <<users, modal, create, stored, used>>

NotDeleted(t, i) ==
    /\ row[t][i].delete.stage = "no"
    /\ row' = [row EXCEPT ![t][i].delete = NoPost]
    /\ UNCHANGED <<users, shown, page, modal, create, stored, used>>

-----------------------------------------------------------------------------
(* The service *)

\* The user is looked up; a deleted one is not found.
ReadUser(post, i) ==
    IF users[i].deleted THEN [post EXCEPT !.stage = "no"]
    ELSE [post EXCEPT !.stage = "read", !.seen = users[i].state]

Served(post) == [post EXCEPT !.stage = "ok", !.seen = post.sent]

ServeRead(t, i) ==
    /\ \/ /\ row[t][i].save.stage = "sent"
          /\ row' = [row EXCEPT ![t][i].save = ReadUser(@, i)]
       \/ /\ row[t][i].delete.stage = "sent"
          /\ row' = [row EXCEPT ![t][i].delete = ReadUser(@, i)]
    /\ UNCHANGED <<users, shown, page, modal, create, stored, used>>

\* A display name or a date the service refuses.
RefuseProfile(t, i) ==
    /\ row[t][i].save.stage = "sent" /\ row[t][i].save.kind = "profile" /\ Counted
    /\ row' = [row EXCEPT ![t][i].save.stage = "no"]
    /\ UNCHANGED <<users, shown, page, modal, create, stored>>

\* The update names the columns whose values differ from the ones read.
Written(state, post) ==
    IF post.kind = "profile"
    THEN [state EXCEPT !.name = IF post.sent.name = post.seen.name THEN @ ELSE post.sent.name,
                       !.expires = IF post.sent.expires = post.seen.expires THEN @
                                   ELSE post.sent.expires]
    ELSE [state EXCEPT !.active = IF post.sent.active = post.seen.active THEN @
                                  ELSE post.sent.active]

\* UpdateUserProfileAsync, SetUserActiveStateAsync
ServeSave(t, i) ==
    LET post == row[t][i].save  state == Written(users[i].state, post) IN
    /\ post.stage = "read"
    /\ users' = [users EXCEPT ![i].state = state]
    /\ stored' = [stored EXCEPT ![i] = @ \cup {state}]
    /\ row' = [row EXCEPT ![t][i].save = Served(@)]
    /\ UNCHANGED <<shown, page, modal, create, used>>

\* SoftDeleteUserAsync; the activation is written if it was read as set.
ServeDelete(t, i) ==
    LET state == [users[i].state EXCEPT !.active = @ /\ ~row[t][i].delete.seen.active] IN
    /\ row[t][i].delete.stage = "read"
    /\ users' = [users EXCEPT ![i].deleted = TRUE, ![i].state = state]
    /\ stored' = [stored EXCEPT ![i] = @ \cup {state}]
    /\ row' = [row EXCEPT ![t][i].delete = Served(@)]
    /\ UNCHANGED <<shown, page, modal, create, used>>

\* The connection breaks, before or after the request has been served.
Lose(t, i) ==
    /\ Counted
    /\ \/ /\ Saving(row[t][i])
          /\ row' = [row EXCEPT ![t][i].save.stage = "no"]
       \/ /\ Deleting(row[t][i])
          /\ row' = [row EXCEPT ![t][i].delete.stage = "no"]
    /\ UNCHANGED <<users, shown, page, modal, create, stored>>

-----------------------------------------------------------------------------
(* Creating a user *)

Taken(login) == \E i \in DOMAIN users : users[i].login = login

\* bindCreateFormSubmission; the button is disabled until the answer.
SubmitCreate(t, login) ==
    /\ create[t].stage = "none" /\ modal[t].shown # "open" /\ Counted
    /\ create' = [create EXCEPT ![t] = [stage |-> "sent", login |-> login, id |-> 0]]
    /\ UNCHANGED <<users, shown, page, row, modal, stored>>

\* CreateUserAsync reads all names, those of deleted users included.
CheckName(t) ==
    /\ create[t].stage = "sent"
    /\ create' = [create EXCEPT ![t].stage = IF Taken(create[t].login) THEN "no" ELSE "checked"]
    /\ UNCHANGED <<users, shown, page, row, modal, stored, used>>

\* The unique index on the user name: a violation is an error page.
CreateUser(t) ==
    LET login == create[t].login  id == Len(users) + 1 IN
    /\ create[t].stage = "checked"
    /\ IF ~Taken(login)
       THEN /\ id <= MaxUsers
            /\ users' = Append(users, [login |-> login, state |-> SomeState, deleted |-> FALSE])
            /\ stored' = [stored EXCEPT ![id] = {SomeState}]
            /\ create' = [create EXCEPT ![t].stage = "ok", ![t].id = id]
       ELSE create' = [create EXCEPT ![t].stage = "no"] /\ UNCHANGED <<users, stored>>
    /\ UNCHANGED <<shown, page, row, modal, used>>

\* appendCreatedUserRow: the row comes last and its page is shown.
UserCreated(t) ==
    LET id == create[t].id  rows == Append(shown[t], id) IN
    /\ create[t].stage = "ok"
    /\ create' = [create EXCEPT ![t] = NoCreate]
    /\ IF Contains(shown[t], id) THEN UNCHANGED <<shown, page, row>>
       ELSE /\ shown' = [shown EXCEPT ![t] = rows]
            /\ page' = [page EXCEPT ![t] = TotalPages(rows)]
            /\ row' = [row EXCEPT ![t][id] = ViewRow(SomeState)]
    /\ UNCHANGED <<users, modal, stored, used>>

\* Refused, or the answer is lost.
NotCreated(t) ==
    /\ \/ create[t].stage = "no" /\ UNCHANGED used
       \/ create[t].stage # "none" /\ Counted
    /\ create' = [create EXCEPT ![t] = NoCreate]
    /\ UNCHANGED <<users, shown, page, row, modal, stored>>

-----------------------------------------------------------------------------
(* Specification *)

Next ==
    \E t \in Tabs :
       \/ PrevPage(t) \/ NextPage(t) \/ Load(t)
       \/ \E i \in 1 .. Len(users) :
             \/ OpenEdit(t, i) \/ EditRow(t, i) \/ CloseEdit(t, i) \/ SaveRow(t, i)
             \/ Answered(t, i) \/ NotSaved(t, i)
             \/ ClickDelete(t, i) \/ Deleted(t, i) \/ NotDeleted(t, i)
             \/ ServeRead(t, i) \/ RefuseProfile(t, i) \/ ServeSave(t, i) \/ ServeDelete(t, i)
             \/ Lose(t, i)
       \/ Faded(t) \/ Confirm(t) \/ Cancel(t) \/ ModalHidden(t)
       \/ \E login \in Logins : SubmitCreate(t, login)
       \/ CheckName(t) \/ CreateUser(t) \/ UserCreated(t) \/ NotCreated(t)

Spec == Init /\ [][Next]_vars

-----------------------------------------------------------------------------
(* Properties *)

\* What a row shows as the user's data was stored at some time, field by field,
\* the expiry to the day (a save shows it as the day's end, stored or not):
\* also when it was edited further while it was being saved, when the profile
\* was saved and the activation was not, and when other tabs save the same user.
ShownIsStored ==
    \A t \in Tabs : \A k \in DOMAIN shown[t] :
       LET i == shown[t][k]  base == InputOf(row[t][i].base) IN
       \A field \in DOMAIN base : \E state \in stored[i] : InputOf(state)[field] = base[field]

\* currentPage is one of the pages there are, so that some row is visible
\* whenever there are rows, however deletions, which may be under way for
\* several rows at once, and creations follow each other.
PageInRange == \A t \in Tabs : page[t] <= TotalPages(shown[t])

\* The code does not keep this: while the question about a row fades in, the
\* keyboard reaches the row's save button, and the confirmation does not look at
\* the flag `saving' again.
OnePostPerRow ==
    \A t \in Tabs, i \in Ids : ~(Saving(row[t][i]) /\ Deleting(row[t][i]))

\* A user is asked about, or being deleted, only while its row is in the table,
\* and not asked about while being deleted: the flag `deleting' is looked at when
\* the question is put and not when it is answered, and what keeps the row from
\* being deleted twice in between is that one question is put at a time.
OneDeletion ==
    \A t \in Tabs, i \in Ids :
       /\ modal[t].asked = i \/ Deleting(row[t][i]) => Contains(shown[t], i)
       /\ modal[t].asked = i => ~Deleting(row[t][i])

\* A confirmation somebody waits for is on the screen, or about to be answered
\* by its disappearance: otherwise no user could be deleted any more.
QuestionIsOpen == \A t \in Tabs : modal[t].asked # 0 => modal[t].shown # "closed"

\* However the modal fades in and out, every question is one the admin can
\* answer, and no user is deleted twice from one tab.
DeletedOnce == OneDeletion /\ QuestionIsOpen

-----------------------------------------------------------------------------
(* The inductive invariant of the safety proofs *)

\* A name, a day, an activation that user i had at some time.
NameStored(name, i) == \E state \in stored[i] : state.name = name
DateStored(date, i) == \E state \in stored[i] : DateOf(state.expires) = date
ActiveStored(active, i) == \E state \in stored[i] : state.active = active

ProfileStored(state, i) == NameStored(state.name, i) /\ DateStored(DateOf(state.expires), i)

StateStored(state, i) == ProfileStored(state, i) /\ ActiveStored(state.active, i)

\* What row r of user i shows was stored, what its save has read was, and what
\* the save has been told is done is: of a toggle, the profile already.
RowStored(r, i) ==
    /\ StateStored(r.base, i)
    /\ Saving(r) => r.save.kind \in {"profile", "toggle"}
    /\ r.save.stage = "read" => StateStored(r.save.seen, i)
    /\ Saving(r) /\ (r.save.kind = "toggle" \/ r.save.stage = "ok") => ProfileStored(r.save.sent, i)
    /\ r.save.stage = "ok" /\ r.save.kind = "toggle" => ActiveStored(r.save.sent.active, i)

RowsInv ==
    \A t \in Tabs, i \in Ids :
       IF i <= Len(users) THEN RowStored(row[t][i], i) ELSE row[t][i] = ViewRow(SomeState)

StoredInv ==
    /\ \A i \in 1 .. Len(users) : users[i].state \in stored[i]
    /\ \A t \in Tabs :
          /\ create[t].stage # "none" => create[t].login \in Logins
          /\ create[t].stage = "ok" =>
                create[t].id \in 1 .. Len(users) /\ SomeState \in stored[create[t].id]

=============================================================================
