------------------------ MODULE SettingsFormsProofs ------------------------
(***************************************************************************)
(* Proofs about SettingsForms: type correctness, that no save is lost, that *)
(* a place goes with its name, that the API key in memory is the one in the *)
(* file, and that suggestions are never followed by earlier ones.           *)
(***************************************************************************)
EXTENDS SettingsForms, TLAPS

-----------------------------------------------------------------------------
(* The inductive invariant *)

\* Who holds the gate of the API key is writing it.
GateOk == \A t \in Tabs : key.gate = t <=> save[t].pc = "writing"

\* A tab that saves or creates has a form.
Sending(u) == save[u].pc # "idle" => tab[u].form # None

\* A tab has been shown the version it will save over, and the one it is saving
\* over.
KnownInv(u) ==
    /\ Shown(u) => <<tab[u].form, tab[u].token>> \in known[u]
    /\ save[u].pc = "sent" => <<tab[u].form, save[u].token>> \in known[u]

\* A place goes with its name, in a form, on the way and in a row; the other
\* forms have none.
Named(r) == r.place # None => r.place = r.text

PlaceInv(u) ==
    /\ Named(tab[u]) /\ (save[u].pc = "sent" => Named(save[u]))
    /\ tab[u].form # "search" =>
          tab[u].place = None /\ (save[u].pc = "sent" => save[u].place = None)

\* Only a search form that is shown looks up and suggests locations.
OptionsInv(u) ==
    tab[u].form # "search" \/ save[u].pc = "creating" =>
       /\ tab[u].options = {} /\ tab[u].due = None
       /\ \A l \in lookups : l.tab # u

\* A row without a version has not been saved.
RowInv(f) ==
    /\ row[f].version = 0 => row[f].by = Nobody
    /\ Named(row[f])
    /\ f # "search" => row[f].place = None

\* The suggestions are those of a lookup that was sent.
ShownInv(u) == tab[u].shown <= tab[u].asked

Inv ==
    /\ TypeOK /\ CachedKeyIsStored
    /\ \A u \in Tabs : Sending(u) /\ KnownInv(u) /\ OptionsInv(u)
                    /\ PlaceInv(u) /\ ShownInv(u)
    /\ \A f \in Forms : RowInv(f)

-----------------------------------------------------------------------------
(* Types *)

\* Emptying the list and typing leave a form a form.
LEMMA ClearedForm == ASSUME NEW r \in Form PROVE Cleared(r) \in Form
BY DEF Cleared, Form

LEMMA TypedForm ==
    ASSUME NEW r \in Form, NEW text \in Texts \cup {Short}
    PROVE  Typed(r, text) \in Form
<1> DEFINE typed == [r EXCEPT !.text = text, !.place = None,
                              !.due = IF text = Short THEN None ELSE text]
<1>1. typed \in Form
  BY DEF Form, Text
<1>2. Cleared(typed) \in Form
  BY <1>1, ClearedForm
<1> QED BY <1>1, <1>2 DEF Typed

LEMMA TypeStep ==
    ASSUME TypeOK, \A u \in Tabs : Sending(u), [Next]_vars
    PROVE  TypeOK'
<1> USE SettingsAssumption DEF TypeOK
<1>0. CASE UNCHANGED vars
  BY <1>0 DEF vars
<1>1. ASSUME NEW t \in Tabs, NEW f \in Forms, Create(t, f) PROVE TypeOK'
  <2>1. tab' \in [Tabs -> Form]
    <3>1. tab' = [tab EXCEPT ![t].form = f]
      BY <1>1 DEF Create
    <3>2. [tab[t] EXCEPT !.form = f] \in Form
      BY DEF Form
    <3> QED BY <3>1, <3>2
  <2>2. save' \in [Tabs -> Save]
    <3>1. save' = [save EXCEPT ![t].pc = "creating"]
      BY <1>1 DEF Create
    <3>2. [save[t] EXCEPT !.pc = "creating"] \in Save
      BY DEF Save
    <3> QED BY <3>1, <3>2
  <2>3. used' \in 0 .. MaxMoves
    BY <1>1 DEF Create, Counted
  <2>4. GateOk'
    BY <1>1 DEF Create, GateOk, Save, NoSave
  <2> QED BY <2>1, <2>2, <2>3, <2>4, <1>1 DEF Create, GateOk
<1>2. ASSUME NEW t \in Tabs, NEW f \in Forms, Load(t, f) PROVE TypeOK'
  <2>1. tab' \in [Tabs -> Form]
    <3>1. row[f].version \in Nat /\ row[f].text \in Text /\ row[f].place \in Texts \cup {None}
      BY DEF Row
    <3>2. [NoForm EXCEPT !.form = f, !.token = row[f].version,
                         !.text = row[f].text, !.place = row[f].place] \in Form
      BY <3>1 DEF NoForm, Form
    <3> QED BY <3>2, <1>2 DEF Load
  <2>2. known' \in [Tabs -> SUBSET (Forms \X Nat)]
    BY <1>2 DEF Load, Save, Form, Row
  <2>3. lookups' \in SUBSET Lookup
    BY <1>2 DEF Load, Lookup, Form
  <2>4. used' \in 0 .. MaxMoves
    BY <1>2 DEF Load, Counted
  <2> QED BY <2>1, <2>2, <2>3, <2>4, <1>2 DEF Load, GateOk
<1>3. ASSUME NEW t \in Tabs, Insert(t) PROVE TypeOK'
  <2>1. row' \in [Forms -> Row]
    <3>1. tab[t].form \in Forms \cup {None}
      BY DEF Form
    <3>2. CASE tab[t].form = None
      BY <3>2, <1>3 DEF Insert, Sending
    <3>3. CASE tab[t].form \in Forms
      <4> DEFINE r == row[tab[t].form]
      <4>1. r \in Row
        BY <3>3
      <4>2. [r EXCEPT !.version = IF r.version = 0 THEN 1 ELSE r.version] \in Row
        BY <4>1 DEF Row
      <4> QED BY <4>2, <3>3, <1>3 DEF Insert
    <3> QED BY <3>1, <3>2, <3>3
  <2>2. tab' \in [Tabs -> Form]
    BY <1>3 DEF Insert, Form, NoForm, Text
  <2>3. known' \in [Tabs -> SUBSET (Forms \X Nat)]
    <3>1. CASE row[tab[t].form].version # 0
      BY <3>1, <1>3 DEF Insert
    <3>2. CASE row[tab[t].form].version = 0
      <4>1. known' = [known EXCEPT ![t] = @ \cup {<<tab[t].form, 1>>}]
        BY <3>2, <1>3 DEF Insert
      <4>2. tab[t].form \in Forms
        BY <1>3 DEF Insert, Sending, Form
      <4> QED BY <4>1, <4>2
    <3> QED BY <3>1, <3>2
  <2>4. save' \in [Tabs -> Save]
    <3>1. save' = [save EXCEPT ![t] = NoSave]
      BY <1>3 DEF Insert
    <3>2. NoSave \in Save
      BY DEF NoSave, Save, Text
    <3> QED BY <3>1, <3>2
  <2>5. GateOk'
    BY <1>3 DEF Insert, GateOk, Save, NoSave
  <2> QED BY <2>1, <2>2, <2>3, <2>4, <2>5, <1>3 DEF Insert, GateOk
<1>4. ASSUME NEW t \in Tabs, EditLocation(t) PROVE TypeOK'
  <2>1. tab' \in [Tabs -> Form]
    <3>1. PICK text \in Texts \cup {Short} : tab' = [tab EXCEPT ![t] = Typed(@, text)]
      BY <1>4 DEF EditLocation
    <3>2. tab[t] \in Form
      OBVIOUS
    <3>3. Typed(tab[t], text) \in Form
      BY <3>2, TypedForm
    <3> QED BY <3>1, <3>3
  <2>2. used' \in 0 .. MaxMoves
    BY <1>4 DEF EditLocation, Typed, Cleared, Shown, Counted
  <2> QED BY <2>1, <2>2, <1>4 DEF EditLocation, Typed, Cleared, Shown, GateOk
<1>5. ASSUME NEW t \in Tabs, EditOther(t) PROVE TypeOK'
  <2>1. tab' \in [Tabs -> Form]
    <3>1. PICK text \in Texts : tab' = [tab EXCEPT ![t].text = text]
      BY <1>5 DEF EditOther
    <3>2. tab[t] \in Form /\ text \in Text
      BY DEF Text
    <3>3. [tab[t] EXCEPT !.text = text] \in Form
      BY <3>2 DEF Form
    <3> QED BY <3>1, <3>3
  <2>2. used' \in 0 .. MaxMoves
    BY <1>5 DEF EditOther, Shown, Counted
  <2> QED BY <2>1, <2>2, <1>5 DEF EditOther, Shown, GateOk
<1>6. ASSUME NEW t \in Tabs, FetchLocationSuggestions(t) PROVE TypeOK'
  <2>1. tab' \in [Tabs -> Form]
    BY <1>6 DEF FetchLocationSuggestions, Form, NoForm, Text
  <2>2. lookups' \in SUBSET Lookup
    BY <1>6 DEF FetchLocationSuggestions, Lookup, Form
  <2> QED BY <2>1, <2>2, <1>6 DEF FetchLocationSuggestions, GateOk
<1>7. ASSUME NEW t \in Tabs, ChooseOption(t) PROVE TypeOK'
  <2>1. tab' \in [Tabs -> Form]
    <3>1. PICK place \in tab[t].options :
             tab' = [tab EXCEPT ![t] = Cleared([@ EXCEPT !.text = place, !.place = place])]
      BY <1>7 DEF ChooseOption
    <3>2. tab[t] \in Form /\ place \in Texts
      BY <3>1 DEF Form
    <3>3. [tab[t] EXCEPT !.text = place, !.place = place] \in Form
      BY <3>2 DEF Form, Text
    <3>4. Cleared([tab[t] EXCEPT !.text = place, !.place = place]) \in Form
      BY <3>3, ClearedForm
    <3> QED BY <3>1, <3>4
  <2> QED BY <2>1, <1>7 DEF ChooseOption, Cleared, Shown, GateOk
<1>8. ASSUME NEW t \in Tabs, SubmitSearch(t) PROVE TypeOK'
  <2>1. save' \in [Tabs -> Save]
    BY <1>8 DEF SubmitSearch, Submit, Shown, Save, NoSave, Form, Text
  <2>2. used' \in 0 .. MaxMoves
    BY <1>8 DEF SubmitSearch, Submit, Shown, Counted
  <2>3. GateOk'
    BY <1>8 DEF SubmitSearch, Submit, Shown, GateOk, Save, NoSave
  <2> QED BY <2>1, <2>2, <2>3, <1>8 DEF SubmitSearch, Submit, Shown, GateOk
<1>9. ASSUME NEW t \in Tabs, SubmitBehavior(t) PROVE TypeOK'
  <2>1. save' \in [Tabs -> Save]
    BY <1>9 DEF SubmitBehavior, Submit, Shown, Save, NoSave, Form, Text
  <2>2. used' \in 0 .. MaxMoves
    BY <1>9 DEF SubmitBehavior, Submit, Shown, Counted
  <2>3. GateOk'
    BY <1>9 DEF SubmitBehavior, Submit, Shown, GateOk, Save, NoSave
  <2> QED BY <2>1, <2>2, <2>3, <1>9 DEF SubmitBehavior, Submit, Shown, GateOk
<1>10. ASSUME NEW t \in Tabs, SubmitOpenAi(t) PROVE TypeOK'
  <2>1. save' \in [Tabs -> Save]
    BY <1>10 DEF SubmitOpenAi, Submit, Shown, Save, NoSave, Form, Text
  <2>2. used' \in 0 .. MaxMoves
    BY <1>10 DEF SubmitOpenAi, Submit, Shown, Counted
  <2>3. GateOk'
    BY <1>10 DEF SubmitOpenAi, Submit, Shown, GateOk, Save, NoSave
  <2> QED BY <2>1, <2>2, <2>3, <1>10 DEF SubmitOpenAi, Submit, Shown, GateOk
<1>11. ASSUME NEW t \in Tabs, Commit(t) PROVE TypeOK'
  <2>1. row' \in [Forms -> Row]
    BY <1>11 DEF Commit, Matches, Row, Save, Form
  <2>2. save' \in [Tabs -> Save]
    <3> DEFINE f == tab[t].form
    <3>1. f \in Forms
      BY <1>11 DEF Commit, Sending, Form
    <3>2. row[f].version + 1 \in Nat
      BY <3>1 DEF Row
    <3>3. ASSUME NEW pc \in {"saved", "answered"}, NEW n \in Nat
          PROVE  [save[t] EXCEPT !.pc = pc, !.token = n] \in Save
      <4>1. save[t] \in Save
        OBVIOUS
      <4>2. CASE pc = "saved"
        BY <4>1, <4>2 DEF Save
      <4>3. CASE pc = "answered"
        BY <4>1, <4>3 DEF Save
      <4> QED BY <4>2, <4>3
    <3>4. [save[t] EXCEPT !.pc = "failed"] \in Save
      BY DEF Save
    <3>5. CASE Matches(f, save[t])
      <4>1. save' = [save EXCEPT ![t] =
                       [@ EXCEPT !.pc = IF f = "openai" THEN "saved" ELSE "answered",
                                 !.token = row[f].version + 1]]
        BY <3>5, <1>11 DEF Commit
      <4> QED BY <3>2, <3>3, <4>1
    <3>6. CASE ~Matches(f, save[t])
      <4>1. save' = [save EXCEPT ![t].pc = "failed"]
        BY <3>6, <1>11 DEF Commit
      <4> QED BY <3>4, <4>1
    <3> QED BY <3>5, <3>6
  <2>3. GateOk'
    BY <1>11 DEF Commit, Matches, GateOk, Save, NoSave
  <2> QED BY <2>1, <2>2, <2>3, <1>11 DEF Commit, Matches, GateOk
<1>12. ASSUME NEW t \in Tabs, Invalid(t) PROVE TypeOK'
  <2>1. save' \in [Tabs -> Save]
    <3>1. save' = [save EXCEPT ![t].pc = "failed"]
      BY <1>12 DEF Invalid
    <3>2. [save[t] EXCEPT !.pc = "failed"] \in Save
      BY DEF Save
    <3> QED BY <3>1, <3>2
  <2>2. GateOk'
    BY <1>12 DEF Invalid, GateOk, Save, NoSave
  <2> QED BY <2>1, <2>2, <1>12 DEF Invalid, GateOk
<1>13. ASSUME NEW t \in Tabs, SaveKey(t) PROVE TypeOK'
  <2>1. key' \in [value : Text, loaded : BOOLEAN, gate : Tabs \cup {Nobody}]
    BY <1>13 DEF SaveKey, Save, Text
  <2>2. file' \in Text \cup {Torn}
    BY <1>13 DEF SaveKey, Save, Text
  <2>3. save' \in [Tabs -> Save]
    <3>1. save' = [save EXCEPT ![t].pc = "writing"]
      BY <1>13 DEF SaveKey
    <3>2. [save[t] EXCEPT !.pc = "writing"] \in Save
      BY DEF Save
    <3> QED BY <3>1, <3>2
  <2>4. GateOk'
    BY <1>13 DEF SaveKey, GateOk, Save, NoSave
  <2> QED BY <2>1, <2>2, <2>3, <2>4, <1>13 DEF SaveKey, GateOk
<1>14. ASSUME NEW t \in Tabs, WriteKey(t) PROVE TypeOK'
  <2>1. file' \in Text \cup {Torn}
    BY <1>14 DEF WriteKey, KeyWritten, Save, Text
  <2>2. key' \in [value : Text, loaded : BOOLEAN, gate : Tabs \cup {Nobody}]
    BY <1>14 DEF WriteKey, KeyWritten, Save, Text
  <2>3. save' \in [Tabs -> Save]
    <3>1. save' = [save EXCEPT ![t].pc = "answered"]
      BY <1>14 DEF WriteKey
    <3>2. [save[t] EXCEPT !.pc = "answered"] \in Save
      BY DEF Save
    <3> QED BY <3>1, <3>2
  <2>4. GateOk'
    BY <1>14 DEF WriteKey, KeyWritten, GateOk, Save, NoSave
  <2> QED BY <2>1, <2>2, <2>3, <2>4, <1>14 DEF WriteKey, KeyWritten, GateOk
<1>15. ASSUME NEW t \in Tabs, WriteKeyFails(t) PROVE TypeOK'
  <2>1. key' \in [value : Text, loaded : BOOLEAN, gate : Tabs \cup {Nobody}]
    BY <1>15 DEF WriteKeyFails, Save, Text
  <2>2. save' \in [Tabs -> Save]
    <3>1. save' = [save EXCEPT ![t].pc = "failed"]
      BY <1>15 DEF WriteKeyFails
    <3>2. [save[t] EXCEPT !.pc = "failed"] \in Save
      BY DEF Save
    <3> QED BY <3>1, <3>2
  <2>3. used' \in 0 .. MaxMoves
    BY <1>15 DEF WriteKeyFails, Counted
  <2>4. GateOk'
    BY <1>15 DEF WriteKeyFails, GateOk, Save, NoSave
  <2> QED BY <2>1, <2>2, <2>3, <2>4, <1>15 DEF WriteKeyFails, GateOk
<1>16. ASSUME NEW t \in Tabs, SearchSaved(t) PROVE TypeOK'
  <2>1. tab' \in [Tabs -> Form]
    <3>1. save[t].token \in Nat /\ tab[t] \in Form
      BY DEF Save
    <3>2. [tab[t] EXCEPT !.token = save[t].token] \in Form
      BY <3>1 DEF Form
    <3> QED BY <3>2, <1>16 DEF SearchSaved, Saved
  <2>2. known' \in [Tabs -> SUBSET (Forms \X Nat)]
    <3>1. save[t].token \in Nat
      BY DEF Save
    <3>2. tab[t].form \in Forms
      BY <1>16 DEF SearchSaved, Saved, Forms
    <3> QED BY <3>1, <3>2, <1>16 DEF SearchSaved, Saved
  <2>3. save' \in [Tabs -> Save]
    <3>1. save' = [save EXCEPT ![t] = NoSave]
      BY <1>16 DEF SearchSaved, Saved
    <3>2. NoSave \in Save
      BY DEF NoSave, Save, Text
    <3> QED BY <3>1, <3>2
  <2>4. GateOk'
    BY <1>16 DEF SearchSaved, Saved, GateOk, Save, NoSave
  <2> QED BY <2>1, <2>2, <2>3, <2>4, <1>16 DEF SearchSaved, Saved, GateOk
<1>17. ASSUME NEW t \in Tabs, BehaviorSaved(t) PROVE TypeOK'
  <2>1. tab' \in [Tabs -> Form]
    <3>1. save[t].token \in Nat /\ tab[t] \in Form
      BY DEF Save
    <3>2. [tab[t] EXCEPT !.token = save[t].token] \in Form
      BY <3>1 DEF Form
    <3> QED BY <3>2, <1>17 DEF BehaviorSaved, Saved
  <2>2. known' \in [Tabs -> SUBSET (Forms \X Nat)]
    <3>1. save[t].token \in Nat
      BY DEF Save
    <3>2. tab[t].form \in Forms
      BY <1>17 DEF BehaviorSaved, Saved, Forms
    <3> QED BY <3>1, <3>2, <1>17 DEF BehaviorSaved, Saved
  <2>3. save' \in [Tabs -> Save]
    <3>1. save' = [save EXCEPT ![t] = NoSave]
      BY <1>17 DEF BehaviorSaved, Saved
    <3>2. NoSave \in Save
      BY DEF NoSave, Save, Text
    <3> QED BY <3>1, <3>2
  <2>4. GateOk'
    BY <1>17 DEF BehaviorSaved, Saved, GateOk, Save, NoSave
  <2> QED BY <2>1, <2>2, <2>3, <2>4, <1>17 DEF BehaviorSaved, Saved, GateOk
<1>18. ASSUME NEW t \in Tabs, OpenAiSaved(t) PROVE TypeOK'
  <2>1. tab' \in [Tabs -> Form]
    <3>1. save[t].token \in Nat /\ tab[t] \in Form
      BY DEF Save
    <3>2. [tab[t] EXCEPT !.token = save[t].token] \in Form
      BY <3>1 DEF Form
    <3> QED BY <3>2, <1>18 DEF OpenAiSaved, Saved
  <2>2. known' \in [Tabs -> SUBSET (Forms \X Nat)]
    <3>1. save[t].token \in Nat
      BY DEF Save
    <3>2. tab[t].form \in Forms
      BY <1>18 DEF OpenAiSaved, Saved, Forms
    <3> QED BY <3>1, <3>2, <1>18 DEF OpenAiSaved, Saved
  <2>3. save' \in [Tabs -> Save]
    <3>1. save' = [save EXCEPT ![t] = NoSave]
      BY <1>18 DEF OpenAiSaved, Saved
    <3>2. NoSave \in Save
      BY DEF NoSave, Save, Text
    <3> QED BY <3>1, <3>2
  <2>4. GateOk'
    BY <1>18 DEF OpenAiSaved, Saved, GateOk, Save, NoSave
  <2> QED BY <2>1, <2>2, <2>3, <2>4, <1>18 DEF OpenAiSaved, Saved, GateOk
<1>19. ASSUME NEW t \in Tabs, NotSaved(t) PROVE TypeOK'
  <2>1. save' \in [Tabs -> Save]
    <3>1. save' = [save EXCEPT ![t] = NoSave]
      BY <1>19 DEF NotSaved
    <3>2. NoSave \in Save
      BY DEF NoSave, Save, Text
    <3> QED BY <3>1, <3>2
  <2>2. GateOk'
    BY <1>19 DEF NotSaved, GateOk, Save, NoSave
  <2> QED BY <2>1, <2>2, <1>19 DEF NotSaved, GateOk
<1>20. ASSUME NEW t \in Tabs, LoseAnswer(t) PROVE TypeOK'
  <2>1. save' \in [Tabs -> Save]
    <3>1. save' = [save EXCEPT ![t] = NoSave]
      BY <1>20 DEF LoseAnswer
    <3>2. NoSave \in Save
      BY DEF NoSave, Save, Text
    <3> QED BY <3>1, <3>2
  <2>2. used' \in 0 .. MaxMoves
    BY <1>20 DEF LoseAnswer, Counted
  <2>3. GateOk'
    BY <1>20 DEF LoseAnswer, GateOk, Save, NoSave
  <2> QED BY <2>1, <2>2, <2>3, <1>20 DEF LoseAnswer, GateOk
<1>21. ASSUME NEW l \in lookups, RenderSuggestions(l) PROVE TypeOK'
  <2>1. lookups' \in SUBSET Lookup
    BY <1>21 DEF RenderSuggestions, Current, Lookup, Form
  <2>2. tab' \in [Tabs -> Form]
    <3>1. CASE ~Current(l)
      BY <3>1, <1>21 DEF RenderSuggestions
    <3>2. CASE Current(l)
      <4>1. PICK options \in {{}, {l.query}, Texts} :
               tab' = [tab EXCEPT ![l.tab].options = options, ![l.tab].shown = l.id]
        BY <3>2, <1>21 DEF RenderSuggestions
      <4>2. l.tab \in Tabs /\ l.id \in Nat /\ options \in SUBSET Texts
        BY <4>1 DEF Lookup
      <4>3. tab[l.tab] \in Form
        BY <4>2
      <4>4. [tab[l.tab] EXCEPT !.options = options, !.shown = l.id] \in Form
        BY <4>2, <4>3 DEF Form
      <4> QED BY <4>1, <4>2, <4>4
    <3> QED BY <3>1, <3>2
  <2> QED BY <2>1, <2>2, <1>21 DEF RenderSuggestions, Current, GateOk
<1>22. ASSUME NEW l \in lookups, LookupFails(l) PROVE TypeOK'
  <2>1. lookups' \in SUBSET Lookup
    BY <1>22 DEF LookupFails, Cleared, Current, Lookup, Form
  <2>2. tab' \in [Tabs -> Form]
    <3>1. CASE ~Current(l)
      BY <3>1, <1>22 DEF LookupFails
    <3>2. CASE Current(l)
      <4>1. l.tab \in Tabs /\ tab[l.tab] \in Form
        BY DEF Lookup
      <4>2. Cleared(tab[l.tab]) \in Form
        BY <4>1, ClearedForm
      <4> QED BY <3>2, <4>1, <4>2, <1>22 DEF LookupFails
    <3> QED BY <3>1, <3>2
  <2>3. used' \in 0 .. MaxMoves
    BY <1>22 DEF LookupFails, Cleared, Current, Counted
  <2> QED BY <2>1, <2>2, <2>3, <1>22 DEF LookupFails, Cleared, Current, GateOk
<1>23. ASSUME LoadKey PROVE TypeOK'
  <2>1. key' \in [value : Text, loaded : BOOLEAN, gate : Tabs \cup {Nobody}]
    BY <1>23 DEF LoadKey, Save, Text
  <2> QED BY <2>1, <1>23 DEF LoadKey, GateOk
<1>24. ASSUME Restart PROVE TypeOK'
  <2>1. key' \in [value : Text, loaded : BOOLEAN, gate : Tabs \cup {Nobody}]
    BY <1>24 DEF Restart, Save, Text
  <2>2. save' \in [Tabs -> Save]
    BY <1>24 DEF Restart, Save, NoSave, Form, Text
  <2>3. used' \in 0 .. MaxMoves
    BY <1>24 DEF Restart, Counted
  <2>4. GateOk'
    BY <1>24 DEF Restart, GateOk, Save, NoSave
  <2> QED BY <2>1, <2>2, <2>3, <2>4, <1>24 DEF Restart, GateOk
<1> QED BY <1>0, <1>1, <1>2, <1>3, <1>4, <1>5, <1>6, <1>7, <1>8, <1>9, <1>10, <1>11, <1>12, <1>13, <1>14, <1>15, <1>16, <1>17, <1>18, <1>19, <1>20, <1>21, <1>22, <1>23, <1>24 DEF Next

-----------------------------------------------------------------------------
(* Steps *)

\* A tab with a save under way keeps its form.
LEMMA SendingStep ==
    ASSUME TypeOK, NEW u \in Tabs, Sending(u), [Next]_vars
    PROVE  Sending(u)'
<1>t. /\ row \in [Forms -> Row] /\ tab \in [Tabs -> Form] /\ save \in [Tabs -> Save]
      /\ known \in [Tabs -> SUBSET (Forms \X Nat)] /\ lookups \in SUBSET Lookup
  BY DEF TypeOK
<1> USE SettingsAssumption DEF Sending, Row, Form, Save, Lookup, NoForm, NoSave, Shown
<1>0. CASE UNCHANGED vars
  BY <1>0 DEF vars
<1>1. ASSUME NEW t \in Tabs, NEW f \in Forms, Create(t, f) PROVE Sending(u)'
  BY <1>1, <1>t DEF Create
<1>2. ASSUME NEW t \in Tabs, NEW f \in Forms, Load(t, f) PROVE Sending(u)'
  BY <1>2, <1>t DEF Load
<1>3. ASSUME NEW t \in Tabs, Insert(t) PROVE Sending(u)'
  BY <1>3, <1>t DEF Insert
<1>4. ASSUME NEW t \in Tabs, EditLocation(t) PROVE Sending(u)'
  BY <1>4, <1>t DEF EditLocation, Typed, Cleared
<1>5. ASSUME NEW t \in Tabs, EditOther(t) PROVE Sending(u)'
  BY <1>5, <1>t DEF EditOther
<1>6. ASSUME NEW t \in Tabs, FetchLocationSuggestions(t) PROVE Sending(u)'
  BY <1>6, <1>t DEF FetchLocationSuggestions
<1>7. ASSUME NEW t \in Tabs, ChooseOption(t) PROVE Sending(u)'
  BY <1>7, <1>t DEF ChooseOption, Cleared
<1>8. ASSUME NEW t \in Tabs, SubmitSearch(t) PROVE Sending(u)'
  BY <1>8, <1>t DEF SubmitSearch, Submit
<1>9. ASSUME NEW t \in Tabs, SubmitBehavior(t) PROVE Sending(u)'
  BY <1>9, <1>t DEF SubmitBehavior, Submit
<1>10. ASSUME NEW t \in Tabs, SubmitOpenAi(t) PROVE Sending(u)'
  BY <1>10, <1>t DEF SubmitOpenAi, Submit
<1>11. ASSUME NEW t \in Tabs, Commit(t) PROVE Sending(u)'
  BY <1>11, <1>t DEF Commit, Matches
<1>12. ASSUME NEW t \in Tabs, Invalid(t) PROVE Sending(u)'
  BY <1>12, <1>t DEF Invalid
<1>13. ASSUME NEW t \in Tabs, SaveKey(t) PROVE Sending(u)'
  BY <1>13, <1>t DEF SaveKey
<1>14. ASSUME NEW t \in Tabs, WriteKey(t) PROVE Sending(u)'
  BY <1>14, <1>t DEF WriteKey, KeyWritten
<1>15. ASSUME NEW t \in Tabs, WriteKeyFails(t) PROVE Sending(u)'
  BY <1>15, <1>t DEF WriteKeyFails
<1>16. ASSUME NEW t \in Tabs, SearchSaved(t) PROVE Sending(u)'
  BY <1>16, <1>t DEF SearchSaved, Saved
<1>17. ASSUME NEW t \in Tabs, BehaviorSaved(t) PROVE Sending(u)'
  BY <1>17, <1>t DEF BehaviorSaved, Saved
<1>18. ASSUME NEW t \in Tabs, OpenAiSaved(t) PROVE Sending(u)'
  BY <1>18, <1>t DEF OpenAiSaved, Saved
<1>19. ASSUME NEW t \in Tabs, NotSaved(t) PROVE Sending(u)'
  BY <1>19, <1>t DEF NotSaved
<1>20. ASSUME NEW t \in Tabs, LoseAnswer(t) PROVE Sending(u)'
  BY <1>20, <1>t DEF LoseAnswer
<1>21. ASSUME NEW l \in lookups, RenderSuggestions(l) PROVE Sending(u)'
  BY <1>21, <1>t DEF RenderSuggestions, Current
<1>22. ASSUME NEW l \in lookups, LookupFails(l) PROVE Sending(u)'
  BY <1>22, <1>t DEF LookupFails, Cleared, Current
<1>23. ASSUME LoadKey PROVE Sending(u)'
  BY <1>23, <1>t DEF LoadKey
<1>24. ASSUME Restart PROVE Sending(u)'
  BY <1>24, <1>t DEF Restart
<1> QED BY <1>0, <1>1, <1>2, <1>3, <1>4, <1>5, <1>6, <1>7, <1>8, <1>9, <1>10, <1>11, <1>12, <1>13, <1>14, <1>15, <1>16, <1>17, <1>18, <1>19, <1>20, <1>21, <1>22, <1>23, <1>24 DEF Next

\* A version is known before it is saved over.
LEMMA KnownStep ==
    ASSUME TypeOK, NEW u \in Tabs, Sending(u), KnownInv(u), [Next]_vars
    PROVE  KnownInv(u)'
<1>t. /\ row \in [Forms -> Row] /\ tab \in [Tabs -> Form] /\ save \in [Tabs -> Save]
      /\ known \in [Tabs -> SUBSET (Forms \X Nat)] /\ lookups \in SUBSET Lookup
  BY DEF TypeOK
<1> USE SettingsAssumption DEF Sending, KnownInv, Shown, Row, Form, Save, Lookup, NoForm, NoSave
<1>0. CASE UNCHANGED vars
  BY <1>0 DEF vars
<1>1. ASSUME NEW t \in Tabs, NEW f \in Forms, Create(t, f) PROVE KnownInv(u)'
  BY <1>1, <1>t DEF Create
<1>2. ASSUME NEW t \in Tabs, NEW f \in Forms, Load(t, f) PROVE KnownInv(u)'
  BY <1>2, <1>t DEF Load
<1>3. ASSUME NEW t \in Tabs, Insert(t) PROVE KnownInv(u)'
  BY <1>3, <1>t DEF Insert
<1>4. ASSUME NEW t \in Tabs, EditLocation(t) PROVE KnownInv(u)'
  <2>1. tab'[u].form = tab[u].form /\ tab'[u].token = tab[u].token
    BY <1>4, <1>t DEF EditLocation, Typed, Cleared
  <2>2. UNCHANGED <<save, known>>
    BY <1>4 DEF EditLocation
  <2> QED BY <2>1, <2>2
<1>5. ASSUME NEW t \in Tabs, EditOther(t) PROVE KnownInv(u)'
  <2>1. tab'[u].form = tab[u].form /\ tab'[u].token = tab[u].token
    BY <1>5, <1>t DEF EditOther
  <2>2. UNCHANGED <<save, known>>
    BY <1>5 DEF EditOther
  <2> QED BY <2>1, <2>2
<1>6. ASSUME NEW t \in Tabs, FetchLocationSuggestions(t) PROVE KnownInv(u)'
  BY <1>6, <1>t DEF FetchLocationSuggestions
<1>7. ASSUME NEW t \in Tabs, ChooseOption(t) PROVE KnownInv(u)'
  <2>1. tab'[u].form = tab[u].form /\ tab'[u].token = tab[u].token
    BY <1>7, <1>t DEF ChooseOption, Cleared
  <2>2. UNCHANGED <<save, known>>
    BY <1>7 DEF ChooseOption
  <2> QED BY <2>1, <2>2
<1>8. ASSUME NEW t \in Tabs, SubmitSearch(t) PROVE KnownInv(u)'
  BY <1>8, <1>t DEF SubmitSearch, Submit
<1>9. ASSUME NEW t \in Tabs, SubmitBehavior(t) PROVE KnownInv(u)'
  BY <1>9, <1>t DEF SubmitBehavior, Submit
<1>10. ASSUME NEW t \in Tabs, SubmitOpenAi(t) PROVE KnownInv(u)'
  BY <1>10, <1>t DEF SubmitOpenAi, Submit
<1>11. ASSUME NEW t \in Tabs, Commit(t) PROVE KnownInv(u)'
  <2>1. tab' = tab /\ known' = known
    BY <1>11 DEF Commit
  <2>2. /\ u # t => save'[u] = save[u]
        /\ u = t => save'[u].pc \notin {"idle", "creating", "sent"} /\ save[u].pc = "sent"
    BY <1>11, <1>t DEF Commit
  <2> QED BY <2>1, <2>2
<1>12. ASSUME NEW t \in Tabs, Invalid(t) PROVE KnownInv(u)'
  BY <1>12, <1>t DEF Invalid
<1>13. ASSUME NEW t \in Tabs, SaveKey(t) PROVE KnownInv(u)'
  BY <1>13, <1>t DEF SaveKey
<1>14. ASSUME NEW t \in Tabs, WriteKey(t) PROVE KnownInv(u)'
  BY <1>14, <1>t DEF WriteKey, KeyWritten
<1>15. ASSUME NEW t \in Tabs, WriteKeyFails(t) PROVE KnownInv(u)'
  BY <1>15, <1>t DEF WriteKeyFails
<1>16. ASSUME NEW t \in Tabs, SearchSaved(t) PROVE KnownInv(u)'
  <2>1. CASE u # t
    BY <2>1, <1>16, <1>t DEF SearchSaved, Saved
  <2>2. CASE u = t
    <3>1. tab'[u].form = tab[u].form /\ tab'[u].token = save[u].token
      BY <2>2, <1>16, <1>t DEF SearchSaved, Saved
    <3>2. <<tab[u].form, save[u].token>> \in known'[u]
      BY <2>2, <1>16, <1>t DEF SearchSaved, Saved
    <3>3. save'[u].pc = "idle"
      BY <2>2, <1>16, <1>t DEF SearchSaved, Saved
    <3> QED BY <3>1, <3>2, <3>3
  <2> QED BY <2>1, <2>2
<1>17. ASSUME NEW t \in Tabs, BehaviorSaved(t) PROVE KnownInv(u)'
  <2>1. CASE u # t
    BY <2>1, <1>17, <1>t DEF BehaviorSaved, Saved
  <2>2. CASE u = t
    <3>1. tab'[u].form = tab[u].form /\ tab'[u].token = save[u].token
      BY <2>2, <1>17, <1>t DEF BehaviorSaved, Saved
    <3>2. <<tab[u].form, save[u].token>> \in known'[u]
      BY <2>2, <1>17, <1>t DEF BehaviorSaved, Saved
    <3>3. save'[u].pc = "idle"
      BY <2>2, <1>17, <1>t DEF BehaviorSaved, Saved
    <3> QED BY <3>1, <3>2, <3>3
  <2> QED BY <2>1, <2>2
<1>18. ASSUME NEW t \in Tabs, OpenAiSaved(t) PROVE KnownInv(u)'
  <2>1. CASE u # t
    BY <2>1, <1>18, <1>t DEF OpenAiSaved, Saved
  <2>2. CASE u = t
    <3>1. tab'[u].form = tab[u].form /\ tab'[u].token = save[u].token
      BY <2>2, <1>18, <1>t DEF OpenAiSaved, Saved
    <3>2. <<tab[u].form, save[u].token>> \in known'[u]
      BY <2>2, <1>18, <1>t DEF OpenAiSaved, Saved
    <3>3. save'[u].pc = "idle"
      BY <2>2, <1>18, <1>t DEF OpenAiSaved, Saved
    <3> QED BY <3>1, <3>2, <3>3
  <2> QED BY <2>1, <2>2
<1>19. ASSUME NEW t \in Tabs, NotSaved(t) PROVE KnownInv(u)'
  BY <1>19, <1>t DEF NotSaved
<1>20. ASSUME NEW t \in Tabs, LoseAnswer(t) PROVE KnownInv(u)'
  BY <1>20, <1>t DEF LoseAnswer
<1>21. ASSUME NEW l \in lookups, RenderSuggestions(l) PROVE KnownInv(u)'
  <2>1. tab'[u].form = tab[u].form /\ tab'[u].token = tab[u].token
    BY <1>21, <1>t DEF RenderSuggestions, Current
  <2>2. UNCHANGED <<save, known>>
    BY <1>21 DEF RenderSuggestions
  <2> QED BY <2>1, <2>2
<1>22. ASSUME NEW l \in lookups, LookupFails(l) PROVE KnownInv(u)'
  <2>1. tab'[u].form = tab[u].form /\ tab'[u].token = tab[u].token
    BY <1>22, <1>t DEF LookupFails, Cleared, Current
  <2>2. UNCHANGED <<save, known>>
    BY <1>22 DEF LookupFails
  <2> QED BY <2>1, <2>2
<1>23. ASSUME LoadKey PROVE KnownInv(u)'
  BY <1>23, <1>t DEF LoadKey
<1>24. ASSUME Restart PROVE KnownInv(u)'
  BY <1>24, <1>t DEF Restart
<1> QED BY <1>0, <1>1, <1>2, <1>3, <1>4, <1>5, <1>6, <1>7, <1>8, <1>9, <1>10, <1>11, <1>12, <1>13, <1>14, <1>15, <1>16, <1>17, <1>18, <1>19, <1>20, <1>21, <1>22, <1>23, <1>24 DEF Next

\* Typing and choosing, loading and saving keep places and names together.
LEMMA PlaceStep ==
    ASSUME TypeOK, NEW u \in Tabs, Sending(u), OptionsInv(u), PlaceInv(u), \A f \in Forms : RowInv(f), [Next]_vars
    PROVE  PlaceInv(u)'
<1>t. /\ row \in [Forms -> Row] /\ tab \in [Tabs -> Form] /\ save \in [Tabs -> Save]
      /\ known \in [Tabs -> SUBSET (Forms \X Nat)] /\ lookups \in SUBSET Lookup
  BY DEF TypeOK
<1> USE SettingsAssumption DEF Sending, PlaceInv, RowInv, Named, Shown, Row, Form, Save, Lookup, NoForm, NoSave
<1>0. CASE UNCHANGED vars
  BY <1>0 DEF vars
<1>1. ASSUME NEW t \in Tabs, NEW f \in Forms, Create(t, f) PROVE PlaceInv(u)'
  <2>1. CASE u # t
    BY <2>1, <1>1, <1>t DEF Create
  <2>2. CASE u = t
    <3>1. tab[u].form = None /\ None # "search"
      BY <2>2, <1>1 DEF Create, Forms
    <3>2. tab'[u].place = tab[u].place /\ save'[u].pc = "creating"
      BY <2>2, <1>1, <1>t DEF Create
    <3> QED BY <3>1, <3>2
  <2> QED BY <2>1, <2>2
<1>2. ASSUME NEW t \in Tabs, NEW f \in Forms, Load(t, f) PROVE PlaceInv(u)'
  BY <1>2, <1>t DEF Load
<1>3. ASSUME NEW t \in Tabs, Insert(t) PROVE PlaceInv(u)'
  BY <1>3, <1>t DEF Insert
<1>4. ASSUME NEW t \in Tabs, EditLocation(t) PROVE PlaceInv(u)'
  BY <1>4, <1>t DEF EditLocation, Typed, Cleared
<1>5. ASSUME NEW t \in Tabs, EditOther(t) PROVE PlaceInv(u)'
  BY <1>5, <1>t DEF EditOther
<1>6. ASSUME NEW t \in Tabs, FetchLocationSuggestions(t) PROVE PlaceInv(u)'
  BY <1>6, <1>t DEF FetchLocationSuggestions
<1>7. ASSUME NEW t \in Tabs, ChooseOption(t) PROVE PlaceInv(u)'
  <2>1. CASE u # t
    BY <2>1, <1>7, <1>t DEF ChooseOption
  <2>2. CASE u = t
    <3>1. PICK place \in tab[u].options :
             tab' = [tab EXCEPT ![u] = Cleared([@ EXCEPT !.text = place, !.place = place])]
      BY <2>2, <1>7 DEF ChooseOption
    <3>2. tab'[u].text = place /\ tab'[u].place = place /\ tab'[u].form = tab[u].form
      BY <3>1, <1>t DEF Cleared
    <3>3. tab[u].form = "search"
      BY <2>2, <3>1 DEF OptionsInv
    <3> QED BY <3>2, <3>3, <1>7 DEF ChooseOption
  <2> QED BY <2>1, <2>2
<1>8. ASSUME NEW t \in Tabs, SubmitSearch(t) PROVE PlaceInv(u)'
  BY <1>8, <1>t DEF SubmitSearch, Submit
<1>9. ASSUME NEW t \in Tabs, SubmitBehavior(t) PROVE PlaceInv(u)'
  BY <1>9, <1>t DEF SubmitBehavior, Submit
<1>10. ASSUME NEW t \in Tabs, SubmitOpenAi(t) PROVE PlaceInv(u)'
  BY <1>10, <1>t DEF SubmitOpenAi, Submit
<1>11. ASSUME NEW t \in Tabs, Commit(t) PROVE PlaceInv(u)'
  <2>1. tab' = tab
    BY <1>11 DEF Commit
  <2>2. /\ u # t => save'[u] = save[u]
        /\ u = t => save'[u].pc # "sent"
    BY <1>11, <1>t DEF Commit
  <2> QED BY <2>1, <2>2
<1>12. ASSUME NEW t \in Tabs, Invalid(t) PROVE PlaceInv(u)'
  BY <1>12, <1>t DEF Invalid
<1>13. ASSUME NEW t \in Tabs, SaveKey(t) PROVE PlaceInv(u)'
  BY <1>13, <1>t DEF SaveKey
<1>14. ASSUME NEW t \in Tabs, WriteKey(t) PROVE PlaceInv(u)'
  BY <1>14, <1>t DEF WriteKey, KeyWritten
<1>15. ASSUME NEW t \in Tabs, WriteKeyFails(t) PROVE PlaceInv(u)'
  BY <1>15, <1>t DEF WriteKeyFails
<1>16. ASSUME NEW t \in Tabs, SearchSaved(t) PROVE PlaceInv(u)'
  BY <1>16, <1>t DEF SearchSaved, Saved
<1>17. ASSUME NEW t \in Tabs, BehaviorSaved(t) PROVE PlaceInv(u)'
  BY <1>17, <1>t DEF BehaviorSaved, Saved
<1>18. ASSUME NEW t \in Tabs, OpenAiSaved(t) PROVE PlaceInv(u)'
  BY <1>18, <1>t DEF OpenAiSaved, Saved
<1>19. ASSUME NEW t \in Tabs, NotSaved(t) PROVE PlaceInv(u)'
  BY <1>19, <1>t DEF NotSaved
<1>20. ASSUME NEW t \in Tabs, LoseAnswer(t) PROVE PlaceInv(u)'
  BY <1>20, <1>t DEF LoseAnswer
<1>21. ASSUME NEW l \in lookups, RenderSuggestions(l) PROVE PlaceInv(u)'
  BY <1>21, <1>t DEF RenderSuggestions, Current
<1>22. ASSUME NEW l \in lookups, LookupFails(l) PROVE PlaceInv(u)'
  BY <1>22, <1>t DEF LookupFails, Cleared, Current
<1>23. ASSUME LoadKey PROVE PlaceInv(u)'
  BY <1>23, <1>t DEF LoadKey
<1>24. ASSUME Restart PROVE PlaceInv(u)'
  BY <1>24, <1>t DEF Restart
<1> QED BY <1>0, <1>1, <1>2, <1>3, <1>4, <1>5, <1>6, <1>7, <1>8, <1>9, <1>10, <1>11, <1>12, <1>13, <1>14, <1>15, <1>16, <1>17, <1>18, <1>19, <1>20, <1>21, <1>22, <1>23, <1>24 DEF Next

\* Only search forms look up.
LEMMA OptionsStep ==
    ASSUME TypeOK, NEW u \in Tabs, Sending(u), OptionsInv(u), [Next]_vars
    PROVE  OptionsInv(u)'
<1>t. /\ row \in [Forms -> Row] /\ tab \in [Tabs -> Form] /\ save \in [Tabs -> Save]
      /\ known \in [Tabs -> SUBSET (Forms \X Nat)] /\ lookups \in SUBSET Lookup
  BY DEF TypeOK
<1> USE SettingsAssumption DEF Sending, OptionsInv, Shown, Row, Form, Save, Lookup, NoForm, NoSave
<1>0. CASE UNCHANGED vars
  BY <1>0 DEF vars
<1>1. ASSUME NEW t \in Tabs, NEW f \in Forms, Create(t, f) PROVE OptionsInv(u)'
  <2>1. CASE u # t
    BY <2>1, <1>1, <1>t DEF Create
  <2>2. CASE u = t
    <3>1. tab[u].form # "search"
      BY <2>2, <1>1 DEF Create, Forms
    <3>2. /\ tab'[u].options = tab[u].options /\ tab'[u].due = tab[u].due
          /\ lookups' = lookups
      BY <2>2, <1>1, <1>t DEF Create
    <3> QED BY <3>1, <3>2
  <2> QED BY <2>1, <2>2
<1>2. ASSUME NEW t \in Tabs, NEW f \in Forms, Load(t, f) PROVE OptionsInv(u)'
  BY <1>2, <1>t DEF Load
<1>3. ASSUME NEW t \in Tabs, Insert(t) PROVE OptionsInv(u)'
  BY <1>3, <1>t DEF Insert
<1>4. ASSUME NEW t \in Tabs, EditLocation(t) PROVE OptionsInv(u)'
  BY <1>4, <1>t DEF EditLocation, Typed, Cleared
<1>5. ASSUME NEW t \in Tabs, EditOther(t) PROVE OptionsInv(u)'
  BY <1>5, <1>t DEF EditOther
<1>6. ASSUME NEW t \in Tabs, FetchLocationSuggestions(t) PROVE OptionsInv(u)'
  BY <1>6, <1>t DEF FetchLocationSuggestions
<1>7. ASSUME NEW t \in Tabs, ChooseOption(t) PROVE OptionsInv(u)'
  BY <1>7, <1>t DEF ChooseOption, Cleared
<1>8. ASSUME NEW t \in Tabs, SubmitSearch(t) PROVE OptionsInv(u)'
  BY <1>8, <1>t DEF SubmitSearch, Submit
<1>9. ASSUME NEW t \in Tabs, SubmitBehavior(t) PROVE OptionsInv(u)'
  BY <1>9, <1>t DEF SubmitBehavior, Submit
<1>10. ASSUME NEW t \in Tabs, SubmitOpenAi(t) PROVE OptionsInv(u)'
  BY <1>10, <1>t DEF SubmitOpenAi, Submit
<1>11. ASSUME NEW t \in Tabs, Commit(t) PROVE OptionsInv(u)'
  <2>1. tab' = tab /\ lookups' = lookups
    BY <1>11 DEF Commit
  <2>2. save'[u].pc = "creating" => save[u].pc = "creating"
    BY <1>11, <1>t DEF Commit
  <2> QED BY <2>1, <2>2
<1>12. ASSUME NEW t \in Tabs, Invalid(t) PROVE OptionsInv(u)'
  BY <1>12, <1>t DEF Invalid
<1>13. ASSUME NEW t \in Tabs, SaveKey(t) PROVE OptionsInv(u)'
  BY <1>13, <1>t DEF SaveKey
<1>14. ASSUME NEW t \in Tabs, WriteKey(t) PROVE OptionsInv(u)'
  BY <1>14, <1>t DEF WriteKey, KeyWritten
<1>15. ASSUME NEW t \in Tabs, WriteKeyFails(t) PROVE OptionsInv(u)'
  BY <1>15, <1>t DEF WriteKeyFails
<1>16. ASSUME NEW t \in Tabs, SearchSaved(t) PROVE OptionsInv(u)'
  BY <1>16, <1>t DEF SearchSaved, Saved
<1>17. ASSUME NEW t \in Tabs, BehaviorSaved(t) PROVE OptionsInv(u)'
  BY <1>17, <1>t DEF BehaviorSaved, Saved
<1>18. ASSUME NEW t \in Tabs, OpenAiSaved(t) PROVE OptionsInv(u)'
  BY <1>18, <1>t DEF OpenAiSaved, Saved
<1>19. ASSUME NEW t \in Tabs, NotSaved(t) PROVE OptionsInv(u)'
  BY <1>19, <1>t DEF NotSaved
<1>20. ASSUME NEW t \in Tabs, LoseAnswer(t) PROVE OptionsInv(u)'
  BY <1>20, <1>t DEF LoseAnswer
<1>21. ASSUME NEW l \in lookups, RenderSuggestions(l) PROVE OptionsInv(u)'
  BY <1>21, <1>t DEF RenderSuggestions, Current
<1>22. ASSUME NEW l \in lookups, LookupFails(l) PROVE OptionsInv(u)'
  BY <1>22, <1>t DEF LookupFails, Cleared, Current
<1>23. ASSUME LoadKey PROVE OptionsInv(u)'
  BY <1>23, <1>t DEF LoadKey
<1>24. ASSUME Restart PROVE OptionsInv(u)'
  BY <1>24, <1>t DEF Restart
<1> QED BY <1>0, <1>1, <1>2, <1>3, <1>4, <1>5, <1>6, <1>7, <1>8, <1>9, <1>10, <1>11, <1>12, <1>13, <1>14, <1>15, <1>16, <1>17, <1>18, <1>19, <1>20, <1>21, <1>22, <1>23, <1>24 DEF Next

\* No suggestions without a lookup.
LEMMA ShownStep ==
    ASSUME TypeOK, NEW u \in Tabs, ShownInv(u), [Next]_vars
    PROVE  ShownInv(u)'
<1>t. /\ row \in [Forms -> Row] /\ tab \in [Tabs -> Form] /\ save \in [Tabs -> Save]
      /\ known \in [Tabs -> SUBSET (Forms \X Nat)] /\ lookups \in SUBSET Lookup
  BY DEF TypeOK
<1> USE SettingsAssumption DEF ShownInv, Shown, Row, Form, Save, Lookup, NoForm, NoSave
<1>0. CASE UNCHANGED vars
  BY <1>0 DEF vars
<1>1. ASSUME NEW t \in Tabs, NEW f \in Forms, Create(t, f) PROVE ShownInv(u)'
  BY <1>1, <1>t DEF Create
<1>2. ASSUME NEW t \in Tabs, NEW f \in Forms, Load(t, f) PROVE ShownInv(u)'
  BY <1>2, <1>t DEF Load
<1>3. ASSUME NEW t \in Tabs, Insert(t) PROVE ShownInv(u)'
  BY <1>3, <1>t DEF Insert
<1>4. ASSUME NEW t \in Tabs, EditLocation(t) PROVE ShownInv(u)'
  BY <1>4, <1>t DEF EditLocation, Typed, Cleared
<1>5. ASSUME NEW t \in Tabs, EditOther(t) PROVE ShownInv(u)'
  BY <1>5, <1>t DEF EditOther
<1>6. ASSUME NEW t \in Tabs, FetchLocationSuggestions(t) PROVE ShownInv(u)'
  BY <1>6, <1>t DEF FetchLocationSuggestions
<1>7. ASSUME NEW t \in Tabs, ChooseOption(t) PROVE ShownInv(u)'
  BY <1>7, <1>t DEF ChooseOption, Cleared
<1>8. ASSUME NEW t \in Tabs, SubmitSearch(t) PROVE ShownInv(u)'
  BY <1>8, <1>t DEF SubmitSearch, Submit
<1>9. ASSUME NEW t \in Tabs, SubmitBehavior(t) PROVE ShownInv(u)'
  BY <1>9, <1>t DEF SubmitBehavior, Submit
<1>10. ASSUME NEW t \in Tabs, SubmitOpenAi(t) PROVE ShownInv(u)'
  BY <1>10, <1>t DEF SubmitOpenAi, Submit
<1>11. ASSUME NEW t \in Tabs, Commit(t) PROVE ShownInv(u)'
  BY <1>11, <1>t DEF Commit, Matches
<1>12. ASSUME NEW t \in Tabs, Invalid(t) PROVE ShownInv(u)'
  BY <1>12, <1>t DEF Invalid
<1>13. ASSUME NEW t \in Tabs, SaveKey(t) PROVE ShownInv(u)'
  BY <1>13, <1>t DEF SaveKey
<1>14. ASSUME NEW t \in Tabs, WriteKey(t) PROVE ShownInv(u)'
  BY <1>14, <1>t DEF WriteKey, KeyWritten
<1>15. ASSUME NEW t \in Tabs, WriteKeyFails(t) PROVE ShownInv(u)'
  BY <1>15, <1>t DEF WriteKeyFails
<1>16. ASSUME NEW t \in Tabs, SearchSaved(t) PROVE ShownInv(u)'
  BY <1>16, <1>t DEF SearchSaved, Saved
<1>17. ASSUME NEW t \in Tabs, BehaviorSaved(t) PROVE ShownInv(u)'
  BY <1>17, <1>t DEF BehaviorSaved, Saved
<1>18. ASSUME NEW t \in Tabs, OpenAiSaved(t) PROVE ShownInv(u)'
  BY <1>18, <1>t DEF OpenAiSaved, Saved
<1>19. ASSUME NEW t \in Tabs, NotSaved(t) PROVE ShownInv(u)'
  BY <1>19, <1>t DEF NotSaved
<1>20. ASSUME NEW t \in Tabs, LoseAnswer(t) PROVE ShownInv(u)'
  BY <1>20, <1>t DEF LoseAnswer
<1>21. ASSUME NEW l \in lookups, RenderSuggestions(l) PROVE ShownInv(u)'
  BY <1>21, <1>t DEF RenderSuggestions, Current
<1>22. ASSUME NEW l \in lookups, LookupFails(l) PROVE ShownInv(u)'
  BY <1>22, <1>t DEF LookupFails, Cleared, Current
<1>23. ASSUME LoadKey PROVE ShownInv(u)'
  BY <1>23, <1>t DEF LoadKey
<1>24. ASSUME Restart PROVE ShownInv(u)'
  BY <1>24, <1>t DEF Restart
<1> QED BY <1>0, <1>1, <1>2, <1>3, <1>4, <1>5, <1>6, <1>7, <1>8, <1>9, <1>10, <1>11, <1>12, <1>13, <1>14, <1>15, <1>16, <1>17, <1>18, <1>19, <1>20, <1>21, <1>22, <1>23, <1>24 DEF Next

\* What a row says of its place and of its version.
LEMMA RowStep ==
    ASSUME TypeOK, NEW f \in Forms, RowInv(f), \A u \in Tabs : Sending(u) /\ PlaceInv(u), [Next]_vars
    PROVE  RowInv(f)'
<1>t. /\ row \in [Forms -> Row] /\ tab \in [Tabs -> Form] /\ save \in [Tabs -> Save]
      /\ known \in [Tabs -> SUBSET (Forms \X Nat)] /\ lookups \in SUBSET Lookup
  BY DEF TypeOK
<1> USE SettingsAssumption DEF Sending, PlaceInv, RowInv, Named, Shown, Row, Form, Save, Lookup, NoForm, NoSave
<1>0. CASE UNCHANGED vars
  BY <1>0 DEF vars
<1>1. ASSUME NEW t \in Tabs, NEW g \in Forms, Create(t, g) PROVE RowInv(f)'
  BY <1>1, <1>t DEF Create
<1>2. ASSUME NEW t \in Tabs, NEW g \in Forms, Load(t, g) PROVE RowInv(f)'
  BY <1>2, <1>t DEF Load
<1>3. ASSUME NEW t \in Tabs, Insert(t) PROVE RowInv(f)'
  BY <1>3, <1>t DEF Insert
<1>4. ASSUME NEW t \in Tabs, EditLocation(t) PROVE RowInv(f)'
  BY <1>4, <1>t DEF EditLocation, Typed, Cleared
<1>5. ASSUME NEW t \in Tabs, EditOther(t) PROVE RowInv(f)'
  BY <1>5, <1>t DEF EditOther
<1>6. ASSUME NEW t \in Tabs, FetchLocationSuggestions(t) PROVE RowInv(f)'
  BY <1>6, <1>t DEF FetchLocationSuggestions
<1>7. ASSUME NEW t \in Tabs, ChooseOption(t) PROVE RowInv(f)'
  BY <1>7, <1>t DEF ChooseOption, Cleared
<1>8. ASSUME NEW t \in Tabs, SubmitSearch(t) PROVE RowInv(f)'
  BY <1>8, <1>t DEF SubmitSearch, Submit
<1>9. ASSUME NEW t \in Tabs, SubmitBehavior(t) PROVE RowInv(f)'
  BY <1>9, <1>t DEF SubmitBehavior, Submit
<1>10. ASSUME NEW t \in Tabs, SubmitOpenAi(t) PROVE RowInv(f)'
  BY <1>10, <1>t DEF SubmitOpenAi, Submit
<1>11. ASSUME NEW t \in Tabs, Commit(t) PROVE RowInv(f)'
  BY <1>11, <1>t DEF Commit, Matches
<1>12. ASSUME NEW t \in Tabs, Invalid(t) PROVE RowInv(f)'
  BY <1>12, <1>t DEF Invalid
<1>13. ASSUME NEW t \in Tabs, SaveKey(t) PROVE RowInv(f)'
  BY <1>13, <1>t DEF SaveKey
<1>14. ASSUME NEW t \in Tabs, WriteKey(t) PROVE RowInv(f)'
  BY <1>14, <1>t DEF WriteKey, KeyWritten
<1>15. ASSUME NEW t \in Tabs, WriteKeyFails(t) PROVE RowInv(f)'
  BY <1>15, <1>t DEF WriteKeyFails
<1>16. ASSUME NEW t \in Tabs, SearchSaved(t) PROVE RowInv(f)'
  BY <1>16, <1>t DEF SearchSaved, Saved
<1>17. ASSUME NEW t \in Tabs, BehaviorSaved(t) PROVE RowInv(f)'
  BY <1>17, <1>t DEF BehaviorSaved, Saved
<1>18. ASSUME NEW t \in Tabs, OpenAiSaved(t) PROVE RowInv(f)'
  BY <1>18, <1>t DEF OpenAiSaved, Saved
<1>19. ASSUME NEW t \in Tabs, NotSaved(t) PROVE RowInv(f)'
  BY <1>19, <1>t DEF NotSaved
<1>20. ASSUME NEW t \in Tabs, LoseAnswer(t) PROVE RowInv(f)'
  BY <1>20, <1>t DEF LoseAnswer
<1>21. ASSUME NEW l \in lookups, RenderSuggestions(l) PROVE RowInv(f)'
  BY <1>21, <1>t DEF RenderSuggestions, Current
<1>22. ASSUME NEW l \in lookups, LookupFails(l) PROVE RowInv(f)'
  BY <1>22, <1>t DEF LookupFails, Cleared, Current
<1>23. ASSUME LoadKey PROVE RowInv(f)'
  BY <1>23, <1>t DEF LoadKey
<1>24. ASSUME Restart PROVE RowInv(f)'
  BY <1>24, <1>t DEF Restart
<1> QED BY <1>0, <1>1, <1>2, <1>3, <1>4, <1>5, <1>6, <1>7, <1>8, <1>9, <1>10, <1>11, <1>12, <1>13, <1>14, <1>15, <1>16, <1>17, <1>18, <1>19, <1>20, <1>21, <1>22, <1>23, <1>24 DEF Next

\* The API key in memory and in the file.
LEMMA KeyStep ==
    ASSUME TypeOK, CachedKeyIsStored, [Next]_vars
    PROVE  CachedKeyIsStored'
<1>t. /\ row \in [Forms -> Row] /\ tab \in [Tabs -> Form] /\ save \in [Tabs -> Save]
      /\ known \in [Tabs -> SUBSET (Forms \X Nat)] /\ lookups \in SUBSET Lookup
  BY DEF TypeOK
<1> USE SettingsAssumption DEF CachedKeyIsStored
<1>0. CASE UNCHANGED vars
  BY <1>0 DEF vars
<1>1. ASSUME NEW t \in Tabs, NEW f \in Forms, Create(t, f) PROVE CachedKeyIsStored'
  BY <1>1, <1>t DEF Create
<1>2. ASSUME NEW t \in Tabs, NEW f \in Forms, Load(t, f) PROVE CachedKeyIsStored'
  BY <1>2, <1>t DEF Load
<1>3. ASSUME NEW t \in Tabs, Insert(t) PROVE CachedKeyIsStored'
  BY <1>3, <1>t DEF Insert
<1>4. ASSUME NEW t \in Tabs, EditLocation(t) PROVE CachedKeyIsStored'
  BY <1>4, <1>t DEF EditLocation, Typed, Cleared
<1>5. ASSUME NEW t \in Tabs, EditOther(t) PROVE CachedKeyIsStored'
  BY <1>5, <1>t DEF EditOther
<1>6. ASSUME NEW t \in Tabs, FetchLocationSuggestions(t) PROVE CachedKeyIsStored'
  BY <1>6, <1>t DEF FetchLocationSuggestions
<1>7. ASSUME NEW t \in Tabs, ChooseOption(t) PROVE CachedKeyIsStored'
  BY <1>7, <1>t DEF ChooseOption, Cleared
<1>8. ASSUME NEW t \in Tabs, SubmitSearch(t) PROVE CachedKeyIsStored'
  BY <1>8, <1>t DEF SubmitSearch, Submit
<1>9. ASSUME NEW t \in Tabs, SubmitBehavior(t) PROVE CachedKeyIsStored'
  BY <1>9, <1>t DEF SubmitBehavior, Submit
<1>10. ASSUME NEW t \in Tabs, SubmitOpenAi(t) PROVE CachedKeyIsStored'
  BY <1>10, <1>t DEF SubmitOpenAi, Submit
<1>11. ASSUME NEW t \in Tabs, Commit(t) PROVE CachedKeyIsStored'
  BY <1>11, <1>t DEF Commit, Matches
<1>12. ASSUME NEW t \in Tabs, Invalid(t) PROVE CachedKeyIsStored'
  BY <1>12, <1>t DEF Invalid
<1>13. ASSUME NEW t \in Tabs, SaveKey(t) PROVE CachedKeyIsStored'
  BY <1>13, <1>t DEF SaveKey
<1>14. ASSUME NEW t \in Tabs, WriteKey(t) PROVE CachedKeyIsStored'
  BY <1>14, <1>t DEF WriteKey, KeyWritten
<1>15. ASSUME NEW t \in Tabs, WriteKeyFails(t) PROVE CachedKeyIsStored'
  BY <1>15, <1>t DEF WriteKeyFails
<1>16. ASSUME NEW t \in Tabs, SearchSaved(t) PROVE CachedKeyIsStored'
  BY <1>16, <1>t DEF SearchSaved, Saved
<1>17. ASSUME NEW t \in Tabs, BehaviorSaved(t) PROVE CachedKeyIsStored'
  BY <1>17, <1>t DEF BehaviorSaved, Saved
<1>18. ASSUME NEW t \in Tabs, OpenAiSaved(t) PROVE CachedKeyIsStored'
  BY <1>18, <1>t DEF OpenAiSaved, Saved
<1>19. ASSUME NEW t \in Tabs, NotSaved(t) PROVE CachedKeyIsStored'
  BY <1>19, <1>t DEF NotSaved
<1>20. ASSUME NEW t \in Tabs, LoseAnswer(t) PROVE CachedKeyIsStored'
  BY <1>20, <1>t DEF LoseAnswer
<1>21. ASSUME NEW l \in lookups, RenderSuggestions(l) PROVE CachedKeyIsStored'
  BY <1>21, <1>t DEF RenderSuggestions, Current
<1>22. ASSUME NEW l \in lookups, LookupFails(l) PROVE CachedKeyIsStored'
  BY <1>22, <1>t DEF LookupFails, Cleared, Current
<1>23. ASSUME LoadKey PROVE CachedKeyIsStored'
  BY <1>23, <1>t DEF LoadKey
<1>24. ASSUME Restart PROVE CachedKeyIsStored'
  BY <1>24, <1>t DEF Restart
<1> QED BY <1>0, <1>1, <1>2, <1>3, <1>4, <1>5, <1>6, <1>7, <1>8, <1>9, <1>10, <1>11, <1>12, <1>13, <1>14, <1>15, <1>16, <1>17, <1>18, <1>19, <1>20, <1>21, <1>22, <1>23, <1>24 DEF Next

-----------------------------------------------------------------------------
(* The theorems *)

LEMMA InitInv == Init => Inv
<1> SUFFICES ASSUME Init PROVE Inv
  OBVIOUS
<1> USE SettingsAssumption DEF Init
<1>1. TypeOK
  BY DEF TypeOK, Row, Form, NoForm, Save, NoSave, Lookup, Text
<1>2. CachedKeyIsStored
  BY DEF CachedKeyIsStored
<1>3. ASSUME NEW u \in Tabs
      PROVE  Sending(u) /\ KnownInv(u) /\ OptionsInv(u) /\ PlaceInv(u) /\ ShownInv(u)
  BY DEF Sending, KnownInv, OptionsInv, PlaceInv, ShownInv, Named, Shown, NoForm, NoSave
<1>4. \A f \in Forms : RowInv(f)
  BY DEF RowInv, Named
<1> QED BY <1>1, <1>2, <1>3, <1>4 DEF Inv

LEMMA InvStep == Inv /\ [Next]_vars => Inv'
<1> SUFFICES ASSUME Inv, [Next]_vars PROVE Inv'
  OBVIOUS
<1> USE DEF Inv
<1>1. TypeOK' /\ CachedKeyIsStored'
  BY TypeStep, KeyStep
<1>2. ASSUME NEW u \in Tabs
      PROVE  (Sending(u) /\ KnownInv(u) /\ OptionsInv(u) /\ PlaceInv(u) /\ ShownInv(u))'
  BY SendingStep, KnownStep, OptionsStep, PlaceStep, ShownStep
<1>3. ASSUME NEW f \in Forms PROVE RowInv(f)'
  BY RowStep
<1> QED BY <1>1, <1>2, <1>3

\* The invariant holds in every state.
THEOREM Invariance == Spec => []Inv
BY InitInv, InvStep, PTL DEF Spec

\* Every part of the state has its type, and who holds the gate of the API key
\* is writing it.
THEOREM TypeCorrect == Spec => []TypeOK
<1>1. Inv => TypeOK
  BY DEF Inv
<1> QED BY <1>1, Invariance, PTL

\* A LinkedIn location id is the id of the place whose name stands beside it.
THEOREM PlacesAreNamed == Spec => []PlaceIsNamed
<1>1. Inv => PlaceIsNamed
  BY DEF Inv, PlaceIsNamed, PlaceInv, RowInv, Named, Forms
<1> QED BY <1>1, Invariance, PTL

\* The API key in memory is the one in the file.
THEOREM KeyIsStored == Spec => []CachedKeyIsStored
<1>1. Inv => CachedKeyIsStored
  BY DEF Inv
<1> QED BY <1>1, Invariance, PTL

\* No save overwrites a version its tab has neither been shown nor written.
THEOREM UpdatesAreKept == Spec => NoLostUpdate
<1> DEFINE Kept == \A f \in Forms : row'[f].by # Nobody /\ row'[f] # row[f]
                                  => <<f, row[f].version>> \in known[row'[f].by]
<1>1. Inv /\ [Next]_vars => Kept
  <2> SUFFICES ASSUME Inv, [Next]_vars, NEW f \in Forms,
                      row'[f].by # Nobody, row'[f] # row[f]
               PROVE  <<f, row[f].version>> \in known[row'[f].by]
    OBVIOUS
  <2>t. /\ row \in [Forms -> Row] /\ tab \in [Tabs -> Form] /\ save \in [Tabs -> Save]
        /\ RowInv(f)
    BY DEF Inv, TypeOK
  <2>1. \A t \in Tabs : ~Insert(t)
    BY <2>t DEF Insert, RowInv, Row
  <2>2. ASSUME NEW t \in Tabs, Commit(t)
        PROVE  <<f, row[f].version>> \in known[row'[f].by]
    <3>1. f = tab[t].form /\ Matches(f, save[t]) /\ save[t].pc = "sent"
      BY <2>2, <2>t DEF Commit
    <3>2. row'[f].by = t
      BY <2>2, <2>t, <3>1 DEF Commit
    <3>3. <<f, save[t].token>> \in known[t]
      BY <3>1 DEF Inv, KnownInv
    <3> QED BY <3>1, <3>2, <3>3 DEF Matches
  <2>3. ASSUME NEW t \in Tabs, NEW g \in Forms, Create(t, g) \/ Load(t, g) PROVE FALSE
    BY <2>3 DEF Create, Load
  <2>4. ASSUME NEW t \in Tabs, EditLocation(t) \/ EditOther(t)
                               \/ FetchLocationSuggestions(t) \/ ChooseOption(t)
        PROVE  FALSE
    BY <2>4 DEF EditLocation, EditOther, FetchLocationSuggestions, ChooseOption
  <2>5. ASSUME NEW t \in Tabs, SubmitSearch(t) \/ SubmitBehavior(t) \/ SubmitOpenAi(t)
        PROVE  FALSE
    BY <2>5 DEF SubmitSearch, SubmitBehavior, SubmitOpenAi, Submit
  <2>6. ASSUME NEW t \in Tabs, \/ Invalid(t) \/ SaveKey(t) \/ WriteKey(t)
                               \/ WriteKeyFails(t) \/ NotSaved(t) \/ LoseAnswer(t)
        PROVE  FALSE
    BY <2>6 DEF Invalid, SaveKey, WriteKey, WriteKeyFails, NotSaved, LoseAnswer
  <2>7. ASSUME NEW t \in Tabs, SearchSaved(t) \/ BehaviorSaved(t) \/ OpenAiSaved(t)
        PROVE  FALSE
    BY <2>7 DEF SearchSaved, BehaviorSaved, OpenAiSaved, Saved
  <2>8. ASSUME NEW l \in lookups, RenderSuggestions(l) \/ LookupFails(l) PROVE FALSE
    BY <2>8 DEF RenderSuggestions, LookupFails
  <2>9. ~LoadKey /\ ~Restart /\ ~UNCHANGED vars
    BY DEF LoadKey, Restart, vars
  <2> QED BY <2>1, <2>2, <2>3, <2>4, <2>5, <2>6, <2>7, <2>8, <2>9 DEF Next
<1> HIDE DEF Kept
<1>2. Spec => [][Kept]_vars
  BY <1>1, Invariance, PTL DEF Spec
<1> QED BY <1>2 DEF Kept, NoLostUpdate

\* The suggestions never go back to those of an earlier lookup.
THEOREM SuggestionsGoForward == Spec => SuggestionsAdvance
<1> DEFINE Forward == \A t \in Tabs : tab'[t].shown < tab[t].shown => tab'[t].asked = 0
<1>1. Inv /\ [Next]_vars => Forward
  <2> SUFFICES ASSUME Inv, [Next]_vars, NEW u \in Tabs
               PROVE  tab'[u].shown < tab[u].shown => tab'[u].asked = 0
    OBVIOUS
  <2>t. /\ tab \in [Tabs -> Form] /\ lookups \in SUBSET Lookup
        /\ tab[u].shown \in Nat /\ tab[u].asked \in Nat /\ tab[u].shown <= tab[u].asked
    BY DEF Inv, TypeOK, Form, ShownInv
  <2>1. CASE tab' = tab
    BY <2>1, <2>t
  <2>2. ASSUME NEW t \in Tabs, NEW f \in Forms, Create(t, f)
        PROVE  tab'[u].shown = tab[u].shown
    BY <2>2, <2>t DEF Create, Form
  <2>9. ASSUME NEW t \in Tabs, NEW f \in Forms, Load(t, f)
        PROVE  tab'[u].shown = tab[u].shown \/ tab'[u].asked = 0
    BY <2>9, <2>t DEF Load, NoForm
  <2>3. ASSUME NEW t \in Tabs, Insert(t)
        PROVE  tab'[u].shown >= tab[u].shown \/ tab'[u].asked = 0
    BY <2>3, <2>t DEF Insert, NoForm, Form
  <2>4. ASSUME NEW t \in Tabs, EditLocation(t)
        PROVE  tab'[u].shown = tab[u].shown
    BY <2>4, <2>t DEF EditLocation, Typed, Cleared
  <2>10. ASSUME NEW t \in Tabs, EditOther(t)
         PROVE  tab'[u].shown = tab[u].shown
    BY <2>10, <2>t DEF EditOther
  <2>11. ASSUME NEW t \in Tabs, ChooseOption(t)
         PROVE  tab'[u].shown = tab[u].shown
    BY <2>11, <2>t DEF ChooseOption, Cleared
  <2>5. ASSUME NEW t \in Tabs, FetchLocationSuggestions(t)
        PROVE  tab'[u].shown = tab[u].shown
    BY <2>5, <2>t DEF FetchLocationSuggestions, Form
  <2>6. ASSUME NEW t \in Tabs, SearchSaved(t) \/ BehaviorSaved(t) \/ OpenAiSaved(t)
        PROVE  tab'[u].shown = tab[u].shown
    BY <2>6, <2>t DEF SearchSaved, BehaviorSaved, OpenAiSaved, Saved, Form
  <2>7. ASSUME NEW l \in lookups, RenderSuggestions(l)
        PROVE  tab'[u].shown >= tab[u].shown
    BY <2>7, <2>t DEF RenderSuggestions, Current, Form, Lookup
  <2>8. ASSUME NEW l \in lookups, LookupFails(l)
        PROVE  tab'[u].shown = tab[u].shown
    BY <2>8, <2>t DEF LookupFails, Cleared, Current, Form, Lookup
  <2>12. \/ tab' = tab
         \/ tab'[u].shown = tab[u].shown
         \/ tab'[u].shown >= tab[u].shown \/ tab'[u].asked = 0
    BY <2>2, <2>3, <2>4, <2>5, <2>6, <2>7, <2>8, <2>9, <2>10, <2>11
      DEF Next, vars, SubmitSearch, SubmitBehavior, SubmitOpenAi, Submit, Commit, Invalid,
          SaveKey, WriteKey, WriteKeyFails, NotSaved, LoseAnswer, LoadKey, Restart
  <2>13. tab'[u].shown \in Nat
    <3>1. TypeOK'
      BY InvStep DEF Inv
    <3> QED BY <3>1 DEF TypeOK, Form
  <2> QED BY <2>t, <2>1, <2>12, <2>13
<1> HIDE DEF Forward
<1>2. Spec => [][Forward]_vars
  BY <1>1, Invariance, PTL DEF Spec
<1> QED BY <1>2 DEF Forward, SuggestionsAdvance

=============================================================================
