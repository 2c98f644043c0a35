--------------------------- MODULE SettingsForms ---------------------------
(***************************************************************************)
(* The settings forms of the browser (search-settings-page.js,              *)
(* ai-settings-page.js, admin-openai-setup-page.js) beside the services     *)
(* that keep their rows: several tabs load a form with the row's version,   *)
(* edit and save it.  The search form looks up locations while the user     *)
(* types; the OpenAI form saves an API key after its row.                   *)
(*                                                                          *)
(* Content is one text per form: the location of the search form, the API   *)
(* key and with it the profile of the OpenAI form.  A place has the text    *)
(* that names it for its LinkedIn id.                                       *)
(*                                                                          *)
(* Left out: the other fields, validation texts, toasts, the connection     *)
(* check (it shows a text and changes nothing), forms sent without script.  *)
(***************************************************************************)
EXTENDS Integers, FiniteSets

CONSTANTS
    Tabs,
    Texts,      \* texts long enough to be looked up
    Short,      \* a shorter one
    None,       \* no text, no place
    MaxMoves,   \* loads, edits, saves and faults, in all (a bound)
    MaxLookups  \* location lookups of a tab (a bound)

Forms == {"search", "behavior", "openai"}
Nobody == "nobody"

ASSUME SettingsAssumption ==
    /\ Short \notin Texts /\ None \notin Texts \cup {Short} \cup Forms
    /\ Nobody \notin Tabs
    /\ MaxMoves \in Nat /\ MaxLookups \in Nat

VARIABLES
    row,     \* the row of each form: version 0 while there is none
    tab,     \* the form in each tab
    save,    \* the save of each tab that is under way
    lookups, \* location lookups under way
    file,    \* the API key's file, Torn while it is being written
    key,     \* _runtimeApiKey, _isLoaded and the holder of _gate
    used,    \* how many of MaxMoves have been made
    known    \* history: the versions each tab was shown or saved itself

vars == <<row, tab, save, lookups, file, key, used, known>>

-----------------------------------------------------------------------------
(* Types *)

Text == Texts \cup {Short, None}
Torn == "torn"

\* by: the tab that saved this version.
Row == [version : Nat, text : Text, place : Texts \cup {None}, by : Tabs \cup {Nobody}]

\* token: the ConcurrencyToken input; place: LocationGeoId and its display
\* name; due: what the 250 ms timer will look up; asked: suggestionRequestId; options: the
\* suggestions shown, the answer to lookup number `shown'.
Form == [form : Forms \cup {None}, token : Nat, text : Text, place : Texts \cup {None},
         due : Texts \cup {None}, asked : Nat, options : SUBSET Texts, shown : Nat]

NoForm == [form |-> None, token |-> 0, text |-> None, place |-> None, due |-> None,
           asked |-> 0, options |-> {}, shown |-> 0]

\* What was in the form when it was sent, and how far the server is.
Save == [pc : {"idle", "creating", "sent", "saved", "writing", "answered", "failed"},
         token : Nat, text : Text, place : Texts \cup {None}]

NoSave == [pc |-> "idle", token |-> 0, text |-> None, place |-> None]

Lookup == [tab : Tabs, id : Nat, query : Texts]

\* Every part of the state has its type, and who holds the gate of the API key
\* is writing it: also a failed write gives the gate back.
TypeOK ==
    /\ row \in [Forms -> Row]
    /\ tab \in [Tabs -> Form]
    /\ save \in [Tabs -> Save]
    /\ lookups \in SUBSET Lookup
    /\ file \in Text \cup {Torn}
    /\ key \in [value : Text, loaded : BOOLEAN, gate : Tabs \cup {Nobody}]
    /\ \A t \in Tabs : key.gate = t <=> save[t].pc = "writing"
    /\ used \in 0 .. MaxMoves
    /\ known \in [Tabs -> SUBSET (Forms \X Nat)]

Init ==
    /\ row = [f \in Forms |-> [version |-> 0, text |-> None, place |-> None, by |-> Nobody]]
    /\ tab = [t \in Tabs |-> NoForm]
    /\ save = [t \in Tabs |-> NoSave]
    /\ lookups = {}
    /\ file = None
    /\ key = [value |-> None, loaded |-> FALSE, gate |-> Nobody]
    /\ used = 0
    /\ known = [t \in Tabs |-> {}]

Counted == used < MaxMoves /\ used' = used + 1

-----------------------------------------------------------------------------
(* Loading a form *)

\* GetOrCreateActiveRecordAsync finds no row; the insert follows.
Create(t, f) ==
    /\ tab[t].form = None /\ save[t].pc = "idle" /\ row[f].version = 0 /\ Counted
    /\ save' = [save EXCEPT ![t].pc = "creating"]
    /\ tab' = [tab EXCEPT ![t].form = f]
    /\ UNCHANGED <<row, lookups, file, key, known>>

\* The unique index lets one insert through; the other page is an error page.
Insert(t) ==
    LET f == tab[t].form IN
    /\ save[t].pc = "creating"
    /\ row' = [row EXCEPT ![f].version = IF @ = 0 THEN 1 ELSE @]
    /\ tab' = [tab EXCEPT ![t] = IF row[f].version # 0 THEN NoForm
                                 ELSE [NoForm EXCEPT !.form = f, !.token = 1]]
    /\ known' = [known EXCEPT ![t] = IF row[f].version # 0 THEN @ ELSE @ \cup {<<f, 1>>}]
    /\ save' = [save EXCEPT ![t] = NoSave]
    /\ UNCHANGED <<lookups, file, key, used>>

\* The page of form f is loaded (again); what was under way has nobody to tell.
Load(t, f) ==
    /\ save[t].pc = "idle" /\ row[f].version # 0 /\ Counted
    /\ tab' = [tab EXCEPT ![t] =
                  [NoForm EXCEPT !.form = f, !.token = row[f].version,
                                 !.text = row[f].text, !.place = row[f].place]]
    /\ known' = [known EXCEPT ![t] = @ \cup {<<f, row[f].version>>}]
    /\ lookups' = {l \in lookups : l.tab # t}
    /\ UNCHANGED <<row, save, file, key>>

-----------------------------------------------------------------------------
(* Editing; the location of the search form *)

Shown(t) == tab[t].form # None /\ save[t].pc # "creating"

\* clearSuggestions: the list is emptied, a lookup under way is not forgotten.
Cleared(form) == [form EXCEPT !.options = {}]

\* Mutant of Typed: the place chosen before stays in the hidden inputs.
TypedOver(form, text) ==
    [form EXCEPT !.text = text, !.due = IF text = Short THEN None ELSE text]

\* The input listener and queueLocationSuggestions.
Typed(form, text) ==
    LET typed == [form EXCEPT !.text = text, !.place = None,
                              !.due = IF text = Short THEN None ELSE text] IN
    IF text = Short THEN Cleared(typed) ELSE typed

EditLocation(t) ==
    /\ Shown(t) /\ tab[t].form = "search" /\ Counted
    /\ \E text \in Texts \cup {Short} :
          text # tab[t].text /\ tab' = [tab EXCEPT ![t] = Typed(@, text)]
    /\ UNCHANGED <<row, save, lookups, file, key, known>>

EditOther(t) ==
    /\ Shown(t) /\ tab[t].form # "search" /\ Counted
    /\ \E text \in Texts : text # tab[t].text /\ tab' = [tab EXCEPT ![t].text = text]
    /\ UNCHANGED <<row, save, lookups, file, key, known>>

\* fetchLocationSuggestions, 250 ms after the last keystroke.
FetchLocationSuggestions(t) ==
    /\ tab[t].due # None /\ tab[t].asked < MaxLookups
    /\ tab' = [tab EXCEPT ![t].due = None, ![t].asked = @ + 1]
    /\ lookups' = lookups \cup {[tab |-> t, id |-> tab[t].asked + 1, query |-> tab[t].due]}
    /\ UNCHANGED <<row, save, file, key, used, known>>

\* Mutant of Current: the number of the lookup is not compared.
CurrentOrNot(l) == l.id >= 0

\* An answer is dropped when another lookup has been sent since.
Current(l) == l.id = tab[l.tab].asked

\* LinkedIn suggests the place, other places, or nothing.
RenderSuggestions(l) ==
    /\ lookups' = lookups \ {l}
    /\ \E options \in {{}, {l.query}, Texts} :
          tab' = IF Current(l) THEN [tab EXCEPT ![l.tab].options = options, ![l.tab].shown = l.id]
                 ELSE tab
    /\ UNCHANGED <<row, save, file, key, used, known>>

LookupFails(l) ==
    /\ Counted
    /\ lookups' = lookups \ {l}
    /\ tab' = IF Current(l) THEN [tab EXCEPT ![l.tab] = Cleared(@)] ELSE tab
    /\ UNCHANGED <<row, save, file, key, known>>

\* The mousedown listener of the list.
ChooseOption(t) ==
    /\ Shown(t)
    /\ \E place \in tab[t].options :
          tab' = [tab EXCEPT ![t] = Cleared([@ EXCEPT !.text = place, !.place = place])]
    /\ UNCHANGED <<row, save, lookups, file, key, used, known>>

-----------------------------------------------------------------------------
(* Saving *)

\* The submit listeners: the form is sent as it is, the button is disabled.
Submit(t, forms) ==
    /\ Shown(t) /\ tab[t].form \in forms /\ save[t].pc = "idle"
    /\ tab[t].text # None /\ Counted
    /\ save' = [save EXCEPT ![t] = [pc |-> "sent", token |-> tab[t].token,
                                    text |-> tab[t].text, place |-> tab[t].place]]
    /\ UNCHANGED <<row, tab, lookups, file, key, known>>

SubmitSearch(t)   == Submit(t, {"search"})
SubmitBehavior(t) == Submit(t, {"behavior"})
SubmitOpenAi(t)   == Submit(t, {"openai"})

\* Mutant of Matches: the token is not made the original row version.
MatchesAnyway(f, s) == row[f].version > 0 /\ s.pc = "sent"

\* UPDATE ... WHERE RowVersion = token
Matches(f, s) == row[f].version = s.token

\* SaveAsync of the three services; a location without a place chosen is
\* refused before, as is a key the probe does not accept.
Commit(t) ==
    LET f == tab[t].form  s == save[t] IN
    /\ s.pc = "sent" /\ (f = "search" => s.place # None)
    /\ IF Matches(f, s)
       THEN /\ row' = [row EXCEPT ![f] = [version |-> @.version + 1, text |-> s.text,
                                          place |-> s.place, by |-> t]]
            /\ save' = [save EXCEPT ![t].pc = IF f = "openai" THEN "saved" ELSE "answered",
                                    ![t].token = row[f].version + 1]
       ELSE save' = [save EXCEPT ![t].pc = "failed"] /\ UNCHANGED row
    /\ UNCHANGED <<tab, lookups, file, key, used, known>>

Invalid(t) ==
    /\ save[t].pc = "sent"
    /\ \/ tab[t].form = "search" /\ save[t].place = None
       \/ tab[t].form = "openai"
    /\ save' = [save EXCEPT ![t].pc = "failed"]
    /\ UNCHANGED <<row, tab, lookups, file, key, used, known>>

\* OpenAiRuntimeApiKeyService.SaveAsync: the gate is taken, the file emptied.
SaveKey(t) ==
    /\ save[t].pc = "saved" /\ key.gate = Nobody
    /\ key' = [key EXCEPT !.gate = t]
    /\ file' = Torn
    /\ save' = [save EXCEPT ![t].pc = "writing"]
    /\ UNCHANGED <<row, tab, lookups, used, known>>

\* Mutant of KeyWritten: the key in memory is left as it is once loaded.
KeyWrittenOnly(text) == [key EXCEPT !.gate = Nobody, !.value = IF key.loaded THEN @ ELSE text,
                                    !.loaded = TRUE]

KeyWritten(text) == [value |-> text, loaded |-> TRUE, gate |-> Nobody]

WriteKey(t) ==
    /\ save[t].pc = "writing"
    /\ file' = save[t].text
    /\ key' = KeyWritten(save[t].text)
    /\ save' = [save EXCEPT ![t].pc = "answered"]
    /\ UNCHANGED <<row, tab, lookups, used, known>>

\* Mutant of WriteKeyFails: the gate is released after a successful write only.
WriteKeyFailsHolding(t) ==
    /\ save[t].pc \in {"saved", "writing"} /\ Counted
    /\ save' = [save EXCEPT ![t].pc = "failed"]
    /\ UNCHANGED <<row, tab, lookups, file, key, known>>

\* The write fails: the gate is released, the row keeps its new version.
WriteKeyFails(t) ==
    /\ save[t].pc \in {"saved", "writing"} /\ Counted
    /\ key' = [key EXCEPT !.gate = IF @ = t THEN Nobody ELSE @]
    /\ save' = [save EXCEPT ![t].pc = "failed"]
    /\ UNCHANGED <<row, tab, lookups, file, known>>

\* EnsureLoadedAsync on behalf of a scoring request; a torn file throws.
LoadKey ==
    /\ ~key.loaded /\ key.gate = Nobody /\ file # Torn
    /\ key' = [key EXCEPT !.value = file, !.loaded = TRUE]
    /\ UNCHANGED <<row, tab, save, lookups, file, used, known>>

\* The answer: the token of the saved version goes into the form, whose fields
\* may have been edited meanwhile.
Saved(t, forms) ==
    /\ save[t].pc = "answered" /\ tab[t].form \in forms
    /\ tab' = [tab EXCEPT ![t].token = save[t].token]
    /\ known' = [known EXCEPT ![t] = @ \cup {<<tab[t].form, save[t].token>>}]
    /\ save' = [save EXCEPT ![t] = NoSave]
    /\ UNCHANGED <<row, lookups, file, key, used>>

SearchSaved(t)   == Saved(t, {"search"})
BehaviorSaved(t) == Saved(t, {"behavior"})
OpenAiSaved(t)   == Saved(t, {"openai"})

\* A conflict, invalid input or a failed request leave the form and its token.
NotSaved(t) ==
    /\ save[t].pc = "failed"
    /\ save' = [save EXCEPT ![t] = NoSave]
    /\ UNCHANGED <<row, tab, lookups, file, key, used, known>>

\* The answer is lost; what the server has done stays done.
LoseAnswer(t) ==
    /\ save[t].pc \in {"answered", "failed"} /\ Counted
    /\ save' = [save EXCEPT ![t] = NoSave]
    /\ UNCHANGED <<row, tab, lookups, file, key, known>>

\* The process restarts: saves and lookups fail, the key has to be read again.
Restart ==
    /\ Counted
    /\ key' = [value |-> None, loaded |-> FALSE, gate |-> Nobody]
    /\ save' = [t \in Tabs |-> IF save[t].pc \in {"sent", "saved", "writing"}
                               THEN [save[t] EXCEPT !.pc = "failed"] ELSE save[t]]
    /\ UNCHANGED <<row, tab, lookups, file, known>>

-----------------------------------------------------------------------------
(* Specification *)

Next ==
    \/ \E t \in Tabs :
          \/ \E f \in Forms : Create(t, f) \/ Load(t, f)
          \/ Insert(t)
          \/ EditLocation(t) \/ EditOther(t) \/ FetchLocationSuggestions(t) \/ ChooseOption(t)
          \/ SubmitSearch(t) \/ SubmitBehavior(t) \/ SubmitOpenAi(t)
          \/ Commit(t) \/ Invalid(t) \/ SaveKey(t) \/ WriteKey(t) \/ WriteKeyFails(t)
          \/ SearchSaved(t) \/ BehaviorSaved(t) \/ OpenAiSaved(t) \/ NotSaved(t) \/ LoseAnswer(t)
    \/ \E l \in lookups : RenderSuggestions(l) \/ LookupFails(l)
    \/ LoadKey \/ Restart

Spec == Init /\ [][Next]_vars

-----------------------------------------------------------------------------
(* Properties *)

\* No save overwrites a version its tab has neither been shown nor written, also
\* after lost answers, conflicts, failed key writes and reloads.
NoLostUpdate ==
    [][\A f \in Forms : row'[f].by # Nobody /\ row'[f] # row[f]
                          => <<f, row[f].version>> \in known[row'[f].by]]_vars

\* A LinkedIn location id, in a form or in the row the job search uses, is the
\* id of the place whose name stands beside it, however typing, late
\* suggestions, choices and saves follow each other.
PlaceIsNamed ==
    /\ \A t \in Tabs : tab[t].place # None => tab[t].place = tab[t].text
    /\ row["search"].place # None => row["search"].place = row["search"].text

\* The suggestions never go back to those of an earlier lookup.
SuggestionsAdvance ==
    [][\A t \in Tabs : tab'[t].shown < tab[t].shown => tab'[t].asked = 0]_vars

\* The API key in memory is the one in the file, unless the file is being
\* written, or was left torn by a failed write or a restart.
CachedKeyIsStored == key.loaded /\ file # Torn => key.value = file

=============================================================================
