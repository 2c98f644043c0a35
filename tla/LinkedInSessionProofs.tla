------------------------ MODULE LinkedInSessionProofs ------------------------
(***************************************************************************)
(* Proofs about LinkedInSession: type correctness, that requests to         *)
(* LinkedIn are spaced, that a rejected session is not used again, and that *)
(* the dialog offers to import one whenever there is none.                  *)
(***************************************************************************)
EXTENDS LinkedInSession, TLAPS

-----------------------------------------------------------------------------
(* The inductive invariant *)

\* What a call's step says of the rest of it.
StepOk(r) ==
    /\ r.step = "look" => r.op # "import"
    /\ r.step \in {"load", "save"} => r.op = "import"
    /\ r.step \in {"find", "invalidate"} /\ r.op # "revoke" => r.status = 401
    /\ r.step = "mark" => r.status \in {401, 403}
    /\ r.step \in {"answering", "told"} => r.told # Nothing
    /\ r.step \in {"wait", "delay", "sent", "mark"} => r.snap # 0
    /\ r.step \in {"find", "invalidate"} /\ r.op # "revoke" => r.snap # 0

\* A rejected snapshot is no longer in use when its rejection is noted.
Withdrawn(r) == r.step = "mark" /\ r.status = 401 => ~(stored.active /\ stored.snap = r.snap)

StepInv == \A c \in Callers : StepOk(call[c]) /\ Withdrawn(call[c])

\* Snapshots are numbered as they are imported.
Numbered ==
    /\ stored.snap <= imports /\ (stored.active => stored.snap # 0)
    /\ rejected \subseteq 1 .. imports
    /\ \A c \in Callers : call[c].snap <= imports

\* An import whose snapshot has not been stored.
Fresh(c) ==
    /\ call[c].op = "import"
    /\ call[c].step \in {"wait", "delay", "sent", "load", "save"}

\* Nobody else has such a snapshot.
FreshInv ==
    \A c \in Callers : Fresh(c) =>
       /\ call[c].snap # 0 /\ call[c].snap # stored.snap
       /\ call[c].snap \notin rejected
       /\ \A d \in Callers \ {c} : call[d].snap # call[c].snap

\* The gate stays closed until the minimum delay is over.
SpaceInv ==
    /\ since + gate.next >= MinDelay
    /\ gate.waited + gate.next <= MinDelay + MaxJitter

\* The dialog shows what it was told last, or nothing while it is closed.
ViewInv ==
    /\ modal.current \in {Nothing, modal.last}
    /\ modal.panel = "connected" => Usable(modal.last)

\* One read is under way for a refused action that waits for it.
RefusedInv ==
    /\ modal.reading => call["modal"].step = "failed"
    /\ \A r \in reads : r.by = "refused" => modal.reading
    /\ \A r, q \in reads : r.by = "refused" /\ q.by = "refused" => r = q

Inv ==
    /\ TypeOK /\ StepInv /\ Numbered /\ FreshInv /\ RejectedIsNotUsed
    /\ SpaceInv /\ ViewInv /\ RefusedInv

-----------------------------------------------------------------------------
(* Calls *)

\* The sets of values of a call's fields, for proofs that need not look inside.
Ops == {"import", "verify", "use", "revoke"}
Statuses == {0, 200, 401, 403, 500}
Findings == {"none", "active", "inactive"}
Flags == BOOLEAN
States == Told \cup {Nothing}
Numbers == 0 .. MaxImports

LEMMA CallIs ==
  /\ Call = [op : Ops, step : Steps, snap : Numbers, status : Statuses, seen : Findings,
             again : Flags, told : States]
  /\ TRUE \in Flags /\ FALSE \in Flags /\ 0 \in Numbers
BY SessionAssumption DEF Call, Ops, Statuses, Findings, Flags, States, Numbers

LEMMA StepNames ==
  /\ "idle" \in Steps /\ "look" \in Steps /\ "wait" \in Steps /\ "delay" \in Steps
  /\ "sent" \in Steps /\ "find" \in Steps /\ "invalidate" \in Steps /\ "mark" \in Steps
  /\ "load" \in Steps /\ "save" \in Steps /\ "clear" \in Steps /\ "done" \in Steps
  /\ "failed" \in Steps /\ "answering" \in Steps /\ "told" \in Steps
BY DEF Steps

LEMMA IdleType ==
  Idle \in Call /\ Idle.step = "idle" /\ Idle.snap = 0 /\ Idle.op = "use"
<1>1. "use" \in Ops /\ 0 \in Statuses /\ "none" \in Findings /\ Nothing \in States
  BY DEF Ops, Statuses, Findings, States
<1> QED BY <1>1, CallIs, StepNames DEF Idle

LEMMA Started ==
  ASSUME NEW op \in Ops, NEW step \in Steps
  PROVE  LET q == [Idle EXCEPT !.op = op, !.step = step]
         IN q \in Call /\ q.step = step /\ q.op = op /\ q.snap = 0
<1>1. Idle \in Call /\ Idle.snap = 0
  BY IdleType
<1>2. ASSUME NEW r \in Call
      PROVE  LET q == [r EXCEPT !.op = op, !.step = step]
             IN q \in Call /\ q.step = step /\ q.op = op /\ q.snap = r.snap
  BY CallIs
<1> QED BY <1>1, <1>2

LEMMA ImportStarted ==
  ASSUME NEW snap \in Numbers
  PROVE  LET q == [Idle EXCEPT !.op = "import", !.step = "wait", !.snap = snap]
         IN q \in Call /\ q.step = "wait" /\ q.op = "import" /\ q.snap = snap
<1>1. Idle \in Call /\ "import" \in Ops
  BY IdleType DEF Ops
<1>2. ASSUME NEW r \in Call
      PROVE  LET q == [r EXCEPT !.op = "import", !.step = "wait", !.snap = snap]
             IN q \in Call /\ q.step = "wait" /\ q.op = "import" /\ q.snap = snap
  BY <1>1, CallIs, StepNames
<1> QED BY <1>1, <1>2

LEMMA Went ==
  ASSUME TypeOK, NEW c \in Callers, NEW step \in Steps, Goes(c, step)
  PROVE  /\ call' \in [Callers -> Call]
         /\ \A d \in Callers \ {c} : call'[d] = call[d]
         /\ call'[c].step = step /\ call'[c].op = call[c].op /\ call'[c].snap = call[c].snap
         /\ call'[c].status = call[c].status /\ call'[c].told = call[c].told
<1>1. call \in [Callers -> Call]
  BY DEF TypeOK
<1>2. call' = [call EXCEPT ![c] = [call[c] EXCEPT !.step = step]]
  BY <1>1 DEF Goes
<1> DEFINE q == [call[c] EXCEPT !.step = step]
<1>3. /\ q \in Call /\ q.step = step /\ q.op = call[c].op /\ q.snap = call[c].snap
      /\ q.status = call[c].status /\ q.told = call[c].told
  BY <1>1, CallIs
<1> HIDE DEF q
<1>4. call' = [call EXCEPT ![c] = q]
  BY <1>2 DEF q
<1> QED BY <1>1, <1>3, <1>4

\* One call goes from one step to another, and may change one more thing.
OneMoves(c, from, to) ==
    /\ call' \in [Callers -> Call]
    /\ \A d \in Callers \ {c} : call'[d] = call[d]
    /\ call[c].step \in from /\ call'[c].step \in to
    /\ call'[c].op = call[c].op

LEMMA RowReadType ==
  ASSUME TypeOK PROVE RowRead \in Told /\ RowRead # Nothing
<1>1. ASSUME NEW a \in Flags, NEW b \in Flags PROVE [stored |-> a, reset |-> b] \in Told
  BY DEF Told, Flags
<1>2. stored.active \in Flags /\ FALSE \in Flags
  BY DEF TypeOK, Flags
<1>3. RowRead \in Told
  BY <1>1, <1>2 DEF RowRead
<1> QED BY <1>3, SessionAssumption DEF Told

LEMMA WholeType ==
  ASSUME NEW told \in Told PROVE Whole(told) \in Told /\ Whole(told) # Nothing
<1>1. ASSUME NEW b \in Flags PROVE [told EXCEPT !.reset = b] \in Told
  BY DEF Told, Flags
<1>2. (reset # 0) \in Flags
  BY DEF Flags
<1>3. Whole(told) \in Told
  BY <1>1, <1>2 DEF Whole
<1> QED BY <1>3, SessionAssumption DEF Told

LEMMA LookMoves ==
  ASSUME TypeOK, NEW c \in Callers, Look(c)
  PROVE  /\ OneMoves(c, {"look"}, {"wait", "failed"})
         /\ call'[c].snap \in {call[c].snap, stored.snap}
         /\ call'[c].step = "wait" => stored.active /\ call'[c].snap = stored.snap
<1>1. call \in [Callers -> Call] /\ call[c] \in Call /\ stored.snap \in 0 .. MaxImports
  BY DEF TypeOK
<1>2. CASE stored.active
  <2> DEFINE q == [call[c] EXCEPT !.step = "wait", !.snap = stored.snap]
  <2>1. q \in Call /\ q.step = "wait" /\ q.op = call[c].op /\ q.snap = stored.snap
    BY <1>1, CallIs, StepNames DEF Numbers
  <2>2. call' = [call EXCEPT ![c] = q]
    BY <1>1, <1>2 DEF Look
  <2> HIDE DEF q
  <2>3. /\ call' \in [Callers -> Call] /\ call'[c] = q
        /\ \A d \in Callers \ {c} : call'[d] = call[d]
    BY <1>1, <2>1, <2>2
  <2>4. call'[c].step = "wait" /\ call'[c].op = call[c].op /\ call'[c].snap = stored.snap
    BY <2>1, <2>3
  <2>5. call[c].step = "look"
    BY DEF Look
  <2> QED BY <1>2, <2>3, <2>4, <2>5 DEF OneMoves
<1>3. CASE ~stored.active
  BY <1>3, Went, StepNames DEF Look, OneMoves
<1> QED BY <1>2, <1>3

LEMMA AnswersMove ==
  ASSUME TypeOK, NEW c \in Callers, LinkedInAnswers(c)
  PROVE  /\ OneMoves(c, {"sent"}, {"find", "mark", "load", "clear", "done", "failed"})
         /\ call'[c].snap = call[c].snap
         /\ call'[c].step = "find" => call'[c].status = 401
         /\ call'[c].step = "mark" => call'[c].status = 403
         /\ call'[c].step = "load" => call'[c].op = "import"
<1>1. call \in [Callers -> Call] /\ call[c] \in Call
  BY DEF TypeOK
<1> DEFINE answers == IF call[c].snap \in accepted THEN {200, 500} ELSE {401, 403, 500}
<1>2. /\ call[c].step = "sent"
      /\ \E status \in answers :
            call' = [call EXCEPT ![c].status = status,
                                 ![c].step = AfterAnswer(call[c].op, status)]
  BY Zenon DEF LinkedInAnswers
<1>3. \A a \in answers : a \in Statuses \ {0}
  BY DEF Statuses
<1> HIDE DEF answers
<1>4. PICK status \in answers :
         call' = [call EXCEPT ![c].status = status,
                              ![c].step = AfterAnswer(call[c].op, status)]
  BY <1>2, Zenon
<1> DEFINE step == AfterAnswer(call[c].op, status)
           q == [call[c] EXCEPT !.status = status, !.step = step]
<1>5. /\ step \in {"find", "mark", "load", "clear", "done", "failed"}
      /\ step = "find" => status = 401
      /\ step = "mark" => status = 403
      /\ step = "load" => call[c].op = "import"
  BY DEF AfterAnswer
<1> HIDE DEF step
<1>6. call' = [call EXCEPT ![c] = q]
  <2>1. call' = [call EXCEPT ![c].status = status, ![c].step = step]
    BY <1>4, Zenon DEF step
  <2> QED BY <1>1, <2>1
<1>7. /\ q \in Call /\ q.step = step /\ q.op = call[c].op
      /\ q.snap = call[c].snap /\ q.status = status
  <2>1. status \in Statuses /\ step \in Steps
    BY <1>3, <1>5, StepNames
  <2> QED BY <1>1, <2>1, CallIs
<1> HIDE DEF q
<1>8. call' \in [Callers -> Call] /\ call'[c] = q /\ \A d \in Callers \ {c} : call'[d] = call[d]
  BY <1>1, <1>6, <1>7
<1>9. /\ call'[c].step = step /\ call'[c].op = call[c].op
      /\ call'[c].snap = call[c].snap /\ call'[c].status = status
  BY <1>7, <1>8
<1>10. OneMoves(c, {"sent"}, {"find", "mark", "load", "clear", "done", "failed"})
  BY <1>2, <1>5, <1>8, <1>9 DEF OneMoves
<1> QED BY <1>5, <1>9, <1>10, ZenonT(30)

LEMMA MarkMoves ==
  ASSUME TypeOK, StepInv, NEW c \in Callers, MarkRequired(c)
  PROVE  /\ OneMoves(c, {"mark"}, {"find", "mark", "failed"})
         /\ call'[c].snap = call[c].snap
         /\ call'[c].step = "find" => call'[c].status = 401
         /\ call'[c].step = "mark" => call'[c].status = 403
<1>1. call \in [Callers -> Call] /\ call[c] \in Call
  BY DEF TypeOK
<1>2. call[c].status \in {401, 403} /\ call[c].step = "mark"
  BY DEF MarkRequired, StepInv, StepOk
<1> DEFINE step == IF call[c].op = "verify" /\ ~call[c].again
                   THEN (IF call[c].status = 401 THEN "find" ELSE "mark") ELSE "failed"
           again == call[c].op = "verify"
           q == [call[c] EXCEPT !.step = step, !.again = again]
<1>3. step \in {"find", "mark", "failed"} /\ again \in BOOLEAN
      /\ (step = "find" => call[c].status = 401) /\ (step = "mark" => call[c].status = 403)
  BY <1>2
<1>4. call' = [call EXCEPT ![c] = q]
  BY <1>1 DEF MarkRequired
<1> HIDE DEF step, again
<1>5. /\ q \in Call /\ q.step = step /\ q.op = call[c].op
      /\ q.snap = call[c].snap /\ q.status = call[c].status
  <2>1. step \in Steps /\ again \in Flags
    BY <1>3, StepNames DEF Flags
  <2> QED BY <1>1, <2>1, CallIs
<1> HIDE DEF q
<1> QED BY <1>1, <1>2, <1>3, <1>4, <1>5 DEF OneMoves

LEMMA LoadMoves ==
  ASSUME TypeOK, NEW c \in Callers, LoadRow(c)
  PROVE  OneMoves(c, {"load"}, {"save"}) /\ call'[c].snap = call[c].snap
<1>1. call \in [Callers -> Call] /\ call[c] \in Call
  BY DEF TypeOK
<1>2. Seen \in {"none", "active", "inactive"}
  BY DEF Seen
<1> DEFINE q == [call[c] EXCEPT !.step = "save", !.seen = Seen]
<1>3. q \in Call /\ q.step = "save" /\ q.op = call[c].op /\ q.snap = call[c].snap
  BY <1>1, <1>2, CallIs, StepNames DEF Findings
<1>4. call' = [call EXCEPT ![c] = q]
  BY <1>1 DEF LoadRow
<1> HIDE DEF q
<1> QED BY <1>1, <1>3, <1>4 DEF OneMoves, LoadRow

LEMMA AnswerMoves ==
  ASSUME TypeOK, NEW c \in Callers, Answer(c)
  PROVE  /\ OneMoves(c, {"done", "failed"}, {"answering"}) /\ call'[c].snap = call[c].snap
         /\ call'[c].told # Nothing
<1>1. call \in [Callers -> Call] /\ call[c] \in Call
  BY DEF TypeOK
<1>2. RowRead \in Told /\ RowRead # Nothing
  BY RowReadType
<1> DEFINE q == [call[c] EXCEPT !.step = "answering", !.told = RowRead]
<1>3. /\ q \in Call /\ q.step = "answering" /\ q.op = call[c].op /\ q.snap = call[c].snap
      /\ q.told = RowRead
  BY <1>1, <1>2, CallIs, StepNames DEF States
<1>4. call' = [call EXCEPT ![c] = q]
  BY <1>1 DEF Answer
<1> HIDE DEF q
<1> QED BY <1>1, <1>2, <1>3, <1>4 DEF OneMoves, Answer

LEMMA AnswerWholeMoves ==
  ASSUME TypeOK, StepInv, NEW c \in Callers, AnswerWhole(c)
  PROVE  /\ OneMoves(c, {"answering"}, {"told"}) /\ call'[c].snap = call[c].snap
         /\ call'[c].told # Nothing
<1>1. call \in [Callers -> Call] /\ call[c] \in Call /\ call[c].step = "answering"
  BY DEF TypeOK, AnswerWhole
<1>2. call[c].told \in Told
  <2>1. call[c].told \in States
    BY <1>1, CallIs
  <2> QED BY <1>1, <2>1 DEF States, StepInv, StepOk
<1> DEFINE told == Whole(call[c].told)
           q == [call[c] EXCEPT !.step = "told", !.told = told]
<1>3. call' = [call EXCEPT ![c] = q]
  BY <1>1 DEF AnswerWhole
<1>4. told \in Told /\ told # Nothing
  BY <1>2, WholeType
<1> HIDE DEF told
<1>5. /\ q \in Call /\ q.step = "told" /\ q.op = call[c].op /\ q.snap = call[c].snap
      /\ q.told = told
  BY <1>1, <1>4, CallIs, StepNames DEF States
<1> HIDE DEF q
<1> QED BY <1>1, <1>3, <1>4, <1>5 DEF OneMoves

\* Steps of the server that only go on.
LEMMA OthersMove ==
  ASSUME TypeOK, NEW c \in Callers
  PROVE  /\ EnterGate(c) => OneMoves(c, {"wait"}, {"delay"})
         /\ PassGate(c) => OneMoves(c, {"delay"}, {"sent"})
         /\ GiveUp(c) => OneMoves(c, {"wait", "delay"}, {"failed"})
         /\ FindActive(c) => OneMoves(c, {"find"}, {"invalidate", "clear", "mark"})
         /\ Invalidate(c) => OneMoves(c, {"invalidate"}, {"clear", "mark"})
         /\ SaveRow(c) => OneMoves(c, {"save"}, {"clear", "failed"})
         /\ ClearRequirement(c) => OneMoves(c, {"clear"}, {"done"})
         /\ EnterGate(c) \/ PassGate(c) \/ GiveUp(c) \/ FindActive(c) \/ Invalidate(c)
               \/ SaveRow(c) \/ ClearRequirement(c) =>
                  call'[c].snap = call[c].snap /\ call'[c].status = call[c].status
<1> USE StepNames DEF OneMoves
<1>1. ASSUME EnterGate(c)
      PROVE  OneMoves(c, {"wait"}, {"delay"})
             /\ call'[c].snap = call[c].snap /\ call'[c].status = call[c].status
  BY <1>1, Went DEF EnterGate
<1>2. ASSUME PassGate(c)
      PROVE  OneMoves(c, {"delay"}, {"sent"})
             /\ call'[c].snap = call[c].snap /\ call'[c].status = call[c].status
  BY <1>2, Went DEF PassGate, TypeOK
<1>3. ASSUME GiveUp(c)
      PROVE  OneMoves(c, {"wait", "delay"}, {"failed"})
             /\ call'[c].snap = call[c].snap /\ call'[c].status = call[c].status
  BY <1>3, Went DEF GiveUp
<1>4. ASSUME FindActive(c)
      PROVE  OneMoves(c, {"find"}, {"invalidate", "clear", "mark"})
             /\ call'[c].snap = call[c].snap /\ call'[c].status = call[c].status
  BY <1>4, Went DEF FindActive
<1>5. ASSUME Invalidate(c)
      PROVE  OneMoves(c, {"invalidate"}, {"clear", "mark"})
             /\ call'[c].snap = call[c].snap /\ call'[c].status = call[c].status
  BY <1>5, Went DEF Invalidate
<1>6. ASSUME SaveRow(c)
      PROVE  OneMoves(c, {"save"}, {"clear", "failed"})
             /\ call'[c].snap = call[c].snap /\ call'[c].status = call[c].status
  BY <1>6, Went DEF SaveRow
<1>7. ASSUME ClearRequirement(c)
      PROVE  OneMoves(c, {"clear"}, {"done"})
             /\ call'[c].snap = call[c].snap /\ call'[c].status = call[c].status
  BY <1>7, Went DEF ClearRequirement
<1> QED BY <1>1, <1>2, <1>3, <1>4, <1>5, <1>6, <1>7

\* The call of c becomes another one.
Becomes(c, r) ==
    /\ call' \in [Callers -> Call]
    /\ \A d \in Callers \ {c} : call'[d] = call[d]
    /\ call'[c] = r

LEMMA IdleMoves ==
  ASSUME TypeOK, NEW c \in Callers, call' = [call EXCEPT ![c] = Idle]
  PROVE  Becomes(c, Idle) /\ call'[c].step = "idle" /\ call'[c].snap = 0
BY IdleType DEF TypeOK, Becomes

LEMMA StartMoves ==
  ASSUME TypeOK, NEW c \in Callers, NEW op \in Ops, NEW step \in Steps, Start(c, op, step)
  PROVE  /\ \E r : Becomes(c, r)
         /\ call'[c].op = op /\ call'[c].step = step /\ call'[c].snap = 0
<1> DEFINE q == [Idle EXCEPT !.op = op, !.step = step]
<1>2. q \in Call /\ q.step = step /\ q.op = op /\ q.snap = 0
  BY Started
<1>3. call' = [call EXCEPT ![c] = q] /\ call \in [Callers -> Call]
  BY DEF Start, TypeOK
<1> HIDE DEF q
<1> QED BY <1>2, <1>3 DEF Becomes

LEMMA ImportMoves ==
  ASSUME TypeOK, NEW c \in Callers, StartImport(c)
  PROVE  /\ \E r : Becomes(c, r)
         /\ call'[c].op = "import" /\ call'[c].step = "wait" /\ call'[c].snap = imports + 1
         /\ imports' = imports + 1 /\ imports' \in 0 .. MaxImports
         /\ accepted' \subseteq Snapshots
<1> DEFINE q == [Idle EXCEPT !.op = "import", !.step = "wait", !.snap = imports + 1]
<1>1. /\ imports \in 0 .. MaxImports /\ imports < MaxImports /\ imports' = imports + 1
      /\ MaxImports \in Nat
  BY SessionAssumption DEF TypeOK, StartImport
<1>2. imports + 1 \in 0 .. MaxImports /\ imports + 1 \in Snapshots
  BY <1>1 DEF Snapshots
<1>3. imports + 1 \in Numbers
  BY <1>2 DEF Numbers
<1>4. q \in Call /\ q.step = "wait" /\ q.op = "import" /\ q.snap = imports + 1
  BY <1>3, ImportStarted
<1>5. call' = [call EXCEPT ![c] = q] /\ call \in [Callers -> Call]
  BY DEF StartImport, TypeOK
<1>6. accepted' \subseteq Snapshots
  BY <1>2 DEF StartImport, TypeOK
<1> HIDE DEF q
<1>7. Becomes(c, q) /\ call'[c] = q
  BY <1>4, <1>5 DEF Becomes
<1> QED BY <1>1, <1>2, <1>4, <1>6, <1>7

LEMMA RestartMoves ==
  ASSUME TypeOK, Restart
  PROVE  /\ call' \in [Callers -> Call]
         /\ \A c \in Callers : \/ call'[c] = call[c] /\ call[c].step = "idle"
                               \/ /\ call'[c].step = "failed" /\ call'[c].snap = 0
                                  /\ call[c].step # "idle"
<1>1. call \in [Callers -> Call]
  BY DEF TypeOK
<1>2. call' = [c \in Callers |-> IF call[c].step = "idle" THEN call[c]
                                 ELSE [Idle EXCEPT !.op = call[c].op, !.step = "failed"]]
  BY DEF Restart
<1>3. ASSUME NEW c \in Callers
      PROVE  LET q == [Idle EXCEPT !.op = call[c].op, !.step = "failed"]
             IN q \in Call /\ q.step = "failed" /\ q.snap = 0
  <2>1. call[c].op \in Ops
    <3>1. call[c] \in Call
      BY <1>1
    <3> QED BY <3>1, CallIs
  <2>2. ASSUME NEW op \in Ops, NEW r \in Call
        PROVE  LET q == [r EXCEPT !.op = op, !.step = "failed"]
               IN q \in Call /\ q.step = "failed" /\ q.snap = r.snap
    BY CallIs, StepNames
  <2> QED BY <2>1, <2>2, IdleType
<1>4. \A c \in Callers : call'[c] \in Call
  BY <1>1, <1>2, <1>3
<1> QED BY <1>2, <1>3, <1>4

\* The steps, by what they do to the calls.
ServerMoves(c) ==
    \/ Look(c) \/ EnterGate(c) \/ PassGate(c) \/ GiveUp(c) \/ LinkedInAnswers(c)
    \/ FindActive(c) \/ Invalidate(c) \/ MarkRequired(c)
    \/ LoadRow(c) \/ SaveRow(c) \/ ClearRequirement(c) \/ Answer(c)
    \/ AnswerWhole(c)

\* A call begins that is not an import, by c for op.
Begins(c, op) ==
    \/ c = "other" /\ OtherCalls /\ op \in {"verify", "revoke"}
          /\ Start(c, op, IF op = "verify" THEN "look" ELSE "find")
    \/ c = "other" /\ OtherCalls /\ op = "use" /\ Start(c, op, "look")
    \/ c = "modal" /\ Revoke /\ op = "revoke"
    \/ c = "page" /\ VerifyPeriodically /\ op = "verify"

Imports(c) ==
    \/ c = "other" /\ OtherCalls /\ StartImport(c)
    \/ c = "modal" /\ ImportCurl

Ends(c) ==
    \/ c = "other" /\ OtherEnds
    \/ c = "modal" /\ (ActionDone \/ ActionLost \/ \E r \in reads : RefusedStateArrives(r))
    \/ c = "page" /\ (Verified \/ VerificationLost)

Quiet ==
    \/ Tick \/ Expire \/ Show \/ Hide \/ StartReplace \/ CancelReplace \/ ActionRefused
    \/ \E r \in reads : ReadWhole(r) \/ StateArrives(r) \/ GuardArrives(r)
    \/ RefreshGuard
    \/ UNCHANGED vars

LEMMA Kinds ==
  ASSUME [Next]_vars
  PROVE  \/ Quiet \/ Restart
         \/ \E c \in Callers : \/ ServerMoves(c) \/ Imports(c) \/ Ends(c)
                               \/ \E op \in Ops \ {"import"} : Begins(c, op)
<1>1. CASE OtherCalls
  <2>1. "other" \in Callers /\ "use" \in Ops /\ "verify" \in Ops /\ "revoke" \in Ops
    BY DEF Callers, Ops
  <2> QED BY <1>1, <2>1 DEF OtherCalls, Begins, Imports
<1>2. CASE OtherEnds \/ ActionDone \/ ActionLost \/ Verified \/ VerificationLost
              \/ \E r \in reads : RefusedStateArrives(r)
  BY <1>2 DEF Ends, Callers
<1>3. CASE ImportCurl \/ Revoke \/ VerifyPeriodically
  BY <1>3 DEF Imports, Begins, Callers, Ops
<1> QED BY <1>1, <1>2, <1>3 DEF Next, Quiet, ServerMoves

-----------------------------------------------------------------------------
(* The calls keep their types, and their steps go with the rest of them *)

LEMMA QuietKeeps ==
  ASSUME TypeOK, Quiet
  PROVE  UNCHANGED <<call, stored, reset, imports, rejected>> /\ accepted' \subseteq Snapshots
BY DEF TypeOK, Quiet, vars, server, Tick, Expire, Show, Hide, StartReplace, CancelReplace,
       ActionRefused, ReadWhole, StateArrives, GuardArrives, RefreshGuard

LEMMA BeginsMoves ==
  ASSUME TypeOK, NEW c \in Callers, NEW op \in Ops \ {"import"}, Begins(c, op)
  PROVE  /\ \E r : Becomes(c, r)
         /\ call'[c].op = op /\ call'[c].step = (IF op = "revoke" THEN "find" ELSE "look")
         /\ call'[c].snap = 0
         /\ UNCHANGED <<stored, reset, rejected>>
         /\ imports' = imports /\ accepted' = accepted
<1> DEFINE step == IF op = "revoke" THEN "find" ELSE "look"
<1>1. Start(c, op, step)
  BY DEF Begins, Revoke, VerifyPeriodically
<1>2. step \in Steps
  BY StepNames
<1>3. UNCHANGED <<stored, reset, rejected>>
  BY DEF Begins, OtherCalls, Revoke, VerifyPeriodically, server
<1>4. \E r : Becomes(c, r)
  BY <1>1, <1>2, StartMoves
<1>5. call'[c].op = op /\ call'[c].step = step /\ call'[c].snap = 0
  BY <1>1, <1>2, StartMoves
<1>6. imports' = imports /\ accepted' = accepted
  <2>1. CASE c = "other"
    <3>1. OtherCalls
      BY <2>1 DEF Begins
    <3>2. ASSUME StartImport("other") PROVE FALSE
      <4>1. call'["other"].step = "wait"
        BY <2>1, <3>2, ImportMoves
      <4> QED BY <1>5, <2>1, <4>1
    <3> QED BY <3>1, <3>2 DEF OtherCalls
  <2>2. CASE c # "other"
    BY <2>2 DEF Begins, Revoke, VerifyPeriodically, server
  <2> QED BY <2>1, <2>2
<1> QED BY <1>3, <1>4, <1>5, <1>6

LEMMA ImportsMoves ==
  ASSUME TypeOK, NEW c \in Callers, Imports(c)
  PROVE  StartImport(c) /\ UNCHANGED <<stored, reset, rejected>>
BY DEF Imports, OtherCalls, ImportCurl

LEMMA EndsMoves ==
  ASSUME TypeOK, NEW c \in Callers, Ends(c)
  PROVE  /\ Becomes(c, Idle) /\ call'[c].step = "idle" /\ call'[c].snap = 0
         /\ UNCHANGED <<stored, reset, imports, accepted, rejected>>
<1>1. call' = [call EXCEPT ![c] = Idle]
  BY DEF Ends, OtherEnds, ActionDone, ActionLost, RefusedStateArrives, Verified,
         VerificationLost
<1>2. UNCHANGED <<stored, reset, imports, accepted, rejected>>
  BY DEF Ends, OtherEnds, ActionDone, ActionLost, RefusedStateArrives, Verified,
         VerificationLost, server
<1> QED BY <1>1, <1>2, IdleMoves

LEMMA ServerKeeps ==
  ASSUME TypeOK, StepInv, NEW c \in Callers, ServerMoves(c)
  PROVE  /\ OneMoves(c, Steps \ {"idle"}, Steps \ {"idle"})
         /\ call'[c].snap \in {call[c].snap, stored.snap}
         /\ imports' = imports /\ accepted' = accepted
<1>1. imports' = imports /\ accepted' = accepted
  BY DEF ServerMoves, Look, EnterGate, PassGate, GiveUp, LinkedInAnswers, FindActive,
         Invalidate, MarkRequired, LoadRow, SaveRow, ClearRequirement, Answer, AnswerWhole, server
<1>4. CASE Look(c)
  BY <1>1, <1>4, LookMoves, StepNames DEF OneMoves
<1>5. CASE LinkedInAnswers(c)
  BY <1>1, <1>5, AnswersMove, StepNames DEF OneMoves
<1>6. CASE MarkRequired(c)
  BY <1>1, <1>6, MarkMoves, StepNames DEF OneMoves
<1>7. CASE LoadRow(c)
  BY <1>1, <1>7, LoadMoves, StepNames DEF OneMoves
<1>8. CASE Answer(c)
  BY <1>1, <1>8, AnswerMoves, StepNames DEF OneMoves
<1>10. CASE AnswerWhole(c)
  BY <1>1, <1>10, AnswerWholeMoves, StepNames DEF OneMoves
<1>9. CASE EnterGate(c) \/ PassGate(c) \/ GiveUp(c) \/ FindActive(c) \/ Invalidate(c)
              \/ SaveRow(c) \/ ClearRequirement(c)
  BY <1>1, <1>9, OthersMove, StepNames DEF OneMoves
<1> QED BY <1>4, <1>5, <1>6, <1>7, <1>8, <1>9, <1>10 DEF ServerMoves

LEMMA CallsStep ==
  ASSUME TypeOK, StepInv, [Next]_vars
  PROVE  call' \in [Callers -> Call]
<1>1. CASE Quiet
  BY <1>1, QuietKeeps DEF TypeOK
<1>2. CASE Restart
  BY <1>2, RestartMoves
<1>3. ASSUME NEW c \in Callers, ServerMoves(c) PROVE call' \in [Callers -> Call]
  BY <1>3, ServerKeeps DEF OneMoves
<1>4. ASSUME NEW c \in Callers, Imports(c) PROVE call' \in [Callers -> Call]
  BY <1>4, ImportsMoves, ImportMoves DEF Becomes
<1>5. ASSUME NEW c \in Callers, Ends(c) PROVE call' \in [Callers -> Call]
  BY <1>5, EndsMoves DEF Becomes
<1>6. ASSUME NEW c \in Callers, NEW op \in Ops \ {"import"}, Begins(c, op)
      PROVE  call' \in [Callers -> Call]
  BY <1>6, BeginsMoves DEF Becomes
<1> QED BY <1>1, <1>2, <1>3, <1>4, <1>5, <1>6, Kinds

LEMMA StepsStep ==
  ASSUME TypeOK, StepInv, Numbered, [Next]_vars
  PROVE  \A c \in Callers : StepOk(call'[c])
<1>1. CASE Quiet
  BY <1>1, QuietKeeps DEF StepInv
<1>2. CASE Restart
  BY <1>2, RestartMoves DEF StepInv, StepOk
<1>3. ASSUME NEW c \in Callers, ServerMoves(c) PROVE \A d \in Callers : StepOk(call'[d])
  <2>1. \A d \in Callers \ {c} : call'[d] = call[d]
    BY <1>3, ServerKeeps DEF OneMoves
  <2>2. call'[c].op = call[c].op
    BY <1>3, ServerKeeps DEF OneMoves
  <2>3. StepOk(call'[c])
    <3>1. CASE Look(c)
      BY <3>1, LookMoves DEF OneMoves, Numbered, StepOk
    <3>2. CASE LinkedInAnswers(c)
      BY <3>2, AnswersMove DEF OneMoves, StepInv, StepOk
    <3>3. CASE MarkRequired(c)
      BY <3>3, MarkMoves DEF OneMoves, StepInv, StepOk
    <3>4. CASE LoadRow(c)
      BY <2>2, <3>4, LoadMoves DEF OneMoves, StepInv, StepOk
    <3>5. CASE Answer(c)
      BY <3>5, AnswerMoves DEF OneMoves, StepOk
    <3>9. CASE AnswerWhole(c)
      BY <3>9, AnswerWholeMoves DEF OneMoves, StepOk
    <3>6. CASE FindActive(c)
      <4>1. call'[c].status = call[c].status /\ call'[c].snap = call[c].snap
            /\ OneMoves(c, {"find"}, {"invalidate", "clear", "mark"})
        BY <3>6, OthersMove
      <4>2. call[c].op = "revoke" => call'[c].step # "mark"
        BY <3>6, Went, StepNames DEF FindActive
      <4> QED BY <2>2, <4>1, <4>2 DEF OneMoves, StepInv, StepOk
    <3>7. CASE Invalidate(c)
      <4>1. call'[c].status = call[c].status /\ call'[c].snap = call[c].snap
            /\ OneMoves(c, {"invalidate"}, {"clear", "mark"})
        BY <3>7, OthersMove
      <4>2. call[c].op = "revoke" => call'[c].step # "mark"
        BY <3>7, Went, StepNames DEF Invalidate
      <4> QED BY <2>2, <4>1, <4>2 DEF OneMoves, StepInv, StepOk
    <3>8. CASE EnterGate(c) \/ PassGate(c) \/ GiveUp(c) \/ SaveRow(c) \/ ClearRequirement(c)
      BY <3>8, OthersMove DEF OneMoves, StepInv, StepOk
    <3> QED BY <1>3, <3>1, <3>2, <3>3, <3>4, <3>5, <3>6, <3>7, <3>8, <3>9 DEF ServerMoves
  <2> QED BY <2>1, <2>3 DEF StepInv
<1>4. ASSUME NEW c \in Callers, Imports(c) PROVE \A d \in Callers : StepOk(call'[d])
  <2>1. imports \in Nat /\ StartImport(c)
    BY <1>4, ImportsMoves, SessionAssumption DEF TypeOK
  <2>2. \A d \in Callers \ {c} : call'[d] = call[d]
    BY <2>1, ImportMoves DEF Becomes
  <2>3. call'[c].op = "import" /\ call'[c].step = "wait" /\ call'[c].snap # 0
    BY <2>1, ImportMoves
  <2> QED BY <2>2, <2>3 DEF StepInv, StepOk
<1>5. ASSUME NEW c \in Callers, Ends(c) PROVE \A d \in Callers : StepOk(call'[d])
  BY <1>5, EndsMoves DEF Becomes, StepInv, StepOk
<1>6. ASSUME NEW c \in Callers, NEW op \in Ops \ {"import"}, Begins(c, op)
      PROVE  \A d \in Callers : StepOk(call'[d])
  <2>1. \A d \in Callers \ {c} : call'[d] = call[d]
    BY <1>6, BeginsMoves DEF Becomes
  <2>2. call'[c].op = op /\ call'[c].step = (IF op = "revoke" THEN "find" ELSE "look")
    BY <1>6, BeginsMoves
  <2> QED BY <1>6, <2>1, <2>2 DEF StepInv, StepOk
<1> QED BY <1>1, <1>2, <1>3, <1>4, <1>5, <1>6, Kinds

-----------------------------------------------------------------------------
(* No rejected snapshot comes back *)

FreshNext(c) ==
    /\ call'[c].op = "import"
    /\ call'[c].step \in {"wait", "delay", "sent", "load", "save"}

\* The next state of the invariants about snapshots.
SnapshotsNext ==
    /\ \A c \in Callers : FreshNext(c) =>
          /\ call'[c].snap # 0 /\ call'[c].snap # stored'.snap
          /\ call'[c].snap \notin rejected'
          /\ \A d \in Callers \ {c} : call'[d].snap # call'[c].snap
    /\ stored'.snap <= imports' /\ (stored'.active => stored'.snap # 0)
    /\ rejected' \subseteq 1 .. imports'
    /\ \A c \in Callers : call'[c].snap <= imports'
    /\ stored'.active => stored'.snap \notin rejected'
    /\ \A c \in Callers : call'[c].step = "mark" /\ call'[c].status = 401
                             => ~(stored'.active /\ stored'.snap = call'[c].snap)

\* Most steps leave the session as it is, or inactive, and give nobody a
\* snapshot that was not stored.
LEMMA SnapshotsKept ==
  ASSUME TypeOK, StepInv, Numbered, FreshInv, RejectedIsNotUsed,
         stored'.snap = stored.snap, stored'.active => stored.active,
         rejected' = rejected, imports' = imports,
         \A c \in Callers : FreshNext(c) => Fresh(c) /\ call'[c].snap = call[c].snap,
         \A c \in Callers : call'[c].snap \in {call[c].snap, 0, stored.snap},
         \A c \in Callers : call'[c].step = "mark" /\ call'[c].status = 401 =>
            \/ call[c].step = "mark" /\ call[c].status = 401 /\ call'[c].snap = call[c].snap
            \/ ~(stored'.active /\ stored.snap = call'[c].snap)
  PROVE  SnapshotsNext
<1>1. imports \in Nat
  BY SessionAssumption DEF TypeOK
<1>2. \A c \in Callers : FreshNext(c) =>
          /\ call'[c].snap # 0 /\ call'[c].snap # stored'.snap
          /\ call'[c].snap \notin rejected'
          /\ \A d \in Callers \ {c} : call'[d].snap # call'[c].snap
  BY DEF FreshInv
<1>3. \A c \in Callers : call'[c].snap <= imports'
  BY <1>1 DEF Numbered
<1>4. \A c \in Callers : call'[c].step = "mark" /\ call'[c].status = 401
                             => ~(stored'.active /\ stored'.snap = call'[c].snap)
  BY DEF StepInv, Withdrawn
<1> QED BY <1>2, <1>3, <1>4 DEF SnapshotsNext, Numbered, RejectedIsNotUsed

LEMMA SnapshotsStep ==
  ASSUME TypeOK, StepInv, Numbered, FreshInv, RejectedIsNotUsed, [Next]_vars
  PROVE  SnapshotsNext
<1>1. CASE Quiet
  BY <1>1, QuietKeeps, SnapshotsKept DEF FreshNext, Fresh
<1>2. CASE Restart
  <2>1. UNCHANGED <<stored, rejected, imports>>
    BY <1>2 DEF Restart
  <2> QED BY <1>2, <2>1, RestartMoves, SnapshotsKept DEF FreshNext, Fresh
<1>3. ASSUME NEW c \in Callers, NEW op \in Ops \ {"import"}, Begins(c, op) PROVE SnapshotsNext
  <2>1. \A d \in Callers \ {c} : call'[d] = call[d]
    BY <1>3, BeginsMoves DEF Becomes
  <2>2. /\ call'[c].op # "import" /\ call'[c].snap = 0 /\ call'[c].step # "mark"
        /\ UNCHANGED <<stored, rejected>> /\ imports' = imports
    BY <1>3, BeginsMoves
  <2> QED BY <2>1, <2>2, SnapshotsKept DEF FreshNext, Fresh
<1>4. ASSUME NEW c \in Callers, Ends(c) PROVE SnapshotsNext
  <2>1. /\ \A d \in Callers \ {c} : call'[d] = call[d]
        /\ call'[c].step = "idle" /\ call'[c].snap = 0
        /\ UNCHANGED <<stored, rejected, imports>>
    BY <1>4, EndsMoves DEF Becomes
  <2> QED BY <2>1, SnapshotsKept DEF FreshNext, Fresh
\* A new snapshot has a number that nobody knows.
<1>5. ASSUME NEW c \in Callers, Imports(c) PROVE SnapshotsNext
  <2>1. /\ \A d \in Callers \ {c} : call'[d] = call[d]
        /\ call'[c].step = "wait" /\ call'[c].snap = imports + 1 /\ imports' = imports + 1
        /\ UNCHANGED <<stored, rejected>>
    BY <1>5, ImportsMoves, ImportMoves DEF Becomes
  <2>2. /\ imports \in Nat /\ stored.snap \in Nat
        /\ \A d \in Callers : call[d].snap \in Nat /\ call[d].snap <= imports
    <3>1. \A d \in Callers : call[d] \in Call
      BY DEF TypeOK
    <3>2. \A d \in Callers : call[d].snap \in Numbers
      BY <3>1, CallIs
    <3> QED BY <3>2, SessionAssumption DEF TypeOK, Numbered, Numbers
  <2>3. \A d \in Callers \ {c} : FreshNext(d) => Fresh(d)
    BY <2>1 DEF FreshNext, Fresh
  <2>4. \A d \in Callers : FreshNext(d) =>
          /\ call'[d].snap # 0 /\ call'[d].snap # stored'.snap
          /\ call'[d].snap \notin rejected'
          /\ \A e \in Callers \ {d} : call'[e].snap # call'[d].snap
    BY <2>1, <2>2, <2>3 DEF FreshInv, Numbered
  <2>5. \A d \in Callers : call'[d].snap <= imports'
    BY <2>1, <2>2
  <2>6. rejected' \subseteq 1 .. imports'
    BY <2>1, <2>2 DEF Numbered
  <2>7. \A d \in Callers : call'[d].step = "mark" /\ call'[d].status = 401
                             => ~(stored'.active /\ stored'.snap = call'[d].snap)
    BY <2>1 DEF StepInv, Withdrawn
  <2> QED BY <2>1, <2>2, <2>4, <2>5, <2>6, <2>7 DEF SnapshotsNext, Numbered, RejectedIsNotUsed
<1>6. ASSUME NEW c \in Callers, ServerMoves(c) PROVE SnapshotsNext
  <2>1. /\ \A d \in Callers \ {c} : call'[d] = call[d]
        /\ call'[c].op = call[c].op /\ imports' = imports
        /\ call'[c].snap \in {call[c].snap, stored.snap}
    BY <1>6, ServerKeeps DEF OneMoves
  <2>2. ASSUME stored'.snap = stored.snap, stored'.active => stored.active,
               rejected' = rejected,
               FreshNext(c) => Fresh(c) /\ call'[c].snap = call[c].snap,
               call'[c].step = "mark" /\ call'[c].status = 401 =>
                  ~(stored'.active /\ stored.snap = call'[c].snap)
        PROVE  SnapshotsNext
    BY <2>1, <2>2, SnapshotsKept DEF FreshNext, Fresh
  <2>3. CASE Look(c)
    <3>1. FreshNext(c) => FALSE
      BY <2>1, <2>3, LookMoves DEF OneMoves, FreshNext, StepInv, StepOk
    <3> QED BY <2>2, <2>3, <3>1, LookMoves DEF Look, server, OneMoves
  <2>4. CASE LinkedInAnswers(c)
    <3>1. /\ call[c].step = "sent" /\ call'[c].snap = call[c].snap
          /\ call'[c].step = "mark" => call'[c].status # 401
      <4>1. call'[c].step = "mark" => call'[c].status = 403
        BY <2>4, AnswersMove
      <4> QED BY <2>4, <4>1, AnswersMove DEF OneMoves
    <3>2. UNCHANGED <<stored, rejected>>
      BY <2>4 DEF LinkedInAnswers, server
    <3>3. FreshNext(c) => Fresh(c)
      BY <2>1, <3>1 DEF FreshNext, Fresh
    <3> QED BY <2>2, <3>1, <3>2, <3>3
  <2>5. CASE LoadRow(c)
    BY <2>1, <2>2, <2>5, LoadMoves DEF LoadRow, server, OneMoves, FreshNext, Fresh
  <2>6. CASE Answer(c)
    BY <2>1, <2>2, <2>6, AnswerMoves DEF Answer, server, OneMoves, FreshNext, Fresh
  <2>12. CASE AnswerWhole(c)
    BY <2>1, <2>2, <2>12, AnswerWholeMoves DEF AnswerWhole, server, OneMoves, FreshNext, Fresh
  <2>7. CASE EnterGate(c) \/ PassGate(c) \/ GiveUp(c) \/ ClearRequirement(c)
    <3>1. call'[c].snap = call[c].snap /\ call'[c].step # "mark"
          /\ UNCHANGED <<stored, rejected>>
      BY <2>7, OthersMove DEF OneMoves, EnterGate, PassGate, GiveUp, ClearRequirement
    <3>2. FreshNext(c) => Fresh(c)
      BY <2>1, <2>7, OthersMove DEF OneMoves, FreshNext, Fresh
    <3> QED BY <2>2, <3>1, <3>2
  <2>8. CASE FindActive(c)
    <3>1. /\ OneMoves(c, {"find"}, {"invalidate", "clear", "mark"})
          /\ UNCHANGED <<stored, rejected>>
      BY <2>8, OthersMove DEF FindActive, server
    <3>2. call'[c].step = "mark" => ~stored.active
      <4>1. call'[c].step = IF Seen = "active" THEN "invalidate"
                            ELSE IF call[c].op = "revoke" THEN "clear" ELSE "mark"
        BY <2>8, Went, StepNames DEF FindActive
      <4> QED BY <4>1 DEF Seen, Numbered
    <3> QED BY <2>2, <3>1, <3>2 DEF OneMoves, FreshNext
  <2>9. CASE Invalidate(c)
    <3>1. /\ OneMoves(c, {"invalidate"}, {"clear", "mark"})
          /\ ~stored'.active /\ stored'.snap = stored.snap /\ rejected' = rejected
      BY <2>9, OthersMove DEF Invalidate, TypeOK
    <3> QED BY <2>2, <3>1 DEF OneMoves, FreshNext
\* The rejection of a snapshot is noted once it is withdrawn.
  <2>10. CASE MarkRequired(c)
    <3>1. /\ OneMoves(c, {"mark"}, {"find", "mark", "failed"}) /\ call'[c].snap = call[c].snap
          /\ call'[c].step = "mark" => call'[c].status = 403
          /\ UNCHANGED stored
          /\ rejected' = IF call[c].status = 401 THEN rejected \cup {call[c].snap} ELSE rejected
      BY <2>10, MarkMoves DEF MarkRequired
    <3>2. /\ imports \in Nat /\ call[c].snap \in Nat /\ call[c].snap # 0
          /\ call[c].snap <= imports
      <4>1. call[c] \in Call
        BY DEF TypeOK
      <4>2. call[c].snap \in Numbers
        BY <4>1, CallIs
      <4>3. call[c].step = "mark"
        BY <3>1 DEF OneMoves
      <4> QED BY <4>2, <4>3, SessionAssumption DEF TypeOK, Numbered, Numbers, StepInv, StepOk
    <3>3. \A d \in Callers : FreshNext(d) => d # c /\ Fresh(d)
      BY <2>1, <3>1 DEF OneMoves, FreshNext, Fresh
    <3>4. \A d \in Callers : FreshNext(d) =>
            /\ call'[d].snap # 0 /\ call'[d].snap # stored'.snap
            /\ call'[d].snap \notin rejected'
            /\ \A e \in Callers \ {d} : call'[e].snap # call'[d].snap
      BY <2>1, <3>1, <3>3 DEF FreshInv
    <3>5. rejected' \subseteq 1 .. imports'
      BY <2>1, <3>1, <3>2 DEF Numbered
    <3>6. stored'.active => stored'.snap \notin rejected'
      BY <3>1 DEF RejectedIsNotUsed, StepInv, Withdrawn, OneMoves
    <3>7. \A d \in Callers : call'[d].step = "mark" /\ call'[d].status = 401
                               => ~(stored'.active /\ stored'.snap = call'[d].snap)
      BY <2>1, <3>1 DEF StepInv, Withdrawn
    <3> QED BY <2>1, <3>1, <3>4, <3>5, <3>6, <3>7 DEF SnapshotsNext, Numbered
\* The snapshot of an import that LinkedIn accepted is stored.
  <2>11. CASE SaveRow(c)
    <3>1. /\ OneMoves(c, {"save"}, {"clear", "failed"}) /\ call'[c].snap = call[c].snap
          /\ rejected' = rejected
      BY <2>11, OthersMove DEF SaveRow
    <3>2. Fresh(c)
      BY <3>1 DEF OneMoves, Fresh, StepInv, StepOk
    <3>3. \/ UNCHANGED stored
          \/ stored'.snap = call[c].snap
      <4>1. CASE call[c].seen = "none" /\ stored.snap # 0
        BY <2>11, <4>1 DEF SaveRow
      <4>2. CASE ~(call[c].seen = "none" /\ stored.snap # 0)
        <5> DEFINE active == IF call[c].seen = "active" THEN stored.active ELSE TRUE
        <5>1. stored' = [snap |-> call[c].snap, active |-> active]
          BY <2>11, <4>2 DEF SaveRow
        <5> HIDE DEF active
        <5> QED BY <5>1
      <4> QED BY <4>1, <4>2
    <3>4. \A d \in Callers : FreshNext(d) => d # c /\ Fresh(d)
      BY <2>1, <3>1 DEF OneMoves, FreshNext, Fresh
    <3>5. \A d \in Callers : FreshNext(d) =>
            /\ call'[d].snap # 0 /\ call'[d].snap # stored'.snap
            /\ call'[d].snap \notin rejected'
            /\ \A e \in Callers \ {d} : call'[e].snap # call'[d].snap
      BY <2>1, <3>1, <3>2, <3>3, <3>4 DEF FreshInv
    <3>6. stored'.snap <= imports' /\ (stored'.active => stored'.snap # 0)
      BY <2>1, <3>2, <3>3 DEF Numbered, FreshInv
    <3>7. stored'.active => stored'.snap \notin rejected'
      BY <3>1, <3>2, <3>3 DEF RejectedIsNotUsed, FreshInv
    <3>8. \A d \in Callers : call'[d].step = "mark" /\ call'[d].status = 401
                               => ~(stored'.active /\ stored'.snap = call'[d].snap)
      BY <2>1, <3>1, <3>2, <3>3 DEF StepInv, Withdrawn, FreshInv, OneMoves
    <3> QED BY <2>1, <3>1, <3>5, <3>6, <3>7, <3>8 DEF SnapshotsNext, Numbered
  <2> QED BY <1>6, <2>3, <2>4, <2>5, <2>6, <2>7, <2>8, <2>9, <2>10, <2>11, <2>12 DEF ServerMoves
<1> QED BY <1>1, <1>2, <1>3, <1>4, <1>5, <1>6, Kinds

-----------------------------------------------------------------------------
(* The rest of the server *)

LEMMA SessionStep ==
  ASSUME TypeOK, StepInv, [Next]_vars
  PROVE  /\ stored' \in [snap : Numbers, active : Flags] /\ reset' \in {0, 401, 403}
         /\ accepted' \subseteq Snapshots /\ imports' \in 0 .. MaxImports
<1>0. /\ stored \in [snap : Numbers, active : Flags] /\ reset \in {0, 401, 403}
      /\ accepted \subseteq Snapshots /\ imports \in 0 .. MaxImports
  BY DEF TypeOK, Numbers, Flags
<1>1. CASE Quiet
  BY <1>0, <1>1, QuietKeeps
<1>2. CASE Restart
  BY <1>0, <1>2 DEF Restart
<1>3. ASSUME NEW c \in Callers, NEW op \in Ops \ {"import"}, Begins(c, op)
      PROVE  /\ UNCHANGED <<stored, reset>> /\ imports' = imports /\ accepted' = accepted
  BY <1>3, BeginsMoves
<1>4. ASSUME NEW c \in Callers, Ends(c)
      PROVE  UNCHANGED <<stored, reset, imports, accepted>>
  BY <1>4, EndsMoves
<1>5. ASSUME NEW c \in Callers, Imports(c)
      PROVE  /\ UNCHANGED <<stored, reset>>
             /\ accepted' \subseteq Snapshots /\ imports' \in 0 .. MaxImports
  BY <1>5, ImportsMoves, ImportMoves
<1>6. ASSUME NEW c \in Callers, ServerMoves(c)
      PROVE  /\ stored' \in [snap : Numbers, active : Flags] /\ reset' \in {0, 401, 403}
             /\ imports' = imports /\ accepted' = accepted
  <2>1. imports' = imports /\ accepted' = accepted
    BY <1>6, ServerKeeps
  <2>2. stored' \in [snap : Numbers, active : Flags]
    <3>1. CASE Invalidate(c)
      <4>1. stored' = [stored EXCEPT !.active = FALSE]
        BY <3>1 DEF Invalidate
      <4> QED BY <1>0, <4>1, CallIs
    <3>2. CASE SaveRow(c)
      <4>1. CASE call[c].seen = "none" /\ stored.snap # 0
        BY <1>0, <3>2, <4>1 DEF SaveRow
      <4>2. CASE ~(call[c].seen = "none" /\ stored.snap # 0)
        <5> DEFINE active == IF call[c].seen = "active" THEN stored.active ELSE TRUE
        <5>1. stored' = [snap |-> call[c].snap, active |-> active]
          BY <3>2, <4>2 DEF SaveRow
        <5>2. active \in Flags
          BY <1>0, CallIs
        <5>3. call[c].snap \in Numbers
          <6>1. call[c] \in Call
            BY DEF TypeOK
          <6> QED BY <6>1, CallIs
        <5> HIDE DEF active
        <5> QED BY <5>1, <5>2, <5>3
      <4> QED BY <4>1, <4>2
    <3>3. CASE ~Invalidate(c) /\ ~SaveRow(c)
      <4>1. stored' = stored
        BY <1>6, <3>3
        DEF ServerMoves, Look, EnterGate, PassGate, GiveUp, LinkedInAnswers, FindActive,
            MarkRequired, LoadRow, ClearRequirement, Answer, AnswerWhole, server
      <4> QED BY <1>0, <4>1
    <3> QED BY <3>1, <3>2, <3>3
  <2>3. reset' \in {0, 401, 403}
    <3>1. CASE MarkRequired(c)
      BY <3>1 DEF MarkRequired, StepInv, StepOk
    <3>2. CASE ClearRequirement(c)
      BY <3>2 DEF ClearRequirement
    <3>3. CASE ~MarkRequired(c) /\ ~ClearRequirement(c)
      <4>1. reset' = reset
        BY <1>6, <3>3
        DEF ServerMoves, Look, EnterGate, PassGate, GiveUp, LinkedInAnswers, FindActive,
            Invalidate, LoadRow, SaveRow, Answer, AnswerWhole, server
      <4> QED BY <1>0, <4>1
    <3> QED BY <3>1, <3>2, <3>3
  <2> QED BY <2>1, <2>2, <2>3
<1> QED BY <1>0, <1>1, <1>2, <1>3, <1>4, <1>5, <1>6, Kinds

LEMMA UsedStep ==
  ASSUME TypeOK, [Next]_vars
  PROVE  used' \in 0 .. MaxMoves
<1>1. used' = used \/ Counted
  BY DEF Next, vars, Look, EnterGate, PassGate, GiveUp, LinkedInAnswers, FindActive, Invalidate,
         MarkRequired, LoadRow, SaveRow, ClearRequirement, Answer, AnswerWhole, Tick, Expire, Restart,
         OtherCalls, OtherEnds, Show, Hide, StartReplace, CancelReplace, ImportCurl, Revoke,
         ActionDone, ActionRefused, ActionLost, ReadWhole, StateArrives, RefusedStateArrives,
         GuardArrives, RefreshGuard, VerifyPeriodically, Verified, VerificationLost
<1> QED BY <1>1, SessionAssumption DEF TypeOK, Counted

\* The gate is held by whoever waits in it, and opens late enough.
GateNext ==
    /\ gate' \in [by : Callers \cup {Nobody}, next : 0 .. MinDelay + MaxJitter,
                  waited : 0 .. MinDelay + MaxJitter]
    /\ since' \in 0 .. MinDelay
    /\ \A c \in Callers : gate'.by = c <=> call'[c].step = "delay"
    /\ since' + gate'.next >= MinDelay
    /\ gate'.waited + gate'.next <= MinDelay + MaxJitter

LEMMA GateKept ==
  ASSUME TypeOK, SpaceInv, gate' = gate, since' = since,
         \A c \in Callers : call'[c].step = "delay" <=> call[c].step = "delay"
  PROVE  GateNext
BY DEF TypeOK, SpaceInv, GateNext

LEMMA GateStep ==
  ASSUME TypeOK, StepInv, SpaceInv, RefusedInv, [Next]_vars
  PROVE  GateNext
<1>0. /\ MinDelay \in Nat /\ MaxJitter \in Nat
      /\ gate \in [by : Callers \cup {Nobody}, next : 0 .. MinDelay + MaxJitter,
                   waited : 0 .. MinDelay + MaxJitter]
      /\ since \in 0 .. MinDelay
      /\ \A c \in Callers : gate.by = c <=> call[c].step = "delay"
      /\ Nobody \notin Callers
  BY SessionAssumption DEF TypeOK, Nobody, Callers
<1>1. CASE Tick
  <2> DEFINE next == IF gate.next > 0 THEN gate.next - 1 ELSE 0
             waited == IF gate.by # Nobody /\ gate.next > 0 THEN gate.waited + 1
                       ELSE gate.waited
  <2>1. gate' = [by |-> gate.by, next |-> next, waited |-> waited]
    BY <1>0, <1>1 DEF Tick
  <2>2. since' = IF since < MinDelay THEN since + 1 ELSE since
    BY <1>1 DEF Tick
  <2>3. /\ next \in 0 .. MinDelay + MaxJitter /\ waited \in 0 .. MinDelay + MaxJitter
        /\ waited + next <= MinDelay + MaxJitter
        /\ since' \in 0 .. MinDelay /\ since' + next >= MinDelay
    BY <1>0, <2>2 DEF SpaceInv
  <2>4. call' = call
    BY <1>1 DEF Tick
  <2> HIDE DEF next, waited
  <2> QED BY <1>0, <2>1, <2>3, <2>4 DEF GateNext
<1>2. CASE Restart
  <2>1. gate' = [by |-> Nobody, next |-> 0, waited |-> 0] /\ since' = MinDelay
    BY <1>2 DEF Restart
  <2>2. \A c \in Callers : call'[c].step # "delay"
    BY <1>2, RestartMoves
  <2> QED BY <1>0, <2>1, <2>2 DEF GateNext
<1>3. CASE Quiet /\ ~Tick
  <2>1. call' = call
    BY <1>3, QuietKeeps
  <2>2. UNCHANGED <<gate, since>>
    BY <1>3 DEF Quiet, vars, server, Expire, Show, Hide, StartReplace, CancelReplace,
                ActionRefused, ReadWhole, StateArrives, GuardArrives, RefreshGuard
  <2> QED BY <2>1, <2>2, GateKept
<1>4. ASSUME NEW c \in Callers, NEW op \in Ops \ {"import"}, Begins(c, op) PROVE GateNext
  <2>1. call[c].step = "idle"
    BY <1>4, ZenonT(30) DEF Begins, OtherCalls, Revoke, VerifyPeriodically, MayClick, TypeOK
  <2>2. UNCHANGED <<gate, since>>
    BY <1>4 DEF Begins, OtherCalls, Revoke, VerifyPeriodically, server
  <2>3. call'[c].step # "delay" /\ \A d \in Callers \ {c} : call'[d] = call[d]
    BY <1>4, BeginsMoves DEF Becomes
  <2> QED BY <2>1, <2>2, <2>3, GateKept
<1>5. ASSUME NEW c \in Callers, Ends(c) PROVE GateNext
  <2>1. call[c].step # "delay"
    BY <1>5 DEF Ends, OtherEnds, ActionDone, ActionLost, RefusedStateArrives, RefusedInv,
                Verified, VerificationLost
  <2>2. UNCHANGED <<gate, since>>
    BY <1>5 DEF Ends, OtherEnds, ActionDone, ActionLost, RefusedStateArrives, Verified,
                VerificationLost, server
  <2>3. call'[c].step # "delay" /\ \A d \in Callers \ {c} : call'[d] = call[d]
    BY <1>5, EndsMoves DEF Becomes
  <2> QED BY <2>1, <2>2, <2>3, GateKept
<1>6. ASSUME NEW c \in Callers, Imports(c) PROVE GateNext
  <2>1. call[c].step = "idle"
    BY <1>6 DEF Imports, OtherCalls, ImportCurl, MayClick, TypeOK
  <2>2. UNCHANGED <<gate, since>>
    BY <1>6 DEF Imports, OtherCalls, ImportCurl
  <2>3. call'[c].step # "delay" /\ \A d \in Callers \ {c} : call'[d] = call[d]
    BY <1>6, ImportsMoves, ImportMoves DEF Becomes
  <2> QED BY <2>1, <2>2, <2>3, GateKept
<1>7. ASSUME NEW c \in Callers, ServerMoves(c) PROVE GateNext
  <2>1. \A d \in Callers \ {c} : call'[d] = call[d]
    BY <1>7, ServerKeeps DEF OneMoves
  <2>2. CASE EnterGate(c)
    <3>1. /\ gate.by = Nobody /\ gate' = [by |-> c, next |-> gate.next, waited |-> 0]
          /\ since' = since
      BY <1>0, <2>2 DEF EnterGate
    <3>2. call'[c].step = "delay"
      BY <2>2, OthersMove DEF OneMoves
    <3> QED BY <1>0, <2>1, <3>1, <3>2 DEF GateNext, SpaceInv
\* Whoever passes closes the gate for the minimum delay.
  <2>3. CASE PassGate(c)
    <3>1. PICK jitter \in 0 .. MaxJitter :
             gate' = [by |-> Nobody, next |-> MinDelay + jitter, waited |-> 0]
      BY <2>3 DEF PassGate, NextAllowed
    <3>2. gate.by = c /\ since' = 0
      BY <2>3 DEF PassGate
    <3>3. call'[c].step = "sent"
      BY <2>3, OthersMove DEF OneMoves
    <3> QED BY <1>0, <2>1, <3>1, <3>2, <3>3 DEF GateNext
  <2>4. CASE GiveUp(c)
    <3>1. call'[c].step = "failed" /\ since' = since
      BY <2>4, OthersMove DEF OneMoves, GiveUp
    <3>2. CASE gate.by = c
      <4>1. gate' = [by |-> Nobody, next |-> gate.next, waited |-> 0]
        BY <1>0, <2>4, <3>2 DEF GiveUp
      <4> QED BY <1>0, <2>1, <3>1, <3>2, <4>1 DEF GateNext, SpaceInv
    <3>3. CASE gate.by # c
      <4>1. gate' = gate
        BY <2>4, <3>3 DEF GiveUp
      <4> QED BY <1>0, <2>1, <3>1, <3>3, <4>1, GateKept
    <3> QED BY <3>2, <3>3
  <2>5. CASE ~EnterGate(c) /\ ~PassGate(c) /\ ~GiveUp(c)
    <3>1. UNCHANGED <<gate, since>>
      BY <1>7, <2>5
      DEF ServerMoves, Look, LinkedInAnswers, FindActive, Invalidate, MarkRequired, LoadRow,
          SaveRow, ClearRequirement, Answer, AnswerWhole, server
    <3>2. call[c].step # "delay" /\ call'[c].step # "delay"
      BY <1>7, <2>5, LookMoves, AnswersMove, MarkMoves, LoadMoves, AnswerMoves, AnswerWholeMoves, OthersMove
      DEF ServerMoves, OneMoves
    <3> QED BY <2>1, <3>1, <3>2, GateKept
  <2> QED BY <2>2, <2>3, <2>4, <2>5
<1> QED BY <1>1, <1>2, <1>3, <1>4, <1>5, <1>6, <1>7, Kinds

-----------------------------------------------------------------------------
(* The dialog *)

Panels == {"connected", "curl", "replace"}

LEMMA DialogIs ==
  /\ Modal = [open : Flags, replacing : Flags, current : States, last : Told,
              panel : Panels, busy : Flags, reading : Flags]
  /\ Nothing \in States /\ Told \subseteq States /\ Nothing \notin Told
BY SessionAssumption DEF Modal, Flags, States, Panels, Told

LEMMA PanelIs ==
  ASSUME NEW state \in States, NEW replacing \in Flags
  PROVE  /\ Panel(state, replacing) \in Panels
         /\ Panel(state, replacing) = "connected" =>
               state # Nothing /\ Usable(state) /\ ~replacing
BY DEF Panel, Panels, Flags

LEMMA AppliedIs ==
  ASSUME NEW m \in Modal, NEW state \in Told
  PROVE  LET q == Applied(m, state)
         IN  /\ q \in Modal /\ q.busy = m.busy /\ q.reading = m.reading
             /\ q.current = state /\ q.last = state
             /\ q.panel = "connected" => Usable(state)
<1> DEFINE replacing == m.replacing /\ Usable(state)
           panel == Panel(state, replacing)
           q == [m EXCEPT !.current = state, !.last = state, !.replacing = replacing,
                          !.panel = panel]
<1>1. replacing \in Flags /\ state \in States
  BY DialogIs DEF Flags
<1>2. panel \in Panels /\ (panel = "connected" => Usable(state))
  BY <1>1, PanelIs
<1>3. Applied(m, state) = q
  BY DEF Applied
<1> HIDE DEF replacing, panel
<1>4. /\ q \in Modal /\ q.busy = m.busy /\ q.reading = m.reading
      /\ q.current = state /\ q.last = state /\ q.panel = panel
  BY <1>1, <1>2, DialogIs
<1> HIDE DEF q
<1> QED BY <1>2, <1>3, <1>4

LEMMA EndedIs ==
  ASSUME NEW m \in Modal
  PROVE  LET q == ActionEnds(m)
         IN  /\ q \in Modal /\ q.busy = FALSE /\ q.reading = FALSE
             /\ q.current = m.current /\ q.last = m.last /\ q.panel = m.panel
BY DialogIs, CallIs DEF ActionEnds

\* What ends the action of the dialog, or leaves it alone.
DialogNext(busy, reading) ==
    /\ modal' \in Modal /\ modal'.busy = busy /\ modal'.reading = reading
    /\ modal'.current \in {Nothing, modal'.last}
    /\ modal'.panel = "connected" => Usable(modal'.last)

LEMMA DialogMoves ==
  ASSUME TypeOK, ViewInv, StepInv
  PROVE  /\ Show \/ Hide \/ StartReplace \/ CancelReplace => DialogNext(modal.busy, modal.reading)
         /\ ImportCurl \/ Revoke => DialogNext(TRUE, modal.reading)
         /\ ActionRefused => DialogNext(modal.busy, TRUE)
         /\ ActionDone \/ ActionLost => DialogNext(FALSE, FALSE)
         /\ \A r \in reads : /\ StateArrives(r) => DialogNext(modal.busy, modal.reading)
                             /\ RefusedStateArrives(r) => DialogNext(FALSE, FALSE)
<1>0. /\ modal \in Modal /\ TRUE \in Flags /\ FALSE \in Flags
      /\ modal.current \in {Nothing, modal.last}
      /\ modal.panel = "connected" => Usable(modal.last)
      /\ modal.current \in States
  BY CallIs, DialogIs DEF TypeOK, ViewInv
<1>1. ASSUME Show PROVE DialogNext(modal.busy, modal.reading)
  <2>1. modal' = [modal EXCEPT !.open = TRUE, !.replacing = FALSE]
    BY <1>1 DEF Show
  <2> QED BY <1>0, <2>1, DialogIs DEF DialogNext
<1>2. ASSUME Hide PROVE DialogNext(modal.busy, modal.reading)
  <2>1. modal' = [modal EXCEPT !.open = FALSE, !.replacing = FALSE, !.current = Nothing]
    BY <1>2 DEF Hide
  <2> QED BY <1>0, <2>1, DialogIs DEF DialogNext
<1>3. ASSUME StartReplace \/ CancelReplace PROVE DialogNext(modal.busy, modal.reading)
  <2> DEFINE panel(b) == Panel(modal.current, b)
  <2>1. PICK b \in Flags : modal' = [modal EXCEPT !.replacing = b, !.panel = panel(b)]
    BY <1>0, <1>3 DEF StartReplace, CancelReplace
  <2>2. panel(b) \in Panels /\ (panel(b) = "connected" => Usable(modal.last))
    BY <1>0, PanelIs
  <2> HIDE DEF panel
  <2> QED BY <1>0, <2>1, <2>2, DialogIs DEF DialogNext
<1>4. ASSUME ImportCurl PROVE DialogNext(TRUE, modal.reading)
  <2>1. modal' = [modal EXCEPT !.busy = TRUE]
    BY <1>4 DEF ImportCurl
  <2> QED BY <1>0, <2>1, DialogIs DEF DialogNext
<1>5. ASSUME Revoke PROVE DialogNext(TRUE, modal.reading)
  <2>1. modal' = [modal EXCEPT !.busy = TRUE, !.replacing = FALSE]
    BY <1>5 DEF Revoke
  <2> QED BY <1>0, <2>1, DialogIs DEF DialogNext
<1>6. ASSUME ActionRefused PROVE DialogNext(modal.busy, TRUE)
  <2>1. modal' = [modal EXCEPT !.reading = TRUE]
    BY <1>6 DEF ActionRefused
  <2> QED BY <1>0, <2>1, DialogIs DEF DialogNext
<1>7. ASSUME ActionLost PROVE DialogNext(FALSE, FALSE)
  <2>1. modal' = ActionEnds(modal)
    BY <1>7 DEF ActionLost
  <2> QED BY <1>0, <2>1, EndedIs DEF DialogNext
<1>8. ASSUME ActionDone PROVE DialogNext(FALSE, FALSE)
  <2> DEFINE told == call["modal"].told
             m == Applied(modal, told)
             replacing == IF call["modal"].op = "import" THEN FALSE ELSE m.replacing
             q == [m EXCEPT !.replacing = replacing]
  <2>1. modal' = ActionEnds(q)
    BY <1>8 DEF ActionDone
  <2>2. told \in Told
    <3>1. call["modal"] \in Call /\ "modal" \in Callers
      BY DEF TypeOK, Callers
    <3>2. told \in States /\ call["modal"].step = "told"
      BY <1>8, <3>1, CallIs DEF ActionDone
    <3> QED BY <3>1, <3>2 DEF States, StepInv, StepOk
  <2>3. /\ m \in Modal /\ m.current = told /\ m.last = told
        /\ m.panel = "connected" => Usable(told)
    BY <1>0, <2>2, AppliedIs
  <2> HIDE DEF m
  <2>4. replacing \in Flags
    BY <1>0, <2>3, DialogIs
  <2> HIDE DEF replacing
  <2>5. /\ q \in Modal /\ q.current = told /\ q.last = told
        /\ q.panel = "connected" => Usable(told)
    BY <2>3, <2>4, DialogIs
  <2> HIDE DEF q, told
  <2> QED BY <2>1, <2>5, EndedIs DEF DialogNext
<1>9. ASSUME NEW r \in reads
      PROVE  /\ StateArrives(r) => DialogNext(modal.busy, modal.reading)
             /\ RefusedStateArrives(r) => DialogNext(FALSE, FALSE)
  <2> DEFINE m == Applied(modal, r.told)
  <2>1. r.told \in Told
    BY DEF TypeOK, Read
  <2>2. /\ m \in Modal /\ m.current = r.told /\ m.last = r.told
        /\ m.busy = modal.busy /\ m.reading = modal.reading
        /\ m.panel = "connected" => Usable(r.told)
    BY <1>0, <2>1, AppliedIs
  <2>3. /\ StateArrives(r) => modal' = m
        /\ RefusedStateArrives(r) => modal' = ActionEnds(m)
    BY DEF StateArrives, RefusedStateArrives
  <2> HIDE DEF m
  <2>4. ASSUME StateArrives(r) PROVE DialogNext(modal.busy, modal.reading)
    BY <2>2, <2>3, <2>4 DEF DialogNext
  <2>5. ASSUME RefusedStateArrives(r) PROVE DialogNext(FALSE, FALSE)
    BY <2>2, <2>3, <2>5, EndedIs DEF DialogNext
  <2> QED BY <2>4, <2>5
<1> QED BY <1>1, <1>2, <1>3, <1>4, <1>5, <1>6, <1>7, <1>8, <1>9

\* The next state of the invariants about the dialog.
DialogOk ==
    /\ modal' \in Modal /\ modal'.busy = (call'["modal"].step # "idle")
    /\ modal'.current \in {Nothing, modal'.last}
    /\ modal'.panel = "connected" => Usable(modal'.last)
    /\ modal'.reading => call'["modal"].step = "failed"
    /\ \A r \in reads' : r.by = "refused" => modal'.reading
    /\ \A r, q \in reads' : r.by = "refused" /\ q.by = "refused" => r = q

\* No read for a refused action begins, and the action goes on as it was.
LEMMA DialogKept ==
  ASSUME TypeOK, RefusedInv, DialogNext(modal.busy, modal.reading),
         \A r \in reads' : r.by = "refused" => r \in reads,
         call'["modal"].step = "idle" <=> call["modal"].step = "idle",
         call["modal"].step = "failed" => call'["modal"].step = "failed"
  PROVE  DialogOk
<1>1. modal'.busy = (call'["modal"].step # "idle")
  BY DEF TypeOK, DialogNext
<1> QED BY <1>1 DEF RefusedInv, DialogNext, DialogOk

LEMMA DialogSame ==
  ASSUME TypeOK, ViewInv, modal' = modal
  PROVE  DialogNext(modal.busy, modal.reading)
BY DEF TypeOK, ViewInv, DialogNext

\* Reads that begin and end are by someone.
LEMMA ReadsAre ==
  ASSUME TypeOK, NEW by \in {"dialog", "refused", "page"}, Reads(by)
  PROVE  /\ reads' \subseteq Read
         /\ \A r \in reads' : r \in reads \/ r.by = by
         /\ \A r, q \in reads' : r \in reads \/ q \in reads \/ r = q
<1> DEFINE r == [by |-> by, told |-> RowRead, whole |-> FALSE]
<1>1. r \in Read /\ r.by = by
  BY RowReadType DEF Read
<1>2. reads' = reads \cup {r}
  BY DEF Reads
<1> HIDE DEF r
<1> QED BY <1>1, <1>2 DEF TypeOK

LEMMA WholeRead ==
  ASSUME TypeOK, NEW r \in reads, ReadWhole(r)
  PROVE  /\ reads' \subseteq Read
         /\ \E q : reads' = (reads \ {r}) \cup {q} /\ q.by = r.by
<1>1. r \in Read /\ r.told \in Told
  BY DEF TypeOK, Read
<1> DEFINE told == Whole(r.told)
           q == [r EXCEPT !.told = told, !.whole = TRUE]
<1>2. told \in Told
  BY <1>1, WholeType
<1>3. reads' = (reads \ {r}) \cup {q}
  BY DEF ReadWhole
<1> HIDE DEF told
<1>4. q \in Read /\ q.by = r.by
  BY <1>1, <1>2 DEF Read
<1> HIDE DEF q
<1> QED BY <1>3, <1>4 DEF TypeOK

LEMMA DialogStep ==
  ASSUME TypeOK, StepInv, ViewInv, RefusedInv, [Next]_vars
  PROVE  DialogOk
<1>0. "modal" \in Callers /\ "modal" # "other" /\ "modal" # "page"
  BY DEF Callers
<1>1. CASE Restart
  <2>1. modal' = modal /\ reads' \subseteq reads
    BY <1>1 DEF Restart
  <2> QED BY <1>0, <1>1, <2>1, RestartMoves, DialogSame, DialogKept
<1>2. CASE Tick \/ Expire \/ UNCHANGED vars
  <2>1. UNCHANGED <<modal, reads, call>>
    BY <1>2 DEF Tick, Expire, vars
  <2> QED BY <2>1, DialogSame, DialogKept
<1>3. CASE StartReplace \/ CancelReplace \/ Hide
  <2>1. UNCHANGED <<reads, call>>
    BY <1>3 DEF StartReplace, CancelReplace, Hide
  <2> QED BY <1>3, <2>1, DialogMoves, DialogKept
<1>4. CASE Show
  <2>1. Reads("dialog") /\ call' = call
    BY <1>4 DEF Show
  <2>2. \A r \in reads' : r.by = "refused" => r \in reads
    BY <2>1, ReadsAre
  <2> QED BY <1>4, <2>1, <2>2, DialogMoves, DialogKept
<1>5. CASE RefreshGuard
  <2>1. Reads("page") /\ call' = call /\ modal' = modal
    BY <1>5 DEF RefreshGuard
  <2>2. \A r \in reads' : r.by = "refused" => r \in reads
    BY <2>1, ReadsAre
  <2> QED BY <2>1, <2>2, DialogSame, DialogKept
<1>6. ASSUME NEW r \in reads, GuardArrives(r) PROVE DialogOk
  <2>1. reads' \subseteq reads /\ call' = call /\ modal' = modal
    BY <1>6 DEF GuardArrives
  <2> QED BY <2>1, DialogSame, DialogKept
<1>13. ASSUME NEW r \in reads, ReadWhole(r) PROVE DialogOk
  <2>1. PICK q : reads' = (reads \ {r}) \cup {q} /\ q.by = r.by
    BY <1>13, WholeRead
  <2>2. modal' = modal /\ call' = call
    BY <1>13 DEF ReadWhole
  <2>3. DialogNext(modal.busy, modal.reading)
    BY <2>2, DialogSame
  <2>4. modal'.busy = (call'["modal"].step # "idle")
    BY <2>2 DEF TypeOK
  <2>5. /\ modal'.reading => call'["modal"].step = "failed"
        /\ \A p \in reads' : p.by = "refused" => modal'.reading
        /\ \A p, o \in reads' : p.by = "refused" /\ o.by = "refused" => p = o
    BY <2>1, <2>2 DEF RefusedInv
  <2> QED BY <2>3, <2>4, <2>5 DEF DialogNext, DialogOk
<1>7. ASSUME NEW r \in reads, StateArrives(r) PROVE DialogOk
  <2>1. reads' \subseteq reads /\ call' = call
    BY <1>7 DEF StateArrives
  <2> QED BY <1>7, <2>1, DialogMoves, DialogKept
<1>8. CASE ActionRefused
  <2>1. /\ Reads("refused") /\ call' = call
        /\ call["modal"].step = "failed" /\ ~modal.reading
    BY <1>8 DEF ActionRefused
  <2>2. \A r \in reads : r.by # "refused"
    BY <2>1 DEF RefusedInv
  <2>3. \A r, q \in reads' : r.by = "refused" /\ q.by = "refused" => r = q
    BY <2>1, <2>2, ReadsAre
  <2>4. DialogNext(modal.busy, TRUE)
    BY <1>8, DialogMoves
  <2>5. modal.busy = (call["modal"].step # "idle")
    BY DEF TypeOK
  <2> QED BY <2>1, <2>3, <2>4, <2>5 DEF DialogOk, DialogNext
<1>9. CASE ActionDone \/ ActionLost \/ \E r \in reads : RefusedStateArrives(r)
  <2>1. DialogNext(FALSE, FALSE)
    BY <1>9, DialogMoves
  <2>2. call'["modal"].step = "idle"
    BY <1>0, <1>9, EndsMoves DEF Ends
  <2>3. \A r \in reads' : r.by # "refused"
    <3>1. CASE ActionDone
      <4>1. reads' = reads /\ call["modal"].step = "told"
        BY <3>1 DEF ActionDone
      <4> QED BY <4>1 DEF RefusedInv
    <3>2. CASE ActionLost
      BY <3>2 DEF ActionLost
    <3>3. ASSUME NEW r \in reads, RefusedStateArrives(r) PROVE \A q \in reads' : q.by # "refused"
      BY <3>3 DEF RefusedStateArrives, RefusedInv
    <3> QED BY <1>9, <3>1, <3>2, <3>3
  <2> QED BY <2>1, <2>2, <2>3 DEF DialogOk, DialogNext
<1>10. CASE ImportCurl \/ Revoke
  <2>1. DialogNext(TRUE, modal.reading)
    BY <1>10, DialogMoves
  <2>2. call'["modal"].step # "idle"
    <3>1. CASE ImportCurl
      BY <3>1, <1>0, ImportMoves DEF ImportCurl
    <3>2. CASE Revoke
      <4>1. Start("modal", "revoke", "find") /\ "revoke" \in Ops
        BY <3>2 DEF Revoke, Ops
      <4> QED BY <1>0, <4>1, StartMoves, StepNames
    <3> QED BY <1>10, <3>1, <3>2
  <2>3. call["modal"].step = "idle" /\ reads' = reads
    BY <1>10 DEF ImportCurl, Revoke, MayClick, TypeOK
  <2> QED BY <2>1, <2>2, <2>3 DEF DialogOk, DialogNext, RefusedInv
<1>11. CASE OtherCalls \/ OtherEnds \/ VerifyPeriodically \/ Verified \/ VerificationLost
  <2>1. modal' = modal /\ reads' = reads
    BY <1>11 DEF OtherCalls, OtherEnds, VerifyPeriodically, Verified, VerificationLost, server
  <2>2. call'["modal"] = call["modal"]
    BY <1>0, <1>11 DEF OtherCalls, OtherEnds, VerifyPeriodically, Verified, VerificationLost,
                       Start, StartImport, TypeOK
  <2> QED BY <2>1, <2>2, DialogSame, DialogKept
<1>12. ASSUME NEW c \in Callers, ServerMoves(c) PROVE DialogOk
  <2>1. modal' = modal /\ reads' = reads
    BY <1>12
    DEF ServerMoves, Look, EnterGate, PassGate, GiveUp, LinkedInAnswers, FindActive, Invalidate,
        MarkRequired, LoadRow, SaveRow, ClearRequirement, Answer, AnswerWhole
  <2>2. OneMoves(c, Steps \ {"idle"}, Steps \ {"idle"})
    BY <1>12, ServerKeeps
  <2>3. c = "modal" => call[c].step # "failed"
    BY <1>0, <1>12
    DEF ServerMoves, Look, EnterGate, PassGate, GiveUp, LinkedInAnswers, FindActive, Invalidate,
        MarkRequired, LoadRow, SaveRow, ClearRequirement, Answer, AnswerWhole, TypeOK
  <2>4. /\ call'["modal"].step = "idle" <=> call["modal"].step = "idle"
        /\ call["modal"].step = "failed" => call'["modal"].step = "failed"
    BY <1>0, <2>2, <2>3 DEF OneMoves
  <2> QED BY <2>1, <2>4, DialogSame, DialogKept
<1> QED
  BY <1>1, <1>2, <1>3, <1>4, <1>5, <1>6, <1>7, <1>8, <1>9, <1>10, <1>11, <1>12,
     <1>13
  DEF Next, ServerMoves

LEMMA ReadsStep ==
  ASSUME TypeOK, [Next]_vars
  PROVE  reads' \subseteq Read /\ guard' \in BOOLEAN
<1>1. \/ reads' \subseteq reads
      \/ \E by \in {"dialog", "refused", "page"} : Reads(by)
      \/ \E r \in reads : ReadWhole(r)
  BY DEF Next, vars, Look, EnterGate, PassGate, GiveUp, LinkedInAnswers, FindActive, Invalidate,
         MarkRequired, LoadRow, SaveRow, ClearRequirement, Answer, AnswerWhole, Tick, Expire, Restart,
         OtherCalls, OtherEnds, Show, Hide, StartReplace, CancelReplace, ImportCurl, Revoke,
         ActionDone, ActionRefused, ActionLost, ReadWhole, StateArrives, RefusedStateArrives,
         GuardArrives, RefreshGuard, VerifyPeriodically, Verified, VerificationLost
<1>2. guard' = guard \/ \E state : guard' = Usable(state)
  BY DEF Next, vars, Look, EnterGate, PassGate, GiveUp, LinkedInAnswers, FindActive, Invalidate,
         MarkRequired, LoadRow, SaveRow, ClearRequirement, Answer, AnswerWhole, Tick, Expire, Restart,
         OtherCalls, OtherEnds, Show, Hide, StartReplace, CancelReplace, ImportCurl, Revoke,
         ActionDone, ActionRefused, ActionLost, ReadWhole, StateArrives, RefusedStateArrives,
         GuardArrives, RefreshGuard, VerifyPeriodically, Verified, VerificationLost
<1>3. reads' \subseteq Read
  BY <1>1, ReadsAre, WholeRead DEF TypeOK
<1> QED BY <1>2, <1>3 DEF TypeOK, Usable

-----------------------------------------------------------------------------
(* The invariant holds *)

LEMMA InitInv == Init => Inv
<1> SUFFICES ASSUME Init PROVE Inv
  OBVIOUS
<1>1. /\ MaxImports \in Nat /\ MinDelay \in Nat /\ MaxJitter \in Nat /\ MaxMoves \in Nat
      /\ Nobody \notin Callers
  BY SessionAssumption DEF Nobody, Callers
<1>2. /\ stored \in [snap : 0 .. MaxImports, active : BOOLEAN]
      /\ stored.active => stored.snap # 0
  <2>1. stored \in [snap : {0}, active : {FALSE}] \cup
                     (IF MaxImports > 0 THEN [snap : {1}, active : {TRUE}] ELSE {})
    BY DEF Init
  <2>2. ASSUME NEW S, NEW T, S \subseteq 0 .. MaxImports, T \subseteq BOOLEAN,
               stored \in [snap : S, active : T]
        PROVE  stored \in [snap : 0 .. MaxImports, active : BOOLEAN]
               /\ stored.snap \in S /\ stored.active \in T
    BY <2>2
  <2>3. CASE stored \in [snap : {0}, active : {FALSE}]
    <3>1. {0} \subseteq 0 .. MaxImports /\ {FALSE} \subseteq BOOLEAN
      BY <1>1
    <3>2. /\ stored \in [snap : 0 .. MaxImports, active : BOOLEAN]
          /\ stored.active \in {FALSE}
      BY <2>3, <2>2, <3>1, Zenon
    <3> QED BY <3>2
  <2>4. CASE MaxImports > 0 /\ stored \in [snap : {1}, active : {TRUE}]
    <3>1. {1} \subseteq 0 .. MaxImports /\ {TRUE} \subseteq BOOLEAN
      BY <1>1, <2>4
    <3>2. /\ stored \in [snap : 0 .. MaxImports, active : BOOLEAN]
          /\ stored.snap \in {1}
      BY <2>4, <2>2, <3>1, Zenon
    <3> QED BY <3>2
  <2> QED BY <2>1, <2>3, <2>4
<1>3. /\ imports = stored.snap /\ accepted = 1 .. stored.snap /\ reset = 0 /\ rejected = {}
      /\ gate = [by |-> Nobody, next |-> 0, waited |-> 0] /\ since = MinDelay
      /\ reads = {} /\ used = 0 /\ guard = stored.active
  BY DEF Init
<1>4. /\ call \in [Callers -> Call]
      /\ \A c \in Callers : call[c].step = "idle" /\ call[c].snap = 0
  BY IdleType DEF Init
<1>5. Now \in Told
  <2>1. ASSUME NEW a \in Flags, NEW b \in Flags PROVE [stored |-> a, reset |-> b] \in Told
    BY DEF Told, Flags
  <2>2. stored.active \in Flags /\ FALSE \in Flags
    BY <1>2 DEF Flags
  <2>3. RowRead \in Told
    BY <2>1, <2>2 DEF RowRead
  <2> QED BY <2>3, WholeType DEF Now
<1>6. /\ modal \in Modal /\ modal.busy = FALSE /\ modal.reading = FALSE
      /\ modal.current = Nothing /\ modal.last = Now
      /\ modal.panel = "connected" => Usable(Now)
  <2> DEFINE panel == Panel(Now, FALSE)
             now == Now
  <2>1. /\ panel \in Panels /\ (panel = "connected" => Usable(Now))
        /\ TRUE \in Flags /\ FALSE \in Flags /\ Nothing \in States /\ now \in Told
    BY <1>5, PanelIs, DialogIs, CallIs
  <2>2. modal = [open |-> FALSE, replacing |-> FALSE, current |-> Nothing, last |-> now,
                 panel |-> panel, busy |-> FALSE, reading |-> FALSE]
    BY DEF Init
  <2> HIDE DEF panel, now
  <2>3. /\ modal \in Modal /\ modal.busy = FALSE /\ modal.reading = FALSE
        /\ modal.current = Nothing /\ modal.last = now /\ modal.panel = panel
    BY <2>1, <2>2, DialogIs
  <2> QED BY <2>1, <2>3 DEF now
<1>7. TypeOK
  <2>1. "modal" \in Callers
    BY DEF Callers
  <2>2. accepted \subseteq Snapshots /\ imports \in 0 .. MaxImports
    BY <1>1, <1>2, <1>3 DEF Snapshots
  <2>3. gate \in [by : Callers \cup {Nobody}, next : 0 .. MinDelay + MaxJitter,
                  waited : 0 .. MinDelay + MaxJitter]
    BY <1>1, <1>3
  <2>4. \A c \in Callers : gate.by = c <=> call[c].step = "delay"
    BY <1>1, <1>3, <1>4
  <2>5. modal.busy = (call["modal"].step # "idle")
    BY <1>4, <1>6, <2>1
  <2>6. /\ guard \in BOOLEAN /\ used \in 0 .. MaxMoves /\ since \in 0 .. MinDelay
        /\ reads \subseteq Read /\ rejected \subseteq Snapshots /\ reset \in {0, 401, 403}
    BY <1>1, <1>2, <1>3
  <2> QED BY <1>2, <1>4, <1>6, <2>2, <2>3, <2>4, <2>5, <2>6 DEF TypeOK
<1>8. StepInv /\ FreshInv
  BY <1>4 DEF StepInv, StepOk, Withdrawn, FreshInv, Fresh
<1>9. Numbered
  BY <1>1, <1>2, <1>3, <1>4 DEF Numbered
<1>10. RejectedIsNotUsed /\ SpaceInv
  BY <1>1, <1>3 DEF RejectedIsNotUsed, SpaceInv
<1>11. ViewInv /\ RefusedInv
  BY <1>3, <1>6 DEF ViewInv, RefusedInv
<1> QED BY <1>7, <1>8, <1>9, <1>10, <1>11 DEF Inv

LEMMA InvStep == Inv /\ [Next]_vars => Inv'
<1> SUFFICES ASSUME Inv, [Next]_vars PROVE Inv'
  OBVIOUS
<1> USE DEF Inv
<1>1. call' \in [Callers -> Call] /\ \A c \in Callers : StepOk(call'[c])
  BY CallsStep, StepsStep
<1>2. SnapshotsNext
  BY SnapshotsStep
<1>3. GateNext
  BY GateStep
<1>4. DialogOk
  BY DialogStep
<1>5. reads' \subseteq Read /\ guard' \in BOOLEAN /\ used' \in 0 .. MaxMoves
  BY ReadsStep, UsedStep
<1>6. /\ stored' \in [snap : Numbers, active : Flags] /\ reset' \in {0, 401, 403}
      /\ accepted' \subseteq Snapshots /\ imports' \in 0 .. MaxImports
  BY SessionStep
<1>7. rejected' \subseteq Snapshots
  BY <1>2, <1>6, SessionAssumption DEF SnapshotsNext, Snapshots
<1>8. TypeOK'
  BY <1>1, <1>3, <1>4, <1>5, <1>6, <1>7 DEF TypeOK, GateNext, DialogOk, Numbers, Flags
<1>9. StepInv'
  BY <1>1, <1>2 DEF StepInv, StepOk, Withdrawn, SnapshotsNext
<1>10. Numbered' /\ FreshInv' /\ RejectedIsNotUsed'
  BY <1>2 DEF Numbered, FreshInv, Fresh, FreshNext, RejectedIsNotUsed, SnapshotsNext
<1>11. SpaceInv'
  BY <1>3 DEF SpaceInv, GateNext
<1>12. ViewInv' /\ RefusedInv'
  BY <1>4 DEF ViewInv, RefusedInv, DialogOk, Usable
<1> QED BY <1>8, <1>9, <1>10, <1>11, <1>12

\* The inductive invariant holds, for any number of imports, delays and reads.
THEOREM Invariance == Spec => []Inv
BY InitInv, InvStep, PTL DEF Spec

\* Every part of the session, its calls, the gate and the dialog has its type;
\* the gate's holder waits in it, and the dialog never has two actions.
THEOREM TypeCorrect == Spec => []TypeOK
<1>1. Inv => TypeOK
  BY DEF Inv
<1> QED BY Invariance, <1>1, PTL

\* A session whose request was answered with 401 is not used again, however
\* imports, resets, verifications and rejections run beside its use.
THEOREM RejectedNeverUsed == Spec => []RejectedIsNotUsed
<1>1. Inv => RejectedIsNotUsed
  BY DEF Inv
<1> QED BY Invariance, <1>1, PTL

\* The dialog shows a way to import a session whenever the tab was last told
\* that there is no usable one.
THEOREM RecoveryAlwaysOffered == Spec => []RecoveryIsOffered
<1>1. Inv => RecoveryIsOffered
  BY DEF Inv, ViewInv, RecoveryIsOffered
<1> QED BY Invariance, <1>1, PTL

\* Requests to LinkedIn pass the gate at least the minimum delay apart.
THEOREM RequestsSpaced == Spec => RequestsAreSpaced
<1> DEFINE Spaced == \A c \in Callers : call[c].step = "delay" /\ call'[c].step = "sent"
                                           => since >= MinDelay
<1>1. Inv /\ Next => Spaced
  <2> SUFFICES ASSUME Inv, Next, NEW c \in Callers,
                      call[c].step = "delay", call'[c].step = "sent"
               PROVE  since >= MinDelay
    OBVIOUS
  <2> USE DEF Inv
  <2>0. /\ MinDelay \in Nat /\ since \in 0 .. MinDelay /\ since + gate.next >= MinDelay
    BY SessionAssumption DEF TypeOK, SpaceInv
\* Nobody but whoever passes the gate goes from the delay to a request.
  <2>1. CASE \E d \in Callers : PassGate(d)
    BY <2>0, <2>1 DEF PassGate
  <2>2. CASE Restart
    BY <2>2, RestartMoves
  <2>3. CASE Quiet
    BY <2>3, QuietKeeps
  <2>4. ASSUME NEW d \in Callers, ServerMoves(d), ~PassGate(d) PROVE FALSE
    <3>1. \A e \in Callers \ {d} : call'[e] = call[e]
      BY <2>4, ServerKeeps DEF OneMoves
    <3>2. ~(call[d].step = "delay" /\ call'[d].step = "sent")
      BY <2>4, LookMoves, AnswersMove, MarkMoves, LoadMoves, AnswerMoves, AnswerWholeMoves, OthersMove
      DEF ServerMoves, OneMoves
    <3> QED BY <3>1, <3>2
  <2>5. ASSUME NEW d \in Callers, Imports(d) PROVE FALSE
    BY <2>5, ImportsMoves, ImportMoves DEF Becomes
  <2>6. ASSUME NEW d \in Callers, Ends(d) PROVE FALSE
    BY <2>6, EndsMoves DEF Becomes
  <2>7. ASSUME NEW d \in Callers, NEW op \in Ops \ {"import"}, Begins(d, op) PROVE FALSE
    BY <2>7, BeginsMoves DEF Becomes
  <2> QED BY <2>1, <2>2, <2>3, <2>4, <2>5, <2>6, <2>7, Kinds
<1>2. Inv /\ [Next]_vars => [Spaced]_vars
  BY <1>1
<1> QED BY Invariance, <1>2, PTL DEF Spec, RequestsAreSpaced

=============================================================================
