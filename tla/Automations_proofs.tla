------------------------ MODULE Automations_proofs ------------------------
(* What a run is accepted with is what the runtime is given, once, for any   *)
(* number of runs, times, edits, requests and faults.                        *)
(*                                                                           *)
(* Two facts carry it. Whoever holds a copy of the schedule has the task of  *)
(* its revision (SeenTrue), so that a claim, which compares revisions, takes *)
(* the current task into the run. And the state of a message tells whether   *)
(* the runtime may have it (Untaken, TakenOnce): only a message that was     *)
(* never sent is sent.                                                       *)
EXTENDS Automations, TLAPS

Statuses == {"active", "paused"}
Row == [text : Nat, status : Statuses, next : Nat, revision : Nat]
Seen == [text : Nat, status : Statuses \cup {None}, next : Nat, revision : Nat]
LoopRow == [at : {"wait", "due"}, seen : Seen, now : Nat, recovered : BOOLEAN]
HandlerRow == [at : {"idle", "read", "spawn"}, request : Request \cup {None},
               run : Run \cup {0}, seen : Seen]

RunRow == [state : {None, "running", "completed", "failed"}, at : Nat,
           request : Request \cup {None}, text : Nat, linked : BOOLEAN]
Unsent == {None, "waiting", "claimed", "safe"}
Stage == Unsent \cup {"sent", "uncertain", "active", "completed", "interrupted"}
TurnState == {None, "running", "completed", "interrupted", "cut"}

(* The schedule and the copies of it.                                        *)
ScheduleOK == schedule \in Row /\ clock \in Nat /\ loop \in LoopRow /\ handler \in HandlerRow

TrueCopy(seen) == /\ seen.revision <= schedule.revision
                  /\ seen.revision = schedule.revision => seen.text = schedule.text

SeenTrue == /\ loop.at = "due" => TrueCopy(loop.seen)
            /\ handler.at = "read" => TrueCopy(handler.seen)

SeenInv == ScheduleOK /\ SeenTrue

(* The runs, their messages and turns.                                       *)
RunsOK == run \in [Run -> RunRow] /\ agreed \in [Run -> Nat]
WorkOK == /\ message \in [Run -> Stage] /\ turn \in [Run -> TurnState]
          /\ notice \in [Run -> {None, "due", "half"}]
          /\ taken \in [Run -> Seq(Nat)] /\ wire \subseteq Run

TextKept == \A r \in Run : run[r].text = agreed[r]
Blank == \A r \in Run : run[r].state = None => message[r] = None
Untaken == \A r \in Run : message[r] \in Unsent => r \notin wire /\ turn[r] = None
TakenOnce == \A r \in Run :
    /\ taken[r] = IF turn[r] = None THEN <<>> ELSE <<run[r].text>>
    /\ r \in wire => turn[r] = None
Noticed == \A r \in Run :
    /\ notice[r] # None => turn[r] \in {"completed", "interrupted"}
    /\ message[r] = "active" => turn[r] # None

WorkInv == WorkOK /\ Untaken /\ Noticed /\ Blank /\ TakenOnce
IInv == SeenInv /\ RunsOK /\ TextKept /\ WorkInv

seenVars == <<schedule, clock, loop, handler>>
rowVars == <<runVars, message, turn, notice, taken, wire>>

-----------------------------------------------------------------------------
(* The initial state satisfies the invariant.                                *)
THEOREM InitOK == Init => IInv
<1> SUFFICES ASSUME Init PROVE IInv
  OBVIOUS
<1>1. SeenInv
  BY DEF Init, SeenInv, ScheduleOK, SeenTrue, TrueCopy, Row, Seen, Statuses, LoopRow, HandlerRow,
         Idle, NoSeen, None
<1>2. RunsOK /\ TextKept
  BY DEF Init, RunsOK, TextKept, RunRow, None
<1>3. WorkInv
  BY DEF Init, WorkInv, WorkOK, Untaken, Noticed, Blank, TakenOnce, Unsent, Stage, TurnState, None
<1> QED
  BY <1>1, <1>2, <1>3 DEF IInv

(* Steps that touch neither the schedule nor a copy of it.                   *)
LEMMA SeenFrame == SeenInv /\ UNCHANGED seenVars => SeenInv'
BY DEF SeenInv, ScheduleOK, SeenTrue, TrueCopy, seenVars

(* Steps that touch no run, message or turn.                                 *)
LEMMA RowFrame == RunsOK /\ TextKept /\ WorkInv /\ UNCHANGED rowVars => RunsOK' /\ TextKept' /\ WorkInv'
BY DEF RunsOK, TextKept, WorkInv, WorkOK, Untaken, Noticed, Blank, TakenOnce, rowVars, runVars

(* An edit takes the next revision: no copy has it yet.                      *)
LEMMA EditStep ==
    ASSUME SeenInv, NEW row \in Row, row.revision = schedule.revision,
           schedule' = [row EXCEPT !.revision = @ + 1], UNCHANGED <<clock, loop, handler>>
    PROVE  SeenInv'
<1>1. ScheduleOK'
  BY DEF SeenInv, ScheduleOK, Row
<1>2. schedule'.revision = schedule.revision + 1
  BY DEF Row, SeenInv, ScheduleOK
<1>3. ASSUME NEW seen \in Seen, TrueCopy(seen) PROVE TrueCopy(seen)'
  <2>1. seen.revision <= schedule.revision /\ seen.revision \in Nat /\ schedule.revision \in Nat
    BY <1>3 DEF TrueCopy, Seen, SeenInv, ScheduleOK, Row
  <2> QED
    BY <2>1, <1>2 DEF TrueCopy
<1>4. loop.seen \in Seen /\ handler.seen \in Seen
  BY DEF SeenInv, ScheduleOK, LoopRow, HandlerRow
<1>5. SeenTrue'
  BY <1>3, <1>4 DEF SeenInv, SeenTrue
<1> QED
  BY <1>1, <1>5 DEF SeenInv

(* A row that is made active again.                                          *)
LEMMA Rows ==
    ASSUME NEW row \in Row, NEW n \in Nat
    PROVE  [row EXCEPT !.status = "active", !.next = n] \in Row
BY DEF Row, Statuses

(* What is read is a true copy.                                              *)
LEMMA ReadStep ==
    ASSUME ScheduleOK
    PROVE  TrueCopy(schedule) /\ schedule \in Seen
BY DEF ScheduleOK, TrueCopy, Row, Seen

(* The owner's edits.                                                        *)
LEMMA OwnerEdits ==
    ASSUME IInv, Reword \/ Pause \/ Reschedule
    PROVE  IInv'
<1>1. UNCHANGED rowVars
  BY DEF Reword, Pause, Reschedule, Edited, rowVars, workVars
<1>2. schedule \in Row /\ clock \in Nat
  BY DEF IInv, SeenInv, ScheduleOK
<1>3. PICK row \in Row : /\ row.revision = schedule.revision
                        /\ schedule' = [row EXCEPT !.revision = @ + 1]
                        /\ UNCHANGED <<clock, loop, handler>>
  <2>1. CASE Reword
    <3>1. [schedule EXCEPT !.text = @ + 1] \in Row
      BY <1>2 DEF Row
    <3> QED
      BY <1>2, <2>1, <3>1 DEF Reword, Edited, taskVars, Row
  <2>2. CASE Pause
    <3>1. [schedule EXCEPT !.status = "paused", !.next = 0] \in Row
      BY <1>2 DEF Row, Statuses
    <3> QED
      BY <1>2, <2>2, <3>1 DEF Pause, Edited, taskVars, Row
  <2>3. CASE Reschedule
    <3>1. [schedule EXCEPT !.status = "active", !.next = clock + 1] \in Row
      <4>1. clock + 1 \in Nat
        BY <1>2
      <4> QED
        BY <1>2, <4>1, Rows
    <3> QED
      BY <1>2, <2>3, <3>1 DEF Reschedule, Edited, taskVars, Row
  <2> QED
    BY <2>1, <2>2, <2>3
<1>4. SeenInv'
  BY <1>3, EditStep DEF IInv
<1> QED
  BY <1>1, <1>4, RowFrame DEF IInv

(* A claim takes the task of the schedule into the run: it had no message.   *)
LEMMA AcceptStep ==
    ASSUME RunsOK, TextKept, WorkInv, ScheduleOK,
           NEW r \in Run, NEW at \in Nat, NEW q \in Request \cup {None}, NEW seen \in Seen,
           seen.text = schedule.text, Accept(r, at, q, seen), UNCHANGED workVars
    PROVE  RunsOK' /\ TextKept' /\ WorkInv'
<1>1. /\ run[r].state = None
      /\ run' = [run EXCEPT ![r] = [state |-> "running", at |-> at, request |-> q,
                                    text |-> seen.text, linked |-> FALSE]]
      /\ agreed' = [agreed EXCEPT ![r] = schedule.text]
  BY DEF Accept, Free
<1>2. seen.text \in Nat /\ schedule.text \in Nat
  BY DEF Seen, ScheduleOK, Row
<1>3. [state |-> "running", at |-> at, request |-> q, text |-> seen.text, linked |-> FALSE] \in RunRow
  BY <1>2 DEF RunRow
<1>4. RunsOK'
  BY <1>1, <1>2, <1>3 DEF RunsOK
<1>5. TextKept'
  BY <1>1 DEF TextKept, RunsOK
<1>6. UNCHANGED <<message, turn, notice, taken, wire>>
  BY DEF workVars
<1>7. WorkOK' /\ Untaken' /\ Noticed'
  BY <1>6 DEF WorkInv, WorkOK, Untaken, Noticed
<1>8. message[r] = None /\ turn[r] = None
  BY <1>1 DEF WorkInv, Blank, Untaken, Unsent
<1>9. Blank'
  BY <1>1, <1>6, <1>8 DEF WorkInv, Blank, RunsOK
<1>10. TakenOnce'
  BY <1>1, <1>6, <1>8 DEF WorkInv, TakenOnce, RunsOK
<1> QED
  BY <1>4, <1>5, <1>7, <1>9, <1>10 DEF WorkInv

(* A step that only ends runs.                                               *)
LEMMA EndStep ==
    ASSUME RunsOK, TextKept, WorkInv, run' \in [Run -> RunRow],
           \A r \in Run : run'[r].text = run[r].text /\ (run'[r].state = None => run[r].state = None),
           UNCHANGED <<agreed, message, turn, notice, taken, wire>>
    PROVE  RunsOK' /\ TextKept' /\ WorkInv'
BY DEF RunsOK, TextKept, WorkInv, WorkOK, Untaken, Noticed, Blank, TakenOnce

LEMMA EndedRuns ==
    ASSUME RunsOK, NEW s \in Run, NEW state \in {"completed", "failed"}, run' = Ended(run, s, state)
    PROVE  /\ run' \in [Run -> RunRow]
           /\ \A r \in Run : run'[r].text = run[r].text /\ (run'[r].state = None => run[r].state = None)
BY DEF RunsOK, RunRow, Ended, None

(* The loop and the handler.                                                 *)
LEMMA TickStep == ASSUME IInv, Tick PROVE IInv'
<1>1. /\ UNCHANGED <<schedule, clock, agreed, handler, message, turn, notice, taken, wire>>
      /\ run' = [r \in Run |-> [run[r] EXCEPT !.state = Reconciled(r)]]
  BY DEF Tick, scheduleVars, workVars
<1>2. PICK ready \in BOOLEAN :
         loop' = [at |-> IF Due THEN "due" ELSE "wait", recovered |-> ready,
                  seen |-> IF Due THEN schedule ELSE NoSeen, now |-> IF Due THEN clock ELSE 0]
  BY DEF Tick
<1>3. ScheduleOK /\ SeenTrue /\ RunsOK /\ TextKept /\ WorkInv
  BY DEF IInv, SeenInv
<1>4. schedule \in Seen /\ TrueCopy(schedule)
  BY <1>3, ReadStep
<1>5. NoSeen \in Seen
  BY DEF NoSeen, Seen
<1>6. loop' \in LoopRow
  BY <1>2, <1>3, <1>4, <1>5 DEF LoopRow, ScheduleOK
<1>7. SeenInv'
  <2>1. ScheduleOK'
    BY <1>1, <1>3, <1>6 DEF ScheduleOK
  <2>2. loop'.at = "due" => TrueCopy(loop.seen)'
    BY <1>1, <1>2, <1>4 DEF TrueCopy
  <2>3. handler'.at = "read" => TrueCopy(handler.seen)'
    BY <1>1, <1>3 DEF SeenTrue, TrueCopy
  <2> QED
    BY <2>1, <2>2, <2>3 DEF SeenInv, SeenTrue
<1>8. \A r \in Run : /\ [run[r] EXCEPT !.state = Reconciled(r)] \in RunRow
                     /\ run[r].state # None => Reconciled(r) # None
  BY <1>3 DEF RunsOK, RunRow, Reconciled, None
<1>9. /\ run' \in [Run -> RunRow]
      /\ \A r \in Run : run'[r].text = run[r].text /\ (run'[r].state = None => run[r].state = None)
  BY <1>1, <1>3, <1>8 DEF RunsOK, RunRow
<1> QED
  BY <1>1, <1>3, <1>7, <1>9, EndStep DEF IInv

LEMMA ClaimDueStep == ASSUME IInv, NEW r \in Run, ClaimDue(r) PROVE IInv'
<1>1. ScheduleOK /\ SeenTrue /\ RunsOK /\ TextKept /\ WorkInv
  BY DEF IInv, SeenInv
<1>2. /\ loop.at = "due" /\ schedule.revision = loop.seen.revision
      /\ Accept(r, loop.seen.next, None, loop.seen)
      /\ schedule' = Advanced(loop.now) /\ TickOver
      /\ UNCHANGED <<clock, handler>> /\ UNCHANGED workVars
  BY DEF ClaimDue, Admits
<1>3. /\ loop.seen \in Seen /\ loop.seen.next \in Nat /\ loop.seen.text = schedule.text
      /\ loop.now \in Nat
  BY <1>1, <1>2 DEF ScheduleOK, LoopRow, Seen, SeenTrue, TrueCopy
<1>4. RunsOK' /\ TextKept' /\ WorkInv'
  BY <1>1, <1>2, <1>3, AcceptStep
<1>5. schedule' \in Row /\ schedule'.revision = schedule.revision + 1
  <2>1. schedule \in Row /\ schedule.revision \in Nat
    BY <1>1 DEF ScheduleOK, Row
  <2>2. loop.now + 1 \in Nat /\ schedule.revision + 1 \in Nat
    BY <1>3, <2>1
  <2>3. PICK n \in Nat, m \in Nat : n = loop.now + 1 /\ m = schedule.revision + 1
    BY <2>2
  <2>4. schedule' = [schedule EXCEPT !.next = n, !.revision = m]
    BY <1>2, <2>3 DEF Advanced
  <2>5. schedule' \in Row /\ schedule'.revision = m
    BY <2>1, <2>4 DEF Row
  <2> QED
    BY <2>3, <2>5
<1>6. loop' \in LoopRow /\ loop'.at = "wait"
  BY <1>1, <1>2 DEF TickOver, ScheduleOK, LoopRow, NoSeen, Seen
<1>7. handler.at = "read" => TrueCopy(handler.seen)'
  <2>1. handler.seen.revision \in Nat /\ schedule.revision \in Nat
    BY <1>1 DEF ScheduleOK, HandlerRow, Seen, Row
  <2> QED
    BY <1>1, <1>2, <1>5, <2>1 DEF SeenTrue, TrueCopy
<1>8. SeenInv'
  BY <1>1, <1>2, <1>5, <1>6, <1>7 DEF SeenInv, ScheduleOK, SeenTrue
<1> QED
  BY <1>4, <1>8 DEF IInv

LEMMA AskClaimsStep == ASSUME IInv, NEW r \in Run, AskClaims(r) PROVE IInv'
<1>1. ScheduleOK /\ SeenTrue /\ RunsOK /\ TextKept /\ WorkInv
  BY DEF IInv, SeenInv
<1>2. /\ handler.at = "read" /\ schedule.revision = handler.seen.revision
      /\ Accept(r, 0, handler.request, handler.seen)
      /\ handler' = [handler EXCEPT !.at = "spawn", !.run = r, !.seen = NoSeen]
      /\ UNCHANGED <<schedule, clock, loop>> /\ UNCHANGED workVars
  BY DEF AskClaims, Admits, scheduleVars
<1>3. /\ handler.seen \in Seen /\ handler.seen.text = schedule.text
      /\ handler.request \in Request \cup {None}
  BY <1>1, <1>2 DEF ScheduleOK, HandlerRow, SeenTrue, TrueCopy
<1>4. RunsOK' /\ TextKept' /\ WorkInv'
  BY <1>1, <1>2, <1>3, AcceptStep
<1>5. handler' \in HandlerRow /\ handler'.at = "spawn"
  BY <1>1, <1>2 DEF ScheduleOK, HandlerRow, NoSeen, Seen
<1>6. SeenInv'
  BY <1>1, <1>2, <1>5 DEF SeenInv, ScheduleOK, SeenTrue, TrueCopy
<1> QED
  BY <1>4, <1>6 DEF IInv

LEMMA WaitingSteps ==
    ASSUME IInv, \/ TimePasses \/ SkipDue \/ AskRefused \/ AskSpawns \/ AskDropped
                 \/ \E q \in Request : Ask(q)
    PROVE  IInv'
<1>1. ScheduleOK /\ SeenTrue /\ RunsOK /\ TextKept /\ WorkInv
  BY DEF IInv, SeenInv
<1>2. UNCHANGED rowVars
  BY DEF TimePasses, SkipDue, AskRefused, AskSpawns, AskDropped, Ask, rowVars, runVars, workVars
<1>3. schedule' = schedule
  BY DEF TimePasses, SkipDue, AskRefused, AskSpawns, AskDropped, Ask, scheduleVars
<1>4. NoSeen \in Seen /\ schedule \in Seen
  BY <1>1, ReadStep DEF NoSeen, Seen
<1>5. SeenInv'
  <2>1. CASE TimePasses
    BY <1>1, <1>3, <2>1 DEF TimePasses, taskVars, SeenInv, ScheduleOK, SeenTrue, TrueCopy
  <2>2. CASE SkipDue
    <3>1. loop' \in LoopRow /\ loop'.at = "wait"
      BY <1>1, <1>4, <2>2 DEF SkipDue, TickOver, ScheduleOK, LoopRow
    <3> QED
      BY <1>1, <1>3, <2>2, <3>1 DEF SkipDue, scheduleVars, SeenInv, ScheduleOK, SeenTrue, TrueCopy
  <2>3. CASE AskRefused \/ AskSpawns \/ AskDropped
    <3>1. handler' = Idle /\ UNCHANGED <<clock, loop>>
      BY <2>3 DEF AskRefused, AskSpawns, AskDropped, scheduleVars
    <3>2. Idle \in HandlerRow /\ Idle.at = "idle"
      BY <1>4 DEF Idle, HandlerRow
    <3> QED
      BY <1>1, <1>3, <3>1, <3>2 DEF SeenInv, ScheduleOK, SeenTrue, TrueCopy
  <2>4. ASSUME NEW q \in Request, Ask(q) PROVE SeenInv'
    <3>1. /\ handler' = [Idle EXCEPT !.at = "read", !.request = q, !.seen = schedule]
          /\ UNCHANGED <<clock, loop>>
      BY <2>4 DEF Ask, scheduleVars
    <3>2. handler' \in HandlerRow /\ handler'.seen = schedule
      BY <1>4, <3>1 DEF Idle, HandlerRow
    <3>3. TrueCopy(handler.seen)'
      BY <1>1, <1>3, <3>2, ReadStep DEF TrueCopy
    <3> QED
      BY <1>1, <1>3, <3>1, <3>2, <3>3 DEF SeenInv, ScheduleOK, SeenTrue, TrueCopy
  <2> QED
    BY <2>1, <2>2, <2>3, <2>4
<1> QED
  BY <1>1, <1>2, <1>5, RowFrame DEF IInv

(* One message changes its stage: it becomes sendable only from a stage in   *)
(* which it was never sent, and active only with a turn.                     *)
LEMMA StageStep ==
    ASSUME RunsOK, TextKept, WorkInv, NEW r \in Run, NEW stage \in Stage,
           message[r] # None, message' = [message EXCEPT ![r] = stage],
           stage \in Unsent => message[r] \in Unsent,
           stage = "active" => turn[r] # None,
           UNCHANGED <<run, agreed, turn, notice, taken, wire>>
    PROVE  RunsOK' /\ TextKept' /\ WorkInv'
<1>1. WorkOK'
  BY DEF WorkInv, WorkOK
<1>2. Untaken' /\ Noticed'
  BY DEF WorkInv, WorkOK, Untaken, Noticed
<1>3. Blank' /\ TakenOnce'
  BY DEF WorkInv, WorkOK, Blank, TakenOnce
<1> QED
  BY <1>1, <1>2, <1>3 DEF RunsOK, TextKept, WorkInv

(* The tasks of a run.                                                       *)
LEMMA TaskSteps ==
    ASSUME IInv, NEW r \in Run, NEW k \in Spawner, TaskStep(r, k)
    PROVE  IInv'
<1>1. SeenInv /\ RunsOK /\ TextKept /\ WorkInv
  BY DEF IInv
<1>2. UNCHANGED seenVars
  BY DEF TaskStep, Unavailable, Materialize, MaterializeFails, TaskEnds, seenVars, scheduleVars
<1>3. SeenInv'
  BY <1>1, <1>2, SeenFrame
<1>4. CASE Unavailable(r, k)
  <2>1. run' = Ended(run, r, "failed") /\ UNCHANGED <<agreed, message, turn, notice, taken, wire>>
    BY <1>4 DEF Unavailable, workVars
  <2> QED
    BY <1>1, <1>3, <2>1, EndedRuns, EndStep DEF IInv
<1>5. CASE Materialize(r, k)
  <2>1. /\ run[r].state = "running" /\ run' = [run EXCEPT ![r].linked = TRUE]
        /\ message' = Made(r) /\ UNCHANGED <<agreed, turn, notice, taken, wire>>
    BY <1>5 DEF Materialize
  <2>2. RunsOK' /\ \A s \in Run : run'[s].text = run[s].text /\ run'[s].state = run[s].state
    BY <1>1, <2>1 DEF RunsOK, RunRow
  <2>3. TextKept'
    BY <1>1, <2>1, <2>2 DEF TextKept
  <2>4. WorkOK'
    BY <1>1, <2>1 DEF WorkInv, WorkOK, Made, Stage, Unsent
  <2>5. \A s \in Run : /\ message'[s] \in Unsent => message[s] \in Unsent
                       /\ message'[s] = "active" => message[s] = "active"
                       /\ s # r => message'[s] = message[s]
    BY <1>1, <2>1 DEF WorkInv, WorkOK, Made, Unsent, None
  <2>6. Untaken' /\ Noticed' /\ Blank'
    BY <1>1, <2>1, <2>2, <2>5 DEF WorkInv, Untaken, Noticed, Blank, None
  <2>7. TakenOnce'
    BY <1>1, <2>1, <2>2 DEF WorkInv, TakenOnce
  <2> QED
    BY <1>3, <2>2, <2>3, <2>4, <2>6, <2>7 DEF IInv, WorkInv
<1>6. CASE MaterializeFails(r, k) \/ TaskEnds(r, k)
  <2>1. UNCHANGED rowVars
    BY <1>6 DEF MaterializeFails, TaskEnds, rowVars, workVars
  <2> QED
    BY <1>1, <1>3, <2>1, RowFrame DEF IInv
<1> QED
  BY <1>4, <1>5, <1>6 DEF TaskStep

(* The submission of its message.                                            *)
LEMMA SubmissionSteps ==
    ASSUME IInv, NEW r \in Run, Submission(r)
    PROVE  IInv'
<1>1. SeenInv /\ RunsOK /\ TextKept /\ WorkInv
  BY DEF IInv
<1>2. UNCHANGED seenVars
  BY DEF Submission, Claim, Submit, PrepareFails, Answered, Unanswered, seenVars, scheduleVars, taskVars
<1>3. SeenInv'
  BY <1>1, <1>2, SeenFrame
<1>4. CASE Claim(r)
  <2>1. /\ message[r] = "waiting" /\ message' = [message EXCEPT ![r] = "claimed"]
        /\ UNCHANGED <<run, agreed, turn, notice, taken, wire>>
    BY <1>4 DEF Claim, runVars
  <2>2. "claimed" \in Stage /\ message[r] \in Unsent /\ message[r] # None
    BY <2>1 DEF Stage, Unsent, None
  <2> QED
    BY <1>1, <1>3, <2>1, <2>2, StageStep DEF IInv
<1>5. CASE Submit(r)
  <2>1. /\ message[r] = "claimed" /\ message' = [message EXCEPT ![r] = "sent"]
        /\ wire' = wire \cup {r} /\ UNCHANGED <<run, agreed, turn, notice, taken>>
    BY <1>5 DEF Submit, runVars
  <2>2. turn[r] = None
    BY <1>1, <2>1 DEF WorkInv, Untaken, Unsent
  <2>3. RunsOK' /\ TextKept'
    BY <1>1, <2>1 DEF RunsOK, TextKept
  <2>4. WorkOK'
    BY <1>1, <2>1 DEF WorkInv, WorkOK, Stage
  <2>5. Untaken' /\ Noticed'
    BY <1>1, <2>1 DEF WorkInv, WorkOK, Untaken, Noticed, Unsent, None
  <2>6. Blank' /\ TakenOnce'
    BY <1>1, <2>1, <2>2 DEF WorkInv, WorkOK, Blank, TakenOnce, None
  <2> QED
    BY <1>3, <2>3, <2>4, <2>5, <2>6 DEF IInv, WorkInv
<1>6. CASE Answered(r)
  <2>1. /\ message[r] = "sent" /\ turn[r] # None /\ message' = [message EXCEPT ![r] = "active"]
        /\ UNCHANGED <<run, agreed, turn, notice, taken, wire>>
    BY <1>6 DEF Answered, runVars
  <2>2. "active" \in Stage /\ "active" \notin Unsent /\ message[r] # None
    BY <2>1 DEF Stage, Unsent, None
  <2> QED
    BY <1>1, <1>3, <2>1, <2>2, StageStep DEF IInv
<1>7. CASE PrepareFails(r) \/ Unanswered(r)
  <2>1. PICK stage \in {"safe", "uncertain"} :
           /\ message' = [message EXCEPT ![r] = stage]
           /\ stage = "safe" => message[r] = "claimed"
           /\ stage = "uncertain" => message[r] = "sent"
           /\ run' = Ended(run, r, "failed")
           /\ UNCHANGED <<agreed, turn, notice, taken, wire>>
    BY <1>7 DEF PrepareFails, Unanswered
  <2>2. /\ run' \in [Run -> RunRow]
        /\ \A s \in Run : run'[s].text = run[s].text /\ (run'[s].state = None => run[s].state = None)
    BY <1>1, <2>1, EndedRuns
  <2>3. RunsOK' /\ TextKept'
    BY <1>1, <2>1, <2>2 DEF RunsOK, TextKept
  <2>4. WorkOK'
    BY <1>1, <2>1 DEF WorkInv, WorkOK, Stage, Unsent
  <2>5. Untaken' /\ Noticed'
    BY <1>1, <2>1 DEF WorkInv, WorkOK, Untaken, Noticed, Unsent, None
  <2>6. Blank'
    BY <1>1, <2>1, <2>2 DEF WorkInv, WorkOK, Blank, None
  <2>7. TakenOnce'
    BY <1>1, <2>1, <2>2 DEF WorkInv, WorkOK, TakenOnce
  <2> QED
    BY <1>3, <2>3, <2>4, <2>5, <2>6, <2>7 DEF IInv, WorkInv
<1> QED
  BY <1>4, <1>5, <1>6, <1>7 DEF Submission

(* The runtime takes the message: for the first time, with the run's text.   *)
LEMMA TakeStep == ASSUME IInv, NEW r \in Run, Take(r) PROVE IInv'
<1>1. SeenInv /\ RunsOK /\ TextKept /\ WorkInv
  BY DEF IInv
<1>2. /\ r \in wire /\ wire' = wire \ {r} /\ turn' = [turn EXCEPT ![r] = "running"]
      /\ taken' = [taken EXCEPT ![r] = Append(@, run[r].text)]
      /\ UNCHANGED <<run, agreed, message, notice>> /\ UNCHANGED seenVars
  BY DEF Take, runVars, seenVars, scheduleVars, taskVars
<1>3. turn[r] = None /\ taken[r] = <<>> /\ message[r] \notin Unsent /\ notice[r] = None
  BY <1>1, <1>2 DEF WorkInv, TakenOnce, Untaken, Noticed, None
<1>4. run[r].text \in Nat
  BY <1>1 DEF RunsOK, RunRow
<1>5. taken' = [taken EXCEPT ![r] = <<run[r].text>>]
  BY <1>2, <1>3, <1>4
<1>6. WorkOK'
  <2>1. <<run[r].text>> \in Seq(Nat)
    BY <1>4
  <2> QED
    BY <1>1, <1>2, <1>5, <2>1 DEF WorkInv, WorkOK, TurnState
<1>7. Untaken' /\ Noticed'
  BY <1>1, <1>2, <1>3 DEF WorkInv, WorkOK, Untaken, Noticed, None
<1>8. Blank' /\ TakenOnce'
  BY <1>1, <1>2, <1>3, <1>5 DEF WorkInv, WorkOK, Blank, TakenOnce, None
<1>9. RunsOK' /\ TextKept'
  BY <1>1, <1>2 DEF RunsOK, TextKept
<1>10. SeenInv'
  BY <1>1, <1>2, SeenFrame
<1> QED
  BY <1>6, <1>7, <1>8, <1>9, <1>10 DEF IInv, WorkInv

(* A turn that runs is over, and its notice written.                         *)
LEMMA OverStep ==
    ASSUME RunsOK, TextKept, WorkInv, NEW r \in Run, turn[r] = "running",
           NEW end \in {"completed", "interrupted"},
           turn' = [turn EXCEPT ![r] = end], notice' = [notice EXCEPT ![r] = "due"],
           \/ UNCHANGED message
           \/ message[r] = "active" /\ message' = [message EXCEPT ![r] = "interrupted"],
           UNCHANGED <<run, agreed, taken, wire>>
    PROVE  RunsOK' /\ TextKept' /\ WorkInv'
<1>1. WorkOK'
  BY DEF WorkInv, WorkOK, Stage, TurnState
<1>2. Untaken' /\ Noticed'
  BY DEF WorkInv, WorkOK, Untaken, Noticed, Unsent, None
<1>3. Blank' /\ TakenOnce'
  BY DEF WorkInv, WorkOK, Blank, TakenOnce, None
<1> QED
  BY <1>1, <1>2, <1>3 DEF RunsOK, TextKept, WorkInv

(* What becomes of a message that was sent.                                  *)
LEMMA TurnSteps ==
    ASSUME IInv, NEW r \in Run,
           TurnEnds(r) \/ OwnerStops(r) \/ Found(r) \/ Project(r) \/ ProjectRun(r) \/ RecoverTurn(r)
    PROVE  IInv'
<1>1. SeenInv /\ RunsOK /\ TextKept /\ WorkInv
  BY DEF IInv
<1>2. UNCHANGED seenVars
  BY DEF TurnEnds, OwnerStops, Found, Project, ProjectRun, RecoverTurn, seenVars, scheduleVars, taskVars
<1>3. SeenInv'
  BY <1>1, <1>2, SeenFrame
<1>4. CASE TurnEnds(r) \/ OwnerStops(r)
  <2>1. PICK end \in {"completed", "interrupted"} :
           /\ turn[r] = "running" /\ turn' = [turn EXCEPT ![r] = end]
           /\ notice' = [notice EXCEPT ![r] = "due"]
           /\ \/ UNCHANGED message
              \/ message[r] = "active" /\ message' = [message EXCEPT ![r] = "interrupted"]
           /\ UNCHANGED <<run, agreed, taken, wire>>
    BY <1>4 DEF TurnEnds, OwnerStops, runVars
  <2> QED
    BY <1>1, <1>3, <2>1, OverStep DEF IInv
<1>5. CASE Found(r)
  <2>1. /\ message[r] = "uncertain" /\ turn[r] # None /\ message' = [message EXCEPT ![r] = "active"]
        /\ UNCHANGED <<run, agreed, turn, notice, taken, wire>>
    BY <1>5 DEF Found, runVars
  <2>2. "active" \in Stage /\ "active" \notin Unsent /\ message[r] # None
    BY <2>1 DEF Stage, Unsent, None
  <2> QED
    BY <1>1, <1>3, <2>1, <2>2, StageStep DEF IInv
<1>6. CASE Project(r)
  <2>1. /\ notice[r] = "due" /\ notice' = [notice EXCEPT ![r] = "half"]
        /\ message' = [message EXCEPT ![r] = IF @ = "active" THEN turn[r] ELSE @]
        /\ UNCHANGED <<run, agreed, turn, taken, wire>>
    BY <1>6 DEF Project, runVars
  <2>2. turn[r] \in {"completed", "interrupted"}
    BY <1>1, <2>1 DEF WorkInv, Noticed, None
  <2>3. WorkOK'
    BY <1>1, <2>1, <2>2 DEF WorkInv, WorkOK, Stage
  <2>4. Untaken' /\ Noticed'
    BY <1>1, <2>1, <2>2 DEF WorkInv, WorkOK, Untaken, Noticed, Unsent, None
  <2>5. Blank' /\ TakenOnce'
    BY <1>1, <2>1, <2>2 DEF WorkInv, WorkOK, Blank, TakenOnce, None
  <2> QED
    BY <1>1, <1>3, <2>1, <2>3, <2>4, <2>5 DEF IInv, RunsOK, TextKept, WorkInv
<1>7. CASE ProjectRun(r)
  <2>1. PICK state \in {"completed", "failed"} : run' = Ended(run, r, state)
    BY <1>7 DEF ProjectRun
  <2>2. notice' = [notice EXCEPT ![r] = None] /\ UNCHANGED <<agreed, message, turn, taken, wire>>
    BY <1>7 DEF ProjectRun
  <2>3. /\ run' \in [Run -> RunRow]
        /\ \A s \in Run : run'[s].text = run[s].text /\ (run'[s].state = None => run[s].state = None)
    BY <1>1, <2>1, EndedRuns
  <2>4. RunsOK' /\ TextKept'
    BY <1>1, <2>2, <2>3 DEF RunsOK, TextKept
  <2>5. WorkOK' /\ Untaken' /\ Noticed'
    BY <1>1, <2>2 DEF WorkInv, WorkOK, Untaken, Noticed, None
  <2>6. Blank' /\ TakenOnce'
    BY <1>1, <2>2, <2>3 DEF WorkInv, Blank, TakenOnce
  <2> QED
    BY <1>3, <2>4, <2>5, <2>6 DEF IInv, WorkInv
<1>8. CASE RecoverTurn(r)
  <2>1. PICK stage \in {"completed", "interrupted"} :
           /\ message[r] = "active" /\ message' = [message EXCEPT ![r] = stage]
           /\ UNCHANGED <<run, agreed, turn, notice, taken, wire>>
    BY <1>8 DEF RecoverTurn, runVars
  <2>2. stage \in Stage /\ stage \notin Unsent /\ stage # "active" /\ message[r] # None
    BY <2>1 DEF Stage, Unsent, None
  <2> QED
    BY <1>1, <1>3, <2>1, <2>2, StageStep DEF IInv
<1> QED
  BY <1>4, <1>5, <1>6, <1>7, <1>8

(* The owner takes a waiting message out of the queue, or sends a safe one   *)
(* again: neither was sent.                                                  *)
LEMMA QueueSteps ==
    ASSUME IInv, NEW r \in Run, OwnerCancels(r) \/ OwnerRetries(r)
    PROVE  IInv'
<1>1. SeenInv /\ RunsOK /\ TextKept /\ WorkInv
  BY DEF IInv
<1>2. SeenInv'
  <2>1. UNCHANGED seenVars
    BY DEF OwnerCancels, OwnerRetries, seenVars, scheduleVars, taskVars
  <2> QED
    BY <1>1, <2>1, SeenFrame
<1>3. PICK stage \in {"interrupted", "waiting"} :
         /\ message[r] \in {"waiting", "safe"} /\ message' = [message EXCEPT ![r] = stage]
         /\ UNCHANGED <<run, agreed, turn, notice, taken, wire>>
  BY DEF OwnerCancels, OwnerRetries, runVars
<1>4. stage \in Stage /\ stage # "active" /\ message[r] \in Unsent /\ message[r] # None
  BY <1>3 DEF Stage, Unsent, None
<1> QED
  BY <1>1, <1>2, <1>3, <1>4, StageStep DEF IInv

(* A restart: a claimed message was not sent and waits again, one that was   *)
(* being sent is uncertain.                                                  *)
LEMMA RestartStep == ASSUME IInv, Restart PROVE IInv'
<1>1. ScheduleOK /\ SeenTrue /\ RunsOK /\ TextKept /\ WorkInv
  BY DEF IInv, SeenInv
<1>2. /\ handler' = Idle
      /\ loop' = [at |-> "wait", seen |-> NoSeen, now |-> 0, recovered |-> FALSE]
      /\ wire' = {}
      /\ UNCHANGED <<schedule, clock, run, agreed, taken>>
  BY DEF Restart, scheduleVars, runVars
<1>3. /\ message' = [r \in Run |-> CASE message[r] = "claimed" -> "waiting"
                                     [] message[r] = "sent" -> "uncertain"
                                     [] OTHER -> message[r]]
      /\ turn' = [r \in Run |-> IF turn[r] = "running" THEN "cut" ELSE turn[r]]
      /\ notice' = [r \in Run |-> IF notice[r] = "half" THEN "due" ELSE notice[r]]
  BY DEF Restart
<1>4. SeenInv'
  <2>1. handler' \in HandlerRow /\ handler'.at = "idle"
    BY <1>2 DEF Idle, HandlerRow, NoSeen, Seen
  <2>2. loop' \in LoopRow /\ loop'.at = "wait"
    BY <1>2 DEF LoopRow, NoSeen, Seen
  <2> QED
    BY <1>1, <1>2, <2>1, <2>2 DEF SeenInv, ScheduleOK, SeenTrue
<1>5. RunsOK' /\ TextKept'
  BY <1>1, <1>2 DEF RunsOK, TextKept
<1>6. \A r \in Run : /\ message'[r] \in Stage
                     /\ message'[r] \in Unsent <=> message[r] \in Unsent
                     /\ message'[r] = "active" => message[r] = "active"
                     /\ message[r] = None => message'[r] = None
  BY <1>1, <1>3 DEF WorkInv, WorkOK, Stage, Unsent, None
<1>7. \A r \in Run : /\ turn'[r] \in TurnState /\ (turn'[r] = None <=> turn[r] = None)
                     /\ turn[r] \in {"completed", "interrupted"} => turn'[r] = turn[r]
  BY <1>1, <1>3 DEF WorkInv, WorkOK, TurnState, None
<1>8. \A r \in Run : /\ notice'[r] \in {None, "due", "half"}
                     /\ notice'[r] # None => notice[r] # None
  BY <1>1, <1>3 DEF WorkInv, WorkOK, None
<1>9. WorkOK'
  BY <1>1, <1>2, <1>3, <1>6, <1>7, <1>8 DEF WorkInv, WorkOK
<1>10. Untaken' /\ Noticed'
  BY <1>1, <1>2, <1>6, <1>7, <1>8 DEF WorkInv, Untaken, Noticed
<1>11. Blank' /\ TakenOnce'
  BY <1>1, <1>2, <1>6, <1>7 DEF WorkInv, Blank, TakenOnce
<1> QED
  BY <1>4, <1>5, <1>9, <1>10, <1>11 DEF IInv, WorkInv

(* Every step preserves the invariant.                                       *)
THEOREM StepOK == IInv /\ [Next]_vars => IInv'
<1> SUFFICES ASSUME IInv, [Next]_vars PROVE IInv'
  OBVIOUS
<1>1. CASE UNCHANGED vars
  <2>1. UNCHANGED seenVars /\ UNCHANGED rowVars
    BY <1>1 DEF vars, scheduleVars, runVars, taskVars, workVars, seenVars, rowVars
  <2> QED
    BY <2>1, SeenFrame, RowFrame DEF IInv
<1>2. CASE TimePasses \/ AskDropped
  BY <1>2, WaitingSteps
<1>3. CASE Owner
  BY <1>3, OwnerEdits, WaitingSteps, TurnSteps, QueueSteps DEF Owner
<1>4. CASE Loop
  BY <1>4, TickStep, WaitingSteps, ClaimDueStep DEF Loop
<1>5. CASE Going
  <2>1. CASE Handler
    BY <2>1, WaitingSteps, AskClaimsStep DEF Handler
  <2>2. ASSUME NEW r \in Run, RunStep(r) PROVE IInv'
    BY <2>2, TaskSteps, SubmissionSteps, TakeStep, TurnSteps DEF RunStep, TurnStep
  <2> QED
    BY <1>5, <2>1, <2>2 DEF Going
<1>6. CASE Restart
  BY <1>6, RestartStep
<1> QED
  BY <1>1, <1>2, <1>3, <1>4, <1>5, <1>6 DEF Next

(* The invariant holds in every reachable state.                             *)
THEOREM Inductive == Spec => []IInv
<1> QED
  BY InitOK, StepOK, PTL DEF Spec

LEMMA InvAccepted == IInv => RunsAsAccepted
<1> SUFFICES ASSUME IInv, NEW r \in Run PROVE taken[r] \in {<<>>, <<agreed[r]>>}
  BY DEF RunsAsAccepted
<1>1. run[r].text = agreed[r] /\ taken[r] = IF turn[r] = None THEN <<>> ELSE <<run[r].text>>
  BY DEF IInv, TextKept, WorkInv, TakenOnce
<1> QED
  BY <1>1

(* "The snapshot is the accepted work; schedule edits cannot rewrite it"     *)
(* (wonder-store/src/automations.rs:22): the runtime takes one task for a    *)
(* run, once, with the text the schedule had when it was accepted.           *)
THEOREM RunsAreAsAccepted == Spec => []RunsAsAccepted
BY InvAccepted, Inductive, PTL

-----------------------------------------------------------------------------
(* The numbers stay within the bounds. Each occurrence that is claimed takes *)
(* a run that was free, so that the revision is bounded by the edits and the *)
(* runs below the first free one.                                            *)
Limits == /\ MaxRuns \in Nat /\ MaxTime \in Nat /\ MaxAsks \in Nat
          /\ MaxEdits \in Nat /\ MaxFaults \in Nat

Counted == /\ clock \in 0..MaxTime /\ edits \in 0..MaxEdits
           /\ asks \in 0..MaxAsks /\ faults \in 0..MaxFaults

Revised == /\ schedule.text <= edits /\ schedule.next <= clock + 1
           /\ schedule.revision <= edits + MaxRuns
           /\ \A r \in Free : schedule.revision <= edits + (r - 1)

Copied == /\ loop.at = "due" => /\ loop.seen.text <= edits
                               /\ loop.seen.next <= loop.now /\ loop.now <= clock
          /\ handler.at = "read" => handler.seen.text <= edits

Dated == \A r \in Run : run[r].text <= edits /\ run[r].at <= clock /\ agreed[r] <= edits

Tasked == /\ task \in [Run -> [Spawner -> {None, "start", "made"}]]
          /\ lock \in Run \cup {0}

WithinInv == Counted /\ Revised /\ Copied /\ Dated /\ Tasked

LEMMA WithinTypes == Limits /\ IInv /\ WithinInv => TypeOK
<1> SUFFICES ASSUME Limits, IInv, WithinInv PROVE TypeOK
  OBVIOUS
<1>1. /\ clock \in 0..MaxTime /\ edits \in 0..MaxEdits
      /\ asks \in 0..MaxAsks /\ faults \in 0..MaxFaults
      /\ MaxRuns \in Nat /\ MaxEdits \in Nat /\ MaxTime \in Nat
  BY DEF WithinInv, Counted, Limits
<1>2. schedule \in [text : 0..MaxEdits, status : {"active", "paused"}, next : 0..(MaxTime + 1),
                    revision : 0..(MaxEdits + MaxRuns)]
  <2>1. schedule \in Row
    BY DEF IInv, SeenInv, ScheduleOK
  <2>2. schedule.text <= MaxEdits /\ schedule.next <= MaxTime + 1
        /\ schedule.revision <= MaxEdits + MaxRuns
    BY <1>1, <2>1 DEF Row, WithinInv, Revised
  <2> QED
    BY <1>1, <2>1, <2>2 DEF Row, Statuses
<1>3. \A r \in Run : run[r].text \in 0..MaxEdits /\ run[r].at \in 0..MaxTime /\ agreed[r] \in 0..MaxEdits
  BY <1>1 DEF IInv, RunsOK, RunRow, WithinInv, Dated
<1>4. run \in [Run -> [state : {None, "running", "completed", "failed"}, at : 0..MaxTime,
                       request : Request \cup {None}, text : 0..MaxEdits, linked : BOOLEAN]]
  BY <1>3 DEF IInv, RunsOK, RunRow
<1>5. agreed \in [Run -> 0..MaxEdits]
  BY <1>3 DEF IInv, RunsOK
<1>6. \A r \in Run : taken[r] \in Seq(0..MaxEdits)
  <2> SUFFICES ASSUME NEW r \in Run PROVE taken[r] \in Seq(0..MaxEdits)
    OBVIOUS
  <2>1. taken[r] = <<>> \/ taken[r] = <<run[r].text>>
    BY DEF IInv, WorkInv, TakenOnce
  <2>2. <<>> \in Seq(0..MaxEdits)
    OBVIOUS
  <2>3. \A t \in 0..MaxEdits : <<t>> \in Seq(0..MaxEdits)
    OBVIOUS
  <2>4. run[r].text \in 0..MaxEdits
    BY <1>3
  <2> QED
    BY <2>1, <2>2, <2>3, <2>4
<1>7. /\ message \in [Run -> {None, "waiting", "claimed", "sent", "uncertain", "active", "completed",
                              "interrupted", "safe"}]
      /\ turn \in [Run -> {None, "running", "completed", "interrupted", "cut"}]
      /\ notice \in [Run -> {None, "due", "half"}] /\ wire \subseteq Run
  BY DEF IInv, WorkInv, WorkOK, Stage, Unsent, TurnState
<1>8. /\ task \in [Run -> [Spawner -> {None, "start", "made"}]]
      /\ lock \in 0..MaxRuns
  BY <1>1 DEF WithinInv, Tasked, Run
<1>9. /\ handler.at \in {"idle", "read", "spawn"} /\ handler.run \in 0..MaxRuns
      /\ loop.at \in {"wait", "due"} /\ loop.recovered \in BOOLEAN
  BY <1>1 DEF IInv, SeenInv, ScheduleOK, LoopRow, HandlerRow, Run
<1> QED
  BY <1>1, <1>2, <1>4, <1>5, <1>6, <1>7, <1>8, <1>9 DEF TypeOK

LEMMA WithinInit == Limits /\ Init => WithinInv
<1> SUFFICES ASSUME Limits, Init PROVE WithinInv
  OBVIOUS
<1>1. Counted
  BY DEF Init, Limits, Counted
<1>2. Revised
  BY DEF Init, Limits, Revised, Free, Run
<1>3. Copied
  BY DEF Init, Copied, Idle, NoSeen
<1>4. Dated
  BY DEF Init, Dated
<1>5. Tasked
  BY DEF Init, Tasked, NoTask, Spawner
<1> QED
  BY <1>1, <1>2, <1>3, <1>4, <1>5 DEF WithinInv

(* The types the arithmetic needs.                                           *)
LEMMA WithinNumbers ==
  ASSUME Limits, IInv, WithinInv
  PROVE  /\ clock \in Nat /\ edits \in Nat /\ asks \in Nat /\ faults \in Nat
         /\ schedule.text \in Nat /\ schedule.next \in Nat /\ schedule.revision \in Nat
         /\ MaxRuns \in Nat /\ Run \subseteq Nat
         /\ schedule \in Row /\ loop \in LoopRow /\ handler \in HandlerRow /\ run \in [Run -> RunRow]
         /\ agreed \in [Run -> Nat]
BY DEF Limits, WithinInv, Counted, IInv, SeenInv, ScheduleOK, Row, RunsOK, Run

(* A step that leaves the schedule, and of the rows the text and the time.   *)
LEMMA RowsWithin ==
  ASSUME Limits, IInv, WithinInv, UNCHANGED scheduleVars, UNCHANGED agreed,
         \A r \in Run : /\ run'[r].text = run[r].text /\ run'[r].at = run[r].at
                        /\ run'[r].state = None => run[r].state = None
  PROVE  Revised' /\ Dated'
BY DEF WithinInv, Revised, Dated, Free, scheduleVars

LEMMA CopiesWithin ==
  ASSUME WithinInv, UNCHANGED scheduleVars,
         UNCHANGED loop \/ loop'.at = "wait", UNCHANGED handler \/ handler'.at # "read"
  PROVE  Copied'
BY DEF WithinInv, Copied, scheduleVars

LEMMA FaultCounted ==
  ASSUME Limits, WithinInv, Fault PROVE faults' \in 0..MaxFaults
BY DEF Limits, WithinInv, Counted, Fault

(* A step of a run: it leaves the schedule, the loop, the owner's request    *)
(* and of the rows what was accepted.                                        *)
LEMMA RunWithin ==
  ASSUME Limits, IInv, WithinInv, UNCHANGED <<scheduleVars, agreed, loop, handler, asks>>,
         UNCHANGED faults \/ Fault, Tasked',
         \A r \in Run : /\ run'[r].text = run[r].text /\ run'[r].at = run[r].at
                        /\ run'[r].state = None => run[r].state = None
  PROVE  WithinInv'
<1>1. Revised' /\ Dated'
  BY RowsWithin
<1>2. Copied'
  BY CopiesWithin
<1>3. Counted'
  BY FaultCounted DEF WithinInv, Counted, scheduleVars
<1> QED
  BY <1>1, <1>2, <1>3 DEF WithinInv

LEMMA EndedRow ==
  ASSUME IInv, NEW r \in Run, NEW s \in {"completed", "failed"}, run' = Ended(run, r, s)
  PROVE  \A q \in Run : /\ run'[q].text = run[q].text /\ run'[q].at = run[q].at
                        /\ run'[q].state = None => run[q].state = None
BY DEF IInv, RunsOK, RunRow, Ended, None

LEMMA TaskWithin ==
  ASSUME WithinInv, NEW r \in Run, NEW k \in Spawner, NEW to \in {None, "start", "made"},
         task' = [task EXCEPT ![r][k] = to], UNCHANGED lock
  PROVE  Tasked'
BY DEF WithinInv, Tasked

LEMMA StillTasked == ASSUME WithinInv, UNCHANGED task, UNCHANGED lock PROVE Tasked'
BY DEF WithinInv, Tasked

LEMMA TaskStepsWithin ==
  ASSUME Limits, IInv, WithinInv, NEW r \in Run, NEW k \in Spawner, TaskStep(r, k)
  PROVE  WithinInv'
<1>1. CASE Unavailable(r, k)
  <2>1. Tasked'
    BY <1>1, TaskWithin DEF Unavailable, workVars
  <2> QED
    BY <1>1, <2>1, EndedRow, RunWithin DEF Unavailable
<1>2. CASE Materialize(r, k)
  <2>1. Tasked'
    BY <1>2, TaskWithin DEF Materialize
  <2>2. \A q \in Run : /\ run'[q].text = run[q].text /\ run'[q].at = run[q].at
                       /\ run'[q].state = None => run[q].state = None
    BY <1>2 DEF Materialize, IInv, RunsOK, RunRow
  <2> QED
    BY <1>2, <2>1, <2>2, RunWithin DEF Materialize
<1>3. CASE MaterializeFails(r, k)
  <2>1. Tasked'
    BY <1>3, TaskWithin DEF MaterializeFails, workVars
  <2> QED
    BY <1>3, <2>1, RunWithin DEF MaterializeFails, runVars
<1>4. CASE TaskEnds(r, k)
  <2>1. Tasked'
    BY <1>4, TaskWithin DEF TaskEnds, workVars
  <2> QED
    BY <1>4, <2>1, RunWithin DEF TaskEnds, runVars
<1> QED
  BY <1>1, <1>2, <1>3, <1>4 DEF TaskStep

LEMMA SubmissionWithin ==
  ASSUME Limits, IInv, WithinInv, NEW r \in Run, Submission(r)
  PROVE  WithinInv'
<1>1. Tasked'
  BY DEF Submission, Claim, Submit, PrepareFails, Answered, Unanswered, taskVars, WithinInv, Tasked
<1>2. /\ UNCHANGED <<scheduleVars, agreed, loop, handler, asks>>
      /\ UNCHANGED faults \/ Fault
      /\ UNCHANGED run \/ run' = Ended(run, r, "failed")
  BY DEF Submission, Claim, Submit, PrepareFails, Answered, Unanswered, taskVars, runVars
<1> QED
  BY <1>1, <1>2, EndedRow, RunWithin

LEMMA TurnWithin ==
  ASSUME Limits, IInv, WithinInv, NEW r \in Run,
         TurnStep(r) \/ OwnerStops(r) \/ OwnerCancels(r) \/ OwnerRetries(r)
  PROVE  WithinInv'
<1>1. /\ UNCHANGED <<scheduleVars, agreed, loop, handler, asks, task, lock, faults>>
      /\ UNCHANGED run \/ run' = Ended(run, r, "completed") \/ run' = Ended(run, r, "failed")
  BY DEF TurnStep, Take, TurnEnds, Found, Project, ProjectRun, RecoverTurn, OwnerStops, OwnerCancels,
         OwnerRetries, taskVars, runVars
<1>2. Tasked'
  BY <1>1, StillTasked
<1> QED
  BY <1>1, <1>2, EndedRow, RunWithin

(* The schedule and the clock.                                               *)
LEMMA ScheduleWithin ==
  ASSUME Limits, IInv, WithinInv, TimePasses \/ Reword \/ Pause \/ Reschedule
  PROVE  WithinInv'
<1>1. UNCHANGED <<run, agreed, task, loop, handler, asks, lock, faults>>
  BY DEF TimePasses, Reword, Pause, Reschedule, Edited, runVars, taskVars, workVars
<1>2. \/ clock < MaxTime /\ clock' = clock + 1 /\ UNCHANGED <<schedule, edits>>
      \/ /\ edits < MaxEdits /\ edits' = edits + 1 /\ UNCHANGED clock
         /\ schedule'.text \in {schedule.text, schedule.text + 1}
         /\ schedule'.next \in {schedule.next, 0, clock + 1}
         /\ schedule'.revision = schedule.revision + 1
  BY WithinNumbers DEF TimePasses, Reword, Pause, Reschedule, Edited, Row
<1>3. Counted'
  <2>1. clock \in 0..MaxTime /\ edits \in 0..MaxEdits /\ MaxTime \in Nat /\ MaxEdits \in Nat
    BY DEF WithinInv, Counted, Limits
  <2>2. clock' \in 0..MaxTime /\ edits' \in 0..MaxEdits
    BY <1>2, <2>1
  <2> QED
    BY <1>1, <2>2 DEF WithinInv, Counted
<1>4. Tasked'
  BY <1>1, StillTasked
<1>5. clock <= clock' /\ edits <= edits' /\ clock' \in Nat /\ edits' \in Nat
  BY <1>2, WithinNumbers
<1>6. Copied'
  <2>1. loop.seen.text \in Nat /\ loop.now \in Nat /\ handler.seen.text \in Nat
    BY WithinNumbers DEF LoopRow, HandlerRow, Seen
  <2> QED
    BY <1>1, <1>5, <2>1, WithinNumbers DEF WithinInv, Copied
<1>7. Dated'
  <2>1. \A r \in Run : run[r].text \in Nat /\ run[r].at \in Nat /\ agreed[r] \in Nat
    BY WithinNumbers DEF RunRow
  <2> QED
    BY <1>1, <1>5, <2>1, WithinNumbers DEF WithinInv, Dated
<1>8. Revised'
  <2>1. Free' = Free
    BY <1>1 DEF Free
  <2>2. schedule'.text <= edits' /\ schedule'.next <= clock' + 1
        /\ schedule'.revision <= edits' + MaxRuns
    BY <1>2, WithinNumbers DEF WithinInv, Revised
  <2>3. \A r \in Free : schedule'.revision <= edits' + (r - 1)
    BY <1>2, WithinNumbers DEF WithinInv, Revised, Free
  <2> QED
    BY <2>1, <2>2, <2>3 DEF Revised
<1> QED
  BY <1>3, <1>4, <1>6, <1>7, <1>8 DEF WithinInv

(* A run is accepted: the first that was free is no longer.                  *)
LEMMA AcceptFacts ==
  ASSUME Limits, IInv, WithinInv, NEW r \in Run, NEW at \in Nat, NEW request, NEW seen \in Seen,
         Accept(r, at, request, seen), seen.text <= edits, at <= clock,
         UNCHANGED clock, UNCHANGED edits
  PROVE  /\ Dated'
         /\ schedule.revision <= edits + (r - 1)
         /\ \A q \in Free' : q > r
<1>1. /\ run' = [run EXCEPT ![r] = [state |-> "running", at |-> at, request |-> request,
                                    text |-> seen.text, linked |-> FALSE]]
      /\ agreed' = [agreed EXCEPT ![r] = schedule.text]
      /\ r \in Free /\ \A s \in Free : r <= s
  BY DEF Accept
<1>2. \A q \in Run : /\ run'[q] = IF q = r THEN [state |-> "running", at |-> at, request |-> request,
                                                 text |-> seen.text, linked |-> FALSE] ELSE run[q]
                     /\ agreed'[q] = IF q = r THEN schedule.text ELSE agreed[q]
  BY <1>1, WithinNumbers
<1>3. Dated'
  BY <1>2 DEF WithinInv, Dated, Revised
<1>4. schedule.revision <= edits + (r - 1)
  BY <1>1 DEF WithinInv, Revised
<1>5. ASSUME NEW q \in Free' PROVE q > r
  <2>1. q \in Run /\ q # r /\ run[q].state = None
    BY <1>2, <1>5 DEF Free, None
  <2>2. r <= q
    BY <1>1, <2>1 DEF Free
  <2> QED
    BY <2>1, <2>2, WithinNumbers
<1> QED
  BY <1>3, <1>4, <1>5

LEMMA ClaimDueWithin ==
  ASSUME Limits, IInv, WithinInv, NEW r \in Run, ClaimDue(r)
  PROVE  WithinInv'
<1>1. /\ loop.at = "due" /\ Accept(r, loop.seen.next, None, loop.seen)
      /\ schedule' = Advanced(loop.now) /\ task' = Spawned(r, "claim") /\ TickOver
      /\ UNCHANGED <<clock, edits, handler, asks, lock, faults>>
  BY DEF ClaimDue, workVars
<1>2. /\ loop.seen.text <= edits /\ loop.seen.next <= clock /\ loop.now <= clock
      /\ loop.seen \in Seen /\ loop.now \in Nat /\ loop.seen.next \in Nat
  BY <1>1, WithinNumbers DEF WithinInv, Copied, LoopRow, Seen
<1>3. Dated' /\ schedule.revision <= edits + (r - 1) /\ \A q \in Free' : q > r
  BY <1>1, <1>2, AcceptFacts
<1>4. /\ schedule'.text = schedule.text /\ schedule'.next = loop.now + 1
      /\ schedule'.revision = schedule.revision + 1
  BY <1>1, WithinNumbers DEF Advanced, Row
<1>5. Revised'
  <2>1. r \in Nat /\ r <= MaxRuns /\ \A q \in Free' : q \in Nat /\ q >= r + 1
    BY <1>3, WithinNumbers DEF Free, Run
  <2>2. schedule'.revision <= edits + r
    BY <1>3, <1>4, <2>1, WithinNumbers
  <2>3. schedule'.revision <= edits + MaxRuns /\ \A q \in Free' : schedule'.revision <= edits + (q - 1)
    BY <1>4, <2>1, <2>2, WithinNumbers
  <2>4. schedule'.text <= edits /\ schedule'.next <= clock + 1
    BY <1>2, <1>4, WithinNumbers DEF WithinInv, Revised
  <2> QED
    BY <1>1, <2>3, <2>4 DEF Revised
<1>6. Copied'
  BY <1>1, WithinNumbers DEF TickOver, LoopRow, WithinInv, Copied
<1>7. Tasked'
  BY <1>1, TaskWithin DEF Spawned, Spawner
<1>8. Counted'
  BY <1>1 DEF WithinInv, Counted
<1> QED
  BY <1>3, <1>5, <1>6, <1>7, <1>8 DEF WithinInv

LEMMA TickWithin ==
  ASSUME Limits, IInv, WithinInv, Tick
  PROVE  WithinInv'
<1>1. /\ run' = [r \in Run |-> [run[r] EXCEPT !.state = Reconciled(r)]]
      /\ UNCHANGED <<scheduleVars, agreed, handler, asks, lock>>
  BY DEF Tick, workVars
<1>2. PICK ready \in BOOLEAN, recoverable \in SUBSET Run :
        /\ UNCHANGED faults \/ Fault
        /\ task' = [r \in Run |-> IF ready /\ r \in recoverable
                                  THEN [task[r] EXCEPT !["recovery"] = "start"] ELSE task[r]]
        /\ loop' = [at |-> IF Due THEN "due" ELSE "wait", recovered |-> ready,
                    seen |-> IF Due THEN schedule ELSE NoSeen, now |-> IF Due THEN clock ELSE 0]
  <2> DEFINE recoverable == IF loop.recovered THEN {} ELSE {r \in Running : ~run[r].linked}
  <2>1. recoverable \in SUBSET Run
    BY DEF Running
  <2> QED
    BY <2>1 DEF Tick
<1>3. \A r \in Run : /\ run'[r].text = run[r].text /\ run'[r].at = run[r].at
                     /\ run'[r].state = None => run[r].state = None
  BY <1>1, WithinNumbers DEF RunRow, Reconciled, None
<1>4. Revised' /\ Dated'
  BY <1>1, <1>3, RowsWithin
<1>5. Tasked'
  BY <1>1, <1>2 DEF WithinInv, Tasked, Spawner
<1>6. Copied'
  <2>1. loop'.at = "due" => Due /\ loop'.seen = schedule /\ loop'.now = clock
    BY <1>2
  <2>2. Due => schedule.next <= clock
    BY DEF Due
  <2>3. UNCHANGED <<clock, edits, handler>>
    BY <1>1 DEF scheduleVars
  <2> QED
    BY <2>1, <2>2, <2>3, WithinNumbers DEF WithinInv, Copied, Revised
<1>7. Counted'
  BY <1>1, <1>2, FaultCounted DEF WithinInv, Counted, scheduleVars
<1> QED
  BY <1>4, <1>5, <1>6, <1>7 DEF WithinInv

LEMMA LoopWithin ==
  ASSUME Limits, IInv, WithinInv, Loop
  PROVE  WithinInv'
<1>1. CASE SkipDue
  <2>1. Tasked'
    BY <1>1, StillTasked DEF SkipDue, workVars
  <2>2. Copied'
    BY <1>1, CopiesWithin, WithinNumbers DEF SkipDue, TickOver, LoopRow
  <2>3. Revised' /\ Dated'
    BY <1>1, RowsWithin DEF SkipDue, runVars
  <2>4. UNCHANGED faults \/ Fault
    BY <1>1 DEF SkipDue
  <2>5. Counted'
    BY <1>1, <2>4, FaultCounted DEF SkipDue, WithinInv, Counted, scheduleVars
  <2> QED
    BY <2>1, <2>2, <2>3, <2>5 DEF WithinInv
<1> QED
  BY <1>1, TickWithin, ClaimDueWithin DEF Loop

(* What the owner asks.                                                      *)
LEMMA AskWithin ==
  ASSUME Limits, IInv, WithinInv, NEW q \in Request, Ask(q)
  PROVE  WithinInv'
<1>1. /\ UNCHANGED <<scheduleVars, run, agreed, task, loop, lock, faults>>
      /\ asks < MaxAsks /\ asks' = asks + 1
      /\ handler'.seen = schedule
  BY DEF Ask, runVars, workVars, Idle
<1>2. Revised' /\ Dated'
  BY <1>1, RowsWithin
<1>3. Copied'
  BY <1>1, WithinNumbers DEF WithinInv, Copied, Revised, scheduleVars
<1>4. Counted'
  BY <1>1, WithinNumbers DEF WithinInv, Counted, Limits, scheduleVars
<1> QED
  BY <1>1, <1>2, <1>3, <1>4, StillTasked DEF WithinInv

LEMMA AskClaimsWithin ==
  ASSUME Limits, IInv, WithinInv, NEW r \in Run, AskClaims(r)
  PROVE  WithinInv'
<1>1. /\ handler.at = "read" /\ Accept(r, 0, handler.request, handler.seen)
      /\ UNCHANGED <<scheduleVars, task, loop, asks, lock, faults>>
      /\ handler'.at = "spawn"
  BY WithinNumbers DEF AskClaims, workVars, HandlerRow
<1>2. handler.seen \in Seen /\ handler.seen.text <= edits /\ 0 <= clock
  BY <1>1, WithinNumbers DEF WithinInv, Copied, HandlerRow
<1>3. Dated' /\ \A s \in Free' : s > r
  BY <1>1, <1>2, AcceptFacts DEF scheduleVars
<1>4. Free' \subseteq Free
  BY <1>1, <1>3, WithinNumbers DEF Free, Accept
<1>5. Revised'
  BY <1>1, <1>4 DEF WithinInv, Revised, scheduleVars
<1>6. Copied'
  BY <1>1, CopiesWithin
<1>7. Counted'
  BY <1>1 DEF WithinInv, Counted, scheduleVars
<1> QED
  BY <1>1, <1>3, <1>5, <1>6, <1>7, StillTasked DEF WithinInv

LEMMA AskEndsWithin ==
  ASSUME Limits, IInv, WithinInv, AskRefused \/ AskSpawns \/ AskDropped
  PROVE  WithinInv'
<1>1. /\ UNCHANGED <<scheduleVars, run, agreed, loop, asks, lock>>
      /\ UNCHANGED faults \/ Fault
      /\ handler' = Idle
  BY DEF AskRefused, AskSpawns, AskDropped, runVars, workVars
<1>2. Tasked'
  <2>1. UNCHANGED task \/ (handler.at = "spawn" /\ task' = Spawned(handler.run, "claim"))
    BY DEF AskRefused, AskSpawns, AskDropped
  <2> QED
    BY <1>1, <2>1 DEF WithinInv, Tasked, Spawned, Spawner
<1>3. Copied'
  BY <1>1, CopiesWithin DEF Idle
<1>4. Revised' /\ Dated'
  BY <1>1, RowsWithin
<1>5. Counted'
  BY <1>1, FaultCounted DEF WithinInv, Counted, scheduleVars
<1> QED
  BY <1>2, <1>3, <1>4, <1>5 DEF WithinInv

LEMMA RestartWithin ==
  ASSUME Limits, IInv, WithinInv, Restart
  PROVE  WithinInv'
<1>1. /\ UNCHANGED <<scheduleVars, run, agreed, asks>> /\ Fault
      /\ task' = NoTask /\ handler' = Idle /\ lock' = 0 /\ loop'.at = "wait"
  BY DEF Restart, runVars
<1>2. Revised' /\ Dated'
  BY <1>1, RowsWithin
<1>3. Copied'
  BY <1>1, CopiesWithin DEF Idle
<1>4. Tasked'
  BY <1>1 DEF Tasked, NoTask, Spawner
<1>5. Counted'
  BY <1>1, FaultCounted DEF WithinInv, Counted, scheduleVars
<1> QED
  BY <1>2, <1>3, <1>4, <1>5 DEF WithinInv

LEMMA WithinStep == Limits /\ IInv /\ WithinInv /\ [Next]_vars => WithinInv'
<1> SUFFICES ASSUME Limits, IInv, WithinInv, [Next]_vars PROVE WithinInv'
  OBVIOUS
<1>1. CASE UNCHANGED vars
  <2>1. UNCHANGED <<clock, schedule, edits, run, agreed, task, loop, handler, asks, lock, faults>>
    BY <1>1 DEF vars, scheduleVars, runVars, taskVars, workVars
  <2> QED
    BY <2>1, RunWithin, StillTasked DEF scheduleVars
<1>2. CASE TimePasses \/ Owner
  BY <1>2, ScheduleWithin, AskWithin, TurnWithin DEF Owner
<1>3. CASE Loop
  BY <1>3, LoopWithin
<1>4. CASE Going \/ AskDropped
  <2>1. ASSUME NEW r \in Run, RunStep(r) PROVE WithinInv'
    BY <2>1, TaskStepsWithin, SubmissionWithin, TurnWithin DEF RunStep
  <2> QED
    BY <1>4, <2>1, AskEndsWithin, AskClaimsWithin DEF Going, Handler
<1>5. CASE Restart
  BY <1>5, RestartWithin
<1> QED
  BY <1>1, <1>2, <1>3, <1>4, <1>5 DEF Next

(* Every row, task and copy of the schedule is well typed, and the revision  *)
(* of the schedule (wonder-store/src/automations.rs) never exceeds what the  *)
(* edits and the accepted runs have added to it.                             *)
THEOREM TypeCorrect == Limits => (Spec => []TypeOK)
<1> SUFFICES ASSUME Limits PROVE Spec => []TypeOK
  OBVIOUS
<1>1. Init => IInv /\ WithinInv
  BY InitOK, WithinInit
<1>2. IInv /\ WithinInv /\ [Next]_vars => (IInv /\ WithinInv)'
  BY StepOK, WithinStep
<1>3. IInv /\ WithinInv => TypeOK
  BY WithinTypes
<1> QED
  BY <1>1, <1>2, <1>3, PTL DEF Spec
=============================================================================
