---------------------------- MODULE Automations ----------------------------
(* A task that Wonder starts on a schedule. A loop claims the occurrence that *)
(* is due, with a copy of the task, and spawns the run; the run makes one     *)
(* message and sends it the way a person's message is sent. The owner edits   *)
(* and pauses the schedule or starts a run himself, the daemon stops anywhere,*)
(* and the answer to turn/start may be lost.                                  *)
EXTENDS Naturals, Sequences

CONSTANTS
    MaxRuns,        \* bound: runs ever accepted
    MaxTime,        \* bound: the times at which the schedule can be due are 1..MaxTime
    Request,        \* client_request_ids of runs that the owner asks for
    MaxAsks,        \* bound: times that he asks
    MaxEdits,       \* bound: edits of the schedule
    MaxFaults       \* bound: restarts, lost answers, failed writes, dropped requests

Run == 1..MaxRuns
None == "none"
Spawner == {"claim", "recovery"}
NoSeen == [text |-> 0, status |-> None, next |-> 0, revision |-> 0]

VARIABLES
    clock,
    schedule,   \* the row of automations
    edits,
    run,        \* automation_runs; of the snapshot, the text
    message,    \* the message of each run: its state
    task,       \* the run_automation tasks, by who spawned them
    loop,       \* how far a tick of the scheduler is
    handler,    \* the request for a run that is being handled
    asks,
    lock,       \* dispatch_lock: the run whose message is being submitted
    wire,       \* turn/start requests on their way
    turn,       \* the runtime's turn for each message
    notice,     \* turn/completed in the inbox, and whether it is half projected
    faults,
    agreed,     \* history: the text of the schedule when each run was accepted
    taken       \* history: the texts that the runtime took for each run

scheduleVars == <<schedule, edits, clock>>
runVars == <<run, agreed>>
taskVars == <<task, loop, handler, asks>>
workVars == <<message, lock, wire, turn, notice, taken>>
vars == <<scheduleVars, runVars, taskVars, workVars, faults>>

Fault == faults < MaxFaults /\ faults' = faults + 1
Free == {r \in Run : run[r].state = None}
Running == {r \in Run : run[r].state = "running"}
NoTask == [r \in Run |-> [k \in Spawner |-> None]]
Spawned(r, k) == [task EXCEPT ![r][k] = "start"]

(* finish_automation_run: whatever the state was.                            *)
Ended(table, r, state) == [table EXCEPT ![r].state = state]

(* ------------------------------ the schedule ----------------------------- *)

TimePasses ==
    /\ clock < MaxTime
    /\ clock' = clock + 1
    /\ UNCHANGED <<schedule, edits, runVars, taskVars, workVars, faults>>

(* update_automation: the revision that was read is still that of the row.   *)
(* Only a change of rule or status moves the next occurrence.                *)
Edited(row) ==
    /\ edits < MaxEdits /\ edits' = edits + 1
    /\ schedule' = [row EXCEPT !.revision = @ + 1]
    /\ UNCHANGED <<clock, runVars, taskVars, workVars, faults>>

Reword == Edited([schedule EXCEPT !.text = @ + 1])
Pause == Edited([schedule EXCEPT !.status = "paused", !.next = 0])
Reschedule == Edited([schedule EXCEPT !.status = "active", !.next = clock + 1])

(* ------------------------------- admission ------------------------------- *)

\* Variant: what was read is claimed although the row has changed.
AdmitsStale(seen, scheduled) ==
    /\ Running = {}
    /\ scheduled => /\ schedule.status = "active" /\ schedule.next = seen.next
                    /\ \A r \in Run : run[r].at # seen.next

(* claim_scheduled_automation: the row is the one that was read, a scheduled *)
(* occurrence is still the next, and no run is going on. An occurrence has   *)
(* one run at most (UNIQUE).                                                 *)
Admits(seen, scheduled) ==
    /\ schedule.revision = seen.revision /\ Running = {}
    /\ scheduled => /\ schedule.status = "active" /\ schedule.next = seen.next
                    /\ \A r \in Run : run[r].at # seen.next

Accept(r, at, request, seen) ==
    /\ r \in Free /\ \A s \in Free : r <= s
    /\ run' = [run EXCEPT ![r] = [state |-> "running", at |-> at, request |-> request,
                                  text |-> seen.text, linked |-> FALSE]]
    /\ agreed' = [agreed EXCEPT ![r] = schedule.text]

(* ------------------------------- the loop -------------------------------- *)

Settled == {"completed", "interrupted", "safe"}

\* Variant: only completed work ends its run.
ReconciledIfCompleted(r) ==
    IF run[r].state = "running" /\ run[r].linked /\ message[r] = "completed"
    THEN "completed" ELSE run[r].state

(* reconcile_automation_runs: a run whose message has ended.                 *)
Reconciled(r) ==
    IF run[r].state = "running" /\ run[r].linked /\ message[r] \in Settled
    THEN IF message[r] = "completed" THEN "completed" ELSE "failed"
    ELSE run[r].state

Admitted == loop.at = "wait" /\ handler.at = "idle"

Due == schedule.status = "active" /\ schedule.next # 0 /\ schedule.next <= clock

(* A tick reconciles the runs; in the first ticks after a start it spawns    *)
(* the accepted runs of which no message was made (or finds the runtime not  *)
(* ready for them, and tries again); then it reads what is due.              *)
Tick ==
    /\ Admitted
    /\ run' = [r \in Run |-> [run[r] EXCEPT !.state = Reconciled(r)]]
    /\ LET recoverable == IF loop.recovered THEN {} ELSE {r \in Running : ~run[r].linked} IN
       \E ready \in BOOLEAN :
          /\ IF ready THEN UNCHANGED faults ELSE recoverable # {} /\ Fault
          /\ task' = [r \in Run |-> IF ready /\ r \in recoverable
                                     THEN [task[r] EXCEPT !["recovery"] = "start"] ELSE task[r]]
          /\ loop' = [at |-> IF Due THEN "due" ELSE "wait", recovered |-> ready,
                      seen |-> IF Due THEN schedule ELSE NoSeen, now |-> IF Due THEN clock ELSE 0]
    /\ UNCHANGED <<scheduleVars, agreed, handler, asks, workVars>>

TickOver == loop' = [loop EXCEPT !.at = "wait", !.seen = NoSeen, !.now = 0]

(* Missed occurrences count as one: the next is after the time of the tick.  *)
Advanced(now) == [schedule EXCEPT !.next = now + 1, !.revision = @ + 1]

ClaimDue(r) ==
    /\ loop.at = "due" /\ Admits(loop.seen, TRUE)
    /\ Accept(r, loop.seen.next, None, loop.seen)
    /\ schedule' = Advanced(loop.now)
    /\ task' = Spawned(r, "claim")
    /\ TickOver
    /\ UNCHANGED <<clock, edits, handler, asks, workVars, faults>>

(* It changed or a run is going on; or its Bot cannot be used now.           *)
SkipDue ==
    /\ loop.at = "due"
    /\ IF Admits(loop.seen, TRUE) THEN Fault ELSE UNCHANGED faults
    /\ TickOver
    /\ UNCHANGED <<scheduleVars, runVars, task, handler, asks, workVars>>

(* --------------------------- the owner asks ------------------------------ *)

Idle == [at |-> "idle", request |-> None, run |-> 0, seen |-> NoSeen]
Asked(q) == \E r \in Run : run[r].request = q

(* run_automation_now: the same request finds its run. It holds admission.   *)
Ask(q) ==
    /\ Admitted /\ asks < MaxAsks /\ ~Asked(q)
    /\ asks' = asks + 1
    /\ handler' = [Idle EXCEPT !.at = "read", !.request = q, !.seen = schedule]
    /\ UNCHANGED <<scheduleVars, runVars, task, loop, workVars, faults>>

AskClaims(r) ==
    /\ handler.at = "read" /\ Admits(handler.seen, FALSE)
    /\ Accept(r, 0, handler.request, handler.seen)
    /\ handler' = [handler EXCEPT !.at = "spawn", !.run = r, !.seen = NoSeen]
    /\ UNCHANGED <<scheduleVars, task, loop, asks, workVars, faults>>

(* A run is going on, the schedule changed, or its Bot cannot be used now.   *)
AskRefused ==
    /\ handler.at = "read"
    /\ handler' = Idle
    /\ UNCHANGED <<scheduleVars, runVars, task, loop, asks, workVars, faults>>

(* The run is read back for the answer before it is spawned.                 *)
AskSpawns ==
    /\ handler.at = "spawn"
    /\ task' = Spawned(handler.run, "claim")
    /\ handler' = Idle
    /\ UNCHANGED <<scheduleVars, runVars, loop, asks, workVars, faults>>

(* The phone goes away, and the handler with it.                             *)
AskDropped ==
    /\ handler.at # "idle" /\ Fault
    /\ handler' = Idle
    /\ UNCHANGED <<scheduleVars, runVars, task, loop, asks, workVars>>

(* ------------------------------- a run ----------------------------------- *)

(* The Bot was archived or no phone is paired: no message is made now.       *)
Unavailable(r, k) ==
    /\ task[r][k] = "start" /\ Fault
    /\ run' = Ended(run, r, "failed")
    /\ task' = [task EXCEPT ![r][k] = None]
    /\ UNCHANGED <<scheduleVars, agreed, loop, handler, asks, workVars>>

(* ON CONFLICT DO NOTHING.                                                   *)
Made(r) == IF message[r] = None THEN [message EXCEPT ![r] = "waiting"] ELSE message

(* materialize_automation_message: message, work and link are one write.     *)
Materialize(r, k) ==
    /\ task[r][k] = "start" /\ run[r].state = "running"
    /\ message' = Made(r)
    /\ run' = [run EXCEPT ![r].linked = TRUE]
    /\ task' = [task EXCEPT ![r][k] = "made"]
    /\ UNCHANGED <<scheduleVars, agreed, loop, handler, asks, lock, wire, turn, notice, taken,
                   faults>>

(* The run is over already, or the write fails: the task ends.               *)
MaterializeFails(r, k) ==
    /\ task[r][k] = "start"
    /\ IF run[r].state = "running" THEN Fault ELSE UNCHANGED faults
    /\ task' = [task EXCEPT ![r][k] = None]
    /\ UNCHANGED <<scheduleVars, runVars, loop, handler, asks, workVars>>

Busy(r) == \E s \in Run \ {r} : message[s] \in {"claimed", "sent", "active"}

(* dispatch_to_codex_inner, by the task or by the dispatch loop: who does    *)
(* not get the message leaves it.                                            *)
Claim(r) ==
    /\ lock = 0 /\ message[r] = "waiting" /\ ~Busy(r)
    /\ message' = [message EXCEPT ![r] = "claimed"]
    /\ lock' = r
    /\ UNCHANGED <<scheduleVars, runVars, taskVars, wire, turn, notice, taken, faults>>

TaskEnds(r, k) ==
    /\ task[r][k] = "made" /\ lock = 0
    /\ task' = [task EXCEPT ![r][k] = None]
    /\ UNCHANGED <<scheduleVars, runVars, loop, handler, asks, workVars, faults>>

(* The message carries the text of the run's snapshot.                       *)
Submit(r) ==
    /\ lock = r /\ message[r] = "claimed"
    /\ message' = [message EXCEPT ![r] = "sent"]
    /\ wire' = wire \cup {r}
    /\ UNCHANGED <<scheduleVars, runVars, taskVars, lock, turn, notice, taken, faults>>

(* An error before the request could leave: the message may be sent again.   *)
PrepareFails(r) ==
    /\ lock = r /\ message[r] = "claimed" /\ Fault
    /\ message' = [message EXCEPT ![r] = "safe"]
    /\ run' = Ended(run, r, "failed")
    /\ lock' = 0
    /\ UNCHANGED <<scheduleVars, agreed, taskVars, wire, turn, notice, taken>>

Answered(r) ==
    /\ lock = r /\ message[r] = "sent" /\ turn[r] # None
    /\ message' = [message EXCEPT ![r] = "active"]
    /\ lock' = 0
    /\ UNCHANGED <<scheduleVars, runVars, taskVars, wire, turn, notice, taken, faults>>

(* finish_automation_dispatch_failure: the run is over, the turn may not be. *)
Unanswered(r) ==
    /\ lock = r /\ message[r] = "sent" /\ Fault
    /\ message' = [message EXCEPT ![r] = "uncertain"]
    /\ run' = Ended(run, r, "failed")
    /\ lock' = 0
    /\ UNCHANGED <<scheduleVars, agreed, taskVars, wire, turn, notice, taken>>

(* ---------------------- the message and its turn ------------------------- *)

Take(r) ==
    /\ r \in wire
    /\ wire' = wire \ {r}
    /\ turn' = [turn EXCEPT ![r] = "running"]
    /\ taken' = [taken EXCEPT ![r] = Append(@, run[r].text)]
    /\ UNCHANGED <<scheduleVars, runVars, taskVars, message, lock, notice, faults>>

TurnEnds(r) ==
    /\ turn[r] = "running"
    /\ turn' = [turn EXCEPT ![r] = "completed"]
    /\ notice' = [notice EXCEPT ![r] = "due"]
    /\ UNCHANGED <<scheduleVars, runVars, taskVars, message, lock, wire, taken, faults>>

OwnerStops(r) ==
    /\ message[r] = "active" /\ turn[r] = "running" /\ lock = 0
    /\ turn' = [turn EXCEPT ![r] = "interrupted"]
    /\ notice' = [notice EXCEPT ![r] = "due"]
    /\ message' = [message EXCEPT ![r] = "interrupted"]
    /\ UNCHANGED <<scheduleVars, runVars, taskVars, lock, wire, taken, faults>>

OwnerCancels(r) ==
    /\ message[r] = "waiting"
    /\ message' = [message EXCEPT ![r] = "interrupted"]
    /\ UNCHANGED <<scheduleVars, runVars, taskVars, lock, wire, turn, notice, taken, faults>>

OwnerRetries(r) ==
    /\ message[r] = "safe"
    /\ message' = [message EXCEPT ![r] = "waiting"]
    /\ UNCHANGED <<scheduleVars, runVars, taskVars, lock, wire, turn, notice, taken, faults>>

(* The scan for receipts finds the turn of an unanswered request.            *)
Found(r) ==
    /\ message[r] = "uncertain" /\ turn[r] # None /\ lock = 0
    /\ message' = [message EXCEPT ![r] = "active"]
    /\ UNCHANGED <<scheduleVars, runVars, taskVars, lock, wire, turn, notice, taken, faults>>

(* The notice waits for the message of its turn; the message is written      *)
(* before the run, and the notice is kept until both are.                    *)
Project(r) ==
    /\ notice[r] = "due" /\ message[r] \notin {"sent", "uncertain"}
    /\ message' = [message EXCEPT ![r] = IF @ = "active" THEN turn[r] ELSE @]
    /\ notice' = [notice EXCEPT ![r] = "half"]
    /\ UNCHANGED <<scheduleVars, runVars, taskVars, lock, wire, turn, taken, faults>>

ProjectRun(r) ==
    /\ notice[r] = "half"
    /\ run' = Ended(run, r, IF turn[r] = "completed" THEN "completed" ELSE "failed")
    /\ notice' = [notice EXCEPT ![r] = None]
    /\ UNCHANGED <<scheduleVars, agreed, taskVars, message, lock, wire, turn, taken, faults>>

(* The recovery task decides from history about a turn that ended unheard.   *)
RecoverTurn(r) ==
    /\ turn[r] = "cut" /\ message[r] = "active"
    /\ \E s \in {"completed", "interrupted"} : message' = [message EXCEPT ![r] = s]
    /\ UNCHANGED <<scheduleVars, runVars, taskVars, lock, wire, turn, notice, taken, faults>>

(* wonderd stops, and the runtime with it, and starts again.                 *)
Restart ==
    /\ Fault
    /\ task' = NoTask /\ handler' = Idle
    /\ loop' = [at |-> "wait", seen |-> NoSeen, now |-> 0, recovered |-> FALSE]
    /\ lock' = 0 /\ wire' = {}
    /\ message' = [r \in Run |-> CASE message[r] = "claimed" -> "waiting"
                                   [] message[r] = "sent" -> "uncertain"
                                   [] OTHER -> message[r]]
    /\ turn' = [r \in Run |-> IF turn[r] = "running" THEN "cut" ELSE turn[r]]
    /\ notice' = [r \in Run |-> IF notice[r] = "half" THEN "due" ELSE notice[r]]
    /\ UNCHANGED <<scheduleVars, runVars, asks, taken>>

(* ----------------------------- specification ----------------------------- *)

Init ==
    /\ clock = 0 /\ edits = 0 /\ asks = 0 /\ faults = 0
    /\ schedule = [text |-> 0, status |-> "active", next |-> 1, revision |-> 0]
    /\ run = [r \in Run |->
                 [state |-> None, at |-> 0, request |-> None, text |-> 0, linked |-> FALSE]]
    /\ agreed = [r \in Run |-> 0] /\ taken = [r \in Run |-> <<>>]
    /\ message = [r \in Run |-> None] /\ turn = message /\ notice = message
    /\ task = NoTask /\ handler = Idle
    /\ loop = [at |-> "wait", seen |-> NoSeen, now |-> 0, recovered |-> FALSE]
    /\ lock = 0 /\ wire = {}

Owner == \/ Reword \/ Pause \/ Reschedule
         \/ \E q \in Request : Ask(q)
         \/ \E r \in Run : OwnerStops(r) \/ OwnerCancels(r) \/ OwnerRetries(r)

Loop == Tick \/ SkipDue \/ \E r \in Run : ClaimDue(r)
Handler == AskRefused \/ AskSpawns \/ \E r \in Run : AskClaims(r)

TaskStep(r, k) == Unavailable(r, k) \/ Materialize(r, k) \/ MaterializeFails(r, k) \/ TaskEnds(r, k)
Submission(r) == Claim(r) \/ Submit(r) \/ PrepareFails(r) \/ Answered(r) \/ Unanswered(r)
TurnStep(r) == Take(r) \/ TurnEnds(r) \/ Found(r) \/ Project(r) \/ ProjectRun(r) \/ RecoverTurn(r)

RunStep(r) == (\E k \in Spawner : TaskStep(r, k)) \/ Submission(r) \/ TurnStep(r)
Going == Handler \/ \E r \in Run : RunStep(r)

Next == TimePasses \/ Owner \/ Loop \/ Going \/ AskDropped \/ Restart

Spec == Init /\ [][Next]_vars /\ WF_vars(Loop) /\ WF_vars(Going)

TypeOK ==
    /\ clock \in 0..MaxTime /\ edits \in 0..MaxEdits
    /\ asks \in 0..MaxAsks /\ faults \in 0..MaxFaults
    /\ schedule \in [text : 0..MaxEdits, status : {"active", "paused"}, next : 0..(MaxTime + 1),
                     revision : 0..(MaxEdits + MaxRuns)]
    /\ run \in [Run -> [state : {None, "running", "completed", "failed"}, at : 0..MaxTime,
                        request : Request \cup {None}, text : 0..MaxEdits, linked : BOOLEAN]]
    /\ agreed \in [Run -> 0..MaxEdits] /\ \A r \in Run : taken[r] \in Seq(0..MaxEdits)
    /\ message \in [Run -> {None, "waiting", "claimed", "sent", "uncertain", "active", "completed",
                            "interrupted", "safe"}]
    /\ turn \in [Run -> {None, "running", "completed", "interrupted", "cut"}]
    /\ notice \in [Run -> {None, "due", "half"}]
    /\ task \in [Run -> [Spawner -> {None, "start", "made"}]]
    /\ handler.at \in {"idle", "read", "spawn"} /\ handler.run \in 0..MaxRuns
    /\ loop.at \in {"wait", "due"} /\ loop.recovered \in BOOLEAN
    /\ lock \in 0..MaxRuns /\ wire \subseteq Run

(* ------------------------------ properties ------------------------------- *)

(* "The snapshot is the accepted work; schedule edits cannot rewrite it"     *)
(* (wonder-store/src/automations.rs:22): for a run the runtime takes one     *)
(* task, once, with the text the schedule had when the run was accepted,     *)
(* through recovery, two tasks for one run, retries and edits.               *)
RunsAsAccepted == \A r \in Run : taken[r] \in {<<>>, <<agreed[r]>>}

(* No task is left to make the message: its handler was dropped or the write *)
(* failed, which only the next start of the daemon repairs.                  *)
Stranded(r) ==
    /\ loop.recovered /\ ~run[r].linked
    /\ handler.run # r /\ \A k \in Spawner : task[r][k] = None

(* Nobody can tell whether the runtime has the message, or the run waits for *)
(* the next start of the daemon.                                             *)
Beyond(r) == message[r] = "uncertain" \/ Stranded(r)

(* A run that goes on holds up the schedule and the owner's requests; it     *)
(* ends by itself, and what came due meanwhile is accepted, unless the run   *)
(* is beyond the loop. "While a run is active its due timestamp stays        *)
(* pending" (wonderd/src/lib.rs:10170).                                      *)
CatchesUp ==
    (Due \/ Running # {}) ~> ((~Due /\ Running = {}) \/ \E r \in Running : Beyond(r))
=============================================================================
