--------------------------- MODULE UpdateHandoff ---------------------------
(* A turn that runs when the host is updated is stopped and continued by the *)
(* daemon that starts afterwards. The turn's row in update_handoffs says how *)
(* far that is; it is written before the runtime is told anything, because   *)
(* the daemon, the runtime or an answer may be lost at every step, and the   *)
(* owner may stop the work meanwhile. One thread with one message of a Bot.  *)
EXTENDS Naturals, FiniteSets

CONSTANTS
    MaxTurns,     \* bound: turns of the thread, the first and continuations
    MaxUpdates,   \* bound: preparations of an update
    MaxStops,     \* bound: times the owner presses Stop
    MaxFaults     \* bound: crashes, deaths of the runtime, lost starts and answers

Turn == 1..MaxTurns
None == 0

VARIABLES
    history,    \* the runtime's record: the status of each turn
    carries,    \* the stopped turn that each turn continues, by resume_client_id
    wire,       \* the turns whose turn/start is on its way to the runtime
    message,    \* the message: its codex_turn_id and its state
    handoff,    \* update_handoffs, by stopped_turn_id
    events,     \* turn/completed notices that are not projected yet
    requested, scan,   \* is a reconciliation requested, and the turn it has listed
    worker,     \* who holds dispatch_lock and how far it is
    preparing,  \* the lease of an update that is being prepared, or prepared
    updates, stops, faults,
    sends,      \* history: turn/start requests written for each stopped turn
    stopped,    \* history: the turns whose continuation the owner has stopped
    told        \* history: the turns cut off of which the owner was told

runtimeVars == <<history, carries, wire>>
storeVars == <<message, handoff, events>>
taskVars == <<requested, scan, worker, preparing>>
bounds == <<updates, stops, faults>>
records == <<sends, stopped, told>>
vars == <<runtimeVars, storeVars, taskVars, bounds, records>>

Free == [at |-> "free", turn |-> None, seen |-> "none", next |-> None]
At(where, t) == worker' = [Free EXCEPT !.at = where, !.turn = t]
Go(where) == worker' = [worker EXCEPT !.at = where]
Release == worker' = Free
Fault == faults < MaxFaults /\ faults' = faults + 1

Waiting == {"paused", "submitting"}
Pending(t) == handoff[t] \in Waiting
Cancelled(t) == [handoff EXCEPT ![t] = IF @ \in Waiting THEN "cancelled" ELSE @]
Active(t) == message.turn = t /\ message.state = "active"
Running == \E t \in Turn : history[t] = "inProgress"
Continuations(h) == {t \in Turn : carries[t] = h}
Tell(t) == told' = IF history[t] = "inProgress" THEN told ELSE told \cup {t}

(* ------------------------------ the runtime ------------------------------ *)

TurnEnds(t) ==
    /\ history[t] = "inProgress"
    /\ history' = [history EXCEPT ![t] = "completed"]
    /\ events' = events \cup {t}
    /\ UNCHANGED <<carries, wire, message, handoff, taskVars, bounds, records>>

(* A turn/start is taken, perhaps long after its answer was given up.        *)
Accept(h) ==
    /\ h \in wire
    /\ wire' = wire \ {h}
    /\ \E t \in Turn : /\ history[t] = "none"
                       /\ \A u \in 1..(t - 1) : history[u] # "none"
                       /\ history' = [history EXCEPT ![t] = "inProgress"]
                       /\ carries' = [carries EXCEPT ![t] = h]
    /\ UNCHANGED <<storeVars, taskVars, bounds, records>>

(* A process that dies takes its running turns and its requests with it.     *)
CutOff == /\ history' = [t \in Turn |-> IF history[t] = "inProgress" THEN "interrupted" ELSE history[t]]
          /\ wire' = {}
          /\ requested' = TRUE
          /\ UNCHANGED carries

RuntimeDies ==
    /\ Fault
    /\ CutOff
    /\ UNCHANGED <<storeVars, scan, worker, preparing, updates, stops, records>>

(* A crash of the daemon, or its replacement by the update.                  *)
Restart ==
    /\ Fault
    /\ CutOff
    /\ Release /\ scan' = None /\ preparing' = FALSE
    /\ events' \in {events, {}}
    /\ UNCHANGED <<message, handoff, updates, stops, records>>

(* --------------------------- preparing an update ------------------------- *)

(* prepare_update takes the lease and the lock; pause finds the work to stop:    *)
(* what runs, or what an earlier preparation has left.                       *)
Prepare ==
    /\ worker = Free /\ updates < MaxUpdates
    /\ updates' = updates + 1
    /\ preparing' = TRUE
    /\ LET found == {t \in Turn : \/ Active(t) /\ history[t] = "inProgress"
                                  \/ Pending(t)}
       IN IF found = {} THEN Release ELSE \E t \in found : At("save", t)
    /\ UNCHANGED <<runtimeVars, storeVars, requested, scan, stops, faults, records>>

(* save_update_handoff, before anything is interrupted. A cancelled handoff  *)
(* is not revived.                                                           *)
Save ==
    /\ worker.at = "save"
    /\ handoff' = [handoff EXCEPT ![worker.turn] = IF @ = "none" THEN "paused" ELSE @]
    /\ Go("interrupt")
    /\ UNCHANGED <<runtimeVars, message, events, requested, scan, preparing, bounds, records>>

Interrupted(t) ==
    IF history[t] = "inProgress"
    THEN history' = [history EXCEPT ![t] = "interrupted"] /\ events' = events \cup {t}
    ELSE UNCHANGED <<history, events>>

Interrupt ==
    /\ worker.at = "interrupt"
    /\ Interrupted(worker.turn)
    /\ Go("confirm")
    /\ UNCHANGED <<carries, wire, message, handoff, requested, scan, preparing, bounds, records>>

(* A turn that completed by itself has won.                                  *)
Confirm ==
    /\ worker.at = "confirm"
    /\ handoff' = IF history[worker.turn] = "completed" THEN Cancelled(worker.turn) ELSE handoff
    /\ Release
    /\ UNCHANGED <<runtimeVars, message, events, requested, scan, preparing, bounds, records>>

(* An error, or the 25 seconds are over.                                     *)
PrepareFails ==
    /\ worker.at \in {"save", "interrupt", "confirm"}
    /\ Release
    /\ preparing' = FALSE
    /\ UNCHANGED <<runtimeVars, storeVars, requested, scan, bounds, records>>

(* The lease expires, or the updater cancels it.                             *)
LeaseEnds ==
    /\ preparing /\ worker = Free
    /\ preparing' = FALSE
    /\ UNCHANGED <<runtimeVars, storeVars, requested, scan, worker, bounds, records>>

(* ------------------------------ continuing ------------------------------- *)

RecoverPaused(h) ==
    /\ worker = Free /\ ~preparing /\ handoff[h] = "paused"
    /\ IF Active(h)
       THEN worker' = [Free EXCEPT !.at = "validate", !.turn = h, !.seen = handoff[h]] /\ UNCHANGED handoff
       ELSE handoff' = Cancelled(h) /\ UNCHANGED worker
    /\ UNCHANGED <<runtimeVars, message, events, requested, scan, preparing, bounds, records>>

(* recover, for each pending handoff, while no update is prepared.           *)
Recover(h) ==
    /\ worker = Free /\ ~preparing /\ Pending(h)
    /\ IF Active(h)
       THEN worker' = [Free EXCEPT !.at = "validate", !.turn = h, !.seen = handoff[h]] /\ UNCHANGED handoff
       ELSE handoff' = Cancelled(h) /\ UNCHANGED worker
    /\ UNCHANGED <<runtimeVars, message, events, requested, scan, preparing, bounds, records>>

Validated ==
    /\ worker.at = "validate"
    /\ Go("look")
    /\ UNCHANGED <<runtimeVars, storeVars, requested, scan, preparing, bounds, records>>

(* The access of the Bot has changed: the work needs its owner.              *)
Block ==
    LET h == worker.turn IN
    /\ worker.at = "validate"
    /\ handoff' = Cancelled(h)
    /\ message' = IF Active(h) THEN [message EXCEPT !.state = "interrupted"] ELSE message
    /\ Tell(h)
    /\ Release
    /\ UNCHANGED <<runtimeVars, events, requested, scan, preparing, bounds, sends, stopped>>

(* thread/resume and the whole history: an accepted continuation is bound;   *)
(* otherwise only an idle thread, a handoff nobody has submitted and a turn  *)
(* that was cut off are continued.                                           *)
Report == Tell(worker.turn) /\ Release /\ UNCHANGED handoff

Look ==
    LET h == worker.turn  found == Continuations(h) IN
    /\ worker.at = "look"
    /\ IF found # {} THEN /\ worker' = [worker EXCEPT !.at = "finish", !.next = CHOOSE t \in found : TRUE]
                          /\ UNCHANGED <<handoff, told>>
       ELSE IF Running \/ worker.seen = "submitting" THEN Report
       ELSE /\ UNCHANGED told
            /\ IF history[h] = "completed"
               THEN handoff' = Cancelled(h) /\ Release
               ELSE Go("claim") /\ UNCHANGED handoff
    /\ UNCHANGED <<runtimeVars, message, events, requested, scan, preparing, bounds, sends, stopped>>

LookFails ==
    /\ worker.at = "look"
    /\ Report
    /\ UNCHANGED <<runtimeVars, message, events, requested, scan, preparing, bounds, sends, stopped>>

(* claim_update_continuation, and only then the request leaves.              *)
Claim ==
    LET h == worker.turn IN
    /\ worker.at = "claim"
    /\ IF handoff[h] = "paused"
       THEN /\ handoff' = [handoff EXCEPT ![h] = "submitting"]
            /\ wire' = wire \cup {h}
            /\ sends' = [sends EXCEPT ![h] = @ + 1]
            /\ Go("start")
       ELSE Release /\ UNCHANGED <<handoff, wire, sends>>
    /\ UNCHANGED <<history, carries, message, events, requested, scan, preparing, bounds, stopped, told>>

StartAnswered ==
    LET found == Continuations(worker.turn) IN
    /\ worker.at = "start" /\ found # {}
    /\ worker' = [worker EXCEPT !.at = "finish", !.next = CHOOSE t \in found : TRUE]
    /\ UNCHANGED <<runtimeVars, storeVars, requested, scan, preparing, bounds, records>>

StartRetries ==
    LET h == worker.turn IN
    /\ worker.at = "start"
    /\ Tell(h) /\ Release
    /\ handoff' = [handoff EXCEPT ![h] = IF @ = "submitting" THEN "paused" ELSE @]
    /\ UNCHANGED <<runtimeVars, message, events, requested, scan, preparing, bounds, sends, stopped>>

(* The answer is lost or late: the handoff stays submitting, whatever the runtime    *)
(* does with the request.                                                    *)
StartUnanswered ==
    /\ worker.at = "start"
    /\ Report
    /\ UNCHANGED <<runtimeVars, message, events, requested, scan, preparing, bounds, sends, stopped>>

(* finish_update_continuation: the message moves to the turn that continues  *)
(* its work.                                                                 *)
Finish ==
    LET h == worker.turn IN
    /\ worker.at = "finish"
    /\ IF handoff[h] = "submitting"
       THEN /\ handoff' = [handoff EXCEPT ![h] = "resumed"]
            /\ message' = IF Active(h) THEN [message EXCEPT !.turn = worker.next] ELSE message
            /\ requested' = TRUE
       ELSE UNCHANGED <<handoff, message, requested>>
    /\ Release
    /\ UNCHANGED <<runtimeVars, events, scan, preparing, bounds, records>>

(* ------------------------- beside the continuation ----------------------- *)

Completes(t) == message' = IF message.turn = t /\ message.state \in {"active", "uncertain"}
                           THEN [message EXCEPT !.state = "completed"] ELSE message

(* terminal: the notice of a turn that the update has stopped is suppressed, *)
(* any other cancels the handoff and settles the message. The notice of a    *)
(* turn that no message has yet is parked.                                   *)
Terminal(t) ==
    /\ worker = Free /\ t \in events /\ t <= message.turn
    /\ events' = events \ {t}
    /\ IF history[t] = "interrupted" /\ handoff[t] \in Waiting \cup {"resumed"}
       THEN UNCHANGED <<message, handoff>>
       ELSE Completes(t) /\ handoff' = Cancelled(t)
    /\ UNCHANGED <<runtimeVars, taskVars, bounds, records>>

(* The recovery task, without the lock, lists the message unless its turn is *)
(* handed off, ...                                                           *)
ScanLists ==
    /\ requested /\ scan = None
    /\ requested' = FALSE
    /\ scan' = IF message.state \in {"active", "uncertain"} /\ ~Pending(message.turn)
               THEN message.turn ELSE None
    /\ UNCHANGED <<runtimeVars, storeVars, worker, preparing, bounds, records>>

(* ... and settles it by what the history says of the turn it has listed.    *)
ScanSettles ==
    /\ scan # None
    /\ CASE history[scan] = "inProgress" -> UNCHANGED <<message, handoff>>
         [] history[scan] = "completed" -> Completes(scan) /\ handoff' = Cancelled(scan)
         [] OTHER -> /\ message' = IF Active(scan) THEN [message EXCEPT !.state = "uncertain"] ELSE message
                     /\ UNCHANGED handoff
    /\ scan' = None
    /\ UNCHANGED <<runtimeVars, events, requested, worker, preparing, bounds, records>>

(* The owner's Stop: the handoff is cancelled before the runtime is asked.   *)
Stop ==
    LET t == message.turn IN
    /\ worker = Free /\ stops < MaxStops
    /\ stops' = stops + 1
    /\ stopped' = IF Pending(t) THEN stopped \cup {t} ELSE stopped
    /\ handoff' = Cancelled(t)
    /\ IF message.state = "active" THEN At("stop", t) ELSE Release
    /\ UNCHANGED <<runtimeVars, message, events, requested, scan, preparing, updates, faults, sends, told>>

StopAnswered ==
    /\ worker.at = "stop"
    /\ Interrupted(worker.turn)
    /\ message' = IF Active(worker.turn) THEN [message EXCEPT !.state = "interrupted"] ELSE message
    /\ stopped' = stopped \cup {worker.turn}
    /\ Release
    /\ UNCHANGED <<carries, wire, handoff, requested, scan, preparing, bounds, sends, told>>

(* An error or no answer: the runtime may have stopped the turn all the same. *)
StopUnanswered ==
    /\ worker.at = "stop"
    /\ Interrupted(worker.turn) \/ UNCHANGED <<history, events>>
    /\ Tell(worker.turn) /\ Release
    /\ UNCHANGED <<carries, wire, message, handoff, requested, scan, preparing, bounds, sends, stopped>>

Init ==
    /\ history = [t \in Turn |-> IF t = 1 THEN "inProgress" ELSE "none"]
    /\ carries = [t \in Turn |-> None]
    /\ wire = {}
    /\ message = [turn |-> 1, state |-> "active"]
    /\ handoff = [t \in Turn |-> "none"]
    /\ events = {} /\ requested = FALSE /\ scan = None
    /\ worker = Free /\ preparing = FALSE
    /\ updates = 0 /\ stops = 0 /\ faults = 0
    /\ sends = [t \in Turn |-> 0] /\ stopped = {} /\ told = {}

Going == \/ Save \/ Interrupt \/ Confirm \/ PrepareFails \/ Validated \/ Block \/ Look \/ LookFails
         \/ Claim \/ StartAnswered \/ StartUnanswered \/ Finish \/ StopAnswered \/ StopUnanswered

RecoverAny == \E t \in Turn : Recover(t)
TerminalAny == \E t \in Turn : Terminal(t)

Next ==
    \/ \E t \in Turn : TurnEnds(t) \/ Accept(t)
    \/ Going \/ RecoverAny \/ TerminalAny
    \/ Prepare \/ LeaseEnds \/ ScanLists \/ ScanSettles \/ Stop
    \/ RuntimeDies \/ Restart

(* Whoever holds the lock goes on, the dispatch loop looks for handoffs, the *)
(* projector and the recovery task run, and an unused lease expires.             *)
Fairness == /\ WF_vars(Going)
            /\ WF_vars(LeaseEnds)
            /\ WF_vars(RecoverAny)
            /\ WF_vars(TerminalAny)
            /\ WF_vars(ScanLists \/ ScanSettles)

Spec == Init /\ [][Next]_vars
LiveSpec == Spec /\ Fairness

(* ------------------------------ properties ------------------------------- *)

TypeOK ==
    /\ history \in [Turn -> {"none", "inProgress", "interrupted", "completed"}]
    /\ carries \in [Turn -> Turn \cup {None}] /\ wire \subseteq Turn
    /\ message \in [turn : Turn, state : {"active", "interrupted", "completed", "uncertain"}]
    /\ handoff \in [Turn -> {"none", "paused", "submitting", "resumed", "cancelled"}]
    /\ events \subseteq Turn /\ requested \in BOOLEAN /\ scan \in Turn \cup {None}
    /\ worker \in [at : {"free", "save", "interrupt", "confirm", "validate", "look", "claim",
                         "start", "finish", "stop"},
                   turn : Turn \cup {None}, seen : {"none", "paused", "submitting"},
                   next : Turn \cup {None}]
    /\ preparing \in BOOLEAN
    /\ updates \in 0..MaxUpdates /\ stops \in 0..MaxStops /\ faults \in 0..MaxFaults
    /\ sends \in [Turn -> 0..1] /\ stopped \subseteq Turn /\ told \subseteq Turn

(* A stopped turn is continued by one request at most, ever, and only if it  *)
(* was cut off and its owner had not stopped it before: neither a turn that  *)
(* finished by itself nor one that may already be continued is run again.    *)
ContinuedOnce ==
    [][\A h \in Turn : sends'[h] # sends[h] =>
          /\ sends[h] = 0 /\ Continuations(h) = {}
          /\ history[h] = "interrupted" /\ h \notin stopped]_vars

(* Work that the update has cut off is continued, settled, or its owner is   *)
(* told: the notice that was suppressed leaves nobody waiting.               *)
Stranded == /\ message.state = "active" /\ history[message.turn] = "interrupted"
            /\ message.turn \notin told
CutOffIsSettled == []<>~Stranded
=============================================================================
