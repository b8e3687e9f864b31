----------------------------- MODULE Protocols -----------------------------
(* The protocols beside the delivery of messages. They share no state:       *)
(* `part` is chosen at the start and says which of them moves, so that one   *)
(* run explores them side by side. A question and the tool calls share the   *)
(* lock and nothing else, and are asked in parts of their own.               *)
EXTENDS Approvals

CONSTANTS
    MaxRequests, MaxSeq, MaxCalls, MaxLosses,   \* the bounds of ComputerControl,
    MaxTurns, MaxUpdates, MaxStops,             \* of UpdateHandoff,
    MaxRuns, MaxTime, RunRequest, MaxAsks, MaxEdits,   \* of Automations,
    MaxFaults                                   \* and of both the latter

ASSUME ProtocolsAssumption ==
    /\ MaxRequests \in Nat /\ MaxSeq \in Nat /\ MaxLosses \in Nat
    /\ MaxTurns \in Nat \ {0} /\ MaxUpdates \in Nat /\ MaxStops \in Nat /\ MaxFaults \in Nat
    /\ MaxRuns \in Nat /\ MaxTime \in Nat /\ MaxAsks \in Nat /\ MaxEdits \in Nat

VARIABLES
    part,
    lease, handler, pipe, consent, gate, revoked, phone, next, calls, losses, executed,
    history, carries, wire, message, handoff, events, requested, scan, worker, preparing,
    updates, stops, faults, sends, stopped, told,
    clock, schedule, edits, run, task, loop, asks, lock, turn, notice, agreed, taken,
    written, asking, started, failed

controlVars == <<lease, handler, pipe, consent, gate, revoked, phone, next, calls, losses, executed>>
handoffVars == <<history, carries, wire, message, handoff, events, requested, scan, worker,
                 preparing, updates, stops, faults, sends, stopped, told>>
automationVars == <<clock, schedule, edits, run, task, loop, asks, lock, turn, notice, agreed,
                    taken, written, asking, started, failed>>
protocolsVars == <<part, vars, controlVars, handoffVars, automationVars>>

Control == INSTANCE ComputerControl
Handoff == INSTANCE UpdateHandoff
Automation == INSTANCE Automations WITH
    Request <- RunRequest, message <- written, handler <- asking, wire <- started,
    faults <- failed

\* Bound: a request of the owner only before the last time of the schedule;
\* of the edits, requests and faults that there may be, one is left out.
Bounded == /\ asks' = 0 \/ clock' < MaxTime
           /\ asks' + edits' + failed' < MaxAsks + MaxEdits + MaxFaults

Asked(R) == \A r \in Req \ R : row'[r].state = None

ProtocolsInit == /\ part \in {"questions", "tools", "control", "handoff", "automations"}
                 /\ Init /\ Control!Init /\ Handoff!Init /\ Automation!Init

ProtocolsNext ==
    \/ /\ part = "questions" /\ Next /\ Asked(Question)
       /\ UNCHANGED <<part, controlVars, handoffVars, automationVars>>
    \/ /\ part = "tools" /\ Next /\ Asked(Tool \cup Permitted)
       /\ UNCHANGED <<part, controlVars, handoffVars, automationVars>>
    \/ /\ part = "control" /\ Control!Next
       /\ UNCHANGED <<part, vars, handoffVars, automationVars>>
    \/ /\ part = "handoff" /\ Handoff!Next
       /\ UNCHANGED <<part, vars, controlVars, automationVars>>
    \/ /\ part = "automations" /\ Automation!Next /\ Bounded
       /\ UNCHANGED <<part, vars, controlVars, handoffVars>>

ProtocolsFairness ==
    /\ \A r \in Question : WF_vars(part = "questions" /\ Expire(r))
    /\ WF_vars(part = "questions" /\ Going)
    /\ WF_controlVars(part = "control" /\ Control!Daemon)
    /\ WF_controlVars(part = "control" /\ Control!Command)
    /\ WF_controlVars(part = "control" /\ Control!GateExpires)
    /\ WF_controlVars(part = "control" /\ Control!Timer)
    /\ WF_handoffVars(part = "handoff" /\ Handoff!Going)
    /\ WF_handoffVars(part = "handoff" /\ Handoff!LeaseEnds)
    /\ WF_handoffVars(part = "handoff" /\ Handoff!RecoverAny)
    /\ WF_handoffVars(part = "handoff" /\ Handoff!TerminalAny)
    /\ WF_handoffVars(part = "handoff" /\ (Handoff!ScanLists \/ Handoff!ScanSettles))
    /\ WF_automationVars(part = "automations" /\ Automation!Loop /\ Bounded)
    /\ WF_automationVars(part = "automations" /\ Automation!Going /\ Bounded)

ProtocolsSpec == ProtocolsInit /\ [][ProtocolsNext]_protocolsVars /\ ProtocolsFairness

(* Every variable of every part keeps its type.                              *)
TypesOK == TypeOK /\ Control!TypeOK /\ Handoff!TypeOK /\ Automation!TypeOK

(* A batch of the phone's input is carried out once at most and in order     *)
(* (advance_control_sequence, ControlGate).                                  *)
EachInputOnce == Control!EachInputOnce

(* A Mac whose phone has let go, or never learned that it had control, is    *)
(* given back (release_control, the expiry of ControlGate).                  *)
HandedBack == Control!HandedBack

(* A turn that the update has stopped is continued by one request at most    *)
(* (claim_update_continuation, cancel_update_handoff).                       *)
ContinuedOnce == Handoff!ContinuedOnce

(* Work that the update has cut off is continued or settled, or its owner is *)
(* told (recover_one).                                                       *)
CutOffIsSettled == Handoff!CutOffIsSettled

(* A run of an automation has the task that the schedule had when the run    *)
(* was accepted (claim_scheduled_automation).                                *)
RunsAsAccepted == Automation!RunsAsAccepted

(* A run ends by itself, and what came due meanwhile is accepted             *)
(* (the scheduler of wonderd).                                               *)
CatchesUp == Automation!CatchesUp
=============================================================================
