-------------------------- MODULE ComputerControl --------------------------
(* Control of the Mac from the phone that watches it. The lease exists three *)
(* times: as a row the daemon keeps, as the gate of the helper process that  *)
(* moves the pointer, and as what the phone believes. The phone sends one    *)
(* batch of input at a time, and heartbeats beside it; every HTTP handler of *)
(* the daemon talks to the helper over one pipe, in order, may time out on   *)
(* it, and is dropped when the phone hangs up, with its command still in the *)
(* pipe. The row and the gate expire by clocks of their own.                 *)
EXTENDS Naturals, Sequences

CONSTANTS
    MaxRequests,   \* bound: control requests the phone makes up
    MaxSeq,        \* bound: batches of input under one lease
    MaxCalls,      \* bound: attempts to take control and heartbeats
    MaxLosses      \* bound: lost calls, unanswered commands, stops at the Mac

Request == 1..MaxRequests
None == 0                    \* no request, nobody waiting
Kind == {"acquire", "heartbeat", "input", "release"}

VARIABLES
    lease,       \* computer_control_leases, by client_request_id
    handler,     \* the HTTP handlers: one of each kind at most
    pipe,        \* commands on their way to the helper
    consent,     \* the helper's record of what the person at the Mac said
    gate,        \* the active lease of ControlLeaseGate
    revoked,     \* control.revoked events on their way back
    phone,       \* what the phone believes
    next,        \* the next request id
    calls,       \* attempts and heartbeats so far
    losses,
    executed     \* history: how often each batch of each lease was carried out

daemonVars == <<lease, handler>>
helperVars == <<consent, gate, executed>>
phoneVars == <<phone, next, calls>>
vars == <<daemonVars, pipe, helperVars, revoked, phoneVars, losses>>

Idle == [at |-> "idle", req |-> None, seq |-> 0, heard |-> FALSE, ok |-> FALSE]
Closed == [req |-> None, last |-> 0, late |-> FALSE]
Watching == [at |-> "watching", req |-> None, seq |-> 0]

Loss == losses < MaxLosses /\ losses' = losses + 1
Counted == calls < MaxCalls /\ calls' = calls + 1
Larger(a, b) == IF a >= b THEN a ELSE b

Active(r) == lease[r].status = "active"
Valid(r) == Active(r) /\ ~lease[r].late

(* release_computer_control_lease: only an active lease changes.             *)
Released(r) == IF Active(r) THEN [lease EXCEPT ![r].status = "released", ![r].late = FALSE] ELSE lease

(* ------------------------------- the phone ------------------------------- *)

Called(at, r, seq) == [at |-> at, req |-> r, seq |-> seq, heard |-> TRUE, ok |-> FALSE]

(* takeControl: the request id of an attempt without an answer is used again. *)
TakeControl ==
    LET r == IF phone.req = None THEN next ELSE phone.req IN
    /\ phone.at = "watching" /\ handler["acquire"] = Idle
    /\ Counted
    /\ r \in Request
    /\ phone' = [at |-> "starting", req |-> r, seq |-> 0]
    /\ next' = IF phone.req = None THEN next + 1 ELSE next
    /\ handler' = [handler EXCEPT !["acquire"] = Called("lookup", r, 0)]
    /\ UNCHANGED <<lease, pipe, helperVars, revoked, losses>>

SendInput ==
    /\ phone.at = "active" /\ handler["input"] = Idle /\ phone.seq < MaxSeq
    /\ handler' = [handler EXCEPT !["input"] = Called("prepare", phone.req, phone.seq + 1)]
    /\ UNCHANGED <<lease, pipe, helperVars, revoked, phoneVars, losses>>

SendHeartbeat ==
    /\ phone.at = "active" /\ handler["heartbeat"] = Idle
    /\ Counted
    /\ handler' = [handler EXCEPT !["heartbeat"] = Called("read", phone.req, 0)]
    /\ UNCHANGED <<lease, pipe, helperVars, revoked, phone, next, losses>>

(* Nobody listens to what the other handlers of the lease will answer.       *)
HangUp(h) == [k \in Kind |-> IF k = "release" \/ h[k] = Idle THEN h[k]
                             ELSE [h[k] EXCEPT !.heard = FALSE]]

LetGoButKeep(h, r) ==
    /\ handler["release"] = Idle
    /\ phone' = [Watching EXCEPT !.req = phone.req]
    /\ handler' = [HangUp(h) EXCEPT !["release"] = Called("ask", r, 0)]

(* failClosed and releaseControl: the lease is given back and its request id *)
(* with it.                                                                  *)
LetGo(h, r) ==
    /\ handler["release"] = Idle
    /\ phone' = Watching
    /\ handler' = [HangUp(h) EXCEPT !["release"] = Called("ask", r, 0)]

Done == /\ phone.at = "active"
        /\ LetGo(handler, phone.req)
        /\ UNCHANGED <<lease, pipe, helperVars, revoked, next, calls, losses>>

(* The owner gives up while control starts: the request id stays.            *)
GiveUp == /\ phone.at = "starting"
          /\ phone' = [phone EXCEPT !.at = "watching"]
          /\ handler' = HangUp(handler)
          /\ UNCHANGED <<lease, pipe, helperVars, revoked, next, calls, losses>>

(* An answer of the daemon.                                                  *)
Answered(k) == handler[k].at = "reply" /\ handler[k].heard
Taken(k) == [handler EXCEPT ![k] = Idle]

AcquireAnswered ==
    LET got == handler["acquire"] IN
    /\ Answered("acquire")
    /\ handler' = Taken("acquire")
    /\ phone' = IF got.ok THEN [at |-> "active", req |-> got.req, seq |-> got.seq] ELSE Watching
    /\ UNCHANGED <<lease, pipe, helperVars, revoked, next, calls, losses>>

(* The owner had given up when the lease came: it is released at once.       *)
TooLateForControl ==
    LET got == handler["acquire"] IN
    /\ Answered("acquire") /\ got.ok /\ handler["release"] = Idle
    /\ phone' = [phone EXCEPT !.at = "watching"]
    /\ handler' = [Taken("acquire") EXCEPT !["release"] = Called("ask", got.req, 0)]
    /\ UNCHANGED <<lease, pipe, helperVars, revoked, next, calls, losses>>

BeatAnswered(k) ==
    LET got == handler[k] IN
    /\ k \in {"heartbeat", "input"} /\ Answered(k)
    /\ IF got.ok
       THEN /\ phone' = [phone EXCEPT !.seq = Larger(@, got.seq)]
            /\ handler' = Taken(k)
       ELSE LetGo(Taken(k), got.req)
    /\ UNCHANGED <<lease, pipe, helperVars, revoked, next, calls, losses>>

ReleaseAnswered == /\ Answered("release")
                   /\ handler' = Taken("release")
                   /\ UNCHANGED <<lease, pipe, helperVars, revoked, phoneVars, losses>>

(* ----------------------- calls and commands are lost --------------------- *)

Orphan(k) == [i \in DOMAIN pipe |-> IF pipe[i].by = k THEN [pipe[i] EXCEPT !.by = "nobody"]
                                    ELSE pipe[i]]

(* The phone sees an error; the handler goes on for nobody.                  *)
Lose(k) ==
    /\ Loss
    /\ handler[k].heard
    /\ CASE k = "acquire" -> /\ phone' = [phone EXCEPT !.at = "watching"]
                             /\ handler' = [handler EXCEPT ![k].heard = FALSE]
         [] k = "release" -> /\ UNCHANGED phone
                             /\ handler' = [handler EXCEPT ![k].heard = FALSE]
         [] OTHER -> LetGo(handler, handler[k].req)
    /\ UNCHANGED <<lease, pipe, helperVars, revoked, next, calls>>

(* The server drops the handler of a call that was hung up.                  *)
Drop(k) ==
    /\ handler[k] # Idle /\ ~handler[k].heard
    /\ handler' = [handler EXCEPT ![k] = Idle]
    /\ pipe' = Orphan(k)
    /\ UNCHANGED <<lease, helperVars, revoked, phoneVars, losses>>

(* ------------------------------ the daemon ------------------------------- *)

Step(k, at) == handler' = [handler EXCEPT ![k].at = at]
Answer(h, ok, seq) == IF h.heard THEN [h EXCEPT !.at = "reply", !.ok = ok, !.seq = seq] ELSE Idle
Reply(k, ok, seq) == handler' = [handler EXCEPT ![k] = Answer(@, ok, seq)]
Ask(k, op, at) ==
    /\ Step(k, at)
    /\ pipe' = Append(pipe, [op |-> op, req |-> handler[k].req, seq |-> handler[k].seq, by |-> k])

(* acquire_control looks the request up, and reserves the host for the time  *)
(* the person at the Mac needs to answer.                                    *)
Expired == [r \in Request |-> IF Active(r) /\ lease[r].late
                              THEN [lease[r] EXCEPT !.status = "expired", !.late = FALSE] ELSE lease[r]]

Lookup ==
    LET r == handler["acquire"].req
        fresh == lease[r].status = "none"
        probe == fresh \/ (Active(r) /\ lease[r].late)
        now == IF probe THEN Expired ELSE lease
        busy == \E o \in Request : now[o].status = "active"
    IN
    /\ handler["acquire"].at = "lookup"
    /\ IF fresh /\ ~busy
       THEN /\ lease' = [now EXCEPT ![r].status = "active"]
            /\ Ask("acquire", "consent", "consent")
       ELSE /\ lease' = now
            /\ IF now[r].status = "active" THEN Step("acquire", "renew")
                                           ELSE Reply("acquire", FALSE, 0)
            /\ UNCHANGED pipe
    /\ UNCHANGED <<helperVars, revoked, phoneVars, losses>>

(* heartbeat_computer_control_lease before the helper is told to activate.   *)
Renew ==
    LET r == handler["acquire"].req IN
    /\ handler["acquire"].at = "renew"
    /\ IF Valid(r)
       THEN Ask("acquire", "activate", "activate")
       ELSE Step("acquire", "undo") /\ UNCHANGED pipe
    /\ UNCHANGED <<lease, helperVars, revoked, phoneVars, losses>>

(* What every failure ends with: the row is released, then the gate.         *)
Undo(k) ==
    /\ handler[k].at = "undo"
    /\ lease' = Released(handler[k].req)
    /\ Ask(k, "release", "undone")
    /\ UNCHANGED <<helperVars, revoked, phoneVars, losses>>

(* heartbeat_control reads the row, then updates it if nobody has meanwhile. *)
BeatRead ==
    LET h == handler["heartbeat"] IN
    /\ h.at = "read"
    /\ IF Valid(h.req) THEN handler' = [handler EXCEPT !["heartbeat"].at = "beat",
                                                       !["heartbeat"].ok = TRUE]
                       ELSE Reply("heartbeat", FALSE, 0)
    /\ UNCHANGED <<lease, pipe, helperVars, revoked, phoneVars, losses>>

(* A heartbeat that has read the row before an advance wrote it.             *)
Overtaken(r, seq) == IF handler["heartbeat"].at = "beat" /\ handler["heartbeat"].req = r
                        /\ lease[r].seq # seq
                     THEN [handler EXCEPT !["heartbeat"].ok = FALSE] ELSE handler

BeatWrite ==
    LET h == handler["heartbeat"] IN
    /\ h.at = "beat"
    /\ IF Active(h.req) /\ h.ok
       THEN /\ lease' = [lease EXCEPT ![h.req].late = FALSE]
            /\ handler' = [handler EXCEPT !["heartbeat"].at = "renewing",
                                          !["heartbeat"].seq = lease[h.req].seq]
            /\ pipe' = Append(pipe, [op |-> "heartbeat", req |-> h.req, seq |-> 0, by |-> "heartbeat"])
       ELSE Reply("heartbeat", FALSE, 0) /\ UNCHANGED <<lease, pipe>>
    /\ UNCHANGED <<helperVars, revoked, phoneVars, losses>>

BeatRefused ==
    /\ handler["heartbeat"].at = "refused"
    /\ lease' = Released(handler["heartbeat"].req)
    /\ Reply("heartbeat", FALSE, 0)
    /\ UNCHANGED <<pipe, helperVars, revoked, phoneVars, losses>>

(* input_control: the sequence is checked, the helper acts, and only then    *)
(* does the row advance.                                                     *)
Prepare ==
    LET h == handler["input"] IN
    /\ h.at = "prepare"
    /\ IF Valid(h.req) /\ h.seq \in {lease[h.req].seq, lease[h.req].seq + 1}
       THEN Ask("input", "input", "input")
       ELSE Reply("input", FALSE, 0) /\ UNCHANGED pipe
    /\ UNCHANGED <<lease, helperVars, revoked, phoneVars, losses>>

Advance ==
    LET h == handler["input"] IN
    /\ h.at = "advance"
    /\ IF Valid(h.req) /\ h.seq \in {lease[h.req].seq, lease[h.req].seq + 1}
       THEN /\ lease' = [lease EXCEPT ![h.req].seq = h.seq]
            /\ handler' = [Overtaken(h.req, h.seq) EXCEPT !["input"] = Answer(@, TRUE, h.seq)]
       ELSE Step("input", "undo") /\ UNCHANGED lease
    /\ UNCHANGED <<pipe, helperVars, revoked, phoneVars, losses>>

(* release_control: the gate first, then the row.                            *)
AskRelease ==
    /\ handler["release"].at = "ask"
    /\ Ask("release", "release", "releasing")
    /\ UNCHANGED <<lease, helperVars, revoked, phoneVars, losses>>

ReleaseRow ==
    /\ handler["release"].at = "row"
    /\ lease' = Released(handler["release"].req)
    /\ Reply("release", TRUE, 0)
    /\ UNCHANGED <<pipe, helperVars, revoked, phoneVars, losses>>

(* The row advances only for a batch that the helper has acknowledged.       *)
InputAnswered(h, yes) == IF yes THEN [h EXCEPT !.at = "advance"] ELSE Answer(h, FALSE, 0)

(* How a handler goes on when the helper has said yes or no, or nothing.     *)
GoOn(k, yes) ==
    LET h == handler[k] IN
    CASE h.at = "consent" -> [h EXCEPT !.at = IF yes THEN "renew" ELSE "undo"]
      [] h.at = "activate" -> IF yes THEN Answer(h, TRUE, lease[h.req].seq)
                              ELSE [h EXCEPT !.at = "undo"]
      [] h.at = "undone" -> Answer(h, FALSE, 0)
      [] h.at = "renewing" -> IF yes THEN Answer(h, TRUE, h.seq)
                              ELSE [h EXCEPT !.at = "refused"]
      [] h.at = "input" -> InputAnswered(h, yes)
      [] OTHER -> [h EXCEPT !.at = "row"]

Waiting(k) == handler[k].at \in {"consent", "activate", "undone", "renewing", "input", "releasing"}

(* The helper does not acknowledge in time, and may act all the same.        *)
Unanswered(k) ==
    /\ Loss
    /\ Waiting(k)
    /\ handler' = [handler EXCEPT ![k] = GoOn(k, FALSE)]
    /\ pipe' = Orphan(k)
    /\ UNCHANGED <<lease, helperVars, revoked, phoneVars>>

RowExpires(r) ==
    /\ Loss
    /\ Valid(r)
    /\ lease' = [lease EXCEPT ![r].late = TRUE]
    /\ UNCHANGED <<handler, pipe, helperVars, revoked, phoneVars>>

Revoked(r) ==
    /\ r \in revoked
    /\ revoked' = revoked \ {r}
    /\ lease' = Released(r)
    /\ UNCHANGED <<handler, pipe, helperVars, phoneVars, losses>>

(* ------------------------------ the helper ------------------------------- *)

Consent(r, yes) ==
    /\ consent' = IF consent[r] = "unasked"
                  THEN [consent EXCEPT ![r] = IF yes THEN "allowed" ELSE "denied"]
                  ELSE consent
    /\ yes <=> consent'[r] = "allowed"
    /\ UNCHANGED <<gate, executed>>

Activate(r, yes) ==
    LET free == gate.req = None \/ gate.late IN
    /\ yes <=> IF free THEN consent[r] = "allowed" ELSE gate.req = r
    /\ gate' = IF ~free THEN gate ELSE IF yes THEN [Closed EXCEPT !.req = r] ELSE Closed
    /\ UNCHANGED <<consent, executed>>

Heartbeat(r, yes) ==
    /\ yes <=> (gate.req = r /\ ~gate.late)
    /\ gate' = IF yes THEN gate ELSE Closed
    /\ UNCHANGED <<consent, executed>>

Deliver(r, seq, yes) ==
    LET mine == gate.req = r /\ ~gate.late
        again == mine /\ seq \in 1..gate.last
        acts == mine /\ seq = gate.last + 1
    IN
    /\ again => yes
    /\ yes => again \/ acts
    /\ gate' = IF gate.req = r /\ gate.late THEN Closed
               ELSE IF acts /\ yes THEN [gate EXCEPT !.last = seq] ELSE gate
    /\ executed' = IF acts /\ yes THEN [executed EXCEPT ![r][seq] = @ + 1] ELSE executed
    /\ UNCHANGED consent

ReleaseGate(r, yes) ==
    /\ yes
    /\ gate' = IF gate.req = r THEN Closed ELSE gate
    /\ UNCHANGED <<consent, executed>>

(* The helper carries out one command after the other and answers whoever    *)
(* still waits.                                                              *)
Command ==
    /\ pipe # <<>>
    /\ LET c == Head(pipe) IN
       \E yes \in BOOLEAN :
          /\ \/ c.op = "consent" /\ Consent(c.req, yes)
             \/ c.op = "activate" /\ Activate(c.req, yes)
             \/ c.op = "heartbeat" /\ Heartbeat(c.req, yes)
             \/ c.op = "input" /\ Deliver(c.req, c.seq, yes)
             \/ c.op = "release" /\ ReleaseGate(c.req, yes)
          /\ handler' = IF c.by \in Kind THEN [handler EXCEPT ![c.by] = GoOn(c.by, yes)] ELSE handler
    /\ pipe' = Tail(pipe)
    /\ UNCHANGED <<lease, revoked, phoneVars, losses>>

GateExpires == /\ gate.req # None /\ ~gate.late
               /\ gate' = [gate EXCEPT !.late = TRUE]
               /\ UNCHANGED <<daemonVars, pipe, consent, executed, revoked, phoneVars, losses>>

CloseThenRead == /\ gate' = Closed
                 /\ revoked' = revoked \cup {gate'.req}
                 /\ UNCHANGED <<daemonVars, pipe, consent, executed, phoneVars>>

TimerOnlyReports == /\ gate.req # None /\ gate.late
                    /\ revoked' = revoked \cup {gate.req}
                    /\ UNCHANGED <<daemonVars, pipe, helperVars, phoneVars, losses>>

(* The timer closes an expired gate and tells the daemon.                    *)
Close == /\ gate' = Closed
         /\ revoked' = revoked \cup {gate.req}
         /\ UNCHANGED <<daemonVars, pipe, consent, executed, phoneVars>>

Timer == /\ gate.req # None /\ gate.late
         /\ Close
         /\ UNCHANGED losses

(* Stop on the control surface at the Mac.                                   *)
LocalStop == /\ gate.req # None
             /\ Loss
             /\ Close

Init ==
    /\ lease = [r \in Request |-> [status |-> "none", seq |-> 0, late |-> FALSE]]
    /\ handler = [k \in Kind |-> Idle]
    /\ pipe = <<>>
    /\ consent = [r \in Request |-> "unasked"]
    /\ gate = Closed
    /\ revoked = {}
    /\ phone = Watching /\ next = 1 /\ calls = 0 /\ losses = 0
    /\ executed = [r \in Request |-> [s \in 1..MaxSeq |-> 0]]

Daemon == \/ Lookup \/ Renew \/ (\E k \in Kind : Undo(k)) \/ BeatRead \/ BeatWrite \/ BeatRefused
          \/ Prepare \/ Advance \/ AskRelease \/ ReleaseRow

Next ==
    \/ TakeControl \/ SendInput \/ SendHeartbeat \/ Done \/ GiveUp
    \/ AcquireAnswered \/ TooLateForControl \/ ReleaseAnswered
    \/ \E k \in Kind : BeatAnswered(k) \/ Lose(k) \/ Drop(k) \/ Unanswered(k)
    \/ Daemon
    \/ \E r \in Request : RowExpires(r) \/ Revoked(r)
    \/ Command \/ GateExpires \/ Timer \/ LocalStop

(* Handlers and the helper run, and the clock of the helper goes on.         *)
Fairness == /\ WF_vars(Daemon)
            /\ WF_vars(Command)
            /\ WF_vars(GateExpires)
            /\ WF_vars(Timer)

Spec == Init /\ [][Next]_vars
LiveSpec == Spec /\ Fairness

(* ------------------------------ properties ------------------------------- *)

TypeOK ==
    /\ lease \in [Request -> [status : {"none", "active", "expired", "released"},
                              seq : 0..MaxSeq, late : BOOLEAN]]
    /\ handler \in [Kind -> [at : {"idle", "lookup", "consent", "renew", "activate", "undo", "undone",
                                   "read", "beat", "renewing", "refused", "prepare", "input", "advance",
                                   "ask", "releasing", "row", "reply"},
                             req : Request \cup {None}, seq : 0..MaxSeq, heard : BOOLEAN, ok : BOOLEAN]]
    /\ pipe \in Seq([op : {"consent", "activate", "heartbeat", "input", "release"},
                     req : Request, seq : 0..MaxSeq, by : Kind \cup {"nobody"}])
    /\ consent \in [Request -> {"unasked", "allowed", "denied"}]
    /\ gate \in [req : Request \cup {None}, last : 0..MaxSeq, late : BOOLEAN]
    /\ revoked \subseteq Request
    /\ phone \in [at : {"watching", "starting", "active"}, req : Request \cup {None}, seq : 0..MaxSeq]
    /\ next \in 1..(MaxRequests + 1) /\ losses \in 0..MaxLosses
    /\ executed \in [Request -> [1..MaxSeq -> 0..2]]

(* The helper carries out a batch of input at most once and leaves none out, *)
(* and what the daemon has on record and the phone believes is never ahead   *)
(* of it: across lost answers, dropped handlers, repeated requests for       *)
(* control and gates that close and open.                                    *)
EachInputOnce ==
    \A r \in Request : \A s \in 1..MaxSeq :
        /\ executed[r][s] <= 1
        /\ executed[r][s] = 1 => \A b \in 1..s : executed[r][b] = 1
        /\ s <= lease[r].seq \/ (phone.req = r /\ s <= phone.seq) => executed[r][s] = 1

(* A Mac whose phone has let go, or never learned that it had control, is    *)
(* given back, whichever call, answer or command was lost.                   *)
HandedBack == \A r \in Request : (gate.req = r /\ phone.req # r) ~> gate.req # r
=============================================================================
