----------------------------- MODULE PushOutbox -----------------------------
(* Alerts on a phone that does not look at Wonder. The event and the intent  *)
(* to alert are committed together; a loop of the daemon distributes the     *)
(* intents to the phones that registered, and sends each row to the push     *)
(* Worker, which asks Apple. Any answer may be lost on the way, the phone's  *)
(* reports that it is in the foreground arrive late or never, and a          *)
(* registration is replaced or revoked at any time.                          *)
EXTENDS Naturals, FiniteSets

CONSTANTS
    Device,         \* paired phones
    Intent,         \* events that alert the owner
    Attention,      \* the intents that ask for something: their source can be settled
    Asking,         \* those of them that ask a question
    Tries,          \* attempts for one alert, at the daemon and at the Worker
    MaxRegistrations, \* bound: delivery registrations of a phone
    MaxReports,     \* bound: presence reports of a phone
    MaxChanges,     \* bound: revocations, settled sources, days that pass
    MaxLost         \* bound: lost answers, refusals, crashes

(* A delivery registration, numbered in the order a phone makes them.        *)
Registration == Device \X (1..MaxRegistrations)
DeviceOf(g) == g[1]
Older(h, g) == DeviceOf(h) = DeviceOf(g) /\ h[2] < g[2]

Alert == Intent \X Registration
Idle == [at |-> "tick", alert |-> <<>>, reg |-> <<>>, outcome |-> "none"]

VARIABLES
    device,     \* devices: whether the phone may connect
    reg,        \* push_registrations
    net,        \* presence reports under way
    issued,     \* the reports of each phone so far
    accepted,   \* push_presence: when the last report that counted was issued
    foreground, \* push_presence: the daemon takes the phone to be in use
    intent,     \* push_intents
    settled,    \* sources that ask for nothing any more
    old,        \* intents of more than a day ago
    suppressed, \* push_suppressed
    outbox,     \* push_outbox
    sender,     \* how far the loop of the daemon is
    enrolled,   \* the registrations of the Worker
    receipt,    \* the deliveries of the Worker
    request,    \* requests that the Worker is at
    changes,    \* revocations, settled sources and days so far
    lost,       \* answers, requests and daemons lost so far
    looked,     \* history: intents of which the phone was in use at some time
    alerted,    \* history: alerts that Apple has accepted
    forgot      \* history: how often it did not hear of that

hostVars == <<reg, intent, suppressed, outbox>>
presenceVars == <<net, issued, accepted, foreground>>
workerVars == <<enrolled, receipt, request, alerted, forgot>>
worldVars == <<device, settled, old, changes>>
vars == <<hostVars, presenceVars, workerVars, worldVars, sender, lost, looked>>

Change == changes < MaxChanges /\ changes' = changes + 1
Fault == lost < MaxLost /\ lost' = lost + 1
OfDevice(d) == {g \in Registration : DeviceOf(g) = d}
Live(g) == reg[g].state = "active" /\ device[DeviceOf(g)] = "active"

(* Every pending row of these registrations ends in this state.              *)
Withdraw(regs, state) ==
    [a \in Alert |-> IF a[2] \in regs /\ outbox[a].state = "pending"
                     THEN [outbox[a] EXCEPT !.state = state] ELSE outbox[a]]

Revoked(regs) ==
    [g \in Registration |-> IF g \in regs /\ reg[g].state = "active"
                            THEN [reg[g] EXCEPT !.state = "revoked"] ELSE reg[g]]

(* ------------------------------ the phone -------------------------------- *)

(* sendPresence: on every change and every 15 seconds in the foreground.     *)
Report(d, front) ==
    /\ issued[d] < MaxReports
    /\ issued' = [issued EXCEPT ![d] = @ + 1]
    /\ net' = net \cup {[device |-> d, at |-> issued'[d], front |-> front]}
    /\ UNCHANGED <<hostVars, accepted, foreground, workerVars, worldVars, sender, lost>>

(* push_presence: a report issued before the last that counted is ignored.   *)
Counts(m) == device[m.device] = "active" /\ m.at > accepted[m.device]

Presence(m) ==
    /\ net' = net \ {m}
    /\ IF Counts(m)
       THEN /\ accepted' = [accepted EXCEPT ![m.device] = m.at]
            /\ foreground' = [foreground EXCEPT ![m.device] = m.front]
       ELSE UNCHANGED <<accepted, foreground>>
    /\ IF Counts(m) /\ m.front
       THEN /\ suppressed' = suppressed \cup ({i \in Intent : intent[i] = "new"} \X {m.device})
            /\ outbox' = Withdraw(OfDevice(m.device), "suppressed")
       ELSE UNCHANGED <<suppressed, outbox>>
    /\ UNCHANGED <<reg, intent, issued, workerVars, worldVars, sender, lost>>

LeaseEnds(d) ==
    /\ foreground[d]
    /\ foreground' = [foreground EXCEPT ![d] = FALSE]
    /\ UNCHANGED <<hostVars, net, issued, accepted, workerVars, worldVars, sender, lost>>

(* The phone proves itself to the Worker: the registration replaces the one  *)
(* it had there.                                                             *)
Enroll(g) ==
    /\ enrolled[g] = "none" /\ \A h \in Registration : Older(h, g) => enrolled[h] # "none"
    /\ enrolled' = [h \in Registration |-> IF h = g THEN "on"
                    ELSE IF DeviceOf(h) = DeviceOf(g) /\ enrolled[h] = "on" THEN "gone" ELSE enrolled[h]]
    /\ UNCHANGED <<hostVars, presenceVars, receipt, request, alerted, forgot, worldVars, sender, lost>>

(* register_push, for a registration the Worker vouches for: refused when the *)
(* phone or this registration was revoked; it takes the place of the phone's  *)
(* other registrations.                                                       *)
Register(g) ==
    LET others == OfDevice(DeviceOf(g)) \ {g} IN
    /\ enrolled[g] = "on" /\ device[DeviceOf(g)] = "active" /\ reg[g].state = "none"
    /\ reg' = [Revoked(others) EXCEPT ![g].state = "active"]
    /\ outbox' = Withdraw({h \in others : Revoked(others)[h].state = "revoked"}, "cancelled")
    /\ UNCHANGED <<intent, suppressed, presenceVars, workerVars, worldVars, sender, lost>>

(* revoke_push, and the trigger on a device that is revoked.                 *)
RevokePush(d) ==
    /\ Change
    /\ reg' = Revoked(OfDevice(d))
    /\ outbox' = Withdraw({g \in OfDevice(d) : reg[g].state # "none"}, "cancelled")
    /\ UNCHANGED <<intent, suppressed, presenceVars, workerVars, device, settled, old, sender, lost>>

RevokeDevice(d) ==
    /\ Change /\ device[d] = "active"
    /\ device' = [device EXCEPT ![d] = "revoked"]
    /\ reg' = Revoked(OfDevice(d))
    /\ outbox' = Withdraw({g \in OfDevice(d) : reg[g].state # "none"}, "cancelled")
    /\ UNCHANGED <<intent, suppressed, presenceVars, workerVars, settled, old, sender, lost>>

(* ------------------------------- intents --------------------------------- *)

(* The triggers on events, async_questions and push_intents.                 *)
Record(i) ==
    /\ intent[i] = "none"
    /\ \E g \in Registration : reg[g].state = "active"
    /\ intent' = [intent EXCEPT ![i] = "new"]
    /\ suppressed' = suppressed \cup ({i} \X {d \in Device : foreground[d]})
    /\ UNCHANGED <<reg, outbox, presenceVars, workerVars, worldVars, sender, lost>>

(* The owner answers, or the request is withdrawn.                           *)
Settle(i) ==
    /\ Change /\ i \in Attention /\ intent[i] # "none" /\ i \notin settled
    /\ settled' = settled \cup {i}
    /\ UNCHANGED <<hostVars, presenceVars, workerVars, device, old, sender, lost>>

DayPasses(i) ==
    /\ Change /\ intent[i] # "none" /\ i \notin old
    /\ old' = old \cup {i}
    /\ UNCHANGED <<hostVars, presenceVars, workerVars, device, settled, sender, lost>>

(* ------------------------------- the loop -------------------------------- *)

Goto(at) == sender' = [Idle EXCEPT !.at = at]

(* next_push_revocation.                                                     *)
Retired(g) == reg[g].state = "revoked" /\ reg[g].tries < Tries

NextRevocation(g) ==
    /\ sender.at = "tick" /\ Retired(g)
    /\ reg' = [reg EXCEPT ![g].tries = @ + 1]
    /\ sender' = [Idle EXCEPT !.at = "revoke", !.reg = g]
    /\ UNCHANGED <<intent, suppressed, outbox, presenceVars, workerVars, worldVars, lost>>

(* None is due; how long a retry waits, an hour, is left open.               *)
NoRevocation ==
    /\ sender.at = "tick"
    /\ Goto("distribute")
    /\ UNCHANGED <<hostVars, presenceVars, workerVars, worldVars, lost>>

(* The Worker deletes the registration, if it is not gone already, and its   *)
(* receipts; then finish_push_revocation deletes the row and, with it, its    *)
(* alerts. Or the answer, or the request, is lost.                           *)
Revoke ==
    /\ sender.at = "revoke"
    /\ enrolled' = [enrolled EXCEPT ![sender.reg] = "gone"]
    /\ receipt' = [a \in Alert |-> IF a[2] = sender.reg /\ enrolled[a[2]] = "on" THEN "none" ELSE receipt[a]]
    /\ \/ sender' = [sender EXCEPT !.at = "forget"] /\ UNCHANGED lost
       \/ Fault /\ Goto("distribute")
    /\ UNCHANGED <<hostVars, presenceVars, request, alerted, forgot, worldVars>>

RevokeLost ==
    /\ sender.at = "revoke" /\ Fault
    /\ Goto("distribute")
    /\ UNCHANGED <<hostVars, presenceVars, workerVars, worldVars>>

Forget ==
    LET g == sender.reg IN
    /\ sender.at = "forget"
    /\ reg' = [reg EXCEPT ![g] = [state |-> "none", tries |-> 0]]
    /\ outbox' = [a \in Alert |-> IF a[2] = g THEN [state |-> "none", attempts |-> 0] ELSE outbox[a]]
    /\ Goto("distribute")
    /\ UNCHANGED <<intent, suppressed, presenceVars, workerVars, worldVars, lost>>

(* distribute_push: every new intent becomes a row for every phone that may  *)
(* have it, once; rows of more than a day ago expire.                        *)
Wanted(i) == intent[i] = "new" /\ i \notin old /\ ~(i \in Asking /\ i \in settled)

Recipient(i, g) ==
    /\ Live(g) /\ ~foreground[DeviceOf(g)]
    /\ <<i, DeviceOf(g)>> \notin suppressed

Distribute ==
    /\ sender.at = "distribute"
    /\ outbox' = [a \in Alert |->
           IF Wanted(a[1]) /\ Recipient(a[1], a[2]) /\ outbox[a].state = "none"
           THEN [state |-> "pending", attempts |-> 0]
           ELSE IF outbox[a].state = "pending" /\ a[1] \in old THEN [outbox[a] EXCEPT !.state = "expired"]
           ELSE outbox[a]]
    /\ intent' = [i \in Intent |-> IF intent[i] = "new" THEN "distributed" ELSE intent[i]]
    /\ Goto("pick")
    /\ UNCHANGED <<reg, suppressed, presenceVars, workerVars, worldVars, lost>>

(* next_push: the attempt counts from now, whatever becomes of it.           *)
Sendable(a) == /\ outbox[a].state = "pending" /\ Live(a[2]) /\ ~foreground[DeviceOf(a[2])]

Ready(a) == Sendable(a) /\ outbox[a].attempts < Tries /\ request[a] = "none"

NextPush(a) ==
    /\ sender.at = "pick" /\ Ready(a)
    /\ outbox' = [outbox EXCEPT ![a].attempts = @ + 1]
    /\ sender' = [Idle EXCEPT !.at = "check", !.alert = a]
    /\ UNCHANGED <<reg, intent, suppressed, presenceVars, workerVars, worldVars, lost>>

(* Nothing is to be sent, or its delay of a retry is not over, or the tick   *)
(* has had its share.                                                        *)
NoPush ==
    /\ sender.at = "pick"
    /\ Goto("tick")
    /\ UNCHANGED <<hostVars, presenceVars, workerVars, worldVars, lost>>

\* Variant: the outcome is written whatever the row has become.
FinishedRegardless(a, state) == [outbox EXCEPT ![a].state = state]

(* finish_push: a row that somebody else has ended stays as it is.           *)
Finished(a, state) ==
    IF outbox[a].state = "pending" THEN [outbox EXCEPT ![a].state = state] ELSE outbox

(* push_preview, where nothing is left to say of a source that is settled;   *)
(* can_send_push; then the request.                                          *)
Check ==
    LET a == sender.alert
        moot == a[1] \in settled IN
    /\ sender.at = "check"
    /\ outbox' = IF moot THEN Finished(a, "cancelled") ELSE outbox
    /\ IF ~moot /\ Sendable(a)
       THEN request' = [request EXCEPT ![a] = "asked"] /\ sender' = [sender EXCEPT !.at = "post"]
       ELSE UNCHANGED request /\ Goto("pick")
    /\ UNCHANGED <<reg, intent, suppressed, presenceVars, enrolled, receipt, alerted, forgot, worldVars, lost>>

(* The daemon waits 15 seconds, and no longer for a request that was lost.   *)
GiveUp ==
    /\ sender.at = "post"
    /\ IF request[sender.alert] = "none" THEN UNCHANGED lost ELSE Fault
    /\ sender' = [sender EXCEPT !.at = "finish", !.outcome = "again"]
    /\ UNCHANGED <<hostVars, presenceVars, workerVars, worldVars>>

FinishPush ==
    LET a == sender.alert IN
    /\ sender.at = "finish"
    /\ outbox' = Finished(a, CASE sender.outcome = "delivered" -> "delivered"
                               [] sender.outcome = "refused" -> "failed"
                               [] OTHER -> IF outbox[a].attempts >= Tries THEN "failed" ELSE "pending")
    /\ Goto("pick")
    /\ UNCHANGED <<reg, intent, suppressed, presenceVars, workerVars, worldVars, lost>>

(* The daemon stops and starts: the tables are kept.                         *)
Restart ==
    /\ Fault
    /\ sender' = Idle
    /\ UNCHANGED <<reg, intent, suppressed, outbox, presenceVars, workerVars, worldVars>>

(* ------------------------------ the Worker ------------------------------- *)

(* The answer reaches the daemon if it still waits for it.                   *)
Answer(a, outcome) ==
    /\ request' = [request EXCEPT ![a] = "none"]
    /\ sender' = IF sender.at = "post" /\ sender.alert = a
                 THEN [sender EXCEPT !.at = "finish", !.outcome = outcome] ELSE sender

Known(a) == request[a] = "asked" /\ enrolled[a[2]] = "on"

UnknownRegistration(a) ==
    /\ request[a] = "asked" /\ enrolled[a[2]] # "on"
    /\ Answer(a, "refused")
    /\ UNCHANGED <<hostVars, presenceVars, enrolled, receipt, alerted, forgot, worldVars, lost>>

Duplicate(a) ==
    /\ Known(a) /\ receipt[a] = "delivered"
    /\ Answer(a, "delivered")
    /\ UNCHANGED <<hostVars, presenceVars, enrolled, receipt, alerted, forgot, worldVars, lost>>

\* Variant: the receipt is not looked at.
ClaimableAgain(a) == TRUE

(* What was delivered is not sent again; the claim is one statement. The     *)
(* Worker's own limit of attempts is never reached, the daemon's comes first.*)
Claimable(a) == receipt[a] # "delivered"

Claim(a) ==
    /\ Known(a) /\ Claimable(a)
    /\ receipt' = [receipt EXCEPT ![a] = "sending"]
    /\ request' = [request EXCEPT ![a] = "claimed"]
    /\ UNCHANGED <<hostVars, presenceVars, enrolled, alerted, forgot, worldVars, sender, lost>>

AppleAccepts(a) ==
    /\ request[a] = "claimed"
    /\ alerted' = [alerted EXCEPT ![a] = @ + 1]
    /\ request' = [request EXCEPT ![a] = "accepted"]
    /\ UNCHANGED <<hostVars, presenceVars, enrolled, receipt, forgot, worldVars, sender, lost>>

Noted(a, state) == receipt' = [receipt EXCEPT ![a] = IF @ = "none" THEN @ ELSE state]

(* The receipt is written, unless a revocation has deleted its row.          *)
Delivered(a) ==
    /\ request[a] = "accepted"
    /\ Noted(a, "delivered")
    /\ Answer(a, "delivered")
    /\ UNCHANGED <<hostVars, presenceVars, enrolled, alerted, forgot, worldVars, lost>>

(* Apple's answer is lost with the alert on the phone, or the receipt cannot *)
(* be written: the Worker takes the attempt to have failed.                  *)
NotReceipted(a) ==
    /\ request[a] = "accepted" /\ Fault
    /\ Noted(a, "retry")
    /\ forgot' = [forgot EXCEPT ![a] = @ + 1]
    /\ Answer(a, "again")
    /\ UNCHANGED <<hostVars, presenceVars, enrolled, alerted, worldVars>>

AppleFails(a) ==
    /\ request[a] = "claimed" /\ Fault
    /\ Noted(a, "retry")
    /\ Answer(a, "again")
    /\ UNCHANGED <<hostVars, presenceVars, enrolled, alerted, forgot, worldVars>>

(* The phone's token is not valid any more: the registration is deleted.     *)
TokenGone(a) ==
    /\ request[a] = "claimed" /\ Fault
    /\ enrolled' = [enrolled EXCEPT ![a[2]] = "gone"]
    /\ Noted(a, "retry")
    /\ Answer(a, "refused")
    /\ UNCHANGED <<hostVars, presenceVars, alerted, forgot, worldVars>>

WorkerDies(a) ==
    /\ request[a] # "none" /\ Fault
    /\ request' = [request EXCEPT ![a] = "none"]
    /\ forgot' = IF request[a] = "accepted" THEN [forgot EXCEPT ![a] = @ + 1] ELSE forgot
    /\ UNCHANGED <<hostVars, presenceVars, enrolled, receipt, alerted, worldVars, sender>>

(* ----------------------------- specification ----------------------------- *)

Init ==
    /\ device = [d \in Device |-> "active"]
    /\ reg = [g \in Registration |-> [state |-> "none", tries |-> 0]]
    /\ net = {} /\ issued = [d \in Device |-> 0] /\ accepted = issued
    /\ foreground = [d \in Device |-> FALSE]
    /\ intent = [i \in Intent |-> "none"] /\ settled = {} /\ old = {} /\ suppressed = {}
    /\ outbox = [a \in Alert |-> [state |-> "none", attempts |-> 0]]
    /\ sender = Idle
    /\ enrolled = [g \in Registration |-> "none"]
    /\ receipt = [a \in Alert |-> "none"]
    /\ request = [a \in Alert |-> "none"]
    /\ changes = 0 /\ lost = 0
    /\ looked = [d \in Device |-> {}] /\ alerted = [a \in Alert |-> 0] /\ forgot = alerted

(* What a phone that is in use sees, whether or not it will be alerted.      *)
Remember ==
    looked' = [d \in Device |-> IF foreground'[d] THEN {i \in Intent : intent'[i] # "none"} ELSE looked[d]]

Loop ==
    \/ \E g \in Registration : NextRevocation(g)
    \/ NoRevocation \/ Revoke \/ RevokeLost \/ Forget \/ Distribute
    \/ \E a \in Alert : NextPush(a)
    \/ NoPush \/ Check \/ GiveUp \/ FinishPush

Serve(a) ==
    \/ UnknownRegistration(a) \/ Duplicate(a) \/ Claim(a) \/ AppleAccepts(a) \/ Delivered(a)
    \/ NotReceipted(a) \/ AppleFails(a) \/ TokenGone(a) \/ WorkerDies(a)

Step ==
    \/ \E d \in Device : Report(d, TRUE) \/ Report(d, FALSE) \/ LeaseEnds(d) \/ RevokePush(d) \/ RevokeDevice(d)
    \/ \E m \in net : Presence(m)
    \/ \E g \in Registration : Enroll(g) \/ Register(g)
    \/ \E i \in Intent : Record(i) \/ Settle(i) \/ DayPasses(i)
    \/ \E a \in Alert : Serve(a)
    \/ Loop \/ Restart

Next == Step /\ Remember

Spec == Init /\ [][Next]_vars

RegRow == [state : {"none", "active", "revoked"}, tries : Nat]
OutState == {"none", "pending", "delivered", "failed", "suppressed", "cancelled", "expired"}
OutRow == [state : OutState, attempts : Nat]
Stage == {"tick", "revoke", "forget", "distribute", "pick", "check", "post", "finish"}
Sender == [at : Stage, alert : Alert \cup {<<>>}, reg : Registration \cup {<<>>},
           outcome : {"none", "delivered", "refused", "again"}]
Sent == [device : Device, at : Nat, front : BOOLEAN]

HostOK ==
    /\ reg \in [Registration -> RegRow]
    /\ intent \in [Intent -> {"none", "new", "distributed"}] /\ suppressed \subseteq Intent \X Device
    /\ outbox \in [Alert -> OutRow]
PresenceOK ==
    /\ net \subseteq Sent /\ foreground \in [Device -> BOOLEAN]
    /\ issued \in [Device -> Nat] /\ accepted \in [Device -> Nat]
WorkerOK ==
    /\ enrolled \in [Registration -> {"none", "on", "gone"}]
    /\ receipt \in [Alert -> {"none", "sending", "retry", "delivered"}]
    /\ request \in [Alert -> {"none", "asked", "claimed", "accepted"}]
    /\ alerted \in [Alert -> Nat] /\ forgot \in [Alert -> Nat]
WorldOK ==
    /\ device \in [Device -> {"active", "revoked"}]
    /\ settled \subseteq Attention /\ old \subseteq Intent /\ changes \in Nat
SenderOK ==
    /\ sender \in Sender
    /\ sender.at \in {"revoke", "forget"} => sender.reg \in Registration
    /\ sender.at \in {"check", "post", "finish"} => sender.alert \in Alert

TypeOK == /\ HostOK /\ PresenceOK /\ WorkerOK /\ WorldOK /\ SenderOK
          /\ lost \in Nat /\ looked \in [Device -> SUBSET Intent]

(* ------------------------------ properties ------------------------------- *)

(* Nobody is alerted of what happened before or while Wonder was in use on   *)
(* the phone (services/push/README.md): no attempt begins for it, whatever   *)
(* was distributed, claimed or about to be retried when the report came, and *)
(* also after the phone has left. Only a request under way still arrives.    *)
QuietOnceSeen ==
    [][\A a \in Alert : request[a] = "none" /\ request'[a] # "none" => a[1] \notin looked[DeviceOf(a[2])]]_vars

(* An event alerts a phone once, through one of its registrations, however   *)
(* many answers are lost between Apple, the Worker and the daemon: only an   *)
(* alert of which the Worker has no receipt can come a second time.          *)
AlertOnce ==
    /\ \A a \in Alert : alerted[a] <= forgot[a] + 1
    /\ \A a, b \in Alert : a[1] = b[1] /\ DeviceOf(a[2]) = DeviceOf(b[2]) /\ alerted[a] > 0 /\ alerted[b] > 0 => a = b
=============================================================================
