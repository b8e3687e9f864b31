------------------------------- MODULE Phones -------------------------------
(* What reaches a phone late: rows and pages of a conversation that has gone *)
(* on, and alerts on what was seen meanwhile. The two share no state: `part` *)
(* is chosen at the start and says which of them moves.                      *)
EXTENDS CommittedSync

CONSTANTS
    Device, Intent, Attention, Asking, Tries,         \* the constants
    MaxRegistrations, MaxReports, MaxChanges, MaxLost   \* of PushOutbox

VARIABLES
    part,
    device, reg, net, issued, accepted, foreground, intent, settled, old, suppressed, outbox,
    sender, enrolled, receipt, request, changes, lost, looked, alerted, forgot

alertVars == <<device, reg, net, issued, accepted, foreground, intent, settled, old, suppressed,
               outbox, sender, enrolled, receipt, request, changes, lost, looked, alerted, forgot>>
phonesVars == <<part, vars, alertVars>>

Alerts == INSTANCE PushOutbox

PhonesInit == part \in {"pages", "alerts"} /\ Init /\ Alerts!Init

PhonesNext ==
    \/ part = "pages" /\ Next /\ UNCHANGED <<part, alertVars>>
    \/ part = "alerts" /\ Alerts!Next /\ UNCHANGED <<part, vars>>

PhonesFairness == /\ WF_vars(part = "pages" /\ (Connect \/ Send \/ Receive))
                  /\ \A r \in Reader : WF_vars(part = "pages" /\ Read(r))

PhonesSpec == PhonesInit /\ [][PhonesNext]_phonesVars /\ PhonesFairness

(* An event alerts a phone once, unless the Worker has no receipt of it.     *)
AlertOnce == Alerts!AlertOnce

(* No attempt begins for what the phone in use has shown.                    *)
QuietOnceSeen == Alerts!QuietOnceSeen
=============================================================================
