------------------------- MODULE PushOutbox_proofs -------------------------
(***************************************************************************)
(* What holds of PushOutbox for any number of phones, registrations,       *)
(* intents, attempts and lost answers.                                     *)
(*                                                                         *)
(* QuietOnceSeen follows from Quiet: what a phone in use has seen is       *)
(* either suppressed, or past the point where it could become a row, or    *)
(* its rows are closed.  AlertOnce has two halves.  An event has one       *)
(* registration of a phone, because intents are distributed once and a     *)
(* phone has one active registration (OneTarget).  And that row is alerted *)
(* again only if the Worker did not hear of the last time (Counted).       *)
(***************************************************************************)
EXTENDS PushOutbox, TLAPS

(* The phone is in use: all there is has been seen.                         *)
Watching == \A d \in Device, i \in Intent :
    foreground[d] /\ intent[i] # "none" => i \in looked[d]

Quiet == \A d \in Device, i \in Intent : i \in looked[d] =>
    /\ intent[i] # "none"
    /\ intent[i] = "new" => <<i, d>> \in suppressed
    /\ \A g \in Registration : DeviceOf(g) = d => outbox[<<i, g>>].state # "pending"

(* Somewhere on its way to the phone, now or earlier.                       *)
Touched(a) ==
    \/ outbox[a].state # "none"
    \/ request[a] # "none"
    \/ alerted[a] # 0
    \/ sender.at \in {"check", "post", "finish"} /\ sender.alert = a

Fresh == \A a \in Alert : intent[a[1]] # "distributed" => ~Touched(a)

OneActive == \A g, h \in Registration :
    reg[g].state = "active" /\ reg[h].state = "active" /\ DeviceOf(g) = DeviceOf(h) => g = h

OneTarget == \A a, b \in Alert :
    a[1] = b[1] /\ DeviceOf(a[2]) = DeviceOf(b[2]) /\ Touched(a) /\ Touched(b) => a = b

(* A row whose registration the Worker knows, which is not receipted and    *)
(* of which Apple has no answer to give, was never alerted unheard.         *)
Counted == \A a \in Alert :
    /\ alerted[a] <= forgot[a] + 1
    /\ request[a] = "claimed" => alerted[a] <= forgot[a]
    /\ enrolled[a[2]] = "on" /\ receipt[a] # "delivered" /\ request[a] # "accepted" =>
         alerted[a] <= forgot[a]
    /\ enrolled[a[2]] = "on" /\ request[a] \in {"claimed", "accepted"} => receipt[a] # "none"
    /\ enrolled[a[2]] = "none" => alerted[a] = 0 /\ request[a] \notin {"claimed", "accepted"}

(* An alert is picked when the Worker is not at it, and only this loop asks. *)
Unasked == sender.at = "check" => request[sender.alert] = "none"

IInv == TypeOK /\ Watching /\ Quiet /\ Fresh /\ OneActive /\ OneTarget /\ Counted /\ Unasked

-----------------------------------------------------------------------------
LEMMA WithdrawFacts ==
    ASSUME TypeOK, NEW regs, NEW s \in {"suppressed", "cancelled"}
    PROVE  /\ Withdraw(regs, s) \in [Alert -> OutRow]
           /\ \A a \in Alert :
                /\ Withdraw(regs, s)[a].state = "pending" =>
                     outbox[a].state = "pending" /\ a[2] \notin regs
                /\ Withdraw(regs, s)[a].state = "none" <=> outbox[a].state = "none"
<1>1. \A a \in Alert : outbox[a] \in OutRow
  BY DEF TypeOK, HostOK
<1>2. \A a \in Alert : [outbox[a] EXCEPT !.state = s] \in OutRow /\ [outbox[a] EXCEPT !.state = s].state = s
  BY <1>1 DEF OutRow, OutState
<1> QED
  BY <1>1, <1>2 DEF Withdraw

LEMMA RevokedFacts ==
    ASSUME TypeOK, NEW regs
    PROVE  /\ Revoked(regs) \in [Registration -> RegRow]
           /\ \A g \in Registration :
                Revoked(regs)[g].state = "active" => reg[g].state = "active" /\ g \notin regs
<1>1. \A g \in Registration : reg[g] \in RegRow
  BY DEF TypeOK, HostOK
<1>2. \A g \in Registration : /\ [reg[g] EXCEPT !.state = "revoked"] \in RegRow
                               /\ [reg[g] EXCEPT !.state = "revoked"].state = "revoked"
  BY <1>1 DEF RegRow
<1> QED
  BY <1>1, <1>2 DEF Revoked

LEMMA FinishedFacts ==
    ASSUME TypeOK, NEW b \in Alert, NEW s \in OutState \ {"none"}
    PROVE  /\ Finished(b, s) \in [Alert -> OutRow]
           /\ \A a \in Alert :
                /\ Finished(b, s)[a].state = "pending" => outbox[a].state = "pending"
                /\ Finished(b, s)[a].state = "none" <=> outbox[a].state = "none"
<1>1. outbox \in [Alert -> OutRow]
  BY DEF TypeOK, HostOK
<1>2. [outbox[b] EXCEPT !.state = s] \in OutRow /\ [outbox[b] EXCEPT !.state = s].state = s
  BY <1>1 DEF OutRow, OutState
<1> QED
  BY <1>1, <1>2 DEF Finished

LEMMA RowFacts ==
    /\ \A r \in RegRow : [r EXCEPT !.state = "active"] \in RegRow
    /\ \A r \in RegRow : [r EXCEPT !.tries = r.tries + 1] \in RegRow
    /\ [state |-> "none", tries |-> 0] \in RegRow
    /\ \A r \in OutRow : [r EXCEPT !.state = "expired"] \in OutRow
    /\ \A r \in OutRow : [r EXCEPT !.attempts = r.attempts + 1] \in OutRow
    /\ \A s \in OutState : [state |-> s, attempts |-> 0] \in OutRow
  BY DEF RegRow, OutRow, OutState

-----------------------------------------------------------------------------
(* Types.                                                                   *)
LEMMA GoneOn ==
    ASSUME NEW at \in {"tick", "distribute", "pick"}, Goto(at)
    PROVE  SenderOK' /\ sender'.at = at
  BY DEF Goto, SenderOK, Sender, Stage, Idle

LEMMA AnswerType ==
    ASSUME TypeOK, NEW a \in Alert, NEW o \in {"delivered", "refused", "again"}, Answer(a, o)
    PROVE  SenderOK' /\ request' \in [Alert -> {"none", "asked", "claimed", "accepted"}]
<1>1. request' \in [Alert -> {"none", "asked", "claimed", "accepted"}]
  BY DEF Answer, TypeOK, WorkerOK
<1>2. CASE sender.at = "post" /\ sender.alert = a
  <2>1. sender' = [sender EXCEPT !.at = "finish", !.outcome = o]
    BY <1>2 DEF Answer
  <2>2. sender' \in Sender /\ sender'.at = "finish" /\ sender'.alert = a
    BY <2>1, <1>2 DEF TypeOK, SenderOK, Sender, Stage
  <2> QED
    BY <1>1, <2>2 DEF SenderOK
<1>3. CASE ~(sender.at = "post" /\ sender.alert = a)
  BY <1>1, <1>3 DEF Answer, TypeOK, SenderOK
<1> QED
  BY <1>2, <1>3

LEMMA NotedType ==
    ASSUME TypeOK, NEW a \in Alert, NEW s \in {"retry", "delivered"}, Noted(a, s)
    PROVE  receipt' \in [Alert -> {"none", "sending", "retry", "delivered"}]
  BY DEF Noted, TypeOK, WorkerOK

LEMMA TypeStep == ASSUME TypeOK, Next PROVE TypeOK'
<1>0. looked' \in [Device -> SUBSET Intent]
  BY DEF Next, Remember, TypeOK
<1>a. /\ UNCHANGED hostVars => HostOK'
      /\ UNCHANGED presenceVars => PresenceOK'
      /\ UNCHANGED workerVars => WorkerOK'
      /\ UNCHANGED worldVars => WorldOK'
      /\ UNCHANGED sender => SenderOK'
      /\ UNCHANGED lost \/ Fault => lost' \in Nat
  BY DEF TypeOK, hostVars, presenceVars, workerVars, worldVars, HostOK, PresenceOK, WorkerOK, WorldOK, SenderOK, Fault
<1>1. ASSUME NEW d \in Device, NEW f \in BOOLEAN, Report(d, f) PROVE TypeOK'
  <2>1. PresenceOK'
    BY <1>1 DEF TypeOK, PresenceOK, Report, Sent
  <2> QED
    BY <1>0, <1>a, <1>1, <2>1 DEF Report, TypeOK, hostVars, presenceVars, workerVars, worldVars
<1>2. ASSUME NEW m \in net, Presence(m) PROVE TypeOK'
  <2>1. PresenceOK'
    BY <1>2 DEF TypeOK, PresenceOK, Presence, Sent, Counts
  <2>2. HostOK'
    BY <1>2, WithdrawFacts DEF TypeOK, HostOK, PresenceOK, Presence, Sent
  <2> QED
    BY <1>0, <1>a, <1>2, <2>1, <2>2 DEF Presence, TypeOK, hostVars, presenceVars, workerVars, worldVars
<1>3. ASSUME NEW d \in Device, LeaseEnds(d) PROVE TypeOK'
  <2>1. PresenceOK'
    BY <1>3 DEF TypeOK, PresenceOK, LeaseEnds
  <2> QED
    BY <1>0, <1>a, <1>3, <2>1 DEF LeaseEnds, TypeOK, hostVars, presenceVars, workerVars, worldVars
<1>4. ASSUME NEW d \in Device, RevokePush(d) PROVE TypeOK'
  <2>1. HostOK'
    BY <1>4, WithdrawFacts, RevokedFacts DEF TypeOK, HostOK, RevokePush, Change
  <2>2. WorldOK'
    BY <1>4 DEF TypeOK, WorldOK, RevokePush, Change
  <2> QED
    BY <1>0, <1>a, <1>4, <2>1, <2>2 DEF RevokePush, TypeOK, hostVars, presenceVars, workerVars, worldVars
<1>5. ASSUME NEW d \in Device, RevokeDevice(d) PROVE TypeOK'
  <2>1. HostOK'
    BY <1>5, WithdrawFacts, RevokedFacts DEF TypeOK, HostOK, RevokeDevice, Change
  <2>2. WorldOK'
    BY <1>5 DEF TypeOK, WorldOK, RevokeDevice, Change
  <2> QED
    BY <1>0, <1>a, <1>5, <2>1, <2>2 DEF RevokeDevice, TypeOK, hostVars, presenceVars, workerVars, worldVars
<1>6. ASSUME NEW g \in Registration, Enroll(g) PROVE TypeOK'
  <2>1. WorkerOK'
    BY <1>6 DEF TypeOK, WorkerOK, Enroll
  <2> QED
    BY <1>0, <1>a, <1>6, <2>1 DEF Enroll, TypeOK, hostVars, presenceVars, workerVars, worldVars
<1>7. ASSUME NEW g \in Registration, Register(g) PROVE TypeOK'
  <2>1. HostOK'
    <3> DEFINE others == OfDevice(DeviceOf(g)) \ {g}
               ended == {h \in others : Revoked(others)[h].state = "revoked"}
    <3>1. reg' = [Revoked(others) EXCEPT ![g] = [Revoked(others)[g] EXCEPT !.state = "active"]]
      BY <1>7 DEF Register
    <3>2. outbox' = Withdraw(ended, "cancelled")
      BY <1>7 DEF Register
    <3> HIDE DEF others, ended
    <3>3. Revoked(others) \in [Registration -> RegRow]
      BY RevokedFacts
    <3>4. reg' \in [Registration -> RegRow]
      BY <3>1, <3>3, RowFacts
    <3>5. outbox' \in [Alert -> OutRow]
      BY <3>2, WithdrawFacts
    <3> QED
      BY <1>7, <3>4, <3>5 DEF TypeOK, HostOK, Register
  <2> QED
    BY <1>0, <1>a, <1>7, <2>1 DEF Register, TypeOK, hostVars, presenceVars, workerVars, worldVars
<1>8. ASSUME NEW i \in Intent, Record(i) PROVE TypeOK'
  <2>1. HostOK'
    BY <1>8 DEF TypeOK, HostOK, Record
  <2> QED
    BY <1>0, <1>a, <1>8, <2>1 DEF Record, TypeOK, hostVars, presenceVars, workerVars, worldVars
<1>9. ASSUME NEW i \in Intent, Settle(i) PROVE TypeOK'
  <2>1. WorldOK'
    BY <1>9 DEF TypeOK, WorldOK, Settle, Change
  <2> QED
    BY <1>0, <1>a, <1>9, <2>1 DEF Settle, TypeOK, hostVars, presenceVars, workerVars, worldVars
<1>10. ASSUME NEW i \in Intent, DayPasses(i) PROVE TypeOK'
  <2>1. WorldOK'
    BY <1>10 DEF TypeOK, WorldOK, DayPasses, Change
  <2> QED
    BY <1>0, <1>a, <1>10, <2>1 DEF DayPasses, TypeOK, hostVars, presenceVars, workerVars, worldVars
<1>11. ASSUME NEW g \in Registration, NextRevocation(g) PROVE TypeOK'
  <2>1. HostOK'
    BY <1>11, RowFacts DEF TypeOK, HostOK, NextRevocation, Retired, Idle
  <2>2. SenderOK'
    BY <1>11 DEF TypeOK, SenderOK, Sender, Stage, NextRevocation, Retired, Idle
  <2> QED
    BY <1>0, <1>a, <1>11, <2>1, <2>2 DEF NextRevocation, TypeOK, hostVars, presenceVars, workerVars, worldVars
<1>12. CASE NoRevocation
  <2>1. SenderOK'
    BY <1>12, GoneOn DEF TypeOK, NoRevocation
  <2> QED
    BY <1>0, <1>a, <1>12, <2>1 DEF NoRevocation, TypeOK, hostVars, presenceVars, workerVars, worldVars
<1>13. CASE Revoke
  <2>1. WorkerOK'
    BY <1>13 DEF TypeOK, WorkerOK, Revoke
  <2>2. SenderOK'
    BY <1>13, GoneOn DEF TypeOK, SenderOK, Sender, Stage, Revoke
  <2> QED
    BY <1>0, <1>a, <1>13, <2>1, <2>2 DEF Revoke, TypeOK, hostVars, presenceVars, workerVars, worldVars
<1>14. CASE RevokeLost
  <2>1. SenderOK'
    BY <1>14, GoneOn DEF TypeOK, RevokeLost
  <2> QED
    BY <1>0, <1>a, <1>14, <2>1 DEF RevokeLost, TypeOK, hostVars, presenceVars, workerVars, worldVars
<1>15. CASE Forget
  <2>1. HostOK'
    BY <1>15, RowFacts DEF TypeOK, HostOK, Forget, OutState
  <2>2. SenderOK'
    BY <1>15, GoneOn DEF TypeOK, Forget, OutState
  <2> QED
    BY <1>0, <1>a, <1>15, <2>1, <2>2 DEF Forget, TypeOK, hostVars, presenceVars, workerVars, worldVars
<1>16. CASE Distribute
  <2>1. HostOK'
    BY <1>16, RowFacts DEF TypeOK, HostOK, Distribute, OutState
  <2>2. SenderOK'
    BY <1>16, GoneOn DEF TypeOK, Distribute, OutState
  <2> QED
    BY <1>0, <1>a, <1>16, <2>1, <2>2 DEF Distribute, TypeOK, hostVars, presenceVars, workerVars, worldVars
<1>17. ASSUME NEW a \in Alert, NextPush(a) PROVE TypeOK'
  <2>1. HostOK'
    BY <1>17, RowFacts DEF TypeOK, HostOK, NextPush, Ready, Idle
  <2>2. SenderOK'
    BY <1>17 DEF TypeOK, SenderOK, Sender, Stage, NextPush, Ready, Idle
  <2> QED
    BY <1>0, <1>a, <1>17, <2>1, <2>2 DEF NextPush, TypeOK, hostVars, presenceVars, workerVars, worldVars
<1>18. CASE NoPush
  <2>1. SenderOK'
    BY <1>18, GoneOn DEF TypeOK, NoPush
  <2> QED
    BY <1>0, <1>a, <1>18, <2>1 DEF NoPush, TypeOK, hostVars, presenceVars, workerVars, worldVars
<1>19. CASE Check
  <2>1. HostOK'
    <3>1. sender.alert \in Alert
      BY <1>19 DEF Check, TypeOK, SenderOK
    <3>2. Finished(sender.alert, "cancelled") \in [Alert -> OutRow]
      BY <3>1, FinishedFacts DEF OutState
    <3> QED
      BY <1>19, <3>2 DEF TypeOK, HostOK, Check
  <2>2. WorkerOK'
    BY <1>19 DEF TypeOK, WorkerOK, Check, OutState
  <2>3. SenderOK'
    BY <1>19, GoneOn DEF TypeOK, SenderOK, Sender, Stage, Check, OutState
  <2> QED
    BY <1>0, <1>a, <1>19, <2>1, <2>2, <2>3 DEF Check, TypeOK, hostVars, presenceVars, workerVars, worldVars
<1>20. CASE GiveUp
  <2>1. SenderOK'
    BY <1>20 DEF TypeOK, SenderOK, Sender, Stage, GiveUp
  <2> QED
    BY <1>0, <1>a, <1>20, <2>1 DEF GiveUp, TypeOK, hostVars, presenceVars, workerVars, worldVars
<1>21. CASE FinishPush
  <2>1. HostOK'
    <3>1. sender.alert \in Alert
      BY <1>21 DEF FinishPush, TypeOK, SenderOK
    <3>2. PICK s \in OutState \ {"none"} : outbox' = Finished(sender.alert, s)
      BY <1>21 DEF FinishPush, OutState
    <3>3. outbox' \in [Alert -> OutRow]
      BY <3>1, <3>2, FinishedFacts
    <3> QED
      BY <1>21, <3>3 DEF TypeOK, HostOK, FinishPush
  <2>2. SenderOK'
    BY <1>21, GoneOn DEF TypeOK, FinishPush, OutState
  <2> QED
    BY <1>0, <1>a, <1>21, <2>1, <2>2 DEF FinishPush, TypeOK, hostVars, presenceVars, workerVars, worldVars
<1>22. CASE Restart
  <2>1. SenderOK'
    BY <1>22 DEF TypeOK, SenderOK, Sender, Stage, Restart, Idle
  <2> QED
    BY <1>0, <1>a, <1>22, <2>1 DEF Restart, TypeOK, hostVars, presenceVars, workerVars, worldVars
<1>23. ASSUME NEW a \in Alert, UnknownRegistration(a) PROVE TypeOK'
  <2>1. WorkerOK'
    BY <1>23, AnswerType DEF TypeOK, WorkerOK, UnknownRegistration
  <2>2. SenderOK'
    BY <1>23, AnswerType DEF TypeOK, UnknownRegistration
  <2> QED
    BY <1>0, <1>a, <1>23, <2>1, <2>2 DEF UnknownRegistration, TypeOK, hostVars, presenceVars, workerVars, worldVars
<1>24. ASSUME NEW a \in Alert, Duplicate(a) PROVE TypeOK'
  <2>1. WorkerOK'
    BY <1>24, AnswerType DEF TypeOK, WorkerOK, Duplicate
  <2>2. SenderOK'
    BY <1>24, AnswerType DEF TypeOK, Duplicate
  <2> QED
    BY <1>0, <1>a, <1>24, <2>1, <2>2 DEF Duplicate, TypeOK, hostVars, presenceVars, workerVars, worldVars
<1>25. ASSUME NEW a \in Alert, Claim(a) PROVE TypeOK'
  <2>1. WorkerOK'
    BY <1>25 DEF TypeOK, WorkerOK, Claim
  <2> QED
    BY <1>0, <1>a, <1>25, <2>1 DEF Claim, TypeOK, hostVars, presenceVars, workerVars, worldVars
<1>26. ASSUME NEW a \in Alert, AppleAccepts(a) PROVE TypeOK'
  <2>1. WorkerOK'
    BY <1>26 DEF TypeOK, WorkerOK, AppleAccepts
  <2> QED
    BY <1>0, <1>a, <1>26, <2>1 DEF AppleAccepts, TypeOK, hostVars, presenceVars, workerVars, worldVars
<1>27. ASSUME NEW a \in Alert, Delivered(a) PROVE TypeOK'
  <2>1. WorkerOK'
    BY <1>27, AnswerType, NotedType DEF TypeOK, WorkerOK, Delivered
  <2>2. SenderOK'
    BY <1>27, AnswerType DEF TypeOK, Delivered
  <2> QED
    BY <1>0, <1>a, <1>27, <2>1, <2>2 DEF Delivered, TypeOK, hostVars, presenceVars, workerVars, worldVars
<1>28. ASSUME NEW a \in Alert, NotReceipted(a) PROVE TypeOK'
  <2>1. WorkerOK'
    BY <1>28, AnswerType, NotedType DEF TypeOK, WorkerOK, NotReceipted
  <2>2. SenderOK'
    BY <1>28, AnswerType DEF TypeOK, NotReceipted
  <2> QED
    BY <1>0, <1>a, <1>28, <2>1, <2>2 DEF NotReceipted, TypeOK, hostVars, presenceVars, workerVars, worldVars
<1>29. ASSUME NEW a \in Alert, AppleFails(a) PROVE TypeOK'
  <2>1. WorkerOK'
    BY <1>29, AnswerType, NotedType DEF TypeOK, WorkerOK, AppleFails
  <2>2. SenderOK'
    BY <1>29, AnswerType DEF TypeOK, AppleFails
  <2> QED
    BY <1>0, <1>a, <1>29, <2>1, <2>2 DEF AppleFails, TypeOK, hostVars, presenceVars, workerVars, worldVars
<1>30. ASSUME NEW a \in Alert, TokenGone(a) PROVE TypeOK'
  <2>1. WorkerOK'
    BY <1>30, AnswerType, NotedType DEF TypeOK, WorkerOK, TokenGone
  <2>2. SenderOK'
    BY <1>30, AnswerType DEF TypeOK, TokenGone
  <2> QED
    BY <1>0, <1>a, <1>30, <2>1, <2>2 DEF TokenGone, TypeOK, hostVars, presenceVars, workerVars, worldVars
<1>31. ASSUME NEW a \in Alert, WorkerDies(a) PROVE TypeOK'
  <2>1. WorkerOK'
    BY <1>31 DEF TypeOK, WorkerOK, WorkerDies
  <2> QED
    BY <1>0, <1>a, <1>31, <2>1 DEF WorkerDies, TypeOK, hostVars, presenceVars, workerVars, worldVars
<1> QED
  BY <1>1, <1>2, <1>3, <1>4, <1>5, <1>6, <1>7, <1>8, <1>9, <1>10, <1>11, <1>12, <1>13, <1>14, <1>15, <1>16, <1>17, <1>18, <1>19, <1>20, <1>21, <1>22, <1>23, <1>24, <1>25, <1>26, <1>27, <1>28, <1>29, <1>30, <1>31 DEF Next, Step, Loop, Serve

-----------------------------------------------------------------------------
(* Most steps take no row back to pending, start nothing on its way to the  *)
(* phone, and bring nobody to the foreground.                               *)
Retiring == \A g \in Registration : reg'[g].state = "active" => reg[g].state = "active"

Calm ==
    /\ intent' = intent /\ suppressed' = suppressed
    /\ \A d \in Device : foreground'[d] => foreground[d]
    /\ \A a \in Alert : /\ outbox'[a].state = "pending" => outbox[a].state = "pending"
                        /\ Touched(a)' => Touched(a)

LEMMA CalmKeeps ==
    ASSUME IInv, Calm, Remember
    PROVE  Watching' /\ Quiet' /\ Fresh' /\ OneTarget' /\ (Retiring => OneActive')
<1>1. \A d \in Device, i \in Intent : i \in looked'[d] => i \in looked[d]
  BY DEF Calm, Remember, IInv, Watching
<1>2. Watching'
  BY DEF Calm, Remember, Watching
<1>3. Quiet'
  <2> SUFFICES ASSUME NEW d \in Device, NEW i \in Intent, i \in looked'[d]
               PROVE  /\ intent'[i] # "none"
                      /\ intent'[i] = "new" => <<i, d>> \in suppressed'
                      /\ \A g \in Registration : DeviceOf(g) = d => outbox'[<<i, g>>].state # "pending"
    BY DEF Quiet
  <2>1. i \in looked[d]
    BY <1>1
  <2>2. \A g \in Registration : <<i, g>> \in Alert
    BY DEF Alert
  <2> QED
    BY <2>1, <2>2 DEF Calm, IInv, Quiet
<1>4. Fresh'
  BY DEF Calm, IInv, Fresh
<1>5. Retiring => OneActive'
  BY DEF Retiring, IInv, OneActive
<1>6. OneTarget'
  BY DEF Calm, IInv, OneTarget
<1> QED
  BY <1>2, <1>3, <1>4, <1>5, <1>6

LEMMA CalmSteps ==
    ASSUME TypeOK, Step, ~\E m \in net : Presence(m), ~\E g \in Registration : Register(g),
           ~\E i \in Intent : Record(i), ~Distribute
    PROVE  Calm /\ Retiring
<1> USE DEF Calm, Retiring, Touched, hostVars, presenceVars, workerVars, worldVars
<1>a. /\ outbox \in [Alert -> OutRow] /\ reg \in [Registration -> RegRow]
      /\ request \in [Alert -> {"none", "asked", "claimed", "accepted"}]
      /\ sender \in Sender /\ alerted \in [Alert -> Nat]
      /\ sender.at \in {"check", "post", "finish"} => sender.alert \in Alert
  BY DEF TypeOK, HostOK, WorkerOK, SenderOK
<1>1. ASSUME NEW d \in Device, NEW f \in BOOLEAN, Report(d, f) PROVE Calm /\ Retiring
  BY <1>a, <1>1 DEF Report
<1>2. ASSUME NEW d \in Device, LeaseEnds(d) PROVE Calm /\ Retiring
  BY <1>a, <1>2 DEF LeaseEnds, TypeOK, PresenceOK
<1>3. ASSUME NEW d \in Device, RevokePush(d) PROVE Calm /\ Retiring
  BY <1>a, <1>3, WithdrawFacts, RevokedFacts DEF RevokePush
<1>4. ASSUME NEW d \in Device, RevokeDevice(d) PROVE Calm /\ Retiring
  BY <1>a, <1>4, WithdrawFacts, RevokedFacts DEF RevokeDevice
<1>5. ASSUME NEW g \in Registration, Enroll(g) PROVE Calm /\ Retiring
  BY <1>a, <1>5 DEF Enroll
<1>6. ASSUME NEW i \in Intent, Settle(i) PROVE Calm /\ Retiring
  BY <1>a, <1>6 DEF Settle
<1>7. ASSUME NEW i \in Intent, DayPasses(i) PROVE Calm /\ Retiring
  BY <1>a, <1>7 DEF DayPasses
<1>8. ASSUME NEW g \in Registration, NextRevocation(g) PROVE Calm /\ Retiring
  BY <1>a, <1>8 DEF NextRevocation, Idle, RegRow
<1>9. CASE NoRevocation
  BY <1>a, <1>9, GoneOn DEF NoRevocation
<1>10. CASE Revoke
  <2>1. UNCHANGED <<hostVars, presenceVars, request, alerted>>
    BY <1>10 DEF Revoke
  <2>2. sender'.at \in {"forget", "distribute"}
    BY <1>a, <1>10, GoneOn DEF Revoke, Sender
  <2> QED
    BY <2>1, <2>2
<1>11. CASE RevokeLost
  BY <1>a, <1>11, GoneOn DEF RevokeLost
<1>12. CASE Forget
  BY <1>a, <1>12, GoneOn DEF Forget
<1>13. ASSUME NEW a \in Alert, NextPush(a) PROVE Calm /\ Retiring
  BY <1>a, <1>13 DEF NextPush, Idle, OutRow, Ready, Sendable
<1>14. CASE NoPush
  BY <1>a, <1>14, GoneOn DEF NoPush
<1>15. CASE Check
  <2>1. UNCHANGED <<reg, intent, suppressed, foreground, alerted>>
    BY <1>15 DEF Check
  <2>2. sender.at = "check" /\ sender.alert \in Alert
    BY <1>a, <1>15 DEF Check
  <2>3. \A a \in Alert : /\ outbox'[a].state = "pending" => outbox[a].state = "pending"
                         /\ outbox'[a].state = "none" <=> outbox[a].state = "none"
    BY <1>15, <2>2, FinishedFacts DEF Check, OutState
  <2>4. \A a \in Alert : request'[a] # request[a] => a = sender.alert
    BY <1>a, <1>15, <2>2 DEF Check
  <2>5. sender'.at \in {"post", "pick"} /\ (sender'.at = "post" => sender'.alert = sender.alert)
    BY <1>a, <1>15, GoneOn DEF Check, Sender
  <2> QED
    BY <2>1, <2>2, <2>3, <2>4, <2>5
<1>16. CASE GiveUp
  BY <1>a, <1>16 DEF GiveUp, Sender
<1>17. CASE FinishPush
  BY <1>a, <1>17, FinishedFacts, GoneOn DEF FinishPush, OutState
<1>18. CASE Restart
  BY <1>a, <1>18 DEF Restart, Idle
<1>19. ASSUME NEW a \in Alert, UnknownRegistration(a) PROVE Calm /\ Retiring
  BY <1>a, <1>19 DEF UnknownRegistration, Answer, Sender
<1>20. ASSUME NEW a \in Alert, Duplicate(a) PROVE Calm /\ Retiring
  BY <1>a, <1>20 DEF Duplicate, Answer, Sender, Known
<1>21. ASSUME NEW a \in Alert, Claim(a) PROVE Calm /\ Retiring
  BY <1>a, <1>21 DEF Claim, Known
<1>22. ASSUME NEW a \in Alert, AppleAccepts(a) PROVE Calm /\ Retiring
  BY <1>a, <1>22 DEF AppleAccepts
<1>23. ASSUME NEW a \in Alert, Delivered(a) PROVE Calm /\ Retiring
  BY <1>a, <1>23 DEF Delivered, Answer, Sender
<1>24. ASSUME NEW a \in Alert, NotReceipted(a) PROVE Calm /\ Retiring
  BY <1>a, <1>24 DEF NotReceipted, Answer, Sender
<1>25. ASSUME NEW a \in Alert, AppleFails(a) PROVE Calm /\ Retiring
  BY <1>a, <1>25 DEF AppleFails, Answer, Sender
<1>26. ASSUME NEW a \in Alert, TokenGone(a) PROVE Calm /\ Retiring
  BY <1>a, <1>26 DEF TokenGone, Answer, Sender
<1>27. ASSUME NEW a \in Alert, WorkerDies(a) PROVE Calm /\ Retiring
  BY <1>a, <1>27 DEF WorkerDies
<1> QED
  BY <1>1, <1>2, <1>3, <1>4, <1>5, <1>6, <1>7, <1>8, <1>9, <1>10, <1>11, <1>12, <1>13, <1>14, <1>15, <1>16, <1>17, <1>18, <1>19, <1>20, <1>21, <1>22, <1>23, <1>24, <1>25, <1>26, <1>27 DEF Step, Loop, Serve

-----------------------------------------------------------------------------
(* What Apple and the Worker have come to.                                  *)
LEMMA CountedFrame ==
    ASSUME Counted, UNCHANGED <<enrolled, receipt, request, alerted, forgot>>
    PROVE  Counted'
  BY DEF Counted

LEMMA UnaskedStep == ASSUME TypeOK, Unasked, Step PROVE Unasked'
<1> USE DEF hostVars, presenceVars, workerVars, worldVars
<1>1. CASE \E d \in Device : Report(d, TRUE) \/ Report(d, FALSE) \/ LeaseEnds(d) \/ RevokePush(d) \/ RevokeDevice(d)
  BY <1>1 DEF Unasked, Report, LeaseEnds, RevokePush, RevokeDevice
<1>2. CASE \E m \in net : Presence(m)
  BY <1>2 DEF Unasked, Presence
<1>3. CASE \E g \in Registration : Enroll(g) \/ Register(g)
  BY <1>3 DEF Unasked, Enroll, Register
<1>4. CASE \E i \in Intent : Record(i) \/ Settle(i) \/ DayPasses(i)
  BY <1>4 DEF Unasked, Record, Settle, DayPasses
<1>5. CASE Loop
  <2>1. ASSUME NEW a \in Alert, NextPush(a) PROVE Unasked'
    BY <2>1 DEF Unasked, NextPush, Ready, Idle
  <2>2. CASE \E g \in Registration : NextRevocation(g)
    BY <2>2 DEF Unasked, NextRevocation, Idle
  <2>3. CASE NoRevocation \/ RevokeLost \/ Forget \/ Distribute \/ NoPush \/ FinishPush
    BY <2>3, GoneOn DEF Unasked, NoRevocation, RevokeLost, Forget, Distribute, NoPush, FinishPush
  <2>4. CASE Revoke
    BY <2>4, GoneOn DEF Unasked, Revoke, TypeOK, SenderOK, Sender
  <2>5. CASE Check
    BY <2>5, GoneOn DEF Unasked, Check, TypeOK, SenderOK, Sender
  <2>6. CASE GiveUp
    BY <2>6 DEF Unasked, GiveUp, TypeOK, SenderOK, Sender
  <2> QED
    BY <1>5, <2>1, <2>2, <2>3, <2>4, <2>5, <2>6 DEF Loop
<1>6. CASE Restart
  BY <1>6 DEF Unasked, Restart, Idle
<1>7. ASSUME NEW a \in Alert, Serve(a) PROVE Unasked'
  <2>1. sender.at = "check" => sender.alert \in Alert
    BY DEF TypeOK, SenderOK
  <2>2. sender'.at = "check" => UNCHANGED sender
    BY <1>7 DEF Serve, UnknownRegistration, Duplicate, Claim, AppleAccepts, Delivered, NotReceipted,
       AppleFails, TokenGone, WorkerDies, Answer, TypeOK, SenderOK, Sender
  <2>3. request[a] # "none" /\ \A b \in Alert : b # a => request'[b] = request[b]
    BY <1>7 DEF Serve, UnknownRegistration, Duplicate, Claim, AppleAccepts, Delivered, NotReceipted,
       AppleFails, TokenGone, WorkerDies, Answer, Known, TypeOK, WorkerOK
  <2> QED
    BY <2>1, <2>2, <2>3 DEF Unasked
<1> QED
  BY <1>1, <1>2, <1>3, <1>4, <1>5, <1>6, <1>7 DEF Step

LEMMA OnlyCheckStarts ==
    ASSUME TypeOK, Step, NEW a \in Alert, request[a] = "none", request'[a] # "none"
    PROVE  Check
<1> USE DEF hostVars, presenceVars, workerVars, worldVars
<1>1. CASE \E d \in Device : Report(d, TRUE) \/ Report(d, FALSE) \/ LeaseEnds(d) \/ RevokePush(d) \/ RevokeDevice(d)
  BY <1>1 DEF Report, LeaseEnds, RevokePush, RevokeDevice
<1>2. CASE \E m \in net : Presence(m)
  BY <1>2 DEF Presence
<1>3. CASE \E g \in Registration : Enroll(g) \/ Register(g)
  BY <1>3 DEF Enroll, Register
<1>4. CASE \E i \in Intent : Record(i) \/ Settle(i) \/ DayPasses(i)
  BY <1>4 DEF Record, Settle, DayPasses
<1>5. CASE Loop \/ Restart
  BY <1>5 DEF Loop, NextRevocation, NoRevocation, Revoke, RevokeLost, Forget, Distribute, NextPush, NoPush,
     GiveUp, FinishPush, Restart
<1>6. CASE \E b \in Alert : Serve(b)
  <2> PICK b \in Alert : Serve(b)
    BY <1>6
  <2>1. request[b] # "none" /\ (b # a => request'[a] = request[a])
    BY DEF Serve, UnknownRegistration, Duplicate, Claim, AppleAccepts, Delivered, NotReceipted,
       AppleFails, TokenGone, WorkerDies, Answer, Known, TypeOK, WorkerOK
  <2> QED
    BY <2>1
<1> QED
  BY <1>1, <1>2, <1>3, <1>4, <1>5, <1>6 DEF Step

LEMMA CountedStep == ASSUME TypeOK, Unasked, Counted, Step PROVE Counted'
<1> USE DEF hostVars, presenceVars, workerVars, worldVars
<1>a. /\ enrolled \in [Registration -> {"none", "on", "gone"}]
      /\ receipt \in [Alert -> {"none", "sending", "retry", "delivered"}]
      /\ request \in [Alert -> {"none", "asked", "claimed", "accepted"}]
      /\ alerted \in [Alert -> Nat] /\ forgot \in [Alert -> Nat]
      /\ \A a \in Alert : a[2] \in Registration
      /\ sender.at \in {"check", "post", "finish"} => sender.alert \in Alert
      /\ sender.at \in {"revoke", "forget"} => sender.reg \in Registration
  BY DEF TypeOK, WorkerOK, SenderOK, Alert
<1>1. ASSUME NEW d \in Device, NEW f \in BOOLEAN, Report(d, f) PROVE Counted'
  BY <1>1, CountedFrame DEF Report
<1>2. ASSUME NEW m \in net, Presence(m) PROVE Counted'
  BY <1>2, CountedFrame DEF Presence
<1>3. ASSUME NEW d \in Device, LeaseEnds(d) PROVE Counted'
  BY <1>3, CountedFrame DEF LeaseEnds
<1>4. ASSUME NEW d \in Device, RevokePush(d) PROVE Counted'
  BY <1>4, CountedFrame DEF RevokePush
<1>5. ASSUME NEW d \in Device, RevokeDevice(d) PROVE Counted'
  BY <1>5, CountedFrame DEF RevokeDevice
<1>6. ASSUME NEW g \in Registration, Enroll(g) PROVE Counted'
  BY <1>a, <1>6 DEF Counted, Enroll
<1>7. ASSUME NEW g \in Registration, Register(g) PROVE Counted'
  BY <1>7, CountedFrame DEF Register
<1>8. ASSUME NEW i \in Intent, Record(i) PROVE Counted'
  BY <1>8, CountedFrame DEF Record
<1>9. ASSUME NEW i \in Intent, Settle(i) PROVE Counted'
  BY <1>9, CountedFrame DEF Settle
<1>10. ASSUME NEW i \in Intent, DayPasses(i) PROVE Counted'
  BY <1>10, CountedFrame DEF DayPasses
<1>11. ASSUME NEW g \in Registration, NextRevocation(g) PROVE Counted'
  BY <1>11, CountedFrame DEF NextRevocation
<1>12. CASE NoRevocation
  BY <1>12, CountedFrame DEF NoRevocation
<1>13. CASE Revoke
  BY <1>a, <1>13 DEF Counted, Revoke
<1>14. CASE RevokeLost
  BY <1>14, CountedFrame DEF RevokeLost
<1>15. CASE Forget
  BY <1>15, CountedFrame DEF Forget
<1>16. CASE Distribute
  BY <1>16, CountedFrame DEF Distribute
<1>17. ASSUME NEW a \in Alert, NextPush(a) PROVE Counted'
  BY <1>17, CountedFrame DEF NextPush
<1>18. CASE NoPush
  BY <1>18, CountedFrame DEF NoPush
<1>19. CASE Check
  <2>1. UNCHANGED <<enrolled, receipt, alerted, forgot>>
    BY <1>19 DEF Check
  <2>2. \A a \in Alert : request'[a] = request[a] \/ request'[a] = "asked"
    BY <1>a, <1>19 DEF Check
  <2>3. \A a \in Alert : request'[a] # request[a] => request[a] = "none"
    BY <1>a, <1>19 DEF Check, Unasked
  <2> QED
    BY <1>a, <2>1, <2>2, <2>3 DEF Counted
<1>20. CASE GiveUp
  BY <1>20, CountedFrame DEF GiveUp
<1>21. CASE FinishPush
  BY <1>21, CountedFrame DEF FinishPush
<1>22. CASE Restart
  BY <1>22, CountedFrame DEF Restart
<1>23. ASSUME NEW a \in Alert, UnknownRegistration(a) PROVE Counted'
  BY <1>a, <1>23 DEF Counted, UnknownRegistration, Answer
<1>24. ASSUME NEW a \in Alert, Duplicate(a) PROVE Counted'
  BY <1>a, <1>24 DEF Counted, Duplicate, Answer, Known
<1>25. ASSUME NEW a \in Alert, Claim(a) PROVE Counted'
  BY <1>a, <1>25 DEF Counted, Claim, Known, Claimable
<1>26. ASSUME NEW a \in Alert, AppleAccepts(a) PROVE Counted'
  BY <1>a, <1>26 DEF Counted, AppleAccepts
<1>27. ASSUME NEW a \in Alert, Delivered(a) PROVE Counted'
  BY <1>a, <1>27 DEF Counted, Delivered, Answer, Noted
<1>28. ASSUME NEW a \in Alert, NotReceipted(a) PROVE Counted'
  BY <1>a, <1>28 DEF Counted, NotReceipted, Answer, Noted
<1>29. ASSUME NEW a \in Alert, AppleFails(a) PROVE Counted'
  BY <1>a, <1>29 DEF Counted, AppleFails, Answer, Noted
<1>30. ASSUME NEW a \in Alert, TokenGone(a) PROVE Counted'
  BY <1>a, <1>30 DEF Counted, TokenGone, Answer, Noted
<1>31. ASSUME NEW a \in Alert, WorkerDies(a) PROVE Counted'
  BY <1>a, <1>31 DEF Counted, WorkerDies
<1> QED
  BY <1>1, <1>2, <1>3, <1>4, <1>5, <1>6, <1>7, <1>8, <1>9, <1>10, <1>11, <1>12, <1>13, <1>14, <1>15, <1>16, <1>17, <1>18, <1>19, <1>20, <1>21, <1>22, <1>23, <1>24, <1>25, <1>26, <1>27, <1>28, <1>29, <1>30, <1>31 DEF Step, Loop, Serve

-----------------------------------------------------------------------------
LEMMA InitInv == Init => IInv
  BY SMTT(30)
  DEF Init, IInv, TypeOK, HostOK, PresenceOK, WorkerOK, WorldOK, SenderOK, Watching, Quiet, Fresh, OneActive, OneTarget, Counted, Unasked, Touched, Idle, Alert,
      RegRow, OutRow, OutState, Sender, Stage

-----------------------------------------------------------------------------
(* The steps that are not calm.                                             *)
LEMMA PresenceKeeps ==
    ASSUME IInv, Remember, NEW m \in net, Presence(m)
    PROVE  Watching' /\ Quiet' /\ Fresh' /\ OneActive' /\ OneTarget'
<1> USE DEF workerVars, worldVars
<1>a. m.device \in Device /\ foreground \in [Device -> BOOLEAN] /\ TypeOK
  BY DEF IInv, TypeOK, PresenceOK, Sent
<1>1. /\ UNCHANGED <<reg, intent, request, alerted, sender>> /\ suppressed \subseteq suppressed'
      /\ \A d \in Device : d # m.device => foreground'[d] = foreground[d]
  BY <1>a DEF Presence
<1>2. \A a \in Alert : /\ outbox'[a].state = "pending" => outbox[a].state = "pending"
                       /\ outbox'[a].state = "none" <=> outbox[a].state = "none"
  BY <1>a, WithdrawFacts DEF Presence
<1>3. Watching'
  BY DEF Remember, Watching
<1>4. Quiet'
  <2> SUFFICES ASSUME NEW d \in Device, NEW i \in Intent, i \in looked'[d]
               PROVE  /\ intent[i] # "none"
                      /\ intent[i] = "new" => <<i, d>> \in suppressed'
                      /\ \A g \in Registration : DeviceOf(g) = d => outbox'[<<i, g>>].state # "pending"
    BY <1>1 DEF Quiet
  <2>a. \A g \in Registration : <<i, g>> \in Alert
    BY DEF Alert
  <2>1. CASE i \in looked[d]
    BY <1>1, <1>2, <2>a, <2>1 DEF IInv, Quiet
  <2>2. CASE i \notin looked[d]
    <3>1. foreground'[d] /\ ~foreground[d] /\ intent[i] # "none"
      BY <1>1, <2>2 DEF Remember, IInv, Watching
    <3>2. d = m.device /\ Counts(m) /\ m.front
      BY <1>a, <1>1, <3>1 DEF Presence
    <3>3. intent[i] = "new" => <<i, d>> \in suppressed'
      BY <3>2 DEF Presence
    <3>4. outbox' = Withdraw(OfDevice(d), "suppressed")
      BY <3>2 DEF Presence
    <3>5. \A g \in Registration : DeviceOf(g) = d => outbox'[<<i, g>>].state # "pending"
      BY <1>a, <2>a, <3>4, WithdrawFacts DEF OfDevice
    <3> QED
      BY <3>1, <3>3, <3>5
  <2> QED
    BY <2>1, <2>2
<1>5. \A a \in Alert : Touched(a)' => Touched(a)
  BY <1>1, <1>2 DEF Touched
<1>6. Fresh' /\ OneTarget'
  BY <1>1, <1>5 DEF IInv, Fresh, OneTarget
<1>7. OneActive'
  BY <1>1 DEF IInv, OneActive
<1> QED
  BY <1>3, <1>4, <1>6, <1>7

LEMMA RecordKeeps ==
    ASSUME IInv, Remember, NEW i \in Intent, Record(i)
    PROVE  Watching' /\ Quiet' /\ Fresh' /\ OneActive' /\ OneTarget'
<1> USE DEF presenceVars, workerVars, worldVars
<1>a. intent \in [Intent -> {"none", "new", "distributed"}]
  BY DEF IInv, TypeOK, HostOK
<1>1. /\ UNCHANGED <<reg, outbox, request, alerted, sender, foreground>> /\ suppressed \subseteq suppressed'
      /\ intent[i] = "none" /\ intent'[i] = "new"
      /\ \A j \in Intent : j # i => intent'[j] = intent[j]
  BY <1>a DEF Record
<1>2. Watching'
  BY DEF Remember, Watching
<1>3. Quiet'
  <2> SUFFICES ASSUME NEW d \in Device, NEW j \in Intent, j \in looked'[d]
               PROVE  /\ intent'[j] # "none"
                      /\ intent'[j] = "new" => <<j, d>> \in suppressed'
                      /\ \A g \in Registration : DeviceOf(g) = d => outbox[<<j, g>>].state # "pending"
    BY <1>1 DEF Quiet
  <2>1. CASE j # i
    <3>1. j \in looked[d]
      BY <1>1, <2>1 DEF Remember, IInv, Watching
    <3> QED
      BY <1>1, <2>1, <3>1 DEF IInv, Quiet
  <2>2. CASE j = i
    <3>1. i \notin looked[d]
      BY <1>1 DEF IInv, Quiet
    <3>2. foreground[d]
      BY <1>1, <2>2, <3>1 DEF Remember
    <3>3. <<i, d>> \in suppressed'
      BY <3>2 DEF Record
    <3>4. \A g \in Registration : outbox[<<i, g>>].state = "none"
      BY <1>1 DEF IInv, Fresh, Touched, Alert
    <3> QED
      BY <1>1, <2>2, <3>3, <3>4
  <2> QED
    BY <2>1, <2>2
<1>4. \A a \in Alert : Touched(a)' <=> Touched(a)
  BY <1>1 DEF Touched
<1>5. Fresh' /\ OneTarget'
  BY <1>1, <1>4 DEF IInv, Fresh, OneTarget, Alert
<1>6. OneActive'
  BY <1>1 DEF IInv, OneActive
<1> QED
  BY <1>2, <1>3, <1>5, <1>6

LEMMA RegisterKeeps ==
    ASSUME IInv, Remember, NEW g \in Registration, Register(g)
    PROVE  Watching' /\ Quiet' /\ Fresh' /\ OneActive' /\ OneTarget'
<1> USE DEF presenceVars, workerVars, worldVars
<1>a. TypeOK
  BY DEF IInv
<1>1. Calm
  BY <1>a, WithdrawFacts DEF Register, Calm, Touched
<1>2. OneActive'
  <2>1. \A h \in Registration : reg'[h].state = "active" /\ h # g =>
          reg[h].state = "active" /\ DeviceOf(h) # DeviceOf(g)
    BY <1>a, RevokedFacts DEF Register, OfDevice
  <2> QED
    BY <2>1 DEF IInv, OneActive
<1> QED
  BY <1>1, <1>2, CalmKeeps

LEMMA DistributeKeeps ==
    ASSUME IInv, Remember, Distribute
    PROVE  Watching' /\ Quiet' /\ Fresh' /\ OneActive' /\ OneTarget'
<1> USE DEF presenceVars, workerVars, worldVars
<1>a. /\ outbox \in [Alert -> OutRow] /\ intent \in [Intent -> {"none", "new", "distributed"}]
      /\ \A a \in Alert : a[1] \in Intent /\ a[2] \in Registration
  BY DEF IInv, TypeOK, HostOK, Alert
<1>1. /\ UNCHANGED <<reg, suppressed, foreground, request, alerted>> /\ sender'.at = "pick"
      /\ \A i \in Intent : intent'[i] # "new" /\ (intent'[i] = "none" <=> intent[i] = "none")
  BY <1>a, GoneOn DEF Distribute
<1>2. \A a \in Alert : outbox'[a].state # "none" /\ outbox[a].state = "none" =>
        Wanted(a[1]) /\ Recipient(a[1], a[2])
  BY <1>a DEF Distribute
<1>3. \A a \in Alert : outbox'[a].state = "pending" /\ outbox[a].state # "pending" =>
        Wanted(a[1]) /\ Recipient(a[1], a[2])
  BY <1>a DEF Distribute, OutRow
<1>4. \A a \in Alert : Touched(a)' => Touched(a) \/ (Wanted(a[1]) /\ Recipient(a[1], a[2]))
  <2> SUFFICES ASSUME NEW a \in Alert, Touched(a)', ~Touched(a)
               PROVE  Wanted(a[1]) /\ Recipient(a[1], a[2])
    OBVIOUS
  <2>1. outbox[a].state = "none" /\ request'[a] = "none" /\ alerted'[a] = 0
    BY <1>1 DEF Touched
  <2>2. outbox'[a].state # "none"
    BY <1>1, <2>1 DEF Touched
  <2> QED
    BY <1>2, <2>1, <2>2
<1>5. Watching'
  BY DEF Remember, Watching
<1>6. Quiet'
  <2> SUFFICES ASSUME NEW d \in Device, NEW i \in Intent, i \in looked'[d]
               PROVE  /\ intent'[i] # "none"
                      /\ \A g \in Registration : DeviceOf(g) = d => outbox'[<<i, g>>].state # "pending"
    BY <1>1 DEF Quiet
  <2>1. i \in looked[d]
    BY <1>1 DEF Remember, IInv, Watching
  <2>2. ASSUME NEW g \in Registration, DeviceOf(g) = d PROVE outbox'[<<i, g>>].state # "pending"
    <3>1. <<i, g>> \in Alert /\ outbox[<<i, g>>].state # "pending"
      BY <2>1, <2>2 DEF Alert, IInv, Quiet
    <3>2. intent[i] = "new" => <<i, DeviceOf(g)>> \in suppressed
      BY <2>1, <2>2 DEF IInv, Quiet
    <3> QED
      BY <1>3, <3>1, <3>2 DEF Wanted, Recipient
  <2> QED
    BY <1>1, <2>1, <2>2 DEF IInv, Quiet
<1>7. Fresh'
  BY <1>a, <1>1, <1>4 DEF IInv, Fresh, Wanted, Distribute
<1>8. OneActive'
  BY <1>1 DEF IInv, OneActive
<1>9. OneTarget'
  <2> SUFFICES ASSUME NEW a \in Alert, NEW b \in Alert, a[1] = b[1], DeviceOf(a[2]) = DeviceOf(b[2]),
                      Touched(a)', Touched(b)'
               PROVE  a = b
    BY DEF OneTarget
  <2>1. Touched(a) /\ Touched(b) => a = b
    BY DEF IInv, OneTarget
  <2>2. Touched(a) \/ Touched(b) => intent[a[1]] = "distributed"
    BY DEF IInv, Fresh
  <2>3. CASE Wanted(a[1])
    <3>1. Live(a[2]) /\ Live(b[2])
      BY <1>4, <2>2, <2>3 DEF Wanted, Recipient
    <3>2. a[2] = b[2]
      BY <1>a, <3>1 DEF Live, IInv, OneActive
    <3> QED
      BY <3>2 DEF Alert
  <2>4. CASE ~Wanted(a[1])
    BY <1>4, <2>1, <2>4
  <2> QED
    BY <2>3, <2>4
<1> QED
  BY <1>5, <1>6, <1>7, <1>8, <1>9

LEMMA NextInv == IInv /\ Next => IInv'
<1> SUFFICES ASSUME IInv, Next PROVE IInv'
  OBVIOUS
<1>1. TypeOK /\ Step /\ Remember /\ Unasked /\ Counted
  BY DEF IInv, Next
<1>2. TypeOK' /\ Counted' /\ Unasked'
  BY <1>1, TypeStep, CountedStep, UnaskedStep
<1>3. Watching' /\ Quiet' /\ Fresh' /\ OneActive' /\ OneTarget'
  BY <1>1, PresenceKeeps, RecordKeeps, RegisterKeeps, DistributeKeeps, CalmSteps, CalmKeeps
<1> QED
  BY <1>2, <1>3 DEF IInv

LEMMA StutterInv == IInv /\ UNCHANGED vars => IInv'
  BY SMTT(30)
  DEF vars, hostVars, presenceVars, workerVars, worldVars, IInv, TypeOK, HostOK, PresenceOK, WorkerOK, WorldOK,
      SenderOK, Watching, Quiet, Fresh, OneActive, OneTarget, Counted, Unasked, Touched

LEMMA Invariance == Spec => []IInv
<1>1. IInv /\ [Next]_vars => IInv'
  BY NextInv, StutterInv
<1> QED
  BY <1>1, InitInv, PTL DEF Spec

-----------------------------------------------------------------------------
(* The tables of the daemon, the phone's reports, the sender's place and the *)
(* Worker's tables keep their types: the sender never acts on an alert or a  *)
(* registration it has not picked, whenever it crashes or gives up.          *)
THEOREM TypeCorrect == Spec => []TypeOK
<1>1. IInv => TypeOK
  BY DEF IInv
<1> QED
  BY <1>1, Invariance, PTL

(* Of one event a phone is alerted through one registration, and a second    *)
(* time only if the Worker could not receipt the first.                      *)
THEOREM AlertedOnce == Spec => []AlertOnce
<1>1. IInv => AlertOnce
  <2> SUFFICES ASSUME IInv PROVE AlertOnce
    OBVIOUS
  <2>1. \A a \in Alert : alerted[a] <= forgot[a] + 1 /\ alerted[a] \in Nat
    BY DEF IInv, Counted, TypeOK, WorkerOK
  <2>2. \A a \in Alert : alerted[a] > 0 => Touched(a)
    BY <2>1 DEF Touched
  <2> QED
    BY <2>1, <2>2 DEF AlertOnce, IInv, OneTarget
<1> QED
  BY <1>1, Invariance, PTL

(* No attempt begins for what the phone has seen: the check before a request *)
(* finds the row closed, however late the report of the phone came.          *)
THEOREM QuietWhenSeen == Spec => QuietOnceSeen
<1> DEFINE Starts(a) == request[a] = "none" /\ request'[a] # "none"
<1>1. IInv /\ [Next]_vars => [\A a \in Alert : Starts(a) => a[1] \notin looked[DeviceOf(a[2])]]_vars
  <2> SUFFICES ASSUME IInv, Step, NEW a \in Alert, Starts(a) PROVE a[1] \notin looked[DeviceOf(a[2])]
    BY DEF Next
  <2>1. request \in [Alert -> {"none", "asked", "claimed", "accepted"}] /\ TypeOK
    BY DEF IInv, TypeOK, WorkerOK
  <2>2. Check
    BY <2>1, OnlyCheckStarts
  <2>3. a = sender.alert /\ outbox[a].state = "pending"
    BY <2>1, <2>2 DEF Check, Sendable
  <2>4. a[1] \in Intent /\ a[2] \in Registration /\ DeviceOf(a[2]) \in Device /\ a = <<a[1], a[2]>>
    <3>1. a[1] \in Intent /\ a[2] \in Registration /\ a = <<a[1], a[2]>>
      BY DEF Alert
    <3> QED
      BY <3>1 DEF DeviceOf, Registration
  <2> QED
    BY <2>3, <2>4 DEF IInv, Quiet
<1> QED
  BY <1>1, Invariance, PTL DEF Spec, QuietOnceSeen
=============================================================================
