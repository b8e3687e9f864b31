--------------------------- MODULE DeliveryPromise ---------------------------
(***************************************************************************)
(* What a person may rely on after a message was accepted, without the     *)
(* queue, the runtime's turns or the recovery: a message that is "held"    *)
(* has not run and may be withdrawn; a "submitted" one may or may not have *)
(* run; a "confirmed" one ran, exactly once; a "closed" one changes no     *)
(* more.  Several messages may move in one step (the end of a turn, a      *)
(* restart).                                                               *)
(***************************************************************************)
EXTENDS Naturals

CONSTANT Message

VARIABLES receipt,  \* what the person is told about each message
          runs      \* how often the runtime took each message

Status == {"unsent", "held", "submitted", "confirmed", "closed"}

Init == /\ receipt = [m \in Message |-> "unsent"]
        /\ runs = [m \in Message |-> 0]

Told(m, before, after) == receipt[m] = before /\ receipt'[m] = after
NoRun(m) == runs'[m] = runs[m]

Accept(m)   == Told(m, "unsent", "held") /\ NoRun(m)
Withdraw(m) == Told(m, "held", "closed") /\ NoRun(m)
Submit(m)   == Told(m, "held", "submitted") /\ NoRun(m)
GiveBack(m) == Told(m, "submitted", "held") /\ runs[m] = 0 /\ NoRun(m)
Run(m)      == Told(m, "submitted", "submitted") /\ runs[m] = 0 /\ runs'[m] = 1
Confirm(m)  == Told(m, "submitted", "confirmed") /\ runs[m] = 1 /\ NoRun(m)
Settle(m)   == Told(m, "submitted", "closed") /\ runs[m] = 1 /\ NoRun(m)
Close(m)    == Told(m, "confirmed", "closed") /\ NoRun(m)
Rest(m)     == receipt'[m] = receipt[m] /\ NoRun(m)

Move(m) == Rest(m) \/ Accept(m) \/ Withdraw(m) \/ Submit(m) \/ GiveBack(m)
           \/ Run(m) \/ Confirm(m) \/ Settle(m) \/ Close(m)

Next == /\ receipt' \in [Message -> Status] /\ runs' \in [Message -> {0, 1}]
        /\ \A m \in Message : Move(m)

Spec == Init /\ [][Next]_<<receipt, runs>>
=============================================================================
