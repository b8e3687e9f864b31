----------------------------- MODULE Approvals -----------------------------
(* What the runtime asks and the owner, the deadline or the permissions of   *)
(* the Bot answer: approvals, questions of a turn, and calls of the computer *)
(* tool, which the daemon itself carries out.                                *)
(*                                                                           *)
(* One lock serialises whoever answers, but not what happens beside it: the  *)
(* owner's HTTP request is dropped at any await, the runtime withdraws the   *)
(* request or dies, the turn ends. What is kept of an answer is written to   *)
(* the row before it is sent.                                                *)
EXTENDS Naturals, FiniteSets

CONSTANTS
    Question,     \* optional questions, which have a deadline
    Tool,         \* calls of the computer tool that the owner has to approve
    Permitted,    \* calls of the computer tool that the Bot's permissions allow
    Call,         \* the tool calls themselves: a retry is a request of its own
    CallOf,       \* the call that each tool request stands for
    Key,          \* idempotency keys of the owner's answers
    Yes,          \* the keys whose answer is to approve; the others decline
    MaxAttempts   \* bound: answers and replays that reach the daemon

ASSUME ApprovalsAssumption ==
    /\ CallOf \in [Tool \cup Permitted -> Call]
    /\ Yes \subseteq Key
    /\ MaxAttempts \in Nat
    /\ {"none", "expired", "automatic", "server", "turn_ended", "app_server_lost"} \cap Key = {}
    /\ "none" \notin Question \cup Tool \cup Permitted
    /\ Question \cap Tool = {} /\ (Question \cup Tool) \cap Permitted = {}

Req == Question \cup Tool \cup Permitted
None == "none"
Reply == {"yes", "no", "empty", "done", "interrupted", "unconfirmed"}

VARIABLES
    row,        \* the approvals table
    call,       \* computer_tool_calls: the request that reserved each call
    holder,     \* who holds approval_lock and how far it is
    due,        \* the questions whose deadline has passed
    alive,      \* the runtime answers
    turnOver,   \* the turn that asked has ended
    attempts,   \* answers and replays so far
    sent,       \* history: what was written to the runtime for each request
    acted,      \* history: how often each call was carried out
    broken      \* history: the requests of which somebody stopped half way

vars == <<row, call, holder, due, alive, turnOver, attempts, sent, acted, broken>>

Free == [at |-> "free", req |-> None, key |-> None, reply |-> None]
Active(r) == row[r].state \in {"pending", "resolving"}
Attempt == /\ attempts < MaxAttempts
           /\ attempts' = attempts + 1

Release == holder' = Free
Step(at) == holder' = [holder EXCEPT !.at = at]
StepWith(at, reply) == holder' = [holder EXCEPT !.at = at, !.reply = reply]
Set(r, state) == row' = [row EXCEPT ![r].state = state]

(* -------------------------------- asking --------------------------------- *)

(* insert_pending_approval; replaying the notification changes nothing.      *)
Ask(r) ==
    /\ alive /\ ~turnOver /\ row[r].state = None
    /\ Set(r, "pending")
    /\ UNCHANGED <<call, holder, due, alive, turnOver, attempts, sent, acted, broken>>

PassDeadline(r) ==
    /\ row[r].state # None /\ r \notin due
    /\ due' = due \cup {r}
    /\ UNCHANGED <<row, call, holder, alive, turnOver, attempts, sent, acted, broken>>

(* ------------------------------- the owner ------------------------------- *)

(* resolve_approval takes the lock and the row: begin, or resume what was    *)
(* left resolving; anything else is already resolved.                        *)
Begin(r, k, at) ==
    /\ holder = Free
    /\ Set(r, "resolving")
    /\ holder' = [at |-> at, req |-> r, key |-> k, reply |-> None]

Resolve(r, k) ==
    /\ Attempt
    /\ Active(r)
    /\ Begin(r, k, "check")
    /\ UNCHANGED <<call, due, alive, turnOver, sent, acted, broken>>

Recovering(r) == row[r].saved # None

(* The row goes back to pending when the answer is refused: its deadline has *)
(* passed, its precondition is stale, or its runtime is gone.                *)
Reset(r) == row' = [row EXCEPT ![r].state = IF @ = "resolving" THEN "pending" ELSE @]

Refuse ==
    /\ holder.at = "check"
    /\ Reset(holder.req)
    /\ Release
    /\ UNCHANGED <<call, due, alive, turnOver, attempts, sent, acted, broken>>

TooLate(r) == r \in due /\ ~Recovering(r)
SameAnswer(r, k) == Recovering(r) => row[r].key = k

(* Another answer than the one that is being recovered: 409, nothing reset.  *)
Conflict ==
    /\ holder.at = "check" /\ ~SameAnswer(holder.req, holder.key)
    /\ Release
    /\ UNCHANGED <<row, call, due, alive, turnOver, attempts, sent, acted, broken>>

(* What is to be answered: the saved response again, the owner's, or, for a  *)
(* tool call that is approved now, what comes of carrying it out.            *)
Accept ==
    LET r == holder.req
        execute == r \in Tool /\ holder.key \in Yes /\ ~Recovering(r)
    IN
    /\ holder.at = "check" /\ alive /\ ~TooLate(r) /\ SameAnswer(r, holder.key)
    /\ IF execute THEN StepWith("intend", "interrupted")
       ELSE StepWith("persist", IF Recovering(r) THEN row[r].saved
                                ELSE IF holder.key \in Yes THEN "yes" ELSE "no")
    /\ UNCHANGED <<row, call, due, alive, turnOver, attempts, sent, acted, broken>>

(* ----------------------- what every answer goes through ------------------ *)

(* persist_approval_resolution_intent: only the key that is already there.   *)
MaySaveOver(r, k) == row[r].state = "resolving"
MaySave(r, k) == row[r].state = "resolving" /\ row[r].key \in {None, k}
Save(r, k, reply) == row' = [row EXCEPT ![r].key = k, ![r].saved = reply]

IntendInMemory == /\ holder.at = "intend"
                  /\ Step("execute")
                  /\ UNCHANGED <<row, call, due, alive, turnOver, attempts, sent, acted, broken>>

(* Before the computer is touched the interrupted response is saved.         *)
Intend ==
    LET r == holder.req IN
    /\ holder.at = "intend"
    /\ IF MaySave(r, holder.key)
       THEN Save(r, holder.key, "interrupted") /\ Step("execute")
       ELSE UNCHANGED row /\ Release
    /\ UNCHANGED <<call, due, alive, turnOver, attempts, sent, acted, broken>>

(* The request that has reserved the call.                                   *)
ForgetsReservation(c) == None
ReservedBy(c) == call[c]

(* execute_once: the call is reserved under its own key; a request for a     *)
(* call that is taken gets the receipt of the first. If the reservation      *)
(* fails, nothing is carried out.                                            *)
Execute ==
    LET r == holder.req  c == CallOf[r]  first == ReservedBy(c) IN
    /\ holder.at = "execute"
    /\ \/ first = None /\ call' = [call EXCEPT ![c] = r] /\ Step("act")
       \/ first = None /\ UNCHANGED call /\ StepWith("persist", "interrupted")
       \/ /\ first # None /\ UNCHANGED call
          /\ StepWith("persist", IF row[first].saved = None THEN "interrupted" ELSE row[first].saved)
    /\ UNCHANGED <<row, due, alive, turnOver, attempts, sent, acted, broken>>

(* run_computer_use, when the reservation is written.                        *)
Act ==
    /\ holder.at = "act"
    /\ acted' = [acted EXCEPT ![CallOf[holder.req]] = @ + 1]
    /\ StepWith("persist", "done")
    /\ UNCHANGED <<row, call, due, alive, turnOver, attempts, sent, broken>>

Persist ==
    LET r == holder.req IN
    /\ holder.at = "persist"
    /\ IF MaySave(r, holder.key)
       THEN Save(r, holder.key, holder.reply) /\ Step("respond")
       ELSE UNCHANGED row /\ Release
    /\ UNCHANGED <<call, due, alive, turnOver, attempts, sent, acted, broken>>

RespondUnchecked ==
    /\ holder.at = "respond"
    /\ sent' \in {sent, [sent EXCEPT ![holder.req] = @ \cup {holder.reply}]}
    /\ Step("finish")
    /\ UNCHANGED <<row, call, due, alive, turnOver, attempts, acted, broken>>

(* respond_value: written, lost, or written with the acknowledgement lost.   *)
(* Without one the row stays resolving. The automatic path answers again     *)
(* that it cannot confirm, and finishes.                                     *)
Respond ==
    LET r == holder.req
        written == [sent EXCEPT ![r] = @ \cup {holder.reply}]
    IN
    /\ holder.at = "respond"
    /\ \/ alive /\ sent' = written /\ Step("finish") /\ UNCHANGED <<row, broken>>
       \/ /\ sent' \in {sent} \cup (IF alive THEN {written} ELSE {})
          /\ broken' = broken \cup {r}
          /\ IF r \in Permitted THEN StepWith("apologise", "unconfirmed") ELSE Release
          /\ UNCHANGED row
    /\ UNCHANGED <<call, due, alive, turnOver, attempts, acted>>

Apologise ==
    LET r == holder.req IN
    /\ holder.at = "apologise"
    /\ sent' = IF alive THEN [sent EXCEPT ![r] = @ \cup {holder.reply}] ELSE sent
    /\ Step("finish")
    /\ UNCHANGED <<row, call, due, alive, turnOver, attempts, acted, broken>>

Finish ==
    LET r == holder.req IN
    /\ holder.at = "finish"
    /\ row' = [row EXCEPT ![r] = IF @.state = "resolving"
                                 THEN [@ EXCEPT !.state = "resolved", !.decision = holder.key]
                                 ELSE @]
    /\ Release
    /\ UNCHANGED <<call, due, alive, turnOver, attempts, sent, acted, broken>>

(* The phone disconnects and the handler is dropped where it stands; or a    *)
(* write of the row fails and the handler, or expire_optional, gives up.     *)
Abandon ==
    /\ holder.at # "free" /\ holder.key # "automatic"
    /\ broken' = broken \cup {holder.req}
    /\ Release
    /\ UNCHANGED <<row, call, due, alive, turnOver, attempts, sent, acted>>

(* A read or write of the automatic path fails: it answers that it cannot    *)
(* confirm what was done.                                                    *)
Unconfirmed ==
    /\ holder.key = "automatic" /\ holder.at \in {"intend", "persist", "finish"}
    /\ holder.reply # "unconfirmed"
    /\ broken' = broken \cup {holder.req}
    /\ StepWith("apologise", "unconfirmed")
    /\ UNCHANGED <<row, call, due, alive, turnOver, attempts, sent, acted>>

(* ------------------- the deadline and the permissions -------------------- *)

ExpireClaims(r) ==
    /\ r \in due /\ row[r].state = "pending" /\ alive /\ holder = Free
    /\ Set(r, "resolving")
    /\ UNCHANGED <<call, holder, due, alive, turnOver, attempts, sent, acted, broken>>

(* expire_optional, on every tick of the dispatch loop.                      *)
Expire(r) ==
    /\ r \in due /\ row[r].state = "pending" /\ alive
    /\ holder = Free
    /\ Set(r, "resolving")
    /\ holder' = [at |-> "persist", req |-> r, key |-> "expired", reply |-> "empty"]
    /\ UNCHANGED <<call, due, alive, turnOver, attempts, sent, acted, broken>>

(* automatic_reply: claim and carry out, or answer again what was saved. A   *)
(* replay of the notification comes here a second time.                      *)
Automatic(r) ==
    /\ Attempt /\ alive
    /\ row[r].state # None
    /\ holder = Free
    /\ row[r].state = "pending" \/ Recovering(r)
    /\ row' = [row EXCEPT ![r].state = IF @ = "pending" THEN "resolving" ELSE @]
    /\ holder' = [req |-> r, key |-> "automatic",
                  at |-> IF Recovering(r) THEN "respond" ELSE "intend",
                  reply |-> IF Recovering(r) THEN row[r].saved ELSE "interrupted"]
    /\ UNCHANGED <<call, due, alive, turnOver, sent, acted, broken>>

(* The claim fails: the answer is the same, and nothing is written.          *)
Unclaimed(r) ==
    /\ Attempt /\ alive /\ row[r].state # None /\ holder = Free
    /\ holder' = [req |-> r, key |-> "automatic", at |-> "apologise", reply |-> "unconfirmed"]
    /\ broken' = broken \cup {r}
    /\ UNCHANGED <<row, call, due, alive, turnOver, sent, acted>>

(* --------------------------- beside the lock ----------------------------- *)

(* serverRequest/resolved: the runtime has its answer or no longer needs it. *)
ServerResolved(r) ==
    /\ Active(r)
    /\ row' = [row EXCEPT ![r].state = "resolved", ![r].decision = "server"]
    /\ UNCHANGED <<call, holder, due, alive, turnOver, attempts, sent, acted, broken>>

EndTurn ==
    /\ ~turnOver
    /\ turnOver' = TRUE
    /\ UNCHANGED <<row, call, holder, due, alive, attempts, sent, acted, broken>>

(* retire_completed_tool_approvals.                                          *)
Retire ==
    /\ turnOver
    /\ \E r \in Tool \cup Permitted : Active(r)
    /\ row' = [r \in Req |-> IF r \in Tool \cup Permitted /\ Active(r)
                             THEN [row[r] EXCEPT !.state = "resolved", !.decision = "turn_ended"]
                             ELSE row[r]]
    /\ UNCHANGED <<call, holder, due, alive, turnOver, attempts, sent, acted, broken>>

(* The runtime exits, alone or with the daemon, and recovery resolves what   *)
(* it asked.                                                                 *)
Exit ==
    /\ alive
    /\ alive' = FALSE
    /\ holder' \in {holder, Free}
    /\ UNCHANGED <<row, call, due, turnOver, attempts, sent, acted, broken>>

Recover ==
    /\ ~alive
    /\ \E r \in Req : Active(r)
    /\ row' = [r \in Req |-> IF Active(r)
                             THEN [row[r] EXCEPT !.state = "resolved", !.decision = "app_server_lost"]
                             ELSE row[r]]
    /\ UNCHANGED <<call, holder, due, alive, turnOver, attempts, sent, acted, broken>>

Init ==
    /\ row = [r \in Req |-> [state |-> None, key |-> None, saved |-> None, decision |-> None]]
    /\ call = [c \in Call |-> None]
    /\ holder = Free
    /\ due = {} /\ alive = TRUE /\ turnOver = FALSE /\ attempts = 0
    /\ sent = [r \in Req |-> {}]
    /\ acted = [c \in Call |-> 0]
    /\ broken = {}

(* Whoever holds the lock goes on.                                         *)
Going == \/ Refuse \/ Conflict \/ Accept \/ Intend \/ Execute \/ Act \/ Persist
         \/ Respond \/ Apologise \/ Finish

Next ==
    \/ \E r \in Req : Ask(r) \/ ServerResolved(r)
    \/ \E r \in Question : PassDeadline(r) \/ Expire(r)
    \/ \E r \in Question \cup Tool, k \in Key : Resolve(r, k)
    \/ \E r \in Permitted : Automatic(r) \/ Unclaimed(r)
    \/ Going \/ Abandon \/ Unconfirmed
    \/ EndTurn \/ Retire \/ Exit \/ Recover

(* The dispatch loop looks for passed deadlines, and whoever holds the lock  *)
(* goes on. Nobody has to answer, and nothing has to be lost.                *)
Fairness ==
    /\ \A r \in Question : WF_vars(Expire(r))
    /\ WF_vars(Going)

Spec == Init /\ [][Next]_vars
LiveSpec == Spec /\ Fairness

TypeOK ==
    /\ row \in [Req -> [state : {None, "pending", "resolving", "resolved"},
                        key : Key \cup {None, "expired", "automatic"},
                        saved : Reply \cup {None},
                        decision : Key \cup {None, "expired", "automatic", "server", "turn_ended", "app_server_lost"}]]
    /\ call \in [Call -> Req \cup {None}]
    /\ holder \in [at : {"free", "check", "intend", "execute", "act", "persist", "respond",
                         "apologise", "finish"},
                   req : Req \cup {None}, key : Key \cup {None, "expired", "automatic"},
                   reply : Reply \cup {None}]
    /\ due \subseteq Question /\ alive \in BOOLEAN /\ turnOver \in BOOLEAN
    /\ attempts \in 0..MaxAttempts
    /\ sent \in [Req -> SUBSET Reply] /\ acted \in [Call -> Nat] /\ broken \subseteq Req

(* The runtime is never given two different answers to one request, however  *)
(* often the owner's phones repeat and contradict each other, whatever the   *)
(* deadline does meanwhile and wherever a handler is dropped.                *)
OneAnswer == \A r \in Question \cup Tool : Cardinality(sent[r]) <= 1

(* The computer carries out a call once, although its request is answered    *)
(* again after a lost acknowledgement, and the runtime may ask for the same  *)
(* call in another request or replay its notification.                       *)
ActedOnce == \A c \in Call : acted[c] <= 1

(* Whoever has acted has left a response that a restart can send: there is   *)
(* no moment at which the computer was used and nothing is on record.        *)
ReceiptFirst == \A c \in Call : acted[c] > 0 =>
    \E r \in Tool \cup Permitted : CallOf[r] = c /\ row[r].saved # None

(* A request that the owner or the deadline has decided was answered with    *)
(* the response on record, and that response reached the runtime.            *)
DecidedAsSent == \A r \in Question \cup Tool :
    row[r].decision \in Key \cup {"expired"} => sent[r] = {row[r].saved}

(* A question whose deadline has passed is answered, unless the runtime is   *)
(* gone or somebody was interrupted while answering it.                      *)
DeadlineAnswers == \A r \in Question :
    (r \in due /\ row[r].state = "pending")
        ~> (row[r].state = "resolved" \/ r \in broken \/ ~alive)
=============================================================================
