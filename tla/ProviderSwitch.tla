--------------------------- MODULE ProviderSwitch ---------------------------
(* A Project thread that moves between Codex and Claude. Each message names  *)
(* the provider it is for; the move is made when the message is released,    *)
(* and the session it goes to is given, once, what happened elsewhere. The   *)
(* sessions belong to the providers and outlive every crash.                 *)
EXTENDS Naturals, Sequences, FiniteSets

CONSTANTS
    Family,         \* the providers
    First,          \* the provider of the new thread
    None,           \* no session, no entry, no message
    MaxMessages,    \* bound: messages of the owner
    MaxSessions,    \* bound: sessions started
    MaxRefusals,    \* bound: preparations that fail and turns refused
    MaxLosses,      \* bound: answers of the runtime that are lost
    MaxCrashes,     \* bound: stops of the daemon or of a runtime
    MaxFailures     \* bound: writes of the store that fail and are passed over

ASSUME FamilyAssumption == First \in Family
ASSUME SwitchAssumption == /\ MaxMessages \in Nat /\ MaxSessions \in Nat
                           /\ MaxRefusals \in Nat /\ MaxLosses \in Nat /\ MaxCrashes \in Nat
                           /\ MaxFailures \in Nat

Message == 1..MaxMessages
Session == 1..MaxSessions

VARIABLES
    message,    \* the owner's messages, numbered in the order they are sent
    thread,     \* project_conversations and runtime_bindings of the thread
    past,       \* project_runtime_history: the sessions left and not resumed
    entries,    \* the last id of project_runtime_history
    pending,    \* project_pending_handoff
    delivery,   \* project_handoff_delivery, by session
    worker,     \* who holds dispatch_lock to release a message, and how far it is
    started,    \* the provider of every session that was started
    wire,       \* turn/start requests on their way
    live,       \* the turns that run
    ran,        \* what was run in each session
    heard,      \* what each session knows of the thread
    given,      \* history: the handoffs each session was given, by entry
    unnoted,    \* history: deliveries given up with nothing noted that could tell
    dropped,    \* history: what was owed gave way to a later switch
    refusals, losses, crashes, failures

storeVars == <<message, thread, past, entries, pending, delivery>>
sessionVars == <<started, wire, live, ran, heard, given>>
notes == <<unnoted, dropped>>
bounds == <<refusals, losses, crashes, failures>>
vars == <<storeVars, worker, sessionVars, notes, bounds>>

Working == {"dispatching_to_codex", "accepted_by_codex", "streaming", "uncertain"}
Active == {"accepted_by_codex", "streaming"}

ASSUME NoneAssumption == None \notin Nat /\ None \notin Working \cup {"completed", "pending"}

Sent(m) == message[m].state # None
AllRan == UNION {ran[s] : s \in Session}
SessionOf(e) == IF e.bound # None THEN e.bound ELSE e.native
Of(f) == {e \in past : e.family = f}
Newest(E) == {e \in E : \A o \in E : o.id <= e.id}
NothingOwed == [entry |-> None, after |-> None]
Free == [at |-> "free", message |-> None, session |-> None, news |-> {}, entry |-> None]
Go(where) == worker' = [worker EXCEPT !.at = where]
Mark(m, s) == message' = [message EXCEPT ![m].state = s]
Hiccup == refusals < MaxRefusals /\ refusals' = refusals + 1
WriteFails == failures < MaxFailures /\ failures' = failures + 1

Init ==
    /\ message = [m \in Message |-> [state |-> None, family |-> First, phase |-> "closed",
                                     session |-> None]]
    /\ thread = [family |-> First, native |-> None, bound |-> None]
    /\ past = {} /\ entries = 0 /\ pending = NothingOwed
    /\ delivery = [s \in Session |-> None]
    /\ worker = Free
    /\ started = <<>> /\ wire = {} /\ live = {}
    /\ ran = [s \in Session |-> {}] /\ heard = [s \in Session |-> {}]
    /\ given = [s \in Session |-> <<>>]
    /\ unnoted = {} /\ dropped = FALSE
    /\ refusals = 0 /\ losses = 0 /\ crashes = 0 /\ failures = 0

(* ------------------------------- the owner ------------------------------- *)

(* stage_message_model and insert_dispatch_message: the provider is frozen   *)
(* with the message.                                                         *)
Send(m, f) ==
    /\ ~Sent(m) /\ \A n \in Message : n < m => Sent(n)
    /\ message' = [message EXCEPT ![m].state = "accepted_by_wonder", ![m].family = f]
    /\ UNCHANGED <<thread, past, entries, pending, delivery, worker, sessionVars, notes, bounds>>

(* retry_message *)
Retry(m) ==
    /\ message[m].state = "safe_to_retry"
    /\ Mark(m, "accepted_by_wonder")
    /\ UNCHANGED <<thread, past, entries, pending, delivery, worker, sessionVars, notes, bounds>>

(* -------------------- releasing a message, under the lock ---------------- *)

(* claim_message_for_dispatch *)
Claim(m) ==
    /\ worker = Free
    /\ message[m].state = "accepted_by_wonder"
    /\ \A n \in Message \ {m} : /\ message[n].state = "accepted_by_wonder" => m < n
                                /\ message[n].state \notin Active \cup {"dispatching_to_codex"}
    /\ message' = [message EXCEPT ![m].state = "dispatching_to_codex", ![m].phase = "claimed"]
    /\ worker' = [Free EXCEPT !.at = "transition", !.message = m]
    /\ UNCHANGED <<thread, past, entries, pending, delivery, sessionVars, notes, bounds>>

Target == message[worker.message].family

HasSession == thread.native # None \/ thread.bound # None

\* Variant: a thread without a session has nothing to move.
MovingFromSession == HasSession /\ Target # thread.family

(* The message is for the other provider.                                    *)
Moving == Target # thread.family

\* Variant: only a message whose fate is still unknown leaves doubt.
AmbiguousWhileUncertain == /\ thread.bound # None /\ pending # NothingOwed
                           /\ \E m \in Message : message[m].state = "uncertain"

(* A delivery that may or may not have reached the session.                  *)
Ambiguous == /\ thread.bound # None /\ pending # NothingOwed
             /\ delivery[thread.bound] = "pending"

\* Variant: what may have been delivered is not work.
OtherTurns == \E m \in Message \ {worker.message} : message[m].state \in Working \ {"uncertain"}

(* Work that was delivered or may have been.                                 *)
OtherWork == \E m \in Message \ {worker.message} : message[m].state \in Working

(* apply_transition: the session serves.                                     *)
KeepSession ==
    /\ worker.at = "transition"
    /\ ~Moving /\ ~Ambiguous
    /\ Go("session")
    /\ UNCHANGED <<storeVars, sessionVars, notes, bounds>>

(* provider_switch_busy: work delivered or uncertain belongs to the old      *)
(* session. The owner is told the message will be sent when it finishes.     *)
Busy ==
    /\ worker.at = "transition"
    /\ Moving \/ Ambiguous
    /\ OtherWork
    /\ Go("fail")
    /\ UNCHANGED <<storeVars, sessionVars, notes, bounds>>

EntryLeft(id) == {[id |-> id, family |-> thread.family,
                   native |-> thread.native, bound |-> thread.bound]}

\* Variant: a session that was never given what it is owed is not kept.
LeftUnlessOwed == IF HasSession /\ pending = NothingOwed THEN EntryLeft(entries + 1) ELSE {}

(* The record of the session that is left, if there is one.                  *)
Left == IF HasSession THEN EntryLeft(entries + 1) ELSE {}

(* switch_project_runtime, one transaction: what is left is recorded, what   *)
(* is resumed is taken out of the record and bound.                          *)
Switch(resumed) ==
    /\ entries' = IF HasSession THEN entries + 1 ELSE entries
    /\ past' = (past \cup Left) \ resumed
    /\ pending' = IF HasSession
                  THEN [entry |-> entries + 1,
                        after |-> IF resumed = {} THEN None ELSE (CHOOSE e \in resumed : TRUE).id]
                  ELSE pending
    /\ thread' = IF resumed = {}
                 THEN [family |-> Target, native |-> None, bound |-> None]
                 ELSE LET e == CHOOSE e \in resumed : TRUE
                      IN [family |-> Target, native |-> e.native, bound |-> e.bound]
    /\ dropped' = (dropped \/ (HasSession /\ pending # NothingOwed /\ ~Ambiguous))
    /\ Go("session")

(* The newest session the thread left with the provider, which an ambiguous  *)
(* delivery does not look for.                                               *)
Candidate == IF Ambiguous THEN {} ELSE Newest(Of(Target))
Resumable == {e \in Candidate : /\ e.native # None /\ e.bound # None
                                /\ delivery[e.bound] # "pending"}

Resume ==
    /\ worker.at = "transition"
    /\ Moving /\ ~OtherWork
    /\ Resumable # {}
    /\ Switch(Resumable)
    /\ UNCHANGED <<message, delivery, sessionVars, unnoted, bounds>>

(* A fresh session: there is none to resume, or it did not answer, or the    *)
(* delivery to the present one is ambiguous.                                 *)
Fresh ==
    /\ worker.at = "transition"
    /\ Moving \/ Ambiguous
    /\ ~OtherWork
    /\ IF Resumable = {} THEN UNCHANGED refusals ELSE Hiccup
    /\ Switch({})
    /\ UNCHANGED <<message, delivery, sessionVars, unnoted, losses, crashes, failures>>

UseBound ==
    /\ worker.at = "session" /\ thread.bound # None
    /\ worker' = [worker EXCEPT !.at = "prepare", !.session = thread.bound]
    /\ UNCHANGED <<storeVars, sessionVars, notes, bounds>>

(* thread/start: the session exists from here on.                            *)
StartSession ==
    /\ worker.at = "session" /\ thread.bound = None
    /\ Len(started) < MaxSessions
    /\ started' = Append(started, thread.family)
    /\ worker' = [worker EXCEPT !.at = "native", !.session = Len(started) + 1]
    /\ UNCHANGED <<storeVars, wire, live, ran, heard, given, notes, bounds>>

(* set_project_native_session: a thread keeps the session it has.            *)
SetNative ==
    /\ worker.at = "native"
    /\ IF thread.native \in {None, worker.session}
       THEN thread' = [thread EXCEPT !.native = worker.session] /\ Go("bind")
       ELSE thread' = thread /\ Go("fail")
    /\ UNCHANGED <<message, past, entries, pending, delivery, sessionVars, notes, bounds>>

(* bind_project_runtime *)
Bind ==
    /\ worker.at = "bind"
    /\ thread' = [thread EXCEPT !.bound = worker.session]
    /\ Go("prepare")
    /\ UNCHANGED <<message, past, entries, pending, delivery, sessionVars, notes, bounds>>

\* Variant: the session just left is not read.
CarriedBefore == {e \in past : /\ e.id # pending.entry
                               /\ pending.after = None \/ e.id > pending.after}

(* What the sessions left after an entry hold, whole sessions at a time.     *)
Carried == {e \in past : pending.after = None \/ e.id > pending.after}
News == IF pending = NothingOwed THEN {} ELSE UNION {ran[SessionOf(e)] : e \in Carried}

(* prepare reads the history, begin_dispatch_submission saves the attempt.   *)
Begin ==
    /\ worker.at = "prepare"
    /\ message' = [message EXCEPT ![worker.message].phase = "submitting",
                                  ![worker.message].session = worker.session]
    /\ worker' = [worker EXCEPT !.at = "begun", !.news = News,
                                !.entry = IF News = {} THEN None ELSE pending.entry]
    /\ UNCHANGED <<thread, past, entries, pending, delivery, sessionVars, notes, bounds>>

(* A folder, a file, the provider or the budget refuses the message, or the  *)
(* answer that names the new session does not come.                          *)
PrepareFails ==
    /\ worker.at \in {"transition", "session", "native", "prepare"}
    /\ Hiccup
    /\ Go("fail")
    /\ UNCHANGED <<storeVars, sessionVars, notes, losses, crashes, failures>>

(* set_handoff_delivery, for a message that carries a briefing. Its callers  *)
(* go on when the write fails.                                               *)
Note(mark) ==
    \/ /\ delivery' = IF worker.news = {} THEN delivery
                      ELSE [delivery EXCEPT ![worker.session] = mark]
       /\ UNCHANGED failures
    \/ worker.news # {} /\ WriteFails /\ UNCHANGED delivery

(* The delivery that is given up although it may have been made and what is  *)
(* noted of it does not say so: it will be made again.                       *)
Unnoted == IF worker.news # {} /\ delivery[worker.session] # "pending"
           THEN {<<worker.session, worker.entry>>} ELSE {}

(* delivery_started, then turn/start.                                        *)
Submit ==
    /\ worker.at = "begun"
    /\ Note("pending")
    /\ wire' = wire \cup {[message |-> worker.message, session |-> worker.session,
                           news |-> worker.news, entry |-> worker.entry]}
    /\ Go("sent")
    /\ UNCHANGED <<message, thread, past, entries, pending, started, live, ran, heard, given,
                   notes, refusals, losses, crashes>>

(* The owner's message did not reach the provider.                           *)
Fail ==
    /\ worker.at = "fail"
    /\ message' = [message EXCEPT ![worker.message].state = "safe_to_retry",
                                  ![worker.message].phase = "closed"]
    /\ worker' = Free
    /\ UNCHANGED <<thread, past, entries, pending, delivery, sessionVars, notes, bounds>>

(* delivery_refused *)
Refused ==
    /\ worker.at = "refused"
    /\ Note(None)
    /\ Go("fail")
    /\ UNCHANGED <<message, thread, past, entries, pending, sessionVars, notes,
                   refusals, losses, crashes>>

(* delivery_accepted: two writes, the second also made when the first fails. *)
Injected ==
    /\ worker.at = "accepted"
    /\ Note("injected")
    /\ Go(IF worker.news = {} THEN "answered" ELSE "injected")
    /\ UNCHANGED <<message, thread, past, entries, pending, sessionVars, notes,
                   refusals, losses, crashes>>

ClearPending ==
    /\ worker.at = "injected"
    /\ \/ pending' = NothingOwed /\ UNCHANGED <<unnoted, failures>>
       \/ WriteFails /\ unnoted' = unnoted \cup Unnoted /\ UNCHANGED pending
    /\ Go("answered")
    /\ UNCHANGED <<message, thread, past, entries, delivery, sessionVars, dropped,
                   refusals, losses, crashes>>

(* The receipt of the provider, and the lock is released.                    *)
Answered ==
    /\ worker.at = "answered"
    /\ message' = [message EXCEPT ![worker.message].state = "accepted_by_codex",
                                  ![worker.message].phase = "closed"]
    /\ worker' = Free
    /\ UNCHANGED <<thread, past, entries, pending, delivery, sessionVars, notes, bounds>>

(* A claim that was left behind: what was only claimed is released, what was *)
(* submitted is uncertain.                                                   *)
Reclaimed(m) == [message[m] EXCEPT !.state = IF message[m].phase = "claimed"
                                             THEN "accepted_by_wonder" ELSE "uncertain",
                                   !.phase = "closed"]

(* The write of the receipt or of the failure fails: the next tick recovers  *)
(* the claim (recover_direct_dispatch_claims). A chat held on the Mac leaves *)
(* its claim to the tick without a write.                                    *)
Unsaved ==
    /\ worker.at \in {"answered", "fail"}
    /\ WriteFails
    /\ message' = [message EXCEPT ![worker.message] = Reclaimed(worker.message)]
    /\ worker' = Free
    /\ UNCHANGED <<thread, past, entries, pending, delivery, sessionVars, notes,
                   refusals, losses, crashes>>

Waits(r) == worker.at = "sent" /\ worker.message = r.message

(* No answer: the request may still be on its way, or its runtime is dead.   *)
Unanswered ==
    /\ worker.at = "sent"
    /\ IF \E r \in wire : Waits(r) THEN losses < MaxLosses /\ losses' = losses + 1
       ELSE UNCHANGED losses
    /\ wire' \in {wire, {r \in wire : r.message # worker.message}}
    /\ message' = [message EXCEPT ![worker.message].state = "uncertain",
                                  ![worker.message].phase = "closed"]
    /\ unnoted' = unnoted \cup Unnoted
    /\ worker' = Free
    /\ UNCHANGED <<thread, past, entries, pending, delivery, started, live, ran, heard, given,
                   dropped, refusals, crashes, failures>>

(* ------------------------------ the providers ---------------------------- *)

(* The turn runs, with the owner's message and the briefing before it.       *)
Take(r) ==
    /\ r \in wire
    /\ wire' = wire \ {r}
    /\ live' = live \cup {r.message}
    /\ ran' = [ran EXCEPT ![r.session] = @ \cup {r.message}]
    /\ heard' = [heard EXCEPT ![r.session] = @ \cup r.news \cup {r.message}]
    /\ given' = IF r.news = {} THEN given
                ELSE [given EXCEPT ![r.session] = Append(@, r.entry)]
    /\ IF Waits(r) THEN Go("accepted") ELSE UNCHANGED worker
    /\ UNCHANGED <<storeVars, started, notes, bounds>>

(* turn_start_rejected_before_execution *)
Refuse(r) ==
    /\ r \in wire /\ Waits(r)
    /\ Hiccup
    /\ wire' = wire \ {r}
    /\ Go("refused")
    /\ UNCHANGED <<storeVars, started, live, ran, heard, given, notes, losses, crashes, failures>>

TurnEnds(m) ==
    /\ m \in live
    /\ live' = live \ {m}
    /\ UNCHANGED <<storeVars, worker, started, wire, ran, heard, given, notes, bounds>>

(* A runtime stops, and the requests and turns it had with it.               *)
RuntimeDies(f) ==
    /\ crashes < MaxCrashes /\ crashes' = crashes + 1
    /\ wire' = {r \in wire : message[r.message].family # f}
    /\ live' = {m \in live : message[m].family # f}
    /\ UNCHANGED <<storeVars, worker, started, ran, heard, given, notes,
                   refusals, losses, failures>>

(* ------------------------------- recovery -------------------------------- *)

(* recover_uncertain_receipts: the message is found in its session.          *)
ScanReceipt(m) ==
    /\ worker = Free
    /\ message[m].state = "uncertain" /\ m \in ran[message[m].session]
    /\ Mark(m, "accepted_by_codex")
    /\ UNCHANGED <<thread, past, entries, pending, delivery, worker, sessionVars, notes, bounds>>

(* The end of a turn, from its notification or from the provider's history.  *)
Settle(m) ==
    /\ worker = Free
    /\ message[m].state = "accepted_by_codex" /\ m \notin live
    /\ Mark(m, "completed")
    /\ UNCHANGED <<thread, past, entries, pending, delivery, worker, sessionVars, notes, bounds>>

(* recover: a turn that was running when its runtime stopped has no end.     *)
Unfinished(m) ==
    /\ worker = Free /\ crashes > 0
    /\ message[m].state = "accepted_by_codex" /\ m \notin live
    /\ Mark(m, "uncertain")
    /\ UNCHANGED <<thread, past, entries, pending, delivery, worker, sessionVars, notes, bounds>>

(* The daemon stops, and the providers' processes with it;                   *)
(* recover_dispatch_claims settles what was claimed.                         *)
Restart ==
    /\ crashes < MaxCrashes /\ crashes' = crashes + 1
    /\ unnoted' = IF worker.at \in {"sent", "accepted", "injected"}
                  THEN unnoted \cup Unnoted ELSE unnoted
    /\ worker' = Free /\ wire' = {} /\ live' = {}
    /\ message' = [m \in Message |-> IF message[m].state = "dispatching_to_codex"
                                     THEN Reclaimed(m) ELSE message[m]]
    /\ UNCHANGED <<thread, past, entries, pending, delivery, started, ran, heard, given,
                   dropped, refusals, losses, failures>>

-----------------------------------------------------------------------------
Owner == \E m \in Message : Retry(m) \/ \E f \in Family : Send(m, f)
Transition == KeepSession \/ Busy \/ Resume \/ Fresh
Binding == UseBound \/ StartSession \/ SetNative \/ Bind
Submission == Begin \/ Submit \/ Fail \/ Refused \/ Injected \/ ClearPending \/ Answered
Release == (\E m \in Message : Claim(m)) \/ Transition \/ Binding \/ Submission
Provider == \E r \in wire : Take(r)
Recovery == \E m \in Message : ScanReceipt(m) \/ Settle(m)
Fault == \/ PrepareFails \/ Unsaved \/ Unanswered \/ Restart
         \/ \E f \in Family : RuntimeDies(f)
         \/ \E r \in wire : Refuse(r)
         \/ \E m \in Message : Unfinished(m)

Next == Owner \/ Release \/ Provider \/ (\E m \in Message : TurnEnds(m)) \/ Recovery \/ Fault

Spec == Init /\ [][Next]_vars

-----------------------------------------------------------------------------
Entry == [id : 1..entries, family : Family,
          native : Session \cup {None}, bound : Session \cup {None}]

(* Every row, session and request is well typed.                             *)
TypeOK ==
    /\ message \in [Message -> [state : {None, "accepted_by_wonder", "safe_to_retry", "completed"}
                                        \cup Working,
                                family : Family, phase : {"closed", "claimed", "submitting"},
                                session : Session \cup {None}]]
    /\ thread \in [family : Family, native : Session \cup {None}, bound : Session \cup {None}]
    /\ past \subseteq Entry /\ entries \in Nat
    /\ pending \in [entry : (1..entries) \cup {None}, after : (1..entries) \cup {None}]
    /\ delivery \in [Session -> {None, "pending", "injected"}]
    /\ worker \in [at : {"free", "transition", "session", "native", "bind", "prepare", "begun",
                         "sent", "accepted", "refused", "injected", "answered", "fail"},
                   message : Message \cup {None}, session : Session \cup {None},
                   news : SUBSET Message, entry : (1..entries) \cup {None}]
    /\ started \in Seq(Family) /\ Len(started) <= MaxSessions
    /\ wire \subseteq [message : Message, session : Session, news : SUBSET Message,
                       entry : (1..entries) \cup {None}]
    /\ live \subseteq Message
    /\ unnoted \subseteq Session \X (1..entries) /\ dropped \in BOOLEAN
    /\ ran \in [Session -> SUBSET Message] /\ heard \in [Session -> SUBSET Message]
    /\ given \in [Session -> Seq(1..entries)]

(* Every session in which something ran is the thread's or one it left, and  *)
(* only one of the two: nothing of the thread's history is lost or shown     *)
(* twice ("The old session is kept").                                        *)
HistoryKept ==
    /\ \A s \in Session : ran[s] # {} => thread.bound = s \/ \E e \in past : SessionOf(e) = s
    /\ \A e \in past : /\ SessionOf(e) \notin {thread.bound, thread.native}
                       /\ \A o \in past : SessionOf(e) = SessionOf(o) => e = o

(* "Moving never interrupts work": what runs, or may still be taken, is in   *)
(* the thread's own session.                                                 *)
RunsInTheThread ==
    /\ \A r \in wire : r.session = thread.bound
    /\ \A s \in Session : ran[s] \cap live # {} => s = thread.bound

(* A message is run by the provider it was sent for, once.                   *)
RunAsChosen ==
    \A s \in Session : \A m \in ran[s] :
        /\ started[s] = message[m].family
        /\ \A o \in Session \ {s} : m \notin ran[o]

(* "The context reached the session; it is never sent again": a session is   *)
(* not given the same handoff twice, except a handoff whose delivery was     *)
(* given up, by a stop, a lost answer or a failed write, while neither the   *)
(* Pending mark nor the cleared record told that it may have been made.      *)
GivenOnce ==
    \A s \in Session : \A i, j \in 1..Len(given[s]) :
        given[s][i] = given[s][j] => i = j \/ <<s, given[s][i]>> \in unnoted

(* Whoever works on the thread knows all that happened in it, unless what    *)
(* was owed to a session has given way to a later switch.                    *)
KnowsAll == dropped \/ \A s \in Session : ran[s] \cap live # {} => AllRan \subseteq heard[s]
=============================================================================
