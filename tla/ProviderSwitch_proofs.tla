----------------------- MODULE ProviderSwitch_proofs -----------------------
(* Where the messages of a thread that moves between providers run, for any  *)
(* number of messages, sessions, failures and crashes.                       *)
(*                                                                           *)
(* Two facts carry it. While a session is bound to the thread, only a switch *)
(* binds another, and a switch finds nothing on its way or running but the   *)
(* message it is made for, which was not sent yet (Unsent, InFlight): so the *)
(* requests and turns there are belong to the bound session. And a session   *)
(* is in one place: the thread has it, or one entry of the record (InOrder). *)
(*                                                                           *)
(* On top of it, BriefInv follows what is owed to the bound session: as long *)
(* as a request that carries it is out, nothing changes what is carried      *)
(* (Carries, Holds), a second one is not sent (NoDoubt), and the entry it is *)
(* noted under is newer than all that was given before (GivenBefore). What   *)
(* the failed writes leave open is told apart delivery by delivery           *)
(* (Excepted): everything else is carried and given once (Once).             *)
EXTENDS ProviderSwitch, TLAPS

Stage == {"free", "transition", "session", "native", "bind", "prepare", "begun", "sent",
          "accepted", "refused", "injected", "answered", "fail"}
Starting == {"native", "bind"}
AtSession == {"prepare", "begun", "sent", "accepted", "refused", "injected", "answered"}
Submitting == AtSession \ {"prepare"}
Before == {"transition", "session", "native", "bind", "prepare", "begun", "refused", "fail"}
Idle == {None, "accepted_by_wonder", "safe_to_retry"}

States == Idle \cup Working \cup {"completed"}
Phases == {"closed", "claimed", "submitting"}

MessageRow == [state : States, family : Family, phase : Phases, session : Session \cup {None}]
Place == [family : Family, native : Session \cup {None}, bound : Session \cup {None}]
PastEntry == [id : Nat, family : Family, native : Session \cup {None}, bound : Session \cup {None}]
Request == [message : Message, session : Session, news : SUBSET Message, entry : Nat \cup {None}]
Holder == [at : Stage, message : Message \cup {None}, session : Session \cup {None},
           news : SUBSET Message, entry : Nat \cup {None}]

(* The shape of the rows.                                                    *)
RowsOK == /\ message \in [Message -> MessageRow] /\ thread \in Place
          /\ past \subseteq PastEntry /\ entries \in Nat
          /\ pending \in [entry : Nat \cup {None}, after : Nat \cup {None}]
HolderOK == /\ worker \in Holder
            /\ worker.at # "free" => worker.message \in Message
            /\ worker.at = "free" => worker.message = None
            /\ worker.at \in Starting \cup AtSession => worker.session \in Session
RuntimeOK == /\ started \in Seq(Family) /\ Len(started) <= MaxSessions
             /\ wire \subseteq Request /\ live \subseteq Message
             /\ ran \in [Session -> SUBSET Message]
Shape == RowsOK /\ HolderOK /\ RuntimeOK

(* The sessions: who has them, and of which provider they are.               *)
IsOf(s, f) == s \in 1..Len(started) /\ started[s] = f
Agree(t) == /\ t.native # None /\ t.bound # None => t.native = t.bound
            /\ t.native # None => IsOf(t.native, t.family)
            /\ t.bound # None => IsOf(t.bound, t.family)
AllAgree == /\ Agree(thread)
            /\ \A e \in past : Agree(e) /\ SessionOf(e) # None
InOrder == \A e \in past :
    /\ SessionOf(e) # thread.bound /\ SessionOf(e) # thread.native
    /\ e.id <= entries
    /\ \A o \in past : SessionOf(e) = SessionOf(o) \/ e.id = o.id => e = o
NewSession ==
    /\ worker.at \in Starting => /\ IsOf(worker.session, thread.family) /\ thread.bound = None
                                 /\ \A e \in past : SessionOf(e) # worker.session
    /\ worker.at = "bind" => thread.native = worker.session
Kept == \A s \in Session : ran[s] # {} => thread.bound = s \/ \E e \in past : SessionOf(e) = s
SessionsInv == AllAgree /\ InOrder /\ NewSession /\ Kept

(* The message that is released.                                             *)
Held ==
    /\ worker.at # "free" => message[worker.message].state = "dispatching_to_codex"
    /\ \A m \in Message : message[m].state = "dispatching_to_codex" => worker.message = m
    /\ worker.at \in Submitting => /\ message[worker.message].phase = "submitting"
                                   /\ message[worker.message].session = worker.session
    /\ worker.at \in AtSession => worker.session = thread.bound
    /\ worker.at \in AtSession \cup Starting \cup {"session"} => Target = thread.family

Unsent(m) == message[m].state \in Idle \/ (worker.message = m /\ worker.at \in Before)
Untaken == \A m \in Message : Unsent(m) =>
    /\ m \notin live /\ \A s \in Session : m \notin ran[s]
    /\ \A r \in wire : r.message # m
InFlight == \A r \in wire :
    /\ r.session = thread.bound
    /\ message[r.message].session = r.session
    /\ message[r.message].family = thread.family
    /\ message[r.message].state \in {"dispatching_to_codex", "uncertain"}
    /\ r.message = worker.message => worker.at = "sent"
    /\ \A s \in Session : r.message \notin ran[s]
    /\ \A o \in wire : o.message = r.message => o = r
Running == \A m \in live :
    /\ message[m].state \in Working
    /\ thread.bound # None /\ message[m].session = thread.bound
    /\ m \in ran[thread.bound]
TakenThere == \A s \in Session : \A m \in ran[s] :
    message[m].session = s /\ IsOf(s, message[m].family)
WorkInv == Held /\ Untaken /\ InFlight /\ Running /\ TakenThere

IInv == Shape /\ SessionsInv /\ WorkInv

-----------------------------------------------------------------------------
(* The initial state satisfies the invariant.                                *)
THEOREM InitOK == Init => IInv
<1> SUFFICES ASSUME Init PROVE IInv
    OBVIOUS
<1> USE FamilyAssumption, SwitchAssumption, NoneAssumption DEF Init, Message, Session
<1>1. Shape
    BY 
    DEF Shape, RowsOK, HolderOK, RuntimeOK, MessageRow, States, Phases, Place, Idle,
        Holder, Free,
           NothingOwed, Stage, Starting, AtSession
<1>2. SessionsInv
    BY DEF SessionsInv, AllAgree, Agree, InOrder, NewSession, Kept, Free, Starting
<1>3. Held
    <2>1. worker.at = "free"
        BY DEF Free
    <2>2. \A m \in Message : message[m].state = None
        OBVIOUS
    <2> QED
        BY <2>1, <2>2 DEF Held, Submitting, AtSession, Starting, Working
<1>4. WorkInv
    BY <1>3 DEF WorkInv, Untaken, InFlight, Running, TakenThere
<1> QED
    BY <1>1, <1>2, <1>4 DEF IInv

(* What a switch leaves, keeps and binds: the session it resumes, if any, is *)
(* the only one it takes out of the record.                                  *)
LEMMA NewestOne ==
    ASSUME RowsOK, InOrder, NEW f, NEW e \in Newest(Of(f)), NEW o \in Newest(Of(f))
    PROVE  e = o /\ e \in past /\ e.family = f
<1>1. e \in past /\ o \in past /\ e.family = f /\ e.id <= o.id /\ o.id <= e.id
    BY DEF Newest, Of
<1>2. e.id \in Nat /\ o.id \in Nat
    BY <1>1 DEF RowsOK, PastEntry
<1> QED
    BY <1>1, <1>2 DEF InOrder

(* The session that is resumed is one entry of the record, bound and native. *)
LEMMA ResumableOne ==
    ASSUME RowsOK, InOrder, Resumable # {}
    PROVE  \E e \in past : /\ Resumable = {e} /\ e.family = Target
                           /\ e.native # None /\ e.bound # None
<1>1. PICK e \in Resumable : TRUE
    OBVIOUS
<1>2. Resumable \subseteq Newest(Of(Target))
    BY DEF Resumable, Candidate
<1>3. Resumable = {e} /\ e \in past /\ e.family = Target
    BY <1>1, <1>2, NewestOne
<1> QED
    BY <1>1, <1>3 DEF Resumable

(* A message's row stays a row, whatever an action writes in it.             *)
LEMMA StateWritten ==
    ASSUME RowsOK, NEW m \in Message, NEW s \in States
    PROVE  [message EXCEPT ![m].state = s] \in [Message -> MessageRow]
    BY DEF RowsOK, MessageRow, States

(* A state and a phase (claim_message_for_dispatch, update_message_delivery). *)
LEMMA StateAndPhaseWritten ==
    ASSUME RowsOK, NEW m \in Message, NEW s \in States, NEW p \in Phases
    PROVE  [message EXCEPT ![m].state = s, ![m].phase = p] \in [Message -> MessageRow]
<1>1. message[m] \in MessageRow
    BY DEF RowsOK
<1>2. [message[m] EXCEPT !.state = s] \in MessageRow
    BY <1>1 DEF MessageRow
<1>3. [[message[m] EXCEPT !.state = s] EXCEPT !.phase = p] \in MessageRow
    BY <1>2 DEF MessageRow
<1> QED
    BY <1>3 DEF RowsOK

(* A phase and a session (begin_dispatch_submission_with_context).           *)
LEMMA SubmissionWritten ==
    ASSUME RowsOK, NEW m \in Message, NEW p \in Phases, NEW t \in Session
    PROVE  [message EXCEPT ![m].phase = p, ![m].session = t] \in [Message -> MessageRow]
<1>1. message[m] \in MessageRow
    BY DEF RowsOK
<1>2. [message[m] EXCEPT !.phase = p] \in MessageRow
    BY <1>1 DEF MessageRow
<1>3. [[message[m] EXCEPT !.phase = p] EXCEPT !.session = t] \in MessageRow
    BY <1>2 DEF MessageRow
<1> QED
    BY <1>3 DEF RowsOK

(* A state and a provider (stage_message_model).                             *)
LEMMA NewMessageWritten ==
    ASSUME RowsOK, NEW m \in Message, NEW s \in States, NEW f \in Family
    PROVE  [message EXCEPT ![m].state = s, ![m].family = f] \in [Message -> MessageRow]
    BY DEF RowsOK, MessageRow, States

(* What is read for a briefing are messages.                                 *)
LEMMA NewsAreMessages == ASSUME Shape, AllAgree PROVE News \subseteq Message
<1>1. \A e \in past : SessionOf(e) \in Session
    BY DEF Shape, RowsOK, PastEntry, AllAgree, SessionOf
<1>2. \A e \in Carried : ran[SessionOf(e)] \subseteq Message
    BY <1>1 DEF Shape, RuntimeOK, Carried
<1> QED
    BY <1>2 DEF News

(* The released message names a provider.                                    *)
LEMMA TargetFamily == ASSUME Shape, worker.message \in Message PROVE Target \in Family
    BY DEF Shape, RowsOK, HolderOK, Holder, MessageRow, Target

(* What a switch records is an entry.                                        *)
LEMMA LeftEntry ==
    ASSUME Shape
    PROVE  /\ Left \subseteq PastEntry
           /\ entries + 1 \in Nat
<1>1. entries + 1 \in Nat
    BY DEF Shape, RowsOK
<1> QED
    BY <1>1 DEF Shape, RowsOK, Left, EntryLeft, Place, PastEntry

(* What a switch resumes is an entry.                                        *)
LEMMA ResumedPlace ==
    ASSUME Shape, Resumable # {}
    PROVE  (CHOOSE e \in Resumable : TRUE) \in PastEntry
<1>1. Resumable \subseteq past
    BY DEF Resumable, Candidate, Newest, Of
<1> QED
    BY <1>1 DEF Shape, RowsOK

(* Reclaimed, by a restart or by the next tick.                              *)
LEMMA RestartedRow ==
    ASSUME NEW m \in Message, message[m] \in MessageRow, NEW s \in {"accepted_by_wonder", "uncertain"}
    PROVE  [message[m] EXCEPT !.state = s, !.phase = "closed"] \in MessageRow
<1>1. s \in States /\ "closed" \in Phases
    BY DEF States, Idle, Working, Phases
<1>2. [message[m] EXCEPT !.state = s] \in MessageRow
    BY <1>1 DEF MessageRow
<1> QED
    BY <1>1, <1>2 DEF MessageRow

(* Every step keeps the shape of the rows.                                   *)
LEMMA ShapeStep ==
    ASSUME Shape, SessionsInv, [Next]_vars
    PROVE  Shape'
<1>1. ASSUME NEW m \in Message, NEW f \in Family, Send(m, f) PROVE Shape'
    <2>1. RowsOK'
        <3>1. "accepted_by_wonder" \in States /\ Phases = {"closed", "claimed", "submitting"}
            BY DEF States, Idle, Working, Phases
        <3>2. [message EXCEPT ![m].state = "accepted_by_wonder", ![m].family = f]
              \in [Message -> MessageRow]
            BY <3>1, NewMessageWritten DEF Shape
        <3> QED
            BY <1>1, <3>2 DEF Shape, RowsOK, Send, Mark, storeVars
    <2>2. HolderOK'
        BY <1>1 DEF Shape, HolderOK, Send
    <2>3. RuntimeOK'
        BY <1>1 DEF Shape, RuntimeOK, Send, sessionVars
    <2> QED
        BY <2>1, <2>2, <2>3 DEF Shape
<1>2. ASSUME NEW m \in Message, Retry(m) PROVE Shape'
    <2>1. RowsOK'
        <3>1. "accepted_by_wonder" \in States /\ Phases = {"closed", "claimed", "submitting"}
            BY DEF States, Idle, Working, Phases
        <3>2. [message EXCEPT ![m].state = "accepted_by_wonder"]
              \in [Message -> MessageRow]
            BY <3>1, StateWritten DEF Shape
        <3> QED
            BY <1>2, <3>2 DEF Shape, RowsOK, Retry, Mark, storeVars
    <2>2. HolderOK'
        BY <1>2 DEF Shape, HolderOK, Retry
    <2>3. RuntimeOK'
        BY <1>2 DEF Shape, RuntimeOK, Retry, sessionVars
    <2> QED
        BY <2>1, <2>2, <2>3 DEF Shape
<1>3. ASSUME NEW m \in Message, Claim(m) PROVE Shape'
    <2>1. RowsOK'
        <3>1. "dispatching_to_codex" \in States /\ Phases = {"closed", "claimed", "submitting"}
            BY DEF States, Idle, Working, Phases
        <3>2. [message EXCEPT ![m].state = "dispatching_to_codex", ![m].phase = "claimed"]
              \in [Message -> MessageRow]
            BY <3>1, StateAndPhaseWritten DEF Shape
        <3> QED
            BY <1>3, <3>2 DEF Shape, RowsOK, Claim, Mark, storeVars
    <2>2. HolderOK'
        BY <1>3 DEF Shape, HolderOK, Holder, Stage, Starting, AtSession, Claim, Free
    <2>3. RuntimeOK'
        BY <1>3 DEF Shape, RuntimeOK, Claim, sessionVars
    <2> QED
        BY <2>1, <2>2, <2>3 DEF Shape
<1>4. CASE KeepSession
    BY <1>4
    DEF Shape, RowsOK, HolderOK, Holder, Stage, Starting, AtSession, RuntimeOK,
        KeepSession, Go, storeVars, sessionVars
<1>5. CASE Busy
    BY <1>5
    DEF Shape, RowsOK, HolderOK, Holder, Stage, Starting, AtSession, RuntimeOK, Busy,
        Go, storeVars, sessionVars
<1>6. CASE Resume
    <2>1. Target \in Family
        BY <1>6, TargetFamily DEF Shape, HolderOK, Resume
    <2>2. thread' \in Place
        BY <1>6, <2>1, ResumedPlace DEF Resume, Switch, Place, PastEntry
    <2>3. pending' \in [entry : Nat \cup {None}, after : Nat \cup {None}]
        BY <1>6, LeftEntry, ResumedPlace DEF Shape, RowsOK, Resume, Switch, PastEntry
    <2>4. RowsOK'
        BY <1>6, <2>2, <2>3, LeftEntry DEF Shape, RowsOK, Resume, Switch
    <2>5. HolderOK'
        BY <1>6
        DEF Shape, HolderOK, Holder, Stage, Starting, AtSession, Resume, Switch, Go
    <2>6. RuntimeOK'
        BY <1>6 DEF Shape, RuntimeOK, Resume, sessionVars
    <2> QED
        BY <2>4, <2>5, <2>6 DEF Shape
<1>7. CASE Fresh
    <2>1. Target \in Family
        BY <1>7, TargetFamily DEF Shape, HolderOK, Fresh
    <2>2. thread' \in Place
        BY <1>7, <2>1 DEF Fresh, Switch, Place, PastEntry
    <2>3. pending' \in [entry : Nat \cup {None}, after : Nat \cup {None}]
        BY <1>7, LeftEntry DEF Shape, RowsOK, Fresh, Switch, PastEntry
    <2>4. RowsOK'
        BY <1>7, <2>2, <2>3, LeftEntry DEF Shape, RowsOK, Fresh, Switch
    <2>5. HolderOK'
        BY <1>7
        DEF Shape, HolderOK, Holder, Stage, Starting, AtSession, Fresh, Switch, Go
    <2>6. RuntimeOK'
        BY <1>7 DEF Shape, RuntimeOK, Fresh, sessionVars
    <2> QED
        BY <2>4, <2>5, <2>6 DEF Shape
<1>8. CASE UseBound
    <2>1. RowsOK' /\ RuntimeOK'
        BY <1>8 DEF Shape, RowsOK, RuntimeOK, UseBound, storeVars, sessionVars
    <2>2. HolderOK'
        BY <1>8
        DEF Shape, RowsOK, Place, HolderOK, Holder, Stage, Starting, AtSession,
            UseBound
    <2> QED
        BY <2>1, <2>2 DEF Shape
<1>9. CASE StartSession
    <2>1. RowsOK'
        BY <1>9 DEF Shape, RowsOK, StartSession, storeVars
    <2>2. Len(started) + 1 \in Session /\ started' \in Seq(Family) /\ Len(started') = Len(started) + 1
        BY <1>9, SwitchAssumption
        DEF Shape, RowsOK, Place, RuntimeOK, StartSession, Session
    <2>3. HolderOK'
        BY <1>9, <2>2
        DEF Shape, HolderOK, Holder, Stage, Starting, AtSession, StartSession
    <2>4. RuntimeOK'
        BY <1>9, <2>2, SwitchAssumption DEF Shape, RuntimeOK, StartSession
    <2> QED
        BY <2>1, <2>3, <2>4 DEF Shape
<1>10. CASE SetNative
    BY <1>10
    DEF Shape, RowsOK, HolderOK, Holder, Stage, Starting, AtSession, RuntimeOK,
        SetNative, Go, storeVars, sessionVars, Place
<1>11. CASE Bind
    BY <1>11
    DEF Shape, RowsOK, HolderOK, Holder, Stage, Starting, AtSession, RuntimeOK, Bind,
        Go, storeVars, sessionVars, Place
<1>12. CASE Begin
    <2>0. worker.message \in Message /\ worker.session \in Session
        BY <1>12 DEF Shape, HolderOK, AtSession, Begin
    <2>1. RowsOK'
        <3>1. [message EXCEPT ![worker.message].phase = "submitting",
                              ![worker.message].session = worker.session]
              \in [Message -> MessageRow]
            BY <2>0, SubmissionWritten, "submitting" \in Phases DEF Shape, Phases
        <3> QED
            BY <1>12, <3>1 DEF Shape, RowsOK, Begin
    <2>2. HolderOK'
        BY <1>12, <2>0, NewsAreMessages
        DEF Shape, SessionsInv, RowsOK, HolderOK, Holder, Stage, Starting, AtSession,
            Begin
    <2>3. RuntimeOK'
        BY <1>12 DEF Shape, RuntimeOK, Begin, sessionVars
    <2> QED
        BY <2>1, <2>2, <2>3 DEF Shape
<1>13. CASE Submit
    <2>1. RowsOK'
        BY <1>13 DEF Shape, RowsOK, Submit
    <2>2. HolderOK'
        BY <1>13 DEF Shape, HolderOK, Holder, Stage, Starting, AtSession, Submit, Go
    <2>3. RuntimeOK'
        BY <1>13
        DEF Shape, RuntimeOK, HolderOK, Holder, Stage, Starting, AtSession, Submit,
            Request
    <2> QED
        BY <2>1, <2>2, <2>3 DEF Shape
<1>14. CASE Fail
    <2>0. worker.message \in Message
        BY <1>14 DEF Shape, HolderOK, Fail
    <2>1. RowsOK'
        <3>1. "safe_to_retry" \in States /\ Phases = {"closed", "claimed", "submitting"}
            BY DEF States, Idle, Working, Phases
        <3>2. [message EXCEPT ![worker.message].state = "safe_to_retry",
                              ![worker.message].phase = "closed"]
              \in [Message -> MessageRow]
            BY <3>1, <2>0, StateAndPhaseWritten DEF Shape
        <3> QED
            BY <1>14, <3>2 DEF Shape, RowsOK, Fail, Mark, storeVars
    <2>2. HolderOK'
        BY <1>14 DEF Shape, HolderOK, Holder, Stage, Starting, AtSession, Fail, Free
    <2>3. RuntimeOK'
        BY <1>14 DEF Shape, RuntimeOK, Fail, sessionVars
    <2> QED
        BY <2>1, <2>2, <2>3 DEF Shape
<1>15. CASE Refused
    BY <1>15
    DEF Shape, RowsOK, HolderOK, Holder, Stage, Starting, AtSession, RuntimeOK,
        Refused, Go, storeVars, sessionVars
<1>16. CASE Injected
    BY <1>16
    DEF Shape, RowsOK, HolderOK, Holder, Stage, Starting, AtSession, RuntimeOK,
        Injected, Go, storeVars, sessionVars
<1>17. CASE ClearPending
    BY <1>17
    DEF Shape, RowsOK, HolderOK, Holder, Stage, Starting, AtSession, RuntimeOK,
        ClearPending, Go, storeVars, sessionVars, NothingOwed
<1>18. CASE Answered
    <2>0. worker.message \in Message
        BY <1>18 DEF Shape, HolderOK, Answered
    <2>1. RowsOK'
        <3>1. "accepted_by_codex" \in States /\ Phases = {"closed", "claimed", "submitting"}
            BY DEF States, Idle, Working, Phases
        <3>2. [message EXCEPT ![worker.message].state = "accepted_by_codex",
                              ![worker.message].phase = "closed"]
              \in [Message -> MessageRow]
            BY <3>1, <2>0, StateAndPhaseWritten DEF Shape
        <3> QED
            BY <1>18, <3>2 DEF Shape, RowsOK, Answered, Mark, storeVars
    <2>2. HolderOK'
        BY <1>18 DEF Shape, HolderOK, Holder, Stage, Starting, AtSession, Answered, Free
    <2>3. RuntimeOK'
        BY <1>18 DEF Shape, RuntimeOK, Answered, sessionVars
    <2> QED
        BY <2>1, <2>2, <2>3 DEF Shape
<1>19. ASSUME NEW r \in wire, Take(r) PROVE Shape'
    <2>0. r.message \in Message /\ r.session \in Session
        BY DEF Shape, RuntimeOK, Request
    <2>1. RowsOK'
        BY <1>19 DEF Shape, RowsOK, Take, storeVars
    <2>2. HolderOK'
        BY <1>19
        DEF Shape, HolderOK, Holder, Stage, Starting, AtSession, Take, Waits, Go
    <2>3. RuntimeOK'
        BY <1>19, <2>0 DEF Shape, RuntimeOK, Take
    <2> QED
        BY <2>1, <2>2, <2>3 DEF Shape
<1>20. ASSUME NEW m \in Message, TurnEnds(m) PROVE Shape'
    BY <1>20 DEF Shape, RowsOK, HolderOK, RuntimeOK, TurnEnds, storeVars, sessionVars
<1>21. ASSUME NEW m \in Message, ScanReceipt(m) PROVE Shape'
    <2>1. RowsOK'
        <3>1. "accepted_by_codex" \in States /\ Phases = {"closed", "claimed", "submitting"}
            BY DEF States, Idle, Working, Phases
        <3>2. [message EXCEPT ![m].state = "accepted_by_codex"]
              \in [Message -> MessageRow]
            BY <3>1, StateWritten DEF Shape
        <3> QED
            BY <1>21, <3>2 DEF Shape, RowsOK, ScanReceipt, Mark, storeVars
    <2>2. HolderOK'
        BY <1>21 DEF Shape, HolderOK, ScanReceipt
    <2>3. RuntimeOK'
        BY <1>21 DEF Shape, RuntimeOK, ScanReceipt, sessionVars
    <2> QED
        BY <2>1, <2>2, <2>3 DEF Shape
<1>22. ASSUME NEW m \in Message, Settle(m) PROVE Shape'
    <2>1. RowsOK'
        <3>1. "completed" \in States /\ Phases = {"closed", "claimed", "submitting"}
            BY DEF States, Idle, Working, Phases
        <3>2. [message EXCEPT ![m].state = "completed"]
              \in [Message -> MessageRow]
            BY <3>1, StateWritten DEF Shape
        <3> QED
            BY <1>22, <3>2 DEF Shape, RowsOK, Settle, Mark, storeVars
    <2>2. HolderOK'
        BY <1>22 DEF Shape, HolderOK, Settle
    <2>3. RuntimeOK'
        BY <1>22 DEF Shape, RuntimeOK, Settle, sessionVars
    <2> QED
        BY <2>1, <2>2, <2>3 DEF Shape
<1>23. ASSUME NEW m \in Message, Unfinished(m) PROVE Shape'
    <2>1. RowsOK'
        <3>1. "uncertain" \in States /\ Phases = {"closed", "claimed", "submitting"}
            BY DEF States, Idle, Working, Phases
        <3>2. [message EXCEPT ![m].state = "uncertain"]
              \in [Message -> MessageRow]
            BY <3>1, StateWritten DEF Shape
        <3> QED
            BY <1>23, <3>2 DEF Shape, RowsOK, Unfinished, Mark, storeVars
    <2>2. HolderOK'
        BY <1>23 DEF Shape, HolderOK, Unfinished
    <2>3. RuntimeOK'
        BY <1>23 DEF Shape, RuntimeOK, Unfinished, sessionVars
    <2> QED
        BY <2>1, <2>2, <2>3 DEF Shape
<1>24. CASE PrepareFails
    BY <1>24
    DEF Shape, RowsOK, HolderOK, Holder, Stage, Starting, AtSession, RuntimeOK,
        PrepareFails, Go, storeVars, sessionVars
<1>25. CASE Unanswered
    <2>0. worker.message \in Message
        BY <1>25 DEF Shape, HolderOK, Unanswered
    <2>1. RowsOK'
        <3>1. "uncertain" \in States /\ Phases = {"closed", "claimed", "submitting"}
            BY DEF States, Idle, Working, Phases
        <3>2. [message EXCEPT ![worker.message].state = "uncertain",
                              ![worker.message].phase = "closed"]
              \in [Message -> MessageRow]
            BY <3>1, <2>0, StateAndPhaseWritten DEF Shape
        <3> QED
            BY <1>25, <3>2 DEF Shape, RowsOK, Unanswered, Mark, storeVars
    <2>2. HolderOK'
        BY <1>25
        DEF Shape, HolderOK, Holder, Stage, Starting, AtSession, Unanswered, Free
    <2>3. RuntimeOK'
        BY <1>25 DEF Shape, RuntimeOK, Unanswered, sessionVars
    <2> QED
        BY <2>1, <2>2, <2>3 DEF Shape
<1>26. CASE Restart
    <2>1. RowsOK'
        <3> SUFFICES ASSUME NEW m \in Message PROVE message'[m] \in MessageRow
            BY <1>26 DEF Shape, RowsOK, Restart
        <3>1. message[m] \in MessageRow
            BY DEF Shape, RowsOK
        <3> QED
            BY <1>26, <3>1, RestartedRow DEF Restart, Reclaimed
    <2>2. HolderOK'
        BY <1>26 DEF HolderOK, Holder, Stage, Starting, AtSession, Restart, Free
    <2>3. RuntimeOK'
        BY <1>26 DEF Shape, RuntimeOK, Restart
    <2> QED
        BY <2>1, <2>2, <2>3 DEF Shape
<1>27. ASSUME NEW r \in wire, Refuse(r) PROVE Shape'
    <2>0. r.message \in Message /\ r.session \in Session
        BY DEF Shape, RuntimeOK, Request
    <2>1. RowsOK'
        BY <1>27 DEF Shape, RowsOK, Refuse, storeVars
    <2>2. HolderOK'
        BY <1>27
        DEF Shape, HolderOK, Holder, Stage, Starting, AtSession, Refuse, Waits, Go
    <2>3. RuntimeOK'
        BY <1>27, <2>0 DEF Shape, RuntimeOK, Refuse
    <2> QED
        BY <2>1, <2>2, <2>3 DEF Shape
<1>28. CASE UNCHANGED vars
    BY <1>28 DEF Shape, RowsOK, HolderOK, RuntimeOK, vars, storeVars, sessionVars
<1>29. CASE Unsaved
    <2>0. worker.message \in Message
        BY <1>29 DEF Shape, HolderOK, Unsaved
    <2>1. RowsOK'
        <3>1. Reclaimed(worker.message) \in MessageRow
            BY <2>0, RestartedRow DEF Shape, RowsOK, Reclaimed
        <3> QED
            BY <1>29, <3>1 DEF Shape, RowsOK, Unsaved
    <2>2. HolderOK'
        BY <1>29 DEF Shape, HolderOK, Holder, Stage, Starting, AtSession, Unsaved, Free
    <2>3. RuntimeOK'
        BY <1>29 DEF Shape, RuntimeOK, Unsaved, sessionVars
    <2> QED
        BY <2>1, <2>2, <2>3 DEF Shape
<1>30. ASSUME NEW f \in Family, RuntimeDies(f) PROVE Shape'
    BY <1>30 DEF Shape, RowsOK, HolderOK, RuntimeOK, RuntimeDies, storeVars
<1> QED
    BY <1>1, <1>2, <1>3, <1>4, <1>5, <1>6, <1>7, <1>8, <1>9, <1>10, <1>11, <1>12,
       <1>13, <1>14,
       <1>15, <1>16, <1>17, <1>18, <1>19, <1>20, <1>21, <1>22, <1>23, <1>24, <1>25, <1>26, <1>27, <1>28,
       <1>29, <1>30
       DEF Next, Owner, Release, Transition, Binding, Submission, Provider, Recovery, Fault

(* A session is never the absence of one.                                    *)
LEMMA NoSessionIsNone == \A s \in Session : s # None
    BY NoneAssumption, SwitchAssumption DEF Session

(* Nothing changes for the sessions while they are neither started, bound    *)
(* nor left.                                                                 *)
LEMMA SessionsSame ==
    ASSUME SessionsInv, UNCHANGED <<thread, past, entries, started, ran>>,
           worker'.at \notin Starting \/ UNCHANGED <<worker.at, worker.session>>
    PROVE  SessionsInv'
<1>1. AllAgree' /\ InOrder' /\ Kept'
    BY DEF SessionsInv, AllAgree, Agree, InOrder, Kept, IsOf, SessionOf
<1>2. NewSession'
    BY DEF SessionsInv, NewSession, IsOf, SessionOf, Starting
<1> QED
    BY <1>1, <1>2 DEF SessionsInv

(* The session that is left, as an entry: it is that of the thread.          *)
LEMMA LeftIsThread ==
    ASSUME Shape, SessionsInv, NEW e \in Left
    PROVE  /\ HasSession /\ e.id = entries + 1 /\ Agree(e) /\ SessionOf(e) # None
           /\ SessionOf(e) \in {thread.bound, thread.native}
           /\ thread.bound # None => SessionOf(e) = thread.bound
           /\ e \notin past
           /\ \A o \in past : SessionOf(o) # SessionOf(e) /\ o.id < e.id
           /\ \A o \in Left : o = e
<1>1. /\ HasSession
      /\ e = [id |-> entries + 1, family |-> thread.family,
               native |-> thread.native, bound |-> thread.bound]
      /\ \A o \in Left : o = e
    BY DEF Left, EntryLeft
<1>2. /\ Agree(e) /\ SessionOf(e) # None
      /\ SessionOf(e) \in {thread.bound, thread.native}
      /\ thread.bound # None => SessionOf(e) = thread.bound
    BY <1>1 DEF HasSession, SessionOf, Agree, SessionsInv, AllAgree
<1>3. \A o \in past : SessionOf(o) # SessionOf(e) /\ o.id < e.id
    BY <1>1, <1>2 DEF SessionsInv, InOrder, Shape, RowsOK, PastEntry
<1> QED
    BY <1>1, <1>2, <1>3

(* switch_project_runtime to a fresh session.                                *)
LEMMA FreshKeepsSessions ==
    ASSUME Shape, SessionsInv,
           thread' = [family |-> Target, native |-> None, bound |-> None],
           past' = past \cup Left,
           entries' = IF HasSession THEN entries + 1 ELSE entries,
           UNCHANGED <<started, ran>>, worker'.at = "session"
    PROVE  SessionsInv'
<1>1. AllAgree'
    BY LeftIsThread DEF SessionsInv, AllAgree, Agree, IsOf, SessionOf
<1>2. InOrder'
    <2> SUFFICES ASSUME NEW e \in past', NEW o \in past'
                 PROVE  /\ SessionOf(e) # None /\ e.id <= entries'
                        /\ SessionOf(e) = SessionOf(o) \/ e.id = o.id => e = o
        BY DEF InOrder, SessionOf
    <2>1. entries \in Nat /\ \A x \in past : x.id \in Nat /\ x.id <= entries /\ SessionOf(x) # None
        BY DEF Shape, RowsOK, PastEntry, SessionsInv, AllAgree, InOrder
    <2>2. SessionOf(e) # None /\ e.id <= entries'
        BY <2>1, LeftIsThread
    <2>3. CASE e \in past /\ o \in past
        BY <2>2, <2>3 DEF SessionsInv, InOrder
    <2>4. CASE e \in Left \/ o \in Left
        BY <2>1, <2>2, <2>4, LeftIsThread
    <2> QED
        BY <2>3, <2>4
<1>3. NewSession'
    BY DEF NewSession, Starting
<1>4. Kept'
    <2> SUFFICES ASSUME NEW s \in Session, ran[s] # {}
                 PROVE  \E e \in past' : SessionOf(e) = s
        BY DEF Kept, SessionOf
    <2>1. CASE thread.bound = s
        <3>1. thread.bound # None
            BY <2>1, NoSessionIsNone
        <3>2. Left # {}
            BY <3>1 DEF HasSession, Left, EntryLeft
        <3> QED
            BY <2>1, <3>1, <3>2, LeftIsThread
    <2>2. CASE thread.bound # s
        BY <2>2 DEF SessionsInv, Kept
    <2> QED
        BY <2>1, <2>2
<1> QED
    BY <1>1, <1>2, <1>3, <1>4 DEF SessionsInv

(* switch_project_runtime to a session the thread has left.                  *)
LEMMA SwitchKeepsSessions ==
    ASSUME Shape, SessionsInv, NEW e \in past, e.bound # None,
           thread' = [family |-> e.family, native |-> e.native, bound |-> e.bound],
           past' = (past \cup Left) \ {e},
           entries' = IF HasSession THEN entries + 1 ELSE entries,
           UNCHANGED <<started, ran>>, worker'.at = "session"
    PROVE  SessionsInv'
<1>0. Agree(e) /\ SessionOf(e) = e.bound /\ e.native \in {None, e.bound}
    BY DEF SessionsInv, AllAgree, Agree, SessionOf
<1>1. AllAgree'
    BY <1>0, LeftIsThread DEF SessionsInv, AllAgree, Agree, IsOf, SessionOf
<1>2. InOrder'
    <2>1. entries \in Nat /\ \A x \in past : x.id \in Nat /\ x.id <= entries /\ SessionOf(x) # None
        BY DEF Shape, RowsOK, PastEntry, SessionsInv, AllAgree, InOrder
    <2> SUFFICES ASSUME NEW x \in past', NEW y \in past'
                 PROVE  /\ SessionOf(x) # e.bound /\ SessionOf(x) # None /\ x.id <= entries'
                        /\ SessionOf(x) = SessionOf(y) \/ x.id = y.id => x = y
        BY <1>0 DEF InOrder, SessionOf
    <2>2. SessionOf(x) # None /\ x.id <= entries'
        BY <2>1, LeftIsThread
    <2>3. SessionOf(x) # e.bound
        BY <1>0, LeftIsThread DEF SessionsInv, InOrder
    <2>4. CASE x \in past /\ y \in past
        BY <2>2, <2>3, <2>4 DEF SessionsInv, InOrder
    <2>5. CASE x \in Left \/ y \in Left
        BY <2>1, <2>2, <2>3, <2>5, LeftIsThread
    <2> QED
        BY <2>4, <2>5
<1>3. NewSession'
    BY DEF NewSession, Starting
<1>4. Kept'
    <2> SUFFICES ASSUME NEW s \in Session, ran[s] # {}, s # e.bound
                 PROVE  \E x \in past' : SessionOf(x) = s
        BY DEF Kept, SessionOf
    <2>1. CASE thread.bound = s
        <3>1. thread.bound # None
            BY <2>1, NoSessionIsNone
        <3>2. Left # {}
            BY <3>1 DEF HasSession, Left, EntryLeft
        <3> QED
            BY <2>1, <3>1, <3>2, LeftIsThread
    <2>2. CASE thread.bound # s
        BY <1>0, <2>2 DEF SessionsInv, Kept
    <2> QED
        BY <2>1, <2>2
<1> QED
    BY <1>1, <1>2, <1>3, <1>4 DEF SessionsInv

(* Every step keeps a session in one place, of one provider.                 *)
LEMMA SessionsStep ==
    ASSUME Shape, SessionsInv, WorkInv, [Next]_vars
    PROVE  SessionsInv'
<1>1. ASSUME NEW m \in Message, NEW f \in Family, Send(m, f) PROVE SessionsInv'
    <2>1. /\ UNCHANGED <<thread, past, entries, started, ran>>
          /\ worker'.at \notin Starting \/ UNCHANGED <<worker.at, worker.session>>
        BY <1>1
        DEF Send, Shape, HolderOK, Holder, Starting, Go, Free, storeVars, sessionVars
    <2> QED
        BY <2>1, SessionsSame
<1>2. ASSUME NEW m \in Message, Retry(m) PROVE SessionsInv'
    <2>1. /\ UNCHANGED <<thread, past, entries, started, ran>>
          /\ worker'.at \notin Starting \/ UNCHANGED <<worker.at, worker.session>>
        BY <1>2
        DEF Retry, Shape, HolderOK, Holder, Starting, Go, Free, storeVars, sessionVars
    <2> QED
        BY <2>1, SessionsSame
<1>3. ASSUME NEW m \in Message, Claim(m) PROVE SessionsInv'
    <2>1. /\ UNCHANGED <<thread, past, entries, started, ran>>
          /\ worker'.at \notin Starting \/ UNCHANGED <<worker.at, worker.session>>
        BY <1>3
        DEF Claim, Shape, HolderOK, Holder, Starting, Go, Free, storeVars, sessionVars
    <2> QED
        BY <2>1, SessionsSame
<1>4. CASE KeepSession
    <2>1. /\ UNCHANGED <<thread, past, entries, started, ran>>
          /\ worker'.at \notin Starting \/ UNCHANGED <<worker.at, worker.session>>
        BY <1>4
        DEF KeepSession, Shape, HolderOK, Holder, Starting, Go, Free, storeVars,
            sessionVars
    <2> QED
        BY <2>1, SessionsSame
<1>5. CASE Busy
    <2>1. /\ UNCHANGED <<thread, past, entries, started, ran>>
          /\ worker'.at \notin Starting \/ UNCHANGED <<worker.at, worker.session>>
        BY <1>5
        DEF Busy, Shape, HolderOK, Holder, Starting, Go, Free, storeVars, sessionVars
    <2> QED
        BY <2>1, SessionsSame
<1>6. CASE Resume
    <2>1. PICK e \in past : /\ Resumable = {e} /\ e.family = Target
                          /\ e.native # None /\ e.bound # None
        BY <1>6, ResumableOne DEF Shape, SessionsInv, Resume
    <2>2. (CHOOSE o \in Resumable : TRUE) = e
        BY <2>1
    <2>3. /\ thread' = [family |-> e.family, native |-> e.native, bound |-> e.bound]
          /\ past' = (past \cup Left) \ {e}
          /\ entries' = IF HasSession THEN entries + 1 ELSE entries
          /\ UNCHANGED <<started, ran>> /\ worker'.at = "session"
        BY <1>6, <2>1, <2>2 DEF Shape, HolderOK, Holder, Resume, Switch, Go, sessionVars
    <2> QED
        BY <2>1, <2>3, SwitchKeepsSessions
<1>7. CASE Fresh
    <2>1. /\ thread' = [family |-> Target, native |-> None, bound |-> None]
          /\ past' = past \cup Left
          /\ entries' = IF HasSession THEN entries + 1 ELSE entries
          /\ UNCHANGED <<started, ran>> /\ worker'.at = "session"
        BY <1>7 DEF Shape, HolderOK, Holder, Fresh, Switch, Go, sessionVars
    <2> QED
        BY <2>1, FreshKeepsSessions
<1>8. CASE UseBound
    <2>1. /\ UNCHANGED <<thread, past, entries, started, ran>>
          /\ worker'.at \notin Starting \/ UNCHANGED <<worker.at, worker.session>>
        BY <1>8
        DEF UseBound, Shape, HolderOK, Holder, Starting, Go, Free, storeVars,
            sessionVars
    <2> QED
        BY <2>1, SessionsSame
<1>9. CASE StartSession
    <2>1. /\ UNCHANGED <<thread, past, entries, ran>> /\ thread.bound = None
          /\ started' = Append(started, thread.family)
          /\ worker'.at = "native" /\ worker'.session = Len(started) + 1
        BY <1>9 DEF Shape, HolderOK, Holder, StartSession, storeVars
    <2>2. thread.family \in Family /\ started \in Seq(Family)
        BY DEF Shape, RowsOK, Place, RuntimeOK
    <2>3. /\ worker'.session \in 1..Len(started')
          /\ started'[worker'.session] = thread'.family
        BY <2>1, <2>2 DEF IsOf
    <2>4. \A s, f : IsOf(s, f) => IsOf(s, f)'
        BY <2>1, <2>2 DEF IsOf
    <2>5. AllAgree' /\ InOrder' /\ Kept'
        BY <2>1, <2>4 DEF SessionsInv, AllAgree, Agree, InOrder, Kept, SessionOf
    <2>6. \A f : ~IsOf(Len(started) + 1, f)
        BY <2>2 DEF IsOf
    <2>7. NewSession'
        BY <2>1, <2>3, <2>6
        DEF SessionsInv, AllAgree, Agree, NewSession, IsOf, SessionOf
    <2> QED
        BY <2>5, <2>7 DEF SessionsInv
<1>10. CASE SetNative
    <2>1. CASE thread.native \in {None, worker.session}
        <3>1. /\ thread' = [thread EXCEPT !.native = worker.session]
              /\ UNCHANGED <<past, entries, started, ran, worker.session>>
              /\ worker.at = "native" /\ worker'.at = "bind"
            BY <1>10, <2>1 DEF Shape, HolderOK, Holder, SetNative, Go, sessionVars
        <3>2. /\ thread'.native = worker.session /\ thread'.bound = thread.bound
              /\ thread'.family = thread.family
            BY <3>1 DEF Shape, RowsOK, Place
        <3>3. NewSession'
            BY <3>1, <3>2 DEF SessionsInv, NewSession, Starting, IsOf, SessionOf
        <3>4. AllAgree' /\ InOrder' /\ Kept'
            BY <3>1, <3>2
            DEF SessionsInv, NewSession, Starting, AllAgree, Agree, InOrder, Kept,
                IsOf, SessionOf
        <3> QED
            BY <3>3, <3>4 DEF SessionsInv
    <2>2. CASE thread.native \notin {None, worker.session}
        <3>1. UNCHANGED <<thread, past, entries, started, ran>> /\ worker'.at = "fail"
            BY <1>10, <2>2 DEF Shape, HolderOK, Holder, SetNative, Go, sessionVars
        <3> QED
            BY <3>1, SessionsSame DEF Starting
    <2> QED
        BY <2>1, <2>2
<1>11. CASE Bind
    <2>1. /\ thread' = [thread EXCEPT !.bound = worker.session]
          /\ UNCHANGED <<past, entries, started, ran, worker.session>>
          /\ worker.at = "bind" /\ worker'.at = "prepare"
        BY <1>11 DEF Shape, HolderOK, Holder, Bind, Go, sessionVars
    <2>2. /\ thread'.native = thread.native /\ thread'.bound = worker.session
          /\ thread'.family = thread.family
        BY <2>1 DEF Shape, RowsOK, Place
    <2>3. NewSession'
        BY <2>1 DEF NewSession, Starting
    <2>4. AllAgree' /\ InOrder' /\ Kept'
        BY <2>1, <2>2, NoSessionIsNone
        DEF SessionsInv, NewSession, Starting, AllAgree, Agree, InOrder, Kept, IsOf, SessionOf
    <2> QED
        BY <2>3, <2>4 DEF SessionsInv
<1>12. CASE Begin
    <2>1. /\ UNCHANGED <<thread, past, entries, started, ran>>
          /\ worker'.at \notin Starting \/ UNCHANGED <<worker.at, worker.session>>
        BY <1>12
        DEF Begin, Shape, HolderOK, Holder, Starting, Go, Free, storeVars, sessionVars
    <2> QED
        BY <2>1, SessionsSame
<1>13. CASE Submit
    <2>1. /\ UNCHANGED <<thread, past, entries, started, ran>>
          /\ worker'.at \notin Starting \/ UNCHANGED <<worker.at, worker.session>>
        BY <1>13
        DEF Submit, Shape, HolderOK, Holder, Starting, Go, Free, storeVars,
            sessionVars
    <2> QED
        BY <2>1, SessionsSame
<1>14. CASE Fail
    <2>1. /\ UNCHANGED <<thread, past, entries, started, ran>>
          /\ worker'.at \notin Starting \/ UNCHANGED <<worker.at, worker.session>>
        BY <1>14
        DEF Fail, Shape, HolderOK, Holder, Starting, Go, Free, storeVars, sessionVars
    <2> QED
        BY <2>1, SessionsSame
<1>15. CASE Refused
    <2>1. /\ UNCHANGED <<thread, past, entries, started, ran>>
          /\ worker'.at \notin Starting \/ UNCHANGED <<worker.at, worker.session>>
        BY <1>15
        DEF Refused, Shape, HolderOK, Holder, Starting, Go, Free, storeVars,
            sessionVars
    <2> QED
        BY <2>1, SessionsSame
<1>16. CASE Injected
    <2>1. /\ UNCHANGED <<thread, past, entries, started, ran>>
          /\ worker'.at \notin Starting \/ UNCHANGED <<worker.at, worker.session>>
        BY <1>16
        DEF Injected, Shape, HolderOK, Holder, Starting, Go, Free, storeVars,
            sessionVars
    <2> QED
        BY <2>1, SessionsSame
<1>17. CASE ClearPending
    <2>1. /\ UNCHANGED <<thread, past, entries, started, ran>>
          /\ worker'.at \notin Starting \/ UNCHANGED <<worker.at, worker.session>>
        BY <1>17
        DEF ClearPending, Shape, HolderOK, Holder, Starting, Go, Free, storeVars,
            sessionVars
    <2> QED
        BY <2>1, SessionsSame
<1>18. CASE Answered
    <2>1. /\ UNCHANGED <<thread, past, entries, started, ran>>
          /\ worker'.at \notin Starting \/ UNCHANGED <<worker.at, worker.session>>
        BY <1>18
        DEF Answered, Shape, HolderOK, Holder, Starting, Go, Free, storeVars,
            sessionVars
    <2> QED
        BY <2>1, SessionsSame
<1>19. ASSUME NEW r \in wire, Take(r) PROVE SessionsInv'
    <2>1. /\ UNCHANGED <<thread, past, entries, started>>
          /\ worker'.at \notin Starting \/ UNCHANGED <<worker.at, worker.session>>
          /\ ran' = [ran EXCEPT ![r.session] = @ \cup {r.message}]
        BY <1>19 DEF Take, Shape, HolderOK, Holder, Starting, Go, storeVars
    <2>2. r.session = thread.bound
        BY DEF WorkInv, InFlight
    <2>3. Kept'
        BY <2>1, <2>2 DEF SessionsInv, Kept, Shape, RuntimeOK, SessionOf
    <2>4. AllAgree' /\ InOrder' /\ NewSession'
        BY <2>1
        DEF SessionsInv, AllAgree, Agree, InOrder, NewSession, Starting, IsOf,
            SessionOf
    <2> QED
        BY <2>3, <2>4 DEF SessionsInv
<1>20. ASSUME NEW m \in Message, TurnEnds(m) PROVE SessionsInv'
    <2>1. /\ UNCHANGED <<thread, past, entries, started, ran>>
          /\ worker'.at \notin Starting \/ UNCHANGED <<worker.at, worker.session>>
        BY <1>20
        DEF TurnEnds, Shape, HolderOK, Holder, Starting, Go, Free, storeVars,
            sessionVars
    <2> QED
        BY <2>1, SessionsSame
<1>21. ASSUME NEW m \in Message, ScanReceipt(m) PROVE SessionsInv'
    <2>1. /\ UNCHANGED <<thread, past, entries, started, ran>>
          /\ worker'.at \notin Starting \/ UNCHANGED <<worker.at, worker.session>>
        BY <1>21
        DEF ScanReceipt, Shape, HolderOK, Holder, Starting, Go, Free, storeVars,
            sessionVars
    <2> QED
        BY <2>1, SessionsSame
<1>22. ASSUME NEW m \in Message, Settle(m) PROVE SessionsInv'
    <2>1. /\ UNCHANGED <<thread, past, entries, started, ran>>
          /\ worker'.at \notin Starting \/ UNCHANGED <<worker.at, worker.session>>
        BY <1>22
        DEF Settle, Shape, HolderOK, Holder, Starting, Go, Free, storeVars,
            sessionVars
    <2> QED
        BY <2>1, SessionsSame
<1>23. ASSUME NEW m \in Message, Unfinished(m) PROVE SessionsInv'
    <2>1. /\ UNCHANGED <<thread, past, entries, started, ran>>
          /\ worker'.at \notin Starting \/ UNCHANGED <<worker.at, worker.session>>
        BY <1>23
        DEF Unfinished, Shape, HolderOK, Holder, Starting, Go, Free, storeVars,
            sessionVars
    <2> QED
        BY <2>1, SessionsSame
<1>24. CASE PrepareFails
    <2>1. /\ UNCHANGED <<thread, past, entries, started, ran>>
          /\ worker'.at \notin Starting \/ UNCHANGED <<worker.at, worker.session>>
        BY <1>24
        DEF PrepareFails, Shape, HolderOK, Holder, Starting, Go, Free, storeVars,
            sessionVars
    <2> QED
        BY <2>1, SessionsSame
<1>25. CASE Unanswered
    <2>1. /\ UNCHANGED <<thread, past, entries, started, ran>>
          /\ worker'.at \notin Starting \/ UNCHANGED <<worker.at, worker.session>>
        BY <1>25
        DEF Unanswered, Shape, HolderOK, Holder, Starting, Go, Free, storeVars,
            sessionVars
    <2> QED
        BY <2>1, SessionsSame
<1>26. CASE Restart
    <2>1. /\ UNCHANGED <<thread, past, entries, started, ran>>
          /\ worker'.at \notin Starting \/ UNCHANGED <<worker.at, worker.session>>
        BY <1>26
        DEF Restart, Shape, HolderOK, Holder, Starting, Go, Free, storeVars,
            sessionVars
    <2> QED
        BY <2>1, SessionsSame
<1>27. ASSUME NEW r \in wire, Refuse(r) PROVE SessionsInv'
    <2>1. /\ UNCHANGED <<thread, past, entries, started, ran>>
          /\ worker'.at \notin Starting \/ UNCHANGED <<worker.at, worker.session>>
        BY <1>27
        DEF Refuse, Shape, HolderOK, Holder, Starting, Go, Free, storeVars,
            sessionVars
    <2> QED
        BY <2>1, SessionsSame
<1>28. CASE UNCHANGED vars
    BY <1>28, SessionsSame DEF vars, storeVars, sessionVars
<1>29. CASE Unsaved
    <2>1. /\ UNCHANGED <<thread, past, entries, started, ran>>
          /\ worker'.at \notin Starting \/ UNCHANGED <<worker.at, worker.session>>
        BY <1>29
        DEF Unsaved, Shape, HolderOK, Holder, Starting, Go, Free, storeVars,
            sessionVars
    <2> QED
        BY <2>1, SessionsSame
<1>30. ASSUME NEW f \in Family, RuntimeDies(f) PROVE SessionsInv'
    <2>1. /\ UNCHANGED <<thread, past, entries, started, ran>>
          /\ worker'.at \notin Starting \/ UNCHANGED <<worker.at, worker.session>>
        BY <1>30
        DEF RuntimeDies, Shape, HolderOK, Holder, Starting, Go, Free, storeVars,
            sessionVars
    <2> QED
        BY <2>1, SessionsSame
<1> QED
    BY <1>1, <1>2, <1>3, <1>4, <1>5, <1>6, <1>7, <1>8, <1>9, <1>10, <1>11, <1>12,
       <1>13, <1>14,
       <1>15, <1>16, <1>17, <1>18, <1>19, <1>20, <1>21, <1>22, <1>23, <1>24, <1>25, <1>26, <1>27, <1>28,
       <1>29, <1>30
       DEF Next, Owner, Release, Transition, Binding, Submission, Provider, Recovery, Fault

(* A new or retried message was not sent.                                    *)
LEMMA QueuedWork ==
    ASSUME Shape, WorkInv, NEW m \in Message,
           message[m].state \in Idle, message'[m].state = "accepted_by_wonder",
           \A n \in Message \ {m} : message'[n] = message[n],
           UNCHANGED <<thread, worker, started, wire, live, ran>>
    PROVE  WorkInv'
<1>1. Unsent(m) /\ message[m].state # "dispatching_to_codex"
    BY NoneAssumption DEF Unsent, Idle, Working
<1>2. /\ m \notin live /\ \A s \in Session : m \notin ran[s]
      /\ \A r \in wire : r.message # m
    BY <1>1 DEF WorkInv, Untaken
<1>3. /\ \A r \in wire : r.message \in Message \ {m}
      /\ live \subseteq Message \ {m}
      /\ \A s \in Session : ran[s] \subseteq Message \ {m}
    BY <1>2 DEF Shape, RuntimeOK, Request
<1>4. worker.at # "free" => worker.message \in Message \ {m}
    BY <1>1 DEF WorkInv, Held, Shape, HolderOK
<1>5. Held'
    BY <1>1, <1>2, <1>3, <1>4
    DEF WorkInv, Held, Target, Submitting, AtSession, Starting, Before
<1>6. Untaken'
    BY <1>1, <1>2, <1>3, <1>4, NoneAssumption
    DEF WorkInv, Untaken, Unsent, Idle, Working, Before
<1>7. InFlight'
    BY <1>1, <1>2, <1>3, <1>4 DEF WorkInv, InFlight, Held
<1>8. Running'
    BY <1>1, <1>2, <1>3, <1>4 DEF WorkInv, Running, Working
<1>9. TakenThere'
    BY <1>1, <1>2, <1>3, <1>4 DEF WorkInv, TakenThere, IsOf
<1> QED
    BY <1>5, <1>6, <1>7, <1>8, <1>9 DEF WorkInv

(* The release of a message moves on, with nothing sent and nothing bound.   *)
LEMMA ReleaseMoves ==
    ASSUME Shape, WorkInv,
           UNCHANGED <<message, wire, live, ran, thread.family, thread.bound, worker.message>>,
           worker.at \notin {"free", "sent"}, worker'.at # "free",
           worker'.at \in Before => worker.at \in Before,
           worker'.at \in Submitting => worker.at \in Submitting /\ worker'.session = worker.session,
           worker'.at \in AtSession => worker'.session = thread.bound,
           worker'.at \in AtSession \cup Starting \cup {"session"} => Target = thread.family,
           \A s, f : IsOf(s, f) => IsOf(s, f)'
    PROVE  WorkInv'
<1>1. Held'
    BY DEF WorkInv, Held, Target, Submitting, AtSession, Starting, Before
<1>2. Untaken'
    BY DEF WorkInv, Untaken, Unsent, Idle, Working, Before
<1>3. InFlight'
    BY DEF WorkInv, InFlight, Held
<1>4. Running'
    BY DEF WorkInv, Running, Working
<1>5. TakenThere'
    BY DEF WorkInv, TakenThere
<1> QED
    BY <1>1, <1>2, <1>3, <1>4, <1>5 DEF WorkInv

(* A switch finds nothing on its way and nothing running: what was sent      *)
(* before would be work of another message, and this one was not sent.       *)
LEMMA NothingElse ==
    ASSUME Shape, WorkInv, worker.at = "transition", ~OtherWork
    PROVE  wire = {} /\ live = {}
<1>1. worker.message \in Message /\ Unsent(worker.message)
    BY DEF Shape, HolderOK, Unsent, Before
<1>2. /\ worker.message \notin live /\ \A r \in wire : r.message # worker.message
    BY <1>1 DEF WorkInv, Untaken
<1>3. \A m \in Message \ {worker.message} : message[m].state \notin Working
    BY DEF OtherWork
<1>4. live = {}
    BY <1>2, <1>3 DEF WorkInv, Running, Shape, RuntimeOK
<1>5. \A r \in wire : r.message \in Message /\ message[r.message].state \in Working
    BY DEF WorkInv, InFlight, Shape, RuntimeOK, Request, Working
<1> QED
    BY <1>2, <1>3, <1>4, <1>5

(* Another session is bound when nothing is on its way and nothing runs.     *)
LEMMA Rebound ==
    ASSUME Shape, WorkInv, wire = {}, live = {},
           UNCHANGED <<message, wire, live, ran, started, worker.message>>,
           worker.at \in Before, worker.at # "fail", worker'.at \in {"session", "prepare"},
           worker'.at = "prepare" => worker'.session = thread'.bound,
           thread'.family = Target
    PROVE  WorkInv'
<1>1. Held'
    BY DEF WorkInv, Held, Target, Submitting, AtSession, Starting, Before
<1>2. Untaken'
    BY DEF WorkInv, Untaken, Unsent, Idle, Working, Before
<1>3. InFlight'
    BY DEF WorkInv, InFlight, Held
<1>4. Running'
    BY DEF WorkInv, Running, Working
<1>5. TakenThere'
    BY DEF WorkInv, TakenThere, IsOf
<1> QED
    BY <1>1, <1>2, <1>3, <1>4, <1>5 DEF WorkInv

(* A session keeps its provider when another one is started.                 *)
LEMMA StartedGrows ==
    ASSUME Shape, StartSession PROVE \A s, f : IsOf(s, f) => IsOf(s, f)'
<1>1. started \in Seq(Family) /\ thread.family \in Family
    BY DEF Shape, RowsOK, Place, RuntimeOK
<1>2. started' = Append(started, thread.family)
    BY DEF StartSession
<1> QED
    BY <1>1, <1>2 DEF IsOf

(* Every step keeps what is sent and running in the thread's session.        *)
LEMMA WorkStep ==
    ASSUME Shape, SessionsInv, WorkInv, [Next]_vars
    PROVE  WorkInv'
<1>1. ASSUME NEW m \in Message, NEW f \in Family, Send(m, f) PROVE WorkInv'
    <2>1. /\ message[m].state \in Idle /\ message'[m].state = "accepted_by_wonder"
          /\ \A n \in Message \ {m} : message'[n] = message[n]
          /\ UNCHANGED <<thread, worker, started, wire, live, ran>>
        BY <1>1 DEF Send, Mark, Sent, Idle, Shape, RowsOK, MessageRow, sessionVars
    <2> QED
        BY <2>1, QueuedWork
<1>2. ASSUME NEW m \in Message, Retry(m) PROVE WorkInv'
    <2>1. /\ message[m].state \in Idle /\ message'[m].state = "accepted_by_wonder"
          /\ \A n \in Message \ {m} : message'[n] = message[n]
          /\ UNCHANGED <<thread, worker, started, wire, live, ran>>
        BY <1>2 DEF Retry, Mark, Idle, Shape, RowsOK, MessageRow, sessionVars
    <2> QED
        BY <2>1, QueuedWork
<1>3. ASSUME NEW m \in Message, Claim(m) PROVE WorkInv'
    <2>1. /\ message[m].state \in Idle /\ message'[m].state = "dispatching_to_codex"
          /\ \A n \in Message \ {m} : message'[n] = message[n]
          /\ worker.at = "free" /\ worker'.at = "transition" /\ worker'.message = m
          /\ UNCHANGED <<thread, started, wire, live, ran>>
        BY <1>3 DEF Claim, Free, Idle, Shape, RowsOK, MessageRow, sessionVars
    <2>2. worker.message = None /\ None \notin Message
        BY <2>1, NoneAssumption, SwitchAssumption DEF Shape, HolderOK, Message
    <2>3. \A n \in Message : message[n].state # "dispatching_to_codex"
        BY <2>2 DEF WorkInv, Held
    <2>4. /\ m \notin live /\ \A s \in Session : m \notin ran[s]
          /\ \A r \in wire : r.message # m
        BY <2>1 DEF WorkInv, Untaken, Unsent
    <2>0. /\ live \subseteq Message /\ ran \in [Session -> SUBSET Message]
          /\ \A r \in wire : r.message \in Message
        BY DEF Shape, RuntimeOK, Request
    <2>5. Held'
        BY <2>0, <2>1, <2>2, <2>3, <2>4
        DEF WorkInv, Held, Target, Submitting, AtSession, Starting, Before
    <2>6. Untaken'
        BY <2>0, <2>1, <2>2, <2>3, <2>4, NoneAssumption
        DEF WorkInv, Untaken, Unsent, Idle, Working, Before
    <2>7. InFlight'
        BY <2>0, <2>1, <2>2, <2>3, <2>4 DEF WorkInv, InFlight, Held
    <2>8. Running'
        BY <2>0, <2>1, <2>2, <2>3, <2>4 DEF WorkInv, Running, Working
    <2>9. TakenThere'
        BY <2>0, <2>1, <2>2, <2>3, <2>4 DEF WorkInv, TakenThere, IsOf
    <2> QED
        BY <2>5, <2>6, <2>7, <2>8, <2>9 DEF WorkInv
<1>4. CASE KeepSession
    <2>1. /\ UNCHANGED <<message, wire, live, ran, thread.family, thread.bound, worker.message>>
          /\ worker.at \notin {"free", "sent"} /\ worker'.at # "free"
          /\ worker'.at \in Before => worker.at \in Before
        BY <1>4
        DEF KeepSession, Go, Before, Shape, RowsOK, Place, HolderOK, Holder, storeVars,
            sessionVars
    <2>2. /\ worker'.at \in Submitting => /\ worker.at \in Submitting
                                         /\ worker'.session = worker.session
          /\ worker'.at \in AtSession => worker'.session = thread.bound
          /\ worker'.at \in AtSession \cup Starting \cup {"session"} => Target = thread.family
        BY <1>4
        DEF KeepSession, Moving, Go, Submitting, AtSession, Starting, Shape, HolderOK,
            Holder,
           WorkInv, Held
    <2>3. \A s, f : IsOf(s, f) => IsOf(s, f)'
        BY <1>4 DEF KeepSession, IsOf, sessionVars
    <2> QED
        BY <2>1, <2>2, <2>3, ReleaseMoves
<1>5. CASE Busy
    <2>1. /\ UNCHANGED <<message, wire, live, ran, thread.family, thread.bound, worker.message>>
          /\ worker.at \notin {"free", "sent"} /\ worker'.at # "free"
          /\ worker'.at \in Before => worker.at \in Before
        BY <1>5
        DEF Busy, Go, Before, Shape, RowsOK, Place, HolderOK, Holder, storeVars,
            sessionVars
    <2>2. /\ worker'.at \in Submitting => /\ worker.at \in Submitting
                                         /\ worker'.session = worker.session
          /\ worker'.at \in AtSession => worker'.session = thread.bound
          /\ worker'.at \in AtSession \cup Starting \cup {"session"} => Target = thread.family
        BY <1>5 DEF Busy, Go, Submitting, AtSession, Starting, Shape, HolderOK, Holder,
           WorkInv, Held
    <2>3. \A s, f : IsOf(s, f) => IsOf(s, f)'
        BY <1>5 DEF Busy, IsOf, sessionVars
    <2> QED
        BY <2>1, <2>2, <2>3, ReleaseMoves
<1>6. CASE Resume
    <2>1. wire = {} /\ live = {}
        BY <1>6, NothingElse DEF Resume
    <2>2. /\ UNCHANGED <<message, wire, live, ran, started, worker.message>>
          /\ worker.at = "transition" /\ worker'.at = "session"
        BY <1>6 DEF Resume, Switch, Go, Shape, HolderOK, Holder, sessionVars
    <2>3. thread'.family = Target
        BY <1>6 DEF Resume, Switch
    <2> QED
        BY <2>1, <2>2, <2>3, Rebound DEF Before
<1>7. CASE Fresh
    <2>1. wire = {} /\ live = {}
        BY <1>7, NothingElse DEF Fresh
    <2>2. /\ UNCHANGED <<message, wire, live, ran, started, worker.message>>
          /\ worker.at = "transition" /\ worker'.at = "session"
        BY <1>7 DEF Fresh, Switch, Go, Shape, HolderOK, Holder, sessionVars
    <2>3. thread'.family = Target
        BY <1>7 DEF Fresh, Switch
    <2> QED
        BY <2>1, <2>2, <2>3, Rebound DEF Before
<1>8. CASE UseBound
    <2>1. /\ UNCHANGED <<message, wire, live, ran, thread.family, thread.bound, worker.message>>
          /\ worker.at \notin {"free", "sent"} /\ worker'.at # "free"
          /\ worker'.at \in Before => worker.at \in Before
        BY <1>8
        DEF UseBound, Go, Before, Shape, RowsOK, Place, HolderOK, Holder, storeVars,
            sessionVars
    <2>2. /\ worker'.at \in Submitting => /\ worker.at \in Submitting
                                         /\ worker'.session = worker.session
          /\ worker'.at \in AtSession => worker'.session = thread.bound
          /\ worker'.at \in AtSession \cup Starting \cup {"session"} => Target = thread.family
        BY <1>8
        DEF UseBound, Go, Submitting, AtSession, Starting, Shape, HolderOK, Holder,
           WorkInv, Held
    <2>3. \A s, f : IsOf(s, f) => IsOf(s, f)'
        BY <1>8 DEF UseBound, IsOf, sessionVars
    <2> QED
        BY <2>1, <2>2, <2>3, ReleaseMoves
<1>9. CASE StartSession
    <2>1. /\ UNCHANGED <<message, wire, live, ran, thread.family, thread.bound, worker.message>>
          /\ worker.at \notin {"free", "sent"} /\ worker'.at # "free"
          /\ worker'.at \in Before => worker.at \in Before
        BY <1>9
        DEF StartSession, Go, Before, Shape, RowsOK, Place, HolderOK, Holder,
            storeVars, sessionVars
    <2>2. /\ worker'.at \in Submitting => /\ worker.at \in Submitting
                                         /\ worker'.session = worker.session
          /\ worker'.at \in AtSession => worker'.session = thread.bound
          /\ worker'.at \in AtSession \cup Starting \cup {"session"} => Target = thread.family
        BY <1>9
        DEF StartSession, Go, Submitting, AtSession, Starting, Shape, HolderOK,
            Holder,
           WorkInv, Held
    <2>3. \A s, f : IsOf(s, f) => IsOf(s, f)'
        BY <1>9, StartedGrows DEF StartSession, IsOf, sessionVars
    <2> QED
        BY <2>1, <2>2, <2>3, ReleaseMoves
<1>10. CASE SetNative
    <2>1. /\ UNCHANGED <<message, wire, live, ran, thread.family, thread.bound, worker.message>>
          /\ worker.at \notin {"free", "sent"} /\ worker'.at # "free"
          /\ worker'.at \in Before => worker.at \in Before
        BY <1>10
        DEF SetNative, Go, Before, Shape, RowsOK, Place, HolderOK, Holder, storeVars,
            sessionVars
    <2>2. /\ worker'.at \in Submitting => /\ worker.at \in Submitting
                                         /\ worker'.session = worker.session
          /\ worker'.at \in AtSession => worker'.session = thread.bound
          /\ worker'.at \in AtSession \cup Starting \cup {"session"} => Target = thread.family
        BY <1>10
        DEF SetNative, Go, Submitting, AtSession, Starting, Shape, HolderOK, Holder,
           WorkInv, Held
    <2>3. \A s, f : IsOf(s, f) => IsOf(s, f)'
        BY <1>10 DEF SetNative, IsOf, sessionVars
    <2> QED
        BY <2>1, <2>2, <2>3, ReleaseMoves
<1>11. CASE Bind
    <2>1. thread.bound = None /\ Target = thread.family
        BY <1>11 DEF Bind, Starting, SessionsInv, NewSession, WorkInv, Held
    <2>2. wire = {} /\ live = {}
        BY <2>1, NoSessionIsNone
        DEF WorkInv, InFlight, Running, Shape, RuntimeOK, Request
    <2>3. /\ UNCHANGED <<message, wire, live, ran, started, worker.message>>
          /\ worker.at = "bind" /\ worker'.at = "prepare"
          /\ worker'.session = thread'.bound /\ thread'.family = thread.family
        BY <1>11 DEF Bind, Go, Shape, HolderOK, Holder, RowsOK, Place, sessionVars
    <2> QED
        BY <2>1, <2>2, <2>3, Rebound DEF Before
<1>12. CASE Begin
    <2>1. /\ worker.message \in Message /\ worker.at = "prepare" /\ worker'.at = "begun"
          /\ UNCHANGED <<thread, started, wire, live, ran, worker.message, worker.session>>
        BY <1>12 DEF Begin, Shape, HolderOK, Holder, sessionVars
    <2>2. /\ message'[worker.message].state = message[worker.message].state
          /\ message'[worker.message].family = message[worker.message].family
          /\ message'[worker.message].phase = "submitting"
          /\ message'[worker.message].session = worker.session
          /\ \A n \in Message \ {worker.message} : message'[n] = message[n]
        BY <1>12, <2>1 DEF Begin, Shape, RowsOK, MessageRow
    <2>3. Unsent(worker.message)
        BY <2>1 DEF Unsent, Before
    <2>4. /\ worker.message \notin live /\ \A s \in Session : worker.message \notin ran[s]
          /\ \A r \in wire : r.message # worker.message
        BY <2>1, <2>3 DEF WorkInv, Untaken
    <2>0. /\ live \subseteq Message /\ ran \in [Session -> SUBSET Message]
          /\ \A r \in wire : r.message \in Message
        BY DEF Shape, RuntimeOK, Request
    <2>5. Held'
        BY <2>0, <2>1, <2>2, <2>4
        DEF WorkInv, Held, Target, Submitting, AtSession, Starting, Before
    <2>6. Untaken'
        BY <2>0, <2>1, <2>2, <2>4, NoneAssumption
        DEF WorkInv, Untaken, Unsent, Idle, Working, Before
    <2>7. InFlight'
        BY <2>0, <2>1, <2>2, <2>4 DEF WorkInv, InFlight, Held
    <2>8. Running'
        BY <2>0, <2>1, <2>2, <2>4 DEF WorkInv, Running, Working
    <2>9. TakenThere'
        BY <2>0, <2>1, <2>2, <2>4 DEF WorkInv, TakenThere, IsOf
    <2> QED
        BY <2>5, <2>6, <2>7, <2>8, <2>9 DEF WorkInv
<1>13. CASE Submit
    <2>1. /\ worker.message \in Message /\ worker.session \in Session
          /\ worker.at = "begun" /\ worker'.at = "sent"
          /\ UNCHANGED <<message, thread, started, live, ran, worker.message, worker.session>>
        BY <1>13 DEF Submit, Go, Shape, HolderOK, Holder, AtSession
    <2> DEFINE q == [message |-> worker.message, session |-> worker.session,
                     news |-> worker.news, entry |-> worker.entry]
    <2>2. /\ wire' = wire \cup {q}
          /\ q.message = worker.message /\ q.session = worker.session
        BY <1>13 DEF Submit
    <2> HIDE DEF q
    <2>3. /\ worker.message \notin live /\ \A s \in Session : worker.message \notin ran[s]
          /\ \A r \in wire : r.message # worker.message
        BY <2>1 DEF WorkInv, Untaken, Unsent, Before
    <2>4. /\ message[worker.message].state = "dispatching_to_codex"
          /\ message[worker.message].session = worker.session
          /\ message[worker.message].family = thread.family
          /\ worker.session = thread.bound
        BY <2>1 DEF WorkInv, Held, Submitting, AtSession, Target
    <2>5. Held'
        BY <2>1, <2>2, <2>3, <2>4
        DEF WorkInv, Held, Target, Submitting, AtSession, Starting, Before
    <2>6. Untaken'
        BY <2>1, <2>2, <2>3, <2>4, NoneAssumption
        DEF WorkInv, Untaken, Unsent, Idle, Working, Before
    <2>7. InFlight'
        BY <2>1, <2>2, <2>3, <2>4 DEF WorkInv, InFlight, Held
    <2>8. Running'
        BY <2>1, <2>2, <2>3, <2>4 DEF WorkInv, Running, Working
    <2>9. TakenThere'
        BY <2>1, <2>2, <2>3, <2>4 DEF WorkInv, TakenThere, IsOf
    <2> QED
        BY <2>5, <2>6, <2>7, <2>8, <2>9 DEF WorkInv
<1>14. CASE Fail
    <2>1. /\ worker.message \in Message /\ worker.at = "fail"
          /\ worker'.at = "free" /\ worker'.message = None /\ None \notin Message
          /\ UNCHANGED <<thread, started, live, ran>> /\ wire' \subseteq wire
        BY <1>14, NoneAssumption, SwitchAssumption
        DEF Fail, Free, Shape, HolderOK, Message, sessionVars
    <2>2. /\ message'[worker.message].state = "safe_to_retry"
          /\ message'[worker.message].family = message[worker.message].family
          /\ message'[worker.message].session = message[worker.message].session
          /\ \A n \in Message \ {worker.message} : message'[n] = message[n]
        BY <1>14, <2>1 DEF Fail, Shape, RowsOK, MessageRow
    <2>3. message[worker.message].state = "dispatching_to_codex"
        BY <2>1 DEF WorkInv, Held
    <2>0. /\ live \subseteq Message /\ ran \in [Session -> SUBSET Message]
          /\ \A r \in wire : r.message \in Message
        BY DEF Shape, RuntimeOK, Request
    <2>4. worker.message \notin live /\ \A s \in Session : worker.message \notin ran[s]
        BY <2>1 DEF WorkInv, Untaken, Unsent, Before
    <2>5. Held'
        BY <2>0, <2>1, <2>2, <2>3, <2>4
        DEF WorkInv, Held, Target, Submitting, AtSession, Starting, Before
    <2>6. Untaken'
        BY <2>0, <2>1, <2>2, <2>3, <2>4, NoneAssumption
        DEF WorkInv, Untaken, Unsent, Idle, Working, Before
    <2>7. InFlight'
        BY <2>0, <2>1, <2>2, <2>3, <2>4 DEF WorkInv, InFlight, Held
    <2>8. Running'
        BY <2>0, <2>1, <2>2, <2>3, <2>4 DEF WorkInv, Running, Working
    <2>9. TakenThere'
        BY <2>0, <2>1, <2>2, <2>3, <2>4 DEF WorkInv, TakenThere, IsOf
    <2> QED
        BY <2>5, <2>6, <2>7, <2>8, <2>9 DEF WorkInv
<1>15. CASE Refused
    <2>1. /\ UNCHANGED <<message, wire, live, ran, thread.family, thread.bound, worker.message>>
          /\ worker.at \notin {"free", "sent"} /\ worker'.at # "free"
          /\ worker'.at \in Before => worker.at \in Before
        BY <1>15
        DEF Refused, Go, Before, Shape, RowsOK, Place, HolderOK, Holder, storeVars,
            sessionVars
    <2>2. /\ worker'.at \in Submitting => /\ worker.at \in Submitting
                                         /\ worker'.session = worker.session
          /\ worker'.at \in AtSession => worker'.session = thread.bound
          /\ worker'.at \in AtSession \cup Starting \cup {"session"} => Target = thread.family
        BY <1>15
        DEF Refused, Go, Submitting, AtSession, Starting, Shape, HolderOK, Holder,
           WorkInv, Held
    <2>3. \A s, f : IsOf(s, f) => IsOf(s, f)'
        BY <1>15 DEF Refused, IsOf, sessionVars
    <2> QED
        BY <2>1, <2>2, <2>3, ReleaseMoves
<1>16. CASE Injected
    <2>1. /\ UNCHANGED <<message, wire, live, ran, thread.family, thread.bound, worker.message>>
          /\ worker.at \notin {"free", "sent"} /\ worker'.at # "free"
          /\ worker'.at \in Before => worker.at \in Before
        BY <1>16
        DEF Injected, Go, Before, Shape, RowsOK, Place, HolderOK, Holder, storeVars,
            sessionVars
    <2>2. /\ worker'.at \in Submitting => /\ worker.at \in Submitting
                                         /\ worker'.session = worker.session
          /\ worker'.at \in AtSession => worker'.session = thread.bound
          /\ worker'.at \in AtSession \cup Starting \cup {"session"} => Target = thread.family
        BY <1>16
        DEF Injected, Go, Submitting, AtSession, Starting, Shape, HolderOK, Holder,
           WorkInv, Held
    <2>3. \A s, f : IsOf(s, f) => IsOf(s, f)'
        BY <1>16 DEF Injected, IsOf, sessionVars
    <2> QED
        BY <2>1, <2>2, <2>3, ReleaseMoves
<1>17. CASE ClearPending
    <2>1. /\ UNCHANGED <<message, wire, live, ran, thread.family, thread.bound, worker.message>>
          /\ worker.at \notin {"free", "sent"} /\ worker'.at # "free"
          /\ worker'.at \in Before => worker.at \in Before
        BY <1>17
        DEF ClearPending, Go, Before, Shape, RowsOK, Place, HolderOK, Holder,
            storeVars, sessionVars
    <2>2. /\ worker'.at \in Submitting => /\ worker.at \in Submitting
                                         /\ worker'.session = worker.session
          /\ worker'.at \in AtSession => worker'.session = thread.bound
          /\ worker'.at \in AtSession \cup Starting \cup {"session"} => Target = thread.family
        BY <1>17
        DEF ClearPending, Go, Submitting, AtSession, Starting, Shape, HolderOK,
            Holder,
           WorkInv, Held
    <2>3. \A s, f : IsOf(s, f) => IsOf(s, f)'
        BY <1>17 DEF ClearPending, IsOf, sessionVars
    <2> QED
        BY <2>1, <2>2, <2>3, ReleaseMoves
<1>18. CASE Answered
    <2>1. /\ worker.message \in Message /\ worker.at = "answered"
          /\ worker'.at = "free" /\ worker'.message = None /\ None \notin Message
          /\ UNCHANGED <<thread, started, live, ran>> /\ wire' \subseteq wire
        BY <1>18, NoneAssumption, SwitchAssumption
        DEF Answered, Free, Shape, HolderOK, Message, sessionVars
    <2>2. /\ message'[worker.message].state = "accepted_by_codex"
          /\ message'[worker.message].family = message[worker.message].family
          /\ message'[worker.message].session = message[worker.message].session
          /\ \A n \in Message \ {worker.message} : message'[n] = message[n]
        BY <1>18, <2>1 DEF Answered, Shape, RowsOK, MessageRow
    <2>3. message[worker.message].state = "dispatching_to_codex"
        BY <2>1 DEF WorkInv, Held
    <2>0. /\ live \subseteq Message /\ ran \in [Session -> SUBSET Message]
          /\ \A r \in wire : r.message \in Message
        BY DEF Shape, RuntimeOK, Request
    <2>5. Held'
        BY <2>0, <2>1, <2>2, <2>3
        DEF WorkInv, Held, Target, Submitting, AtSession, Starting, Before
    <2>6. Untaken'
        BY <2>0, <2>1, <2>2, <2>3, NoneAssumption
        DEF WorkInv, Untaken, Unsent, Idle, Working, Before
    <2>7. InFlight'
        BY <2>0, <2>1, <2>2, <2>3 DEF WorkInv, InFlight, Held
    <2>8. Running'
        BY <2>0, <2>1, <2>2, <2>3 DEF WorkInv, Running, Working
    <2>9. TakenThere'
        BY <2>0, <2>1, <2>2, <2>3 DEF WorkInv, TakenThere, IsOf
    <2> QED
        BY <2>5, <2>6, <2>7, <2>8, <2>9 DEF WorkInv
<1>19. ASSUME NEW r \in wire, Take(r) PROVE WorkInv'
    <2>1. /\ r.message \in Message /\ r.session \in Session
        BY DEF Shape, RuntimeOK, Request
    <2>2. /\ r.session = thread.bound /\ thread.bound # None
          /\ message[r.message].session = r.session
          /\ IsOf(r.session, message[r.message].family)
          /\ message[r.message].state \in {"dispatching_to_codex", "uncertain"}
          /\ \A o \in wire : o.message = r.message => o = r
        BY <2>1, NoSessionIsNone DEF WorkInv, InFlight, SessionsInv, AllAgree, Agree
    <2>3. /\ wire' = wire \ {r} /\ live' = live \cup {r.message}
          /\ \A s \in Session : ran'[s] = IF s = r.session THEN ran[s] \cup {r.message} ELSE ran[s]
          /\ UNCHANGED <<message, thread, started, worker.message, worker.session>>
          /\ \/ worker'.at = worker.at /\ (worker.at # "sent" \/ worker.message # r.message)
             \/ worker.at = "sent" /\ worker.message = r.message /\ worker'.at = "accepted"
        BY <1>19 DEF Take, Waits, Go, Shape, HolderOK, Holder, RuntimeOK, storeVars
    <2>4. ~Unsent(r.message)
        BY <2>1 DEF WorkInv, Untaken
    <2>5. \A m \in Message : Unsent(m)' => Unsent(m)
        BY <2>3 DEF Unsent, Before
    <2>0. wire \subseteq Request /\ live \subseteq Message /\ ran \in [Session -> SUBSET Message]
        BY DEF Shape, RuntimeOK
    <2>6. \A o \in wire' : o \in wire /\ o.message # r.message
        BY <2>2, <2>3
    <2>7. Held'
        BY <2>0, <2>1, <2>2, <2>3, <2>6
        DEF WorkInv, Held, Target, Submitting, AtSession, Starting, Before
    <2>8. Untaken'
        <3> SUFFICES ASSUME NEW m \in Message, Unsent(m)'
                     PROVE  /\ m \notin live' /\ \A s \in Session : m \notin ran'[s]
                            /\ \A o \in wire' : o.message # m
            BY DEF Untaken
        <3>1. Unsent(m) /\ m # r.message
            BY <2>4, <2>5
        <3> QED
            BY <2>3, <3>1 DEF WorkInv, Untaken
    <2>9. InFlight'
        <3> SUFFICES ASSUME NEW q \in wire'
                     PROVE  /\ q.session = thread.bound
                            /\ message[q.message].session = q.session
                            /\ message[q.message].family = thread.family
                            /\ message[q.message].state \in {"dispatching_to_codex", "uncertain"}
                            /\ q.message = worker.message => worker'.at = "sent"
                            /\ \A s \in Session : q.message \notin ran'[s]
                            /\ \A o \in wire' : o.message = q.message => o = q
            BY <2>3 DEF InFlight
        <3>1. q \in wire /\ q.message # r.message
            BY <2>6
        <3>2. /\ q.session = thread.bound
              /\ message[q.message].session = q.session
              /\ message[q.message].family = thread.family
              /\ message[q.message].state \in {"dispatching_to_codex", "uncertain"}
              /\ q.message = worker.message => worker.at = "sent"
              /\ \A s \in Session : q.message \notin ran[s]
              /\ \A o \in wire : o.message = q.message => o = q
            BY <3>1 DEF WorkInv, InFlight
        <3>3. \A s \in Session : q.message \notin ran'[s]
            BY <2>3, <3>1, <3>2
        <3>4. q.message = worker.message => worker'.at = "sent"
            BY <2>3, <3>1, <3>2
        <3> QED
            BY <2>6, <3>2, <3>3, <3>4
    <2>10. Running'
        BY <2>0, <2>1, <2>2, <2>3, <2>6 DEF WorkInv, Running, Working
    <2>11. TakenThere'
        <3> SUFFICES ASSUME NEW s \in Session, NEW m \in ran'[s]
                     PROVE  message[m].session = s /\ IsOf(s, message[m].family)
            BY <2>3 DEF TakenThere, IsOf
        <3>1. CASE m \in ran[s]
            BY <3>1 DEF WorkInv, TakenThere
        <3>2. CASE m \notin ran[s]
            BY <2>2, <2>3, <3>2
        <3> QED
            BY <3>1, <3>2
    <2> QED
        BY <2>7, <2>8, <2>9, <2>10, <2>11 DEF WorkInv
<1>20. ASSUME NEW m \in Message, TurnEnds(m) PROVE WorkInv'
    <2>1. UNCHANGED <<message, thread, worker, started, wire, ran>> /\ live' \subseteq live
        BY <1>20 DEF TurnEnds, storeVars
    <2>2. Held'
        BY <2>1 DEF WorkInv, Held, Target, Submitting, AtSession, Starting, Before
    <2>3. Untaken'
        BY <2>1, NoneAssumption DEF WorkInv, Untaken, Unsent, Idle, Working, Before
    <2>4. InFlight'
        BY <2>1 DEF WorkInv, InFlight, Held
    <2>5. Running'
        BY <2>1 DEF WorkInv, Running, Working
    <2>6. TakenThere'
        BY <2>1 DEF WorkInv, TakenThere, IsOf
    <2> QED
        BY <2>2, <2>3, <2>4, <2>5, <2>6 DEF WorkInv
<1>21. ASSUME NEW m \in Message, ScanReceipt(m) PROVE WorkInv'
    <2>1. /\ message[m].state = "uncertain" /\ message'[m].state = "accepted_by_codex"
          /\ message'[m].family = message[m].family /\ message'[m].session = message[m].session
          /\ \A n \in Message \ {m} : message'[n] = message[n]
          /\ worker.at = "free" /\ UNCHANGED <<worker, thread, started, wire, live, ran>>
        BY <1>21 DEF ScanReceipt, Mark, Free, Shape, RowsOK, MessageRow, sessionVars
    <2>2. \A r \in wire : r.message # m /\ r.message \in Message
        BY <1>21, <2>1
        DEF ScanReceipt, WorkInv, InFlight, TakenThere, Shape, RuntimeOK, RowsOK,
            MessageRow, Request
    <2>0. live \subseteq Message /\ ran \in [Session -> SUBSET Message]
        BY <1>21 DEF ScanReceipt, Shape, RuntimeOK
    <2>3. Held'
        BY <2>0, <2>1, <2>2
        DEF WorkInv, Held, Target, Submitting, AtSession, Starting, Before
    <2>4. Untaken'
        BY <2>0, <2>1, <2>2, NoneAssumption
        DEF WorkInv, Untaken, Unsent, Idle, Working, Before
    <2>5. InFlight'
        BY <2>0, <2>1, <2>2 DEF WorkInv, InFlight, Held
    <2>6. Running'
        BY <2>0, <2>1, <2>2 DEF WorkInv, Running, Working
    <2>7. TakenThere'
        BY <2>0, <2>1, <2>2 DEF WorkInv, TakenThere, IsOf
    <2> QED
        BY <2>3, <2>4, <2>5, <2>6, <2>7 DEF WorkInv
<1>22. ASSUME NEW m \in Message, Settle(m) PROVE WorkInv'
    <2>1. /\ message[m].state = "accepted_by_codex" /\ message'[m].state = "completed"
          /\ message'[m].family = message[m].family /\ message'[m].session = message[m].session
          /\ \A n \in Message \ {m} : message'[n] = message[n]
          /\ worker.at = "free" /\ UNCHANGED <<worker, thread, started, wire, live, ran>>
        BY <1>22 DEF Settle, Mark, Free, Shape, RowsOK, MessageRow, sessionVars
    <2>2. \A r \in wire : r.message # m /\ r.message \in Message
        BY <1>22, <2>1
        DEF Settle, WorkInv, InFlight, TakenThere, Shape, RuntimeOK, RowsOK,
            MessageRow, Request
    <2>0. live \subseteq Message /\ ran \in [Session -> SUBSET Message] /\ m \notin live
        BY <1>22 DEF Settle, Shape, RuntimeOK
    <2>3. Held'
        BY <2>0, <2>1, <2>2
        DEF WorkInv, Held, Target, Submitting, AtSession, Starting, Before
    <2>4. Untaken'
        BY <2>0, <2>1, <2>2, NoneAssumption
        DEF WorkInv, Untaken, Unsent, Idle, Working, Before
    <2>5. InFlight'
        BY <2>0, <2>1, <2>2 DEF WorkInv, InFlight, Held
    <2>6. Running'
        BY <2>0, <2>1, <2>2 DEF WorkInv, Running, Working
    <2>7. TakenThere'
        BY <2>0, <2>1, <2>2 DEF WorkInv, TakenThere, IsOf
    <2> QED
        BY <2>3, <2>4, <2>5, <2>6, <2>7 DEF WorkInv
<1>23. ASSUME NEW m \in Message, Unfinished(m) PROVE WorkInv'
    <2>1. /\ message[m].state = "accepted_by_codex" /\ message'[m].state = "uncertain"
          /\ message'[m].family = message[m].family /\ message'[m].session = message[m].session
          /\ \A n \in Message \ {m} : message'[n] = message[n]
          /\ worker.at = "free" /\ UNCHANGED <<worker, thread, started, wire, live, ran>>
        BY <1>23 DEF Unfinished, Mark, Free, Shape, RowsOK, MessageRow, sessionVars
    <2>2. \A r \in wire : r.message # m /\ r.message \in Message
        BY <1>23, <2>1
        DEF Unfinished, WorkInv, InFlight, TakenThere, Shape, RuntimeOK, RowsOK,
            MessageRow, Request
    <2>0. live \subseteq Message /\ ran \in [Session -> SUBSET Message] /\ m \notin live
        BY <1>23 DEF Unfinished, Shape, RuntimeOK
    <2>3. Held'
        BY <2>0, <2>1, <2>2
        DEF WorkInv, Held, Target, Submitting, AtSession, Starting, Before
    <2>4. Untaken'
        BY <2>0, <2>1, <2>2, NoneAssumption
        DEF WorkInv, Untaken, Unsent, Idle, Working, Before
    <2>5. InFlight'
        BY <2>0, <2>1, <2>2 DEF WorkInv, InFlight, Held
    <2>6. Running'
        BY <2>0, <2>1, <2>2 DEF WorkInv, Running, Working
    <2>7. TakenThere'
        BY <2>0, <2>1, <2>2 DEF WorkInv, TakenThere, IsOf
    <2> QED
        BY <2>3, <2>4, <2>5, <2>6, <2>7 DEF WorkInv
<1>24. CASE PrepareFails
    <2>1. /\ UNCHANGED <<message, wire, live, ran, thread.family, thread.bound, worker.message>>
          /\ worker.at \notin {"free", "sent"} /\ worker'.at # "free"
          /\ worker'.at \in Before => worker.at \in Before
        BY <1>24
        DEF PrepareFails, Go, Before, Shape, RowsOK, Place, HolderOK, Holder,
            storeVars, sessionVars
    <2>2. /\ worker'.at \in Submitting => /\ worker.at \in Submitting
                                         /\ worker'.session = worker.session
          /\ worker'.at \in AtSession => worker'.session = thread.bound
          /\ worker'.at \in AtSession \cup Starting \cup {"session"} => Target = thread.family
        BY <1>24
        DEF PrepareFails, Go, Submitting, AtSession, Starting, Shape, HolderOK,
            Holder,
           WorkInv, Held
    <2>3. \A s, f : IsOf(s, f) => IsOf(s, f)'
        BY <1>24 DEF PrepareFails, IsOf, sessionVars
    <2> QED
        BY <2>1, <2>2, <2>3, ReleaseMoves
<1>25. CASE Unanswered
    <2>1. /\ worker.message \in Message /\ worker.at = "sent"
          /\ worker'.at = "free" /\ worker'.message = None /\ None \notin Message
          /\ UNCHANGED <<thread, started, live, ran>> /\ wire' \subseteq wire
        BY <1>25, NoneAssumption, SwitchAssumption
        DEF Unanswered, Free, Shape, HolderOK, Message, sessionVars
    <2>2. /\ message'[worker.message].state = "uncertain"
          /\ message'[worker.message].family = message[worker.message].family
          /\ message'[worker.message].session = message[worker.message].session
          /\ \A n \in Message \ {worker.message} : message'[n] = message[n]
        BY <1>25, <2>1 DEF Unanswered, Shape, RowsOK, MessageRow
    <2>3. message[worker.message].state = "dispatching_to_codex"
        BY <2>1 DEF WorkInv, Held
    <2>0. /\ live \subseteq Message /\ ran \in [Session -> SUBSET Message]
          /\ \A r \in wire : r.message \in Message
        BY DEF Shape, RuntimeOK, Request
    <2>5. Held'
        BY <2>0, <2>1, <2>2, <2>3
        DEF WorkInv, Held, Target, Submitting, AtSession, Starting, Before
    <2>6. Untaken'
        BY <2>0, <2>1, <2>2, <2>3, NoneAssumption
        DEF WorkInv, Untaken, Unsent, Idle, Working, Before
    <2>7. InFlight'
        BY <2>0, <2>1, <2>2, <2>3 DEF WorkInv, InFlight, Held
    <2>8. Running'
        BY <2>0, <2>1, <2>2, <2>3 DEF WorkInv, Running, Working
    <2>9. TakenThere'
        BY <2>0, <2>1, <2>2, <2>3 DEF WorkInv, TakenThere, IsOf
    <2> QED
        BY <2>5, <2>6, <2>7, <2>8, <2>9 DEF WorkInv
<1>26. CASE Restart
    <2>1. /\ wire' = {} /\ live' = {} /\ UNCHANGED <<thread, started, ran>>
          /\ worker'.at = "free" /\ worker'.message = None
        BY <1>26 DEF Restart, Free
    <2>2. \A m \in Message :
             /\ message'[m].family = message[m].family /\ message'[m].session = message[m].session
             /\ message[m].state # "dispatching_to_codex" => message'[m] = message[m]
             /\ message'[m].state # "dispatching_to_codex"
             /\ message[m].state = "dispatching_to_codex" /\ message[m].phase # "claimed"
                => message'[m].state = "uncertain"
        BY <1>26 DEF Restart, Reclaimed, Shape, RowsOK, MessageRow
    <2>3. ASSUME NEW m \in Message, Unsent(m)' PROVE Unsent(m)
        <3>1. None \notin Message
            BY NoneAssumption, SwitchAssumption DEF Message
        <3>2. message'[m].state \in Idle
            BY <2>1, <2>3, <3>1 DEF Unsent
        <3>3. CASE message[m].state = "dispatching_to_codex"
            <4>1. message[m].phase = "claimed" /\ worker.message = m /\ worker.at # "free"
                BY <2>2, <3>1, <3>2, <3>3, NoneAssumption
                DEF Idle, Working, WorkInv, Held, Shape, HolderOK
            <4>2. worker.at \notin Submitting /\ worker.at \in Stage
                BY <4>1 DEF WorkInv, Held, Shape, HolderOK, Holder
            <4> QED
                BY <4>1, <4>2 DEF Unsent, Before, Stage, Submitting, AtSession
        <3>4. CASE message[m].state # "dispatching_to_codex"
            BY <2>2, <3>2, <3>4 DEF Unsent
        <3> QED
            BY <3>3, <3>4
    <2>0. ran \in [Session -> SUBSET Message]
        BY DEF Shape, RuntimeOK
    <2>4. Held'
        BY <2>0, <2>1, <2>2
        DEF WorkInv, Held, Target, Submitting, AtSession, Starting, Before
    <2>5. Untaken'
        BY <2>0, <2>1, <2>3 DEF WorkInv, Untaken
    <2>6. InFlight'
        BY <2>0, <2>1, <2>2 DEF WorkInv, InFlight, Held
    <2>7. Running'
        BY <2>0, <2>1, <2>2 DEF WorkInv, Running, Working
    <2>8. TakenThere'
        BY <2>0, <2>1, <2>2 DEF WorkInv, TakenThere, IsOf
    <2> QED
        BY <2>4, <2>5, <2>6, <2>7, <2>8 DEF WorkInv
<1>27. ASSUME NEW r \in wire, Refuse(r) PROVE WorkInv'
    <2>1. /\ worker.at = "sent" /\ worker.message = r.message /\ worker'.at = "refused"
          /\ wire' = wire \ {r} /\ r.message \in Message
          /\ UNCHANGED <<message, thread, started, live, ran, worker.message, worker.session>>
        BY <1>27
        DEF Refuse, Waits, Go, Shape, HolderOK, Holder, RuntimeOK, Request, storeVars
    <2>2. /\ \A s \in Session : r.message \notin ran[s]
          /\ \A o \in wire : o.message = r.message => o = r
        BY DEF WorkInv, InFlight
    <2>3. r.message \notin live
        BY <2>2 DEF WorkInv, Running, Shape, RowsOK, Place
    <2>4. Held'
        BY <2>1, <2>2, <2>3
        DEF WorkInv, Held, Target, Submitting, AtSession, Starting, Before
    <2>5. Untaken'
        BY <2>1, <2>2, <2>3, NoneAssumption
        DEF WorkInv, Untaken, Unsent, Idle, Working, Before
    <2>6. InFlight'
        BY <2>1, <2>2, <2>3 DEF WorkInv, InFlight, Held
    <2>7. Running'
        BY <2>1, <2>2, <2>3 DEF WorkInv, Running, Working
    <2>8. TakenThere'
        BY <2>1, <2>2, <2>3 DEF WorkInv, TakenThere, IsOf
    <2> QED
        BY <2>4, <2>5, <2>6, <2>7, <2>8 DEF WorkInv
<1>28. CASE UNCHANGED vars
    <2>1. UNCHANGED <<message, thread, worker, started, wire, live, ran>>
        BY <1>28 DEF vars, storeVars, sessionVars
    <2>2. Held'
        BY <2>1 DEF WorkInv, Held, Target, Submitting, AtSession, Starting, Before
    <2>3. Untaken'
        BY <2>1, NoneAssumption DEF WorkInv, Untaken, Unsent, Idle, Working, Before
    <2>4. InFlight'
        BY <2>1 DEF WorkInv, InFlight, Held
    <2>5. Running'
        BY <2>1 DEF WorkInv, Running, Working
    <2>6. TakenThere'
        BY <2>1 DEF WorkInv, TakenThere, IsOf
    <2> QED
        BY <2>2, <2>3, <2>4, <2>5, <2>6 DEF WorkInv
<1>29. CASE Unsaved
    <2>1. /\ worker.message \in Message /\ worker.at \in {"answered", "fail"}
          /\ worker'.at = "free" /\ worker'.message = None /\ None \notin Message
          /\ UNCHANGED <<thread, started, live, ran>> /\ wire' \subseteq wire
        BY <1>29, NoneAssumption, SwitchAssumption
        DEF Unsaved, Free, Shape, HolderOK, Message, sessionVars
    <2>2. /\ message'[worker.message].state \in {"accepted_by_wonder", "uncertain"}
          /\ message[worker.message].phase # "claimed" =>
                 message'[worker.message].state = "uncertain"
          /\ message'[worker.message].family = message[worker.message].family
          /\ message'[worker.message].session = message[worker.message].session
          /\ \A n \in Message \ {worker.message} : message'[n] = message[n]
        BY <1>29, <2>1 DEF Unsaved, Reclaimed, Shape, RowsOK, MessageRow
    <2>3. message[worker.message].state = "dispatching_to_codex"
        BY <2>1 DEF WorkInv, Held
    <2>0. /\ live \subseteq Message /\ ran \in [Session -> SUBSET Message]
          /\ \A r \in wire : r.message \in Message
        BY DEF Shape, RuntimeOK, Request
    <2>4. \/ message'[worker.message].state = "uncertain"
          \/ worker.message \notin live /\ \A s \in Session : worker.message \notin ran[s]
        <3>1. CASE worker.at = "answered"
            BY <2>2, <3>1 DEF WorkInv, Held, Submitting, AtSession
        <3>2. CASE worker.at = "fail"
            BY <2>1, <3>2 DEF WorkInv, Untaken, Unsent, Before
        <3> QED
            BY <2>1, <3>1, <3>2
    <2>5. Held'
        BY <2>0, <2>1, <2>2, <2>3
        DEF WorkInv, Held, Target, Submitting, AtSession, Starting, Before
    <2>10. \A r \in wire : r.message # worker.message
        BY <2>1 DEF WorkInv, InFlight
    <2>6. Untaken'
        BY <2>0, <2>1, <2>2, <2>3, <2>4, <2>10, NoneAssumption
        DEF WorkInv, Untaken, Unsent, Idle, Working, Before
    <2>7. InFlight'
        BY <2>0, <2>1, <2>2, <2>3, <2>10 DEF WorkInv, InFlight, Held
    <2>8. Running'
        BY <2>0, <2>1, <2>2, <2>3, <2>4 DEF WorkInv, Running, Working
    <2>9. TakenThere'
        BY <2>0, <2>1, <2>2, <2>3 DEF WorkInv, TakenThere, IsOf
    <2> QED
        BY <2>5, <2>6, <2>7, <2>8, <2>9 DEF WorkInv
<1>30. ASSUME NEW f \in Family, RuntimeDies(f) PROVE WorkInv'
    <2>1. /\ UNCHANGED <<message, thread, worker, started, ran>>
          /\ live' \subseteq live /\ wire' \subseteq wire
        BY <1>30 DEF RuntimeDies, storeVars
    <2>2. Held'
        BY <2>1 DEF WorkInv, Held, Target, Submitting, AtSession, Starting, Before
    <2>3. Untaken'
        BY <2>1, NoneAssumption DEF WorkInv, Untaken, Unsent, Idle, Working, Before
    <2>4. InFlight'
        BY <2>1 DEF WorkInv, InFlight, Held
    <2>5. Running'
        BY <2>1 DEF WorkInv, Running, Working
    <2>6. TakenThere'
        BY <2>1 DEF WorkInv, TakenThere, IsOf
    <2> QED
        BY <2>2, <2>3, <2>4, <2>5, <2>6 DEF WorkInv
<1> QED
    BY <1>1, <1>2, <1>3, <1>4, <1>5, <1>6, <1>7, <1>8, <1>9, <1>10, <1>11, <1>12,
       <1>13, <1>14,
       <1>15, <1>16, <1>17, <1>18, <1>19, <1>20, <1>21, <1>22, <1>23, <1>24, <1>25, <1>26, <1>27, <1>28,
       <1>29, <1>30
       DEF Next, Owner, Release, Transition, Binding, Submission, Provider, Recovery, Fault

-----------------------------------------------------------------------------
(* The invariant holds in every reachable state.                             *)
THEOREM InductiveInvariant == Spec => []IInv
<1>1. IInv /\ [Next]_vars => IInv'
    BY ShapeStep, SessionsStep, WorkStep DEF IInv
<1> QED
    BY InitOK, <1>1, PTL DEF Spec

(* "The old session is kept": every session in which something ran is the    *)
(* thread's or one entry of its record, through any switch, failure or crash *)
(* (switch_project_runtime, set_project_native_session,                      *)
(* bind_project_runtime).                                                    *)
THEOREM HistoryStays == Spec => []HistoryKept
<1>1. IInv => HistoryKept
    BY DEF IInv, SessionsInv, InOrder, Kept, HistoryKept
<1> QED
    BY InductiveInvariant, <1>1, PTL

(* "Moving never interrupts work": what runs, or may still be taken by a     *)
(* provider, is in the session the thread is bound to (apply_transition and  *)
(* the busy test of switch_project_runtime).                                 *)
THEOREM WorkStaysInTheThread == Spec => []RunsInTheThread
<1>1. IInv => RunsInTheThread
    BY DEF IInv, Shape, RuntimeOK, WorkInv, InFlight, Running, TakenThere,
        RunsInTheThread
<1> QED
    BY InductiveInvariant, <1>1, PTL

(* A message is run by the provider it names, in one session (dispatch,      *)
(* apply_transition).                                                        *)
THEOREM RunByTheChosen == Spec => []RunAsChosen
<1>1. IInv => RunAsChosen
    BY DEF IInv, WorkInv, TakenThere, IsOf, RunAsChosen
<1> QED
    BY InductiveInvariant, <1>1, PTL

-----------------------------------------------------------------------------
(* What is owed: the newest entry of the record, for whoever is bound next.  *)
Owed == pending # NothingOwed
OwedShape ==
    /\ pending.entry = None => ~Owed
    /\ Owed => pending.entry = entries
    /\ thread.bound = None /\ Owed => pending.after = None
    /\ thread.bound = None /\ ~Owed => past = {} /\ \A s \in Session : ran[s] = {}
Doubtless == {"session", "native", "bind", "prepare", "begun"}
NoDoubt == worker.at \in Doubtless => ~Ambiguous

(* The briefing that is carried is the one that is owed. It is the only one  *)
(* on its way and noted, or its answer is awaited, unless its delivery is    *)
(* one that was given up without a note.                                     *)
Briefed == {"begun", "sent", "accepted", "refused", "injected"}
Excepted == <<thread.bound, pending.entry>> \in unnoted
Carries == \A r \in wire :
    /\ News # {} => r.news = News
    /\ r.news # {} => r.entry = entries
    /\ r.news # {} => \/ <<r.session, r.entry>> \in unnoted
                      \/ /\ wire = {r} /\ News = r.news
                         /\ delivery[r.session] = "pending" \/ Waits(r)
Holds ==
    /\ worker.at \in Briefed => /\ worker.news = News
                                /\ News # {} => worker.entry = pending.entry
    /\ worker.at \in {"accepted", "refused"} /\ News # {} => wire = {} \/ Excepted
    /\ worker.at = "injected" => News # {} /\ (wire = {} \/ Excepted)
DeliveredThere == \A s \in Session : delivery[s] # None =>
    thread.bound = s \/ \E e \in past : SessionOf(e) = s

(* What was given is older than what is owed.                                *)
GivenBefore ==
    /\ \A s \in Session : \A i \in 1..Len(given[s]) : given[s][i] <= entries
    /\ \A e \in past : \A i \in 1..Len(given[SessionOf(e)]) : given[SessionOf(e)][i] < e.id
    /\ \A s \in Session : given[s] # <<>> => ran[s] # {}
WasGiven(s, x) == \E i \in 1..Len(given[s]) : given[s][i] = x
Distinct(s) == \A i, j \in 1..Len(given[s]) :
    given[s][i] = given[s][j] => i = j \/ <<s, given[s][i]>> \in unnoted
Once ==
    /\ \A s \in Session : Distinct(s)
    /\ \A r \in wire : r.news # {} =>
           ~WasGiven(r.session, r.entry) \/ <<r.session, r.entry>> \in unnoted
    /\ Owed /\ thread.bound # None /\ WasGiven(thread.bound, pending.entry) =>
           \/ delivery[thread.bound] = "pending" \/ worker.at = "injected"
           \/ worker.at = "accepted" /\ News # {}
           \/ Excepted
    /\ worker.at = "refused" /\ News # {} => ~WasGiven(thread.bound, pending.entry) \/ Excepted

(* Who knows what: whatever ran is owed to the session that is bound or      *)
(* known to it; whatever ran is known to a session that was left, or ran in  *)
(* sessions left after it, or in the one that is bound.                      *)
Ran(m) == \E s \in Session : m \in ran[s]
Heard(m) == thread.bound # None /\ m \in heard[thread.bound]
RanAfter(m, x) == \E o \in past : o.id > x /\ m \in ran[SessionOf(o)]
RanHere(m) == thread.bound # None /\ m \in ran[thread.bound]
Knows == \A m \in Message : Ran(m) =>
    /\ m \in News \/ Heard(m)
    /\ live # {} \/ worker.at \in {"accepted", "injected"} => Heard(m)
    /\ \A e \in past : e.bound # None /\ delivery[e.bound] # "pending" =>
           m \in heard[e.bound] \/ RanAfter(m, e.id) \/ RanHere(m)

BriefOK == /\ delivery \in [Session -> {None, "pending", "injected"}]
           /\ heard \in [Session -> SUBSET Message] /\ given \in [Session -> Seq(Nat)]
BriefInv == /\ BriefOK /\ OwedShape /\ NoDoubt /\ Carries /\ Holds /\ DeliveredThere
            /\ GivenBefore /\ Once /\ (dropped \/ Knows)

(* The briefing, message by message.                                         *)
LEMMA NewsAre ==
    \A m : m \in News <=>
        Owed /\ \E e \in past : /\ pending.after = None \/ e.id > pending.after
                                /\ m \in ran[SessionOf(e)]
    BY DEF News, Owed, Carried

(* Nothing is owed, given or known at the start.                             *)
LEMMA BriefInit == Init => BriefInv
<1> SUFFICES ASSUME Init PROVE BriefInv
    OBVIOUS
<1>1. /\ pending = NothingOwed /\ past = {} /\ entries = 0 /\ wire = {} /\ live = {}
      /\ worker.at = "free" /\ thread.bound = None
      /\ ran = [s \in Session |-> {}] /\ heard = [s \in Session |-> {}]
      /\ given = [s \in Session |-> <<>>] /\ delivery = [s \in Session |-> None]
    BY DEF Init, Free
<1>2. BriefOK /\ OwedShape /\ DeliveredThere
    BY <1>1 DEF BriefOK, OwedShape, Owed, DeliveredThere
<1>3. NoDoubt /\ Carries /\ Holds
    BY <1>1 DEF NoDoubt, Doubtless, Carries, Holds, Briefed
<1>4. GivenBefore /\ Once
    BY <1>1 DEF GivenBefore, Once, Distinct, WasGiven, Owed
<1>5. Knows
    BY <1>1 DEF Knows, Ran
<1> QED
    BY <1>2, <1>3, <1>4, <1>5 DEF BriefInv

(* A step that leaves what is owed, known and given alone.                   *)
LEMMA SameBriefing ==
    ASSUME BriefInv,
           UNCHANGED <<thread.bound, past, entries, pending, delivery, ran, heard, given>>
    PROVE  BriefOK' /\ OwedShape' /\ DeliveredThere' /\ GivenBefore' /\ UNCHANGED News
<1>1. BriefOK' /\ UNCHANGED News
    BY DEF BriefInv, BriefOK, News, Carried, SessionOf
<1>2. OwedShape'
    BY DEF BriefInv, OwedShape, Owed
<1>3. DeliveredThere'
    BY DEF BriefInv, DeliveredThere, SessionOf
<1>4. GivenBefore'
    BY DEF BriefInv, GivenBefore, SessionOf
<1> QED
    BY <1>1, <1>2, <1>3, <1>4

(* A step that leaves the sessions and what is owed alone, and does not      *)
(* answer a request.                                                         *)
LEMMA QuietStep ==
    ASSUME BriefInv,
           UNCHANGED <<thread.bound, past, entries, pending, delivery, ran, heard, given,
                       unnoted, dropped>>,
           wire' \subseteq wire, live' \subseteq live,
           worker'.at \in Briefed =>
               \/ UNCHANGED <<worker.at, worker.news, worker.entry>>
               \/ /\ worker'.at = "begun" /\ worker'.news = News
                  /\ News # {} => worker'.entry = pending.entry,
           worker'.at \in Doubtless => worker.at \in Doubtless \/ ~Ambiguous,
           worker.at = "sent" => UNCHANGED <<worker.at, worker.message>>,
           worker.at = "injected" \/ (worker.at = "accepted" /\ News # {}) =>
               worker'.at = worker.at
    PROVE  BriefInv'
<1>1. BriefOK' /\ OwedShape' /\ DeliveredThere' /\ GivenBefore' /\ UNCHANGED News
    BY SameBriefing
<1>2. NoDoubt'
    BY DEF BriefInv, NoDoubt, Ambiguous
<1>3. Carries'
    <2> SUFFICES ASSUME NEW q \in wire'
                 PROVE  /\ News # {} => q.news = News
                        /\ q.news # {} => q.entry = entries
                        /\ q.news # {} => \/ <<q.session, q.entry>> \in unnoted
                                          \/ /\ wire' = {q} /\ News = q.news
                                             /\ delivery[q.session] = "pending" \/ Waits(q)'
        BY <1>1 DEF Carries
    <2>1. Waits(q) => Waits(q)'
        BY DEF Waits
    <2> QED
        BY <2>1 DEF BriefInv, Carries
<1>4. Holds'
    BY <1>1 DEF BriefInv, Holds, Briefed, Excepted
<1>5. Once'
    BY <1>1 DEF BriefInv, Once, Distinct, WasGiven, Owed, Briefed, Excepted
<1>6. (dropped \/ Knows)'
    BY <1>1 DEF BriefInv, Knows, Ran, Heard, RanAfter, RanHere, SessionOf, Briefed
<1> QED
    BY <1>1, <1>2, <1>3, <1>4, <1>5, <1>6 DEF BriefInv

(* What a request that carries a briefing is noted under.                    *)
LEMMA CarriedEntry ==
    ASSUME IInv, BriefInv, NEW r \in wire, r.news # {}
    PROVE  /\ r.session = thread.bound /\ r.entry = entries
           /\ Owed => r.entry = pending.entry
           /\ \/ <<r.session, r.entry>> \in unnoted
              \/ /\ wire = {r} /\ News = r.news /\ Owed
                 /\ delivery[thread.bound] = "pending" \/ Waits(r)
    BY DEF IInv, WorkInv, InFlight, BriefInv, Carries, OwedShape, News, Owed

(* The worker gives a delivery up: what nothing tells of is excepted.        *)
LEMMA GivenUp ==
    ASSUME IInv, BriefInv,
           UNCHANGED <<thread.bound, past, entries, pending, delivery, ran, heard, given, dropped>>,
           wire' \subseteq wire, live' \subseteq live, unnoted \subseteq unnoted',
           worker'.at = "free",
           worker.at \in {"sent", "accepted", "injected"} => unnoted' = unnoted \cup Unnoted
    PROVE  BriefInv'
<1>1. BriefOK' /\ OwedShape' /\ DeliveredThere' /\ GivenBefore' /\ UNCHANGED News
    BY SameBriefing
<1>2. NoDoubt' /\ Holds'
    BY DEF NoDoubt, Doubtless, Holds, Briefed
<1>3. ASSUME worker.at \in {"sent", "accepted", "injected"}, News # {},
             delivery[thread.bound] # "pending"
      PROVE  Excepted'
    <2>1. worker.news = News /\ worker.entry = pending.entry /\ worker.session = thread.bound
        BY <1>3 DEF BriefInv, Holds, Briefed, IInv, WorkInv, Held, AtSession
    <2> QED
        BY <1>3, <2>1 DEF Unnoted, Excepted
<1>4. Carries'
    <2> SUFFICES ASSUME NEW q \in wire', q.news # {}
                 PROVE  \/ <<q.session, q.entry>> \in unnoted'
                        \/ /\ wire' = {q} /\ News = q.news
                           /\ delivery[q.session] = "pending"
        BY <1>1 DEF Carries, BriefInv
    <2>1. CASE <<q.session, q.entry>> \in unnoted
        BY <2>1
    <2>2. CASE <<q.session, q.entry>> \notin unnoted
        <3>1. /\ q.session = thread.bound /\ q.entry = pending.entry
              /\ wire = {q} /\ News = q.news
              /\ delivery[thread.bound] = "pending" \/ Waits(q)
            BY <2>2, CarriedEntry
        <3>2. wire' = {q}
            BY <3>1
        <3>3. CASE delivery[thread.bound] = "pending"
            BY <3>1, <3>2, <3>3
        <3>4. CASE delivery[thread.bound] # "pending"
            <4>1. worker.at = "sent"
                BY <3>1, <3>4 DEF Waits
            <4>2. Excepted'
                BY <1>3, <3>1, <3>4, <4>1
            <4> QED
                BY <3>1, <4>2 DEF Excepted
        <3> QED
            BY <3>3, <3>4
    <2> QED
        BY <2>1, <2>2
<1>5. Once'
    <2>0. Once
        BY DEF BriefInv
    <2>1. (\A s \in Session : Distinct(s))' /\ \A s, x : WasGiven(s, x)' <=> WasGiven(s, x)
        BY <2>0 DEF Once, Distinct, WasGiven
    <2>2. \A r \in wire' : r.news # {} =>
              ~WasGiven(r.session, r.entry)' \/ <<r.session, r.entry>> \in unnoted'
        BY <2>0, <2>1 DEF Once
    <2>3. ASSUME Owed, thread.bound # None, WasGiven(thread.bound, pending.entry),
                 delivery[thread.bound] # "pending"
          PROVE  Excepted'
        <3>1. CASE Excepted
            BY <3>1 DEF Excepted
        <3>2. CASE ~Excepted
            <4>1. worker.at \in {"accepted", "injected"} /\ News # {}
                BY <2>0, <2>3, <3>2 DEF Once, BriefInv, Holds
            <4> QED
                BY <1>3, <2>3, <4>1
        <3> QED
            BY <3>1, <3>2
    <2> QED
        BY <2>1, <2>2, <2>3 DEF Once, Owed
<1>6. (dropped \/ Knows)'
    BY <1>1 DEF BriefInv, Knows, Ran, Heard, RanAfter, RanHere, SessionOf
<1> QED
    BY <1>1, <1>2, <1>4, <1>5, <1>6 DEF BriefInv

(* The provider refuses the message, and with it the briefing.               *)
LEMMA RefuseStep ==
    ASSUME IInv, BriefInv, NEW r \in wire, Refuse(r)
    PROVE  BriefInv'
<1>1. /\ worker.at = "sent" /\ worker'.at = "refused" /\ UNCHANGED <<worker.news, worker.entry>>
      /\ wire' = wire \ {r} /\ live' = live
      /\ UNCHANGED <<thread, past, entries, pending, delivery, ran, heard, given, unnoted, dropped>>
    BY DEF Refuse, Waits, Go, storeVars, notes, IInv, Shape, HolderOK, Holder
<1>2. BriefOK' /\ OwedShape' /\ DeliveredThere' /\ GivenBefore' /\ UNCHANGED News
    BY <1>1, SameBriefing
<1>3. NoDoubt'
    BY <1>1 DEF NoDoubt, Doubtless
<1>4. Carries'
    <2> SUFFICES ASSUME NEW q \in wire', q.news # {} PROVE <<q.session, q.entry>> \in unnoted
        BY <1>1, <1>2 DEF Carries, BriefInv
    <2> QED
        BY <1>1, CarriedEntry
<1>5. News # {} => /\ r.news # {} /\ r.session = thread.bound /\ r.entry = pending.entry
                   /\ wire' = {} \/ Excepted
    <2> HAVE News # {}
    <2>1. r.news # {} /\ Owed
        BY DEF BriefInv, Carries, News, Owed
    <2> QED
        BY <1>1, <2>1, CarriedEntry DEF Excepted
<1>6. Holds'
    BY <1>1, <1>2, <1>5 DEF BriefInv, Holds, Briefed, Excepted
<1>7. Once'
    <2>0. Once
        BY DEF BriefInv
    <2>1. (\A s \in Session : Distinct(s))' /\ \A s, x : WasGiven(s, x)' <=> WasGiven(s, x)
        BY <1>1, <2>0 DEF Once, Distinct, WasGiven
    <2>2. News' # {} => ~WasGiven(thread.bound, pending.entry)' \/ Excepted'
        BY <1>1, <1>2, <1>5, <2>0, <2>1 DEF Once, Excepted
    <2> QED
        BY <1>1, <1>2, <2>0, <2>1, <2>2 DEF Once, Owed, Excepted
<1>8. (dropped \/ Knows)'
    BY <1>1, <1>2 DEF BriefInv, Knows, Ran, Heard, RanAfter, RanHere, SessionOf
<1> QED
    BY <1>2, <1>3, <1>4, <1>6, <1>7, <1>8 DEF BriefInv

(* switch_project_runtime resumes a session.                                 *)
LEMMA ResumeStep == ASSUME IInv, BriefInv, Resume PROVE BriefInv'
<1>1. PICK e \in past : Resumable = {e} /\ e.native # None /\ e.bound # None
    BY ResumableOne DEF IInv, Shape, SessionsInv, Resume
<1>2. (CHOOSE o \in Resumable : TRUE) = e /\ SessionOf(e) = e.bound
    BY <1>1 DEF SessionOf
<1>3. delivery[e.bound] # "pending" /\ ~Ambiguous
    BY <1>1 DEF Resumable, Candidate
<1>4. wire = {} /\ live = {}
    BY NothingElse DEF IInv, Resume
<1>5. /\ thread'.bound = e.bound /\ worker'.at = "session"
      /\ past' = (past \cup Left) \ {e}
      /\ entries' = IF HasSession THEN entries + 1 ELSE entries
      /\ pending' = IF HasSession THEN [entry |-> entries + 1, after |-> e.id] ELSE pending
      /\ UNCHANGED <<delivery, wire, live, ran, heard, given, unnoted>>
      /\ dropped' = (dropped \/ (HasSession /\ pending # NothingOwed /\ ~Ambiguous))
    BY <1>1, <1>2 DEF Resume, Switch, Go, sessionVars, IInv, Shape, HolderOK, Holder
<1>6. /\ entries \in Nat /\ e.id \in Nat /\ e.id <= entries
      /\ \A o \in past : o.id \in Nat /\ o.id <= entries
      /\ \A o \in past : SessionOf(o) \in Session
      /\ e.bound \in Session
    BY <1>1 DEF IInv, Shape, RowsOK, PastEntry, SessionsInv, InOrder, AllAgree, SessionOf
<1>7. \A o \in Left : /\ HasSession /\ o.id = entries + 1 /\ o.bound = thread.bound
                      /\ thread.bound # None => SessionOf(o) = thread.bound
    BY LeftIsThread DEF IInv, Left, EntryLeft
<1>8. BriefOK' /\ NoDoubt' /\ Carries' /\ Holds'
    BY <1>3, <1>4, <1>5
    DEF BriefInv, BriefOK, NoDoubt, Ambiguous, Carries, Holds, Briefed
<1>9. OwedShape'
    BY <1>1, <1>5, <1>6, NoSessionIsNone, NoneAssumption DEF BriefInv, OwedShape, Owed, NothingOwed
<1>10. DeliveredThere'
    <2> SUFFICES ASSUME NEW s \in Session, delivery[s] # None
                 PROVE  e.bound = s \/ \E o \in past' : SessionOf(o)' = s
        BY <1>5 DEF DeliveredThere
    <2>1. thread.bound = s \/ \E o \in past : SessionOf(o) = s
        BY DEF BriefInv, DeliveredThere
    <2>2. CASE thread.bound = s
        <3>1. HasSession /\ Left # {}
            BY <2>2, NoSessionIsNone DEF HasSession, Left, EntryLeft
        <3>2. PICK o \in Left : TRUE
            BY <3>1
        <3>3. SessionOf(o) = s /\ o.id # e.id
            BY <1>6, <1>7, <2>2, <3>2, NoSessionIsNone
        <3> QED
            BY <1>5, <3>2, <3>3 DEF SessionOf
    <2>3. CASE \E o \in past : SessionOf(o) = s
        BY <1>2, <1>5, <2>3 DEF SessionOf
    <2> QED
        BY <2>1, <2>2, <2>3
<1>11. GivenBefore'
    <2>1. \A s \in Session : \A i \in 1..Len(given[s]) : given[s][i] \in Nat /\ given[s][i] <= entries
        BY DEF BriefInv, BriefOK, GivenBefore
    <2>2. \A s \in Session : \A i \in 1..Len(given[s]) :
              given[s][i] <= entries' /\ given[s][i] < entries + 1
        BY <1>5, <1>6, <2>1
    <2>3. ASSUME NEW o \in past', NEW i \in 1..Len(given[SessionOf(o)])
          PROVE  given[SessionOf(o)][i] < o.id
        <3>1. CASE o \in past
            BY <3>1 DEF BriefInv, GivenBefore
        <3>2. CASE o \in Left
            <4>1. o.id = entries + 1 /\ SessionOf(o) \in Session
                BY <3>2, LeftIsThread DEF IInv, Shape, RowsOK, Place
            <4> QED
                BY <2>2, <4>1
        <3> QED
            BY <1>5, <3>1, <3>2
    <2> QED
        BY <1>5, <2>2, <2>3 DEF BriefInv, GivenBefore, SessionOf
<1>12. Once'
    <2>0. Once
        BY DEF BriefInv
    <2>1. pending'.entry = entries + 1 \/ pending'.entry = pending.entry
        BY <1>5
    <2>2. ASSUME Owed', WasGiven(e.bound, pending'.entry) PROVE FALSE
        <3>1. PICK i \in 1..Len(given[e.bound]) : given[e.bound][i] = pending'.entry
            BY <2>2 DEF WasGiven
        <3>2. given[e.bound][i] < e.id /\ given[e.bound][i] \in Nat
            BY <1>1, <1>2, <1>6 DEF BriefInv, GivenBefore, BriefOK
        <3>3. CASE HasSession
            BY <1>5, <1>6, <3>1, <3>2, <3>3
        <3>4. CASE ~HasSession
            <4>1. pending' = pending /\ pending.entry = entries
                BY <1>5, <2>2, <3>4 DEF BriefInv, OwedShape, Owed
            <4> QED
                BY <1>6, <3>1, <3>2, <4>1
        <3> QED
            BY <3>3, <3>4
    <2> QED
        BY <1>4, <1>5, <2>0, <2>2 DEF Once, Distinct, WasGiven
<1>13. ASSUME Knows, ~dropped' PROVE Knows'
    <2>1. HasSession => ~Owed
        BY <1>3, <1>5, <1>13 DEF Owed
    <2> SUFFICES ASSUME NEW m \in Message, Ran(m)
                 PROVE  /\ m \in News' \/ m \in heard[e.bound]
                        /\ \A o \in past' : o.bound # None /\ delivery[o.bound] # "pending" =>
                              m \in heard[o.bound] \/ RanAfter(m, o.id)' \/ m \in ran[e.bound]
        BY <1>4, <1>5, <1>6, NoSessionIsNone DEF Knows, Ran, Heard, RanHere
    <2>2. /\ m \in News \/ Heard(m)
          /\ \A o \in past : o.bound # None /\ delivery[o.bound] # "pending" =>
                 m \in heard[o.bound] \/ RanAfter(m, o.id) \/ RanHere(m)
        BY <1>13 DEF Knows
    <2>3. ASSUME RanHere(m), NEW x \in Nat, x <= entries PROVE RanAfter(m, x)'
        <3>1. PICK l \in Left : l.id = entries + 1 /\ SessionOf(l) = thread.bound
            BY <1>7, <2>3 DEF RanHere, HasSession, Left, EntryLeft
        <3> QED
            BY <1>5, <1>6, <2>3, <3>1 DEF RanHere, RanAfter, SessionOf
    <2>4. ASSUME NEW x \in Nat, RanAfter(m, x) PROVE RanAfter(m, x)' \/ (m \in ran[e.bound] /\ x < e.id)
        BY <1>2, <1>5, <1>6, <2>4 DEF RanAfter, SessionOf
    <2>5. m \in heard[e.bound] \/ RanAfter(m, e.id)'
        BY <1>1, <1>3, <1>6, <2>2, <2>3, <2>4
    <2>6. ASSUME RanAfter(m, e.id)' PROVE m \in News'
        <3>1. (\A n : n \in News <=>
                  Owed /\ \E o \in past : /\ pending.after = None \/ o.id > pending.after
                                          /\ n \in ran[SessionOf(o)])'
            BY DEF News, Owed, Carried
        <3>2. CASE HasSession
            BY <1>5, <1>6, <2>6, <3>1, <3>2, NoneAssumption DEF RanAfter, Owed, NothingOwed
        <3>3. CASE ~HasSession
            <4>1. Owed
                BY <2>2, <3>3 DEF BriefInv, OwedShape, Heard, HasSession, NewsAre, Ran
            <4>2. pending' = pending /\ pending.after = None
                BY <1>5, <3>3, <4>1 DEF BriefInv, OwedShape, HasSession
            <4> QED
                BY <2>6, <3>1, <4>1, <4>2 DEF RanAfter, Owed
        <3> QED
            BY <3>2, <3>3
    <2>7. ASSUME NEW o \in past', o.bound # None, delivery[o.bound] # "pending"
          PROVE  m \in heard[o.bound] \/ RanAfter(m, o.id)' \/ m \in ran[e.bound]
        <3>1. CASE o \in past
            BY <1>6, <2>2, <2>3, <2>4, <2>7, <3>1
        <3>2. CASE o \in Left
            <4>1. ~Owed /\ o.bound = thread.bound
                BY <1>7, <2>1, <3>2
            <4> QED
                BY <2>2, <4>1 DEF News, Owed, Heard
        <3> QED
            BY <1>5, <3>1, <3>2
    <2> QED
        BY <2>5, <2>6, <2>7
<1> QED
    BY <1>5, <1>8, <1>9, <1>10, <1>11, <1>12, <1>13 DEF BriefInv

(* switch_project_runtime leaves the thread without a session.               *)
LEMMA FreshStep == ASSUME IInv, BriefInv, Fresh PROVE BriefInv'
<1>4. wire = {} /\ live = {}
    BY NothingElse DEF IInv, Fresh
<1>5. /\ thread'.bound = None /\ worker'.at = "session"
      /\ past' = past \cup Left
      /\ entries' = IF HasSession THEN entries + 1 ELSE entries
      /\ pending' = IF HasSession THEN [entry |-> entries + 1, after |-> None] ELSE pending
      /\ UNCHANGED <<delivery, wire, live, ran, heard, given, unnoted>>
      /\ dropped' = (dropped \/ (HasSession /\ pending # NothingOwed /\ ~Ambiguous))
    BY DEF Fresh, Switch, Go, sessionVars, IInv, Shape, HolderOK, Holder
<1>6. /\ entries \in Nat
      /\ \A o \in past : o.id \in Nat /\ o.id <= entries
      /\ \A o \in past : SessionOf(o) \in Session
    BY DEF IInv, Shape, RowsOK, PastEntry, SessionsInv, InOrder, AllAgree, SessionOf
<1>7. \A o \in Left : /\ HasSession /\ o.id = entries + 1 /\ o.bound = thread.bound
                      /\ thread.bound # None => SessionOf(o) = thread.bound
    BY LeftIsThread DEF IInv, Left, EntryLeft
<1>8. BriefOK' /\ NoDoubt' /\ Carries' /\ Holds'
    BY <1>4, <1>5
    DEF BriefInv, BriefOK, NoDoubt, Ambiguous, Carries, Holds, Briefed
<1>9. OwedShape'
    BY <1>5, <1>6, NoneAssumption
    DEF BriefInv, OwedShape, Owed, NothingOwed, HasSession, Left
<1>2. ASSUME thread.bound # None
      PROVE  \E l \in Left : l \in past' /\ l.id = entries + 1 /\ SessionOf(l) = thread.bound
    BY <1>2, <1>5, <1>7 DEF HasSession, Left, EntryLeft
<1>10. DeliveredThere'
    <2> SUFFICES ASSUME NEW s \in Session, delivery[s] # None
                 PROVE  \E o \in past' : SessionOf(o)' = s
        BY <1>5 DEF DeliveredThere
    <2>1. thread.bound = s \/ \E o \in past : SessionOf(o) = s
        BY DEF BriefInv, DeliveredThere
    <2> QED
        BY <1>2, <1>5, <2>1, NoSessionIsNone DEF SessionOf
<1>11. GivenBefore'
    <2>1. \A s \in Session : \A i \in 1..Len(given[s]) : given[s][i] \in Nat /\ given[s][i] <= entries
        BY DEF BriefInv, BriefOK, GivenBefore
    <2>2. \A s \in Session : \A i \in 1..Len(given[s]) :
              given[s][i] <= entries' /\ given[s][i] < entries + 1
        BY <1>5, <1>6, <2>1
    <2>3. ASSUME NEW o \in past', NEW i \in 1..Len(given[SessionOf(o)])
          PROVE  given[SessionOf(o)][i] < o.id
        <3>1. CASE o \in past
            BY <3>1 DEF BriefInv, GivenBefore
        <3>2. CASE o \in Left
            <4>1. o.id = entries + 1 /\ SessionOf(o) \in Session
                BY <3>2, LeftIsThread DEF IInv, Shape, RowsOK, Place
            <4> QED
                BY <2>2, <4>1
        <3> QED
            BY <1>5, <3>1, <3>2
    <2> QED
        BY <1>5, <2>2, <2>3 DEF BriefInv, GivenBefore, SessionOf
<1>12. Once'
    BY <1>4, <1>5 DEF BriefInv, Once, Distinct, WasGiven
<1>13. ASSUME Knows, ~dropped' PROVE Knows'
    <2>1. HasSession => ~Owed \/ Ambiguous
        BY <1>5, <1>13 DEF Owed
    <2> SUFFICES ASSUME NEW m \in Message, Ran(m)
                 PROVE  /\ m \in News'
                        /\ \A o \in past' : o.bound # None /\ delivery[o.bound] # "pending" =>
                              m \in heard[o.bound] \/ RanAfter(m, o.id)'
        BY <1>4, <1>5, <1>6 DEF Knows, Ran, Heard, RanHere
    <2>2. /\ m \in News \/ Heard(m)
          /\ \A o \in past : o.bound # None /\ delivery[o.bound] # "pending" =>
                 m \in heard[o.bound] \/ RanAfter(m, o.id) \/ RanHere(m)
        BY <1>13 DEF Knows
    <2>3. ASSUME RanHere(m), NEW x \in Nat, x <= entries PROVE RanAfter(m, x)'
        BY <1>2, <1>5, <1>6, <2>3 DEF RanHere, RanAfter, SessionOf
    <2>4. ASSUME NEW x \in Nat, RanAfter(m, x) PROVE RanAfter(m, x)'
        BY <1>5, <1>6, <2>4 DEF RanAfter, SessionOf
    <2>6. m \in News'
        <3>1. \A n : n \in News' <=>
                  Owed' /\ \E o \in past' : /\ pending'.after = None \/ o.id > pending'.after
                                            /\ n \in ran'[SessionOf(o)']
            BY DEF News, Owed, Carried
        <3>2. CASE HasSession
            <4>1. Owed' /\ pending'.after = None
                BY <1>5, <1>6, <3>2, NoneAssumption DEF Owed, NothingOwed
            <4>2. PICK s \in Session : m \in ran[s]
                BY DEF Ran
            <4>3. thread.bound = s \/ \E o \in past : SessionOf(o) = s
                BY <4>2 DEF IInv, SessionsInv, Kept
            <4>4. \E o \in past' : SessionOf(o) = s
                BY <1>2, <1>5, <4>3, NoSessionIsNone
            <4> QED
                BY <1>5, <3>1, <4>1, <4>2, <4>4 DEF SessionOf
        <3>3. CASE ~HasSession
            <4>1. m \in News /\ UNCHANGED <<past, pending, ran>>
                BY <1>5, <2>2, <3>3 DEF Heard, HasSession, Left
            <4> QED
                BY <4>1 DEF News, Carried, SessionOf
        <3> QED
            BY <3>2, <3>3
    <2>7. ASSUME NEW o \in past', o.bound # None, delivery[o.bound] # "pending"
          PROVE  m \in heard[o.bound] \/ RanAfter(m, o.id)'
        <3>1. CASE o \in past
            BY <1>6, <2>2, <2>3, <2>4, <2>7, <3>1
        <3>2. CASE o \in Left
            <4>1. ~Owed /\ o.bound = thread.bound
                BY <1>7, <2>1, <2>7, <3>2 DEF Ambiguous
            <4> QED
                BY <2>2, <4>1 DEF News, Owed, Heard
        <3> QED
            BY <1>5, <3>1, <3>2
    <2> QED
        BY <2>6, <2>7
<1> QED
    BY <1>5, <1>8, <1>9, <1>10, <1>11, <1>12, <1>13 DEF BriefInv

(* bind_project_runtime binds a session in which nothing was run yet.        *)
LEMMA BindStep == ASSUME IInv, BriefInv, Bind PROVE BriefInv'
<1> DEFINE s == worker.session
<1>1. /\ s \in Session /\ thread.bound = None /\ thread'.bound = s
      /\ worker'.at = "prepare" /\ worker.at = "bind"
      /\ UNCHANGED <<past, entries, pending, delivery, wire, live, ran, heard, given, unnoted, dropped>>
    BY DEF Bind, Go, IInv, Shape, RowsOK, Place, HolderOK, Holder, Starting, SessionsInv, NewSession,
        sessionVars, notes
<1>2. \A e \in past : SessionOf(e) # s
    BY <1>1 DEF IInv, SessionsInv, NewSession, Starting
<1>3. ran[s] = {} /\ delivery[s] = None /\ given[s] = <<>>
    BY <1>1, <1>2, NoSessionIsNone
    DEF IInv, SessionsInv, Kept, BriefInv, DeliveredThere, GivenBefore
<1>4. wire = {} /\ live = {}
    BY <1>1, NoSessionIsNone DEF IInv, WorkInv, InFlight, Running, Shape, RuntimeOK, Request
<1>5. BriefOK' /\ NoDoubt' /\ Carries' /\ Holds' /\ UNCHANGED News
    BY <1>1, <1>3, <1>4, NoneAssumption
    DEF BriefInv, BriefOK, NoDoubt, Ambiguous, Carries, Holds, Briefed, News, Carried, SessionOf
<1>6. OwedShape'
    BY <1>1, NoSessionIsNone DEF BriefInv, OwedShape, Owed
<1>7. DeliveredThere'
    BY <1>1, NoSessionIsNone DEF BriefInv, DeliveredThere, SessionOf
<1>8. GivenBefore'
    BY <1>1 DEF BriefInv, GivenBefore, SessionOf
<1>9. Once'
    BY <1>1, <1>3, <1>4 DEF BriefInv, Once, Distinct, WasGiven
<1>10. (dropped \/ Knows)'
    BY <1>1, <1>3, <1>4, <1>5 DEF BriefInv, Knows, Ran, Heard, RanAfter, RanHere, SessionOf
<1> QED
    BY <1>5, <1>6, <1>7, <1>8, <1>9, <1>10 DEF BriefInv

(* Where the released message is while it is submitted.                      *)
LEMMA SubmittedHere ==
    ASSUME IInv, worker.at \in AtSession
    PROVE  /\ worker.session = thread.bound /\ thread.bound \in Session /\ thread.bound # None
           /\ \A e \in past : SessionOf(e) \in Session /\ SessionOf(e) # thread.bound
           /\ \A e \in past : e.bound # None => SessionOf(e) = e.bound
    BY NoSessionIsNone
    DEF IInv, Shape, RowsOK, PastEntry, HolderOK, WorkInv, Held, SessionsInv, InOrder, AllAgree, SessionOf

(* What is noted of the delivery to the bound session.                       *)
LEMMA DeliveryNoted ==
    ASSUME IInv, BriefInv, worker.at \in AtSession, NEW d \in {None, "pending", "injected"},
           delivery' = [delivery EXCEPT ![worker.session] = d],
           UNCHANGED <<thread, past, entries, pending, live, ran, heard, given, unnoted, dropped>>,
           worker'.at \notin Doubtless,
           worker'.at \in {"accepted", "injected"} => worker.at \in {"accepted", "injected"}
    PROVE  BriefOK' /\ OwedShape' /\ NoDoubt' /\ DeliveredThere' /\ GivenBefore' /\ UNCHANGED News
           /\ delivery'[thread.bound] = d /\ (dropped \/ Knows)'
<1>1. /\ worker.session = thread.bound /\ thread.bound \in Session /\ thread.bound # None
      /\ \A e \in past : SessionOf(e) \in Session /\ SessionOf(e) # thread.bound
      /\ \A e \in past : e.bound # None => SessionOf(e) = e.bound
    BY SubmittedHere
<1>2. delivery \in [Session -> {None, "pending", "injected"}]
    BY DEF BriefInv, BriefOK
<1>3. BriefOK' /\ OwedShape' /\ NoDoubt' /\ UNCHANGED News
    BY <1>1 DEF BriefInv, BriefOK, OwedShape, Owed, NoDoubt, News, Carried, SessionOf
<1>4. DeliveredThere' /\ delivery'[thread.bound] = d
    BY <1>1, <1>2 DEF BriefInv, DeliveredThere, SessionOf
<1>5. GivenBefore'
    BY DEF BriefInv, GivenBefore, SessionOf
<1>6. \A e \in past : e.bound # None => delivery'[e.bound] = delivery[e.bound]
    BY <1>1, <1>2
<1>7. (dropped \/ Knows)'
    BY <1>3, <1>6 DEF BriefInv, Knows, Ran, Heard, RanAfter, RanHere, SessionOf
<1> QED
    BY <1>3, <1>4, <1>5, <1>7

(* A note is the mark it is to be or, when the write fails, what it was.     *)
LEMMA NoteWrites ==
    ASSUME IInv, BriefInv, worker.at \in AtSession, News # {}, worker.news = News,
           NEW mark \in {None, "pending", "injected"}, Note(mark)
    PROVE  \E d \in {mark, delivery[thread.bound]} :
               /\ d \in {None, "pending", "injected"}
               /\ delivery' = [delivery EXCEPT ![worker.session] = d]
<1>1. worker.session = thread.bound /\ thread.bound \in Session
    BY SubmittedHere
<1>2. delivery \in [Session -> {None, "pending", "injected"}]
    BY DEF BriefInv, BriefOK
<1>3. CASE delivery' = [delivery EXCEPT ![worker.session] = mark]
    BY <1>3
<1>4. CASE UNCHANGED delivery
    <2>1. delivery' = [delivery EXCEPT ![worker.session] = delivery[thread.bound]]
        BY <1>1, <1>2, <1>4
    <2> QED
        BY <1>1, <1>2, <2>1
<1> QED
    BY <1>3, <1>4 DEF Note

(* delivery_started: the session is given what is owed, if it is in doubt    *)
(* about nothing.                                                            *)
LEMMA SubmitStep == ASSUME IInv, BriefInv, Submit PROVE BriefInv'
<1> DEFINE b == thread.bound
           r == [message |-> worker.message, session |-> worker.session,
                 news |-> worker.news, entry |-> worker.entry]
<1>1. /\ worker.at = "begun" /\ worker'.at = "sent"
      /\ UNCHANGED <<worker.message, worker.news, worker.entry, thread, past, entries, pending,
                     live, ran, heard, given, unnoted, dropped>>
      /\ wire' = wire \cup {r}
    BY DEF Submit, Go, IInv, Shape, HolderOK, Holder, notes
<1>2. /\ worker.session = b /\ b \in Session /\ b # None
    BY <1>1, SubmittedHere DEF AtSession
<1>3. worker.news = News /\ (News # {} => worker.entry = pending.entry)
    BY <1>1 DEF BriefInv, Holds, Briefed
<1>4. \A q \in wire : q.news # {} =>
          \/ <<q.session, q.entry>> \in unnoted
          \/ News = q.news /\ delivery[b] = "pending"
    <2> SUFFICES ASSUME NEW q \in wire, q.news # {}
                 PROVE  \/ <<q.session, q.entry>> \in unnoted
                        \/ News = q.news /\ delivery[b] = "pending"
        OBVIOUS
    <2>1. ~Waits(q)
        BY <1>1 DEF Waits
    <2> QED
        BY <2>1, CarriedEntry
<1>5. CASE News = {}
    <2>1. delivery' = delivery
        BY <1>3, <1>5 DEF Submit, Note
    <2>2. BriefOK' /\ OwedShape' /\ DeliveredThere' /\ GivenBefore' /\ UNCHANGED News
        BY <1>1, <2>1, SameBriefing
    <2>3. NoDoubt' /\ Holds'
        BY <1>1, <1>3, <1>5, <2>2 DEF NoDoubt, Doubtless, Holds, Briefed
    <2>4. Carries'
        <3>1. r.news = {} /\ News' = {}
            BY <1>3, <1>5, <2>2
        <3>2. \A q \in wire : q.news # {} => /\ q.entry = entries
                                            /\ <<q.session, q.entry>> \in unnoted
            BY <1>4, <1>5 DEF BriefInv, Carries
        <3> HIDE DEF r
        <3> QED
            BY <1>1, <3>1, <3>2 DEF Carries
    <2>5. Once'
        BY <1>1, <1>3, <1>5, <2>1, <2>2 DEF BriefInv, Once, Distinct, WasGiven, Owed, Excepted
    <2>6. (dropped \/ Knows)'
        BY <1>1, <2>1, <2>2 DEF BriefInv, Knows, Ran, Heard, RanAfter, RanHere, SessionOf
    <2> QED
        BY <2>2, <2>3, <2>4, <2>5, <2>6 DEF BriefInv
<1>6. CASE News # {}
    <2>0. Owed /\ pending.entry = entries
        BY <1>6 DEF News, Owed, BriefInv, OwedShape
    <2>1. PICK d \in {None, "pending", "injected"} :
              delivery' = [delivery EXCEPT ![worker.session] = d]
        BY <1>1, <1>3, <1>6, NoteWrites DEF Submit, AtSession
    <2>2. /\ BriefOK' /\ OwedShape' /\ NoDoubt' /\ DeliveredThere' /\ GivenBefore' /\ UNCHANGED News
          /\ (dropped \/ Knows)'
        BY <1>1, <2>1, DeliveryNoted DEF AtSession, Doubtless
    <2>3. delivery[b] # "pending"
        BY <1>1, <1>2, <2>0 DEF BriefInv, NoDoubt, Doubtless, Ambiguous, Owed
    <2>4. \A q \in wire : /\ q.news = News /\ q.entry = pending.entry /\ q.session = b
                         /\ Excepted
        <3> SUFFICES ASSUME NEW q \in wire
                     PROVE  /\ q.news = News /\ q.entry = pending.entry /\ q.session = b
                            /\ Excepted
            OBVIOUS
        <3>1. q.news = News /\ q.news # {}
            BY <1>6 DEF BriefInv, Carries
        <3>2. q.entry = pending.entry /\ q.session = b
            BY <2>0, <3>1, CarriedEntry
        <3> QED
            BY <1>4, <2>3, <3>1, <3>2 DEF Excepted
    <2>5. r.news = News /\ r.entry = entries /\ r.session = b /\ r.message = worker.message
        BY <1>2, <1>3, <1>6, <2>0
    <2>6. Carries'
        <3>1. CASE wire = {}
            BY <1>1, <2>2, <2>5, <3>1 DEF Carries, Waits
        <3>2. CASE wire # {}
            BY <1>1, <2>0, <2>2, <2>4, <2>5, <3>2 DEF Carries, Excepted
        <3> QED
            BY <3>1, <3>2
    <2>7. Holds'
        BY <1>1, <1>2, <1>3, <2>2 DEF Holds, Briefed
    <2>8. Once'
        <3>1. ~WasGiven(b, pending.entry) \/ Excepted
            BY <1>1, <1>2, <2>0, <2>3 DEF BriefInv, Once
        <3>2. \A q \in wire' : q.entry = pending.entry /\ q.session = b
            BY <1>1, <2>0, <2>4, <2>5
        <3> QED
            BY <1>1, <2>0, <2>2, <3>1, <3>2 DEF BriefInv, Once, Distinct, WasGiven, Owed, Excepted
    <2> QED
        BY <2>2, <2>6, <2>7, <2>8 DEF BriefInv
<1> QED
    BY <1>5, <1>6

(* While the worker has an answer to write down, every other request that    *)
(* carries a briefing is of an excepted delivery.                            *)
LEMMA OthersExcepted ==
    ASSUME IInv, BriefInv, worker.at \in {"accepted", "refused", "injected"}, News # {}
    PROVE  /\ Owed /\ pending.entry = entries
           /\ \A q \in wire : /\ q.news = News /\ q.entry = pending.entry
                              /\ q.session = thread.bound /\ Excepted
    BY DEF News, Owed, BriefInv, OwedShape, Carries, Holds, IInv, WorkInv, InFlight

(* delivery_refused: the session was not given what is owed.                 *)
LEMMA RefusedStep == ASSUME IInv, BriefInv, Refused PROVE BriefInv'
<1>1. /\ worker.at = "refused" /\ worker'.at = "fail"
      /\ UNCHANGED <<thread, past, entries, pending, wire, live, ran, heard, given, unnoted, dropped>>
    BY DEF Refused, Go, IInv, Shape, HolderOK, Holder, sessionVars, notes
<1>2. worker.news = News
    BY <1>1 DEF BriefInv, Holds, Briefed
<1>3. CASE News = {}
    <2>1. delivery' = delivery
        BY <1>2, <1>3 DEF Refused, Note
    <2> QED
        BY <1>1, <2>1, QuietStep DEF Briefed, Doubtless
<1>4. CASE News # {}
    <2>1. PICK d \in {None, "pending", "injected"} :
              delivery' = [delivery EXCEPT ![worker.session] = d]
        BY <1>1, <1>2, <1>4, NoteWrites DEF Refused, AtSession
    <2>2. /\ BriefOK' /\ OwedShape' /\ NoDoubt' /\ DeliveredThere' /\ GivenBefore' /\ UNCHANGED News
          /\ (dropped \/ Knows)'
        BY <1>1, <2>1, DeliveryNoted DEF AtSession, Doubtless
    <2>3. /\ pending.entry = entries
          /\ \A q \in wire : /\ q.news = News /\ q.entry = pending.entry
                             /\ q.session = thread.bound /\ Excepted
        BY <1>1, <1>4, OthersExcepted
    <2>4. Carries' /\ Holds'
        BY <1>1, <2>2, <2>3 DEF Carries, Holds, Briefed, Excepted
    <2>5. Once'
        BY <1>1, <1>4, <2>3 DEF BriefInv, Once, Distinct, WasGiven, Owed, Excepted
    <2> QED
        BY <2>2, <2>4, <2>5 DEF BriefInv
<1> QED
    BY <1>3, <1>4

(* The first write of delivery_accepted.                                     *)
LEMMA InjectedStep == ASSUME IInv, BriefInv, Injected PROVE BriefInv'
<1>1. /\ worker.at = "accepted"
      /\ UNCHANGED <<thread, past, entries, pending, wire, live, ran, heard, given, unnoted, dropped>>
    BY DEF Injected, sessionVars, notes
<1>2. worker.news = News /\ (News # {} => worker.entry = pending.entry)
    BY <1>1 DEF BriefInv, Holds, Briefed
<1>3. CASE News = {}
    <2>1. delivery' = delivery /\ worker'.at = "answered"
        BY <1>2, <1>3 DEF Injected, Note, Go, IInv, Shape, HolderOK, Holder
    <2> QED
        BY <1>1, <1>3, <2>1, QuietStep DEF Briefed, Doubtless
<1>4. CASE News # {}
    <2>1. PICK d \in {None, "pending", "injected"} :
              delivery' = [delivery EXCEPT ![worker.session] = d]
        BY <1>1, <1>2, <1>4, NoteWrites DEF Injected, AtSession
    <2>0. worker'.at = "injected" /\ UNCHANGED <<worker.news, worker.entry>>
        BY <1>2, <1>4 DEF Injected, Go, IInv, Shape, HolderOK, Holder
    <2>2. /\ BriefOK' /\ OwedShape' /\ NoDoubt' /\ DeliveredThere' /\ GivenBefore' /\ UNCHANGED News
          /\ (dropped \/ Knows)'
        BY <1>1, <2>0, <2>1, DeliveryNoted DEF AtSession, Doubtless
    <2>3. /\ pending.entry = entries
          /\ \A q \in wire : /\ q.news = News /\ q.entry = pending.entry
                             /\ q.session = thread.bound /\ Excepted
        BY <1>1, <1>4, OthersExcepted
    <2>4. Carries' /\ Holds'
        BY <1>1, <1>2, <1>4, <2>0, <2>2, <2>3 DEF Carries, Holds, Briefed, Excepted
    <2>5. Once'
        BY <1>1, <2>0, <2>3 DEF BriefInv, Once, Distinct, WasGiven, Owed, Excepted
    <2> QED
        BY <2>2, <2>4, <2>5 DEF BriefInv
<1> QED
    BY <1>3, <1>4

(* The second write of delivery_accepted: nothing is owed any more, or the   *)
(* write fails and the note has to tell.                                     *)
LEMMA ClearStep == ASSUME IInv, BriefInv, ClearPending PROVE BriefInv'
<1>1. /\ worker.at = "injected" /\ worker'.at = "answered"
      /\ UNCHANGED <<thread, past, entries, delivery, wire, live, ran, heard, given, dropped>>
    BY DEF ClearPending, Go, IInv, Shape, HolderOK, Holder, sessionVars
<1>2. /\ thread.bound # None /\ worker.session = thread.bound
      /\ News # {} /\ worker.news = News /\ worker.entry = pending.entry
    BY <1>1, SubmittedHere DEF AtSession, BriefInv, Holds, Briefed
<1>3. /\ pending.entry = entries
      /\ \A q \in wire : /\ q.news = News /\ q.entry = pending.entry
                         /\ q.session = thread.bound /\ Excepted
    BY <1>1, <1>2, OthersExcepted
<1>4. CASE pending' = NothingOwed /\ UNCHANGED unnoted
    <2>1. BriefOK' /\ OwedShape' /\ NoDoubt' /\ Holds' /\ News' = {}
        BY <1>1, <1>2, <1>4 DEF BriefInv, BriefOK, OwedShape, Owed, NothingOwed, NoDoubt, Doubtless,
            Holds, Briefed, News
    <2>2. Carries'
        BY <1>1, <1>3, <1>4, <2>1 DEF Carries, Excepted
    <2>3. DeliveredThere' /\ GivenBefore'
        BY <1>1 DEF BriefInv, DeliveredThere, GivenBefore, SessionOf
    <2>4. Once'
        BY <1>1, <1>2, <1>4 DEF BriefInv, Once, Distinct, WasGiven, Owed
    <2>5. (dropped \/ Knows)'
        BY <1>1 DEF BriefInv, Knows, Ran, Heard, RanAfter, RanHere, SessionOf
    <2> QED
        BY <2>1, <2>2, <2>3, <2>4, <2>5 DEF BriefInv
<1>5. CASE unnoted' = unnoted \cup Unnoted /\ UNCHANGED pending
    <2>1. BriefOK' /\ OwedShape' /\ DeliveredThere' /\ GivenBefore' /\ UNCHANGED News
        BY <1>1, <1>5, SameBriefing
    <2>2. NoDoubt' /\ Holds'
        BY <1>1 DEF NoDoubt, Doubtless, Holds, Briefed
    <2>3. Carries'
        BY <1>1, <1>3, <1>5, <2>1 DEF Carries, Excepted
    <2>4. Once'
        <3>1. delivery[thread.bound] = "pending" \/ Excepted'
            BY <1>1, <1>2, <1>5 DEF Unnoted, Excepted
        <3> QED
            BY <1>1, <1>5, <2>1, <3>1 DEF BriefInv, Once, Distinct, WasGiven, Owed, Excepted
    <2>5. (dropped \/ Knows)'
        BY <1>1, <2>1 DEF BriefInv, Knows, Ran, Heard, RanAfter, RanHere, SessionOf
    <2> QED
        BY <2>1, <2>2, <2>3, <2>4, <2>5 DEF BriefInv
<1> QED
    BY <1>4, <1>5 DEF ClearPending

(* The session runs a message, after the briefing it came with.              *)
LEMMA TakeStep ==
    ASSUME IInv, BriefInv, NEW r \in wire, Take(r)
    PROVE  BriefInv'
<1> DEFINE b == thread.bound
           m == r.message
<1>1. /\ r.session = b /\ b \in Session /\ b # None /\ m \in Message
      /\ (News # {} => r.news = News) /\ r.news \subseteq Message
    BY NoSessionIsNone
    DEF IInv, WorkInv, InFlight, Shape, RuntimeOK, Request, SessionsInv, BriefInv, Carries
<1>2. /\ \A e \in past : SessionOf(e) \in Session /\ SessionOf(e) # b
      /\ \A e \in past : e.bound # None => SessionOf(e) = e.bound
    BY DEF IInv, SessionsInv, InOrder, AllAgree, Shape, RowsOK, PastEntry, SessionOf
<1>3. /\ ran \in [Session -> SUBSET Message] /\ heard \in [Session -> SUBSET Message]
      /\ given \in [Session -> Seq(Nat)] /\ entries \in Nat
    BY DEF IInv, Shape, RuntimeOK, RowsOK, BriefInv, BriefOK
<1>4. /\ ran'[b] = ran[b] \cup {m} /\ heard'[b] = heard[b] \cup r.news \cup {m}
      /\ \A s \in Session \ {b} : ran'[s] = ran[s] /\ heard'[s] = heard[s] /\ given'[s] = given[s]
      /\ given'[b] = IF r.news = {} THEN given[b] ELSE Append(given[b], r.entry)
      /\ heard' \in [Session -> SUBSET Message]
    BY <1>1, <1>3 DEF Take
<1>5. UNCHANGED <<thread, past, entries, pending, delivery, unnoted, dropped>> /\ wire' = wire \ {r}
    BY DEF Take, storeVars, notes
<1>6. UNCHANGED News
    <2>1. \A e \in past : ran'[SessionOf(e)] = ran[SessionOf(e)]
        BY <1>2, <1>4
    <2>2. UNION {ran'[SessionOf(e)] : e \in Carried} = UNION {ran[SessionOf(e)] : e \in Carried}
        BY <2>1 DEF Carried
    <2> QED
        BY <1>5, <2>2 DEF News, Carried, SessionOf
<1>7. r.news # {} => /\ r.entry = entries /\ (Owed => r.entry = pending.entry)
                      /\ \/ <<b, r.entry>> \in unnoted
                         \/ /\ wire' = {} /\ News = r.news /\ Owed
                            /\ delivery[b] = "pending" \/ Waits(r)
    BY <1>1, <1>5, CarriedEntry
<1>8. BriefOK'
    BY <1>1, <1>3, <1>4, <1>5, <1>7 DEF BriefInv, BriefOK, Take
<1>9. OwedShape' /\ DeliveredThere'
    BY <1>1, <1>5 DEF BriefInv, OwedShape, Owed, DeliveredThere, SessionOf
<1>10. \/ UNCHANGED worker /\ ~Waits(r)
       \/ /\ worker.at = "sent" /\ worker'.at = "accepted" /\ Waits(r)
          /\ UNCHANGED <<worker.news, worker.entry>>
    BY DEF Take, Waits, Go, IInv, Shape, HolderOK, Holder
<1>11. News # {} => Owed /\ pending.entry = entries
    BY DEF News, Owed, BriefInv, OwedShape
<1>12. NoDoubt' /\ Carries'
    <2>1. NoDoubt'
        BY <1>5, <1>10 DEF BriefInv, NoDoubt, Doubtless, Ambiguous
    <2>2. \A q \in wire' : q.news # {} => <<q.session, q.entry>> \in unnoted
        BY <1>5, CarriedEntry
    <2> QED
        BY <1>5, <1>6, <2>1, <2>2 DEF BriefInv, Carries
<1>13. Holds'
    <2>1. News # {} => wire' = {} \/ Excepted
        BY <1>1, <1>5, <1>7, <1>11 DEF Excepted
    <2> QED
        BY <1>5, <1>6, <1>10, <2>1 DEF BriefInv, Holds, Briefed, Excepted
<1>14. GivenBefore'
    <2>1. \A i \in 1..Len(given'[b]) : given'[b][i] <= entries
        <3>1. \A i \in 1..Len(given[b]) : given[b][i] <= entries
            BY <1>1 DEF BriefInv, GivenBefore
        <3>2. given[b] \in Seq(Nat)
            BY <1>1, <1>3
        <3>3. CASE r.news = {}
            BY <1>4, <3>1, <3>3
        <3>4. CASE r.news # {}
            BY <1>3, <1>4, <1>7, <3>1, <3>2, <3>4
        <3> QED
            BY <3>3, <3>4
    <2>2. \A s \in Session : \A i \in 1..Len(given'[s]) : given'[s][i] <= entries
        BY <1>4, <2>1 DEF BriefInv, GivenBefore
    <2>3. \A s \in Session : given'[s] # <<>> => ran'[s] # {}
        BY <1>4 DEF BriefInv, GivenBefore
    <2>4. \A e \in past : given'[SessionOf(e)] = given[SessionOf(e)]
        BY <1>2, <1>4
    <2> QED
        BY <1>5, <2>2, <2>3, <2>4 DEF BriefInv, GivenBefore, SessionOf
<1>15. Once'
    <2>0. Once
        BY DEF BriefInv
    <2>1. CASE r.news = {}
        <3>1. given' = given /\ (News # {} => FALSE)
            BY <1>1, <2>1 DEF Take
        <3>2. worker.at = "accepted" /\ News # {} => worker'.at = "accepted"
            BY <3>1
        <3>3. worker'.at = worker.at \/ worker'.at = "accepted"
            BY <1>10
        <3> QED
            BY <1>5, <1>6, <1>10, <2>0, <3>1, <3>2, <3>3 DEF Once, Distinct, WasGiven, Owed, Excepted
    <2>2. CASE r.news # {}
        <3>1. /\ ~WasGiven(b, r.entry) \/ <<b, r.entry>> \in unnoted
              /\ Distinct(b) /\ given[b] \in Seq(Nat) /\ r.entry \in Nat
            BY <1>1, <1>3, <1>7, <2>0, <2>2 DEF Once
        <3>2. given'[b] = Append(given[b], r.entry)
            BY <1>4, <2>2
        <3>3. \A i, j \in 1..Len(given'[b]) :
                  given'[b][i] = given'[b][j] => i = j \/ <<b, given'[b][i]>> \in unnoted
            <4>1. /\ Len(given'[b]) = Len(given[b]) + 1 /\ Len(given[b]) \in Nat
                  /\ given'[b][Len(given[b]) + 1] = r.entry
                  /\ \A i \in 1..Len(given[b]) : given'[b][i] = given[b][i]
                BY <3>1, <3>2
            <4>2. \A i \in 1..Len(given'[b]) : i \in 1..Len(given[b]) \/ i = Len(given[b]) + 1
                BY <4>1
            <4>3. \A i \in 1..Len(given[b]) : given[b][i] # r.entry \/ <<b, r.entry>> \in unnoted
                BY <3>1 DEF WasGiven
            <4>4. \A i, j \in 1..Len(given[b]) :
                      given[b][i] = given[b][j] => i = j \/ <<b, given[b][i]>> \in unnoted
                BY <3>1 DEF Distinct
            <4> QED
                BY <4>1, <4>2, <4>3, <4>4
        <3>4. \A s \in Session : Distinct(s)'
            BY <1>4, <1>5, <2>0, <3>3 DEF Once, Distinct
        <3>5. \A q \in wire' : q.news # {} => <<q.session, q.entry>> \in unnoted
            BY <1>5, CarriedEntry
        <3>6. Owed => \/ delivery[b] = "pending" \/ Excepted
                      \/ worker'.at = "accepted" /\ News # {}
            BY <1>7, <1>10, <2>2 DEF Excepted
        <3>7. worker'.at = "refused" /\ News # {} => Excepted
            <4>1. CASE <<b, r.entry>> \in unnoted
                BY <1>7, <1>11, <2>2, <4>1 DEF Excepted
            <4>2. CASE <<b, r.entry>> \notin unnoted
                BY <1>7, <1>10, <2>2, <4>2 DEF BriefInv, Holds, Excepted
            <4> QED
                BY <4>1, <4>2
        <3> QED
            BY <1>5, <1>6, <3>4, <3>5, <3>6, <3>7 DEF Once, Owed, Excepted
    <2> QED
        BY <2>1, <2>2
<1>16. ASSUME Knows PROVE Knows'
    <2> SUFFICES ASSUME NEW n \in Message, Ran(n)'
                 PROVE  /\ n \in heard'[b]
                        /\ \A e \in past : e.bound # None /\ delivery[e.bound] # "pending" =>
                               n \in heard'[e.bound] \/ RanAfter(n, e.id)' \/ n \in ran'[b]
        BY <1>1, <1>5 DEF Knows, Heard, RanHere
    <2>1. Ran(n) \/ n = m
        BY <1>4 DEF Ran
    <2>2. \A e \in past : e.bound # None => heard'[e.bound] = heard[e.bound]
        BY <1>2, <1>4
    <2>3. \A x : RanAfter(n, x) => RanAfter(n, x)'
        BY <1>2, <1>4, <1>5 DEF RanAfter, SessionOf
    <2>4. n \in heard'[b]
        <3>1. n \in News => n \in r.news
            BY <1>1
        <3> QED
            BY <1>1, <1>4, <1>16, <2>1, <3>1 DEF Knows, Heard
    <2> QED
        BY <1>4, <1>16, <2>1, <2>2, <2>3, <2>4 DEF Knows, RanHere
<1> QED
    BY <1>5, <1>8, <1>9, <1>12, <1>13, <1>14, <1>15, <1>16 DEF BriefInv

(* Every step keeps what is owed, given and known in line.                   *)
LEMMA BriefStep == ASSUME IInv, BriefInv, [Next]_vars PROVE BriefInv'
<1> USE DEF Briefed, Doubtless, storeVars, sessionVars, notes, bounds, Go, Free, Mark
<1>a. worker \in Holder
    BY DEF IInv, Shape, HolderOK
<1>1. ASSUME NEW m \in Message, NEW f \in Family, Send(m, f) PROVE BriefInv'
    BY <1>1, QuietStep DEF Send
<1>2. ASSUME NEW m \in Message, Retry(m) PROVE BriefInv'
    BY <1>2, QuietStep DEF Retry
<1>3. ASSUME NEW m \in Message, Claim(m) PROVE BriefInv'
    <2>1. worker'.at = "transition" /\ worker.at = "free"
        BY <1>3 DEF Claim
    <2> QED
        BY <1>3, <2>1, QuietStep DEF Claim
<1>4. CASE KeepSession
    <2>1. worker'.at = "session" /\ worker.at = "transition"
        BY <1>4, <1>a DEF KeepSession, Holder
    <2> QED
        BY <1>4, <2>1, QuietStep DEF KeepSession
<1>5. CASE Busy
    <2>1. worker'.at = "fail" /\ worker.at = "transition"
        BY <1>5, <1>a DEF Busy, Holder
    <2> QED
        BY <1>5, <2>1, QuietStep DEF Busy
<1>6. CASE Resume
    BY <1>6, ResumeStep
<1>7. CASE Fresh
    BY <1>7, FreshStep
<1>8. CASE UseBound
    <2>1. worker'.at = "prepare" /\ worker.at = "session"
        BY <1>8, <1>a DEF UseBound, Holder
    <2> QED
        BY <1>8, <2>1, QuietStep DEF UseBound
<1>9. CASE StartSession
    <2>1. worker'.at = "native" /\ worker.at = "session"
        BY <1>9, <1>a DEF StartSession, Holder
    <2> QED
        BY <1>9, <2>1, QuietStep DEF StartSession
<1>10. CASE SetNative
    <2>1. worker'.at \in {"bind", "fail"} /\ worker.at = "native" /\ thread'.bound = thread.bound
        BY <1>10, <1>a DEF SetNative, Holder, IInv, Shape, RowsOK, Place
    <2> QED
        BY <1>10, <2>1, QuietStep DEF SetNative
<1>11. CASE Bind
    BY <1>11, BindStep
<1>12. CASE Begin
    <2>1. /\ worker'.at = "begun" /\ worker.at = "prepare" /\ worker'.news = News
          /\ News # {} => worker'.entry = pending.entry
        BY <1>12, <1>a DEF Begin, Holder
    <2> QED
        BY <1>12, <2>1, QuietStep DEF Begin
<1>13. CASE PrepareFails
    <2>1. worker'.at = "fail" /\ worker.at # "injected"
        BY <1>13, <1>a DEF PrepareFails, Holder
    <2> QED
        BY <1>13, <2>1, QuietStep DEF PrepareFails
<1>14. CASE Submit
    BY <1>14, SubmitStep
<1>15. CASE Fail
    <2>1. worker'.at = "free" /\ worker.at = "fail"
        BY <1>15 DEF Fail
    <2> QED
        BY <1>15, <2>1, QuietStep DEF Fail
<1>16. CASE Refused
    BY <1>16, RefusedStep
<1>17. CASE Injected
    BY <1>17, InjectedStep
<1>18. CASE ClearPending
    BY <1>18, ClearStep
<1>19. CASE Answered
    <2>1. worker'.at = "free" /\ worker.at = "answered"
        BY <1>19 DEF Answered
    <2> QED
        BY <1>19, <2>1, QuietStep DEF Answered
<1>20. CASE Unanswered
    <2>1. worker'.at = "free" /\ worker.at = "sent"
        BY <1>20 DEF Unanswered
    <2> QED
        BY <1>20, <2>1, GivenUp DEF Unanswered
<1>21. ASSUME NEW r \in wire, Take(r) PROVE BriefInv'
    BY <1>21, TakeStep
<1>22. ASSUME NEW r \in wire, Refuse(r) PROVE BriefInv'
    BY <1>22, RefuseStep
<1>23. ASSUME NEW m \in Message, TurnEnds(m) PROVE BriefInv'
    BY <1>23, QuietStep DEF TurnEnds
<1>24. ASSUME NEW m \in Message, ScanReceipt(m) PROVE BriefInv'
    BY <1>24, QuietStep DEF ScanReceipt
<1>25. ASSUME NEW m \in Message, Settle(m) PROVE BriefInv'
    BY <1>25, QuietStep DEF Settle
<1>26. ASSUME NEW m \in Message, Unfinished(m) PROVE BriefInv'
    BY <1>26, QuietStep DEF Unfinished
<1>27. CASE Restart
    <2>1. /\ worker'.at = "free" /\ unnoted \subseteq unnoted'
          /\ worker.at \in {"sent", "accepted", "injected"} => unnoted' = unnoted \cup Unnoted
        BY <1>27 DEF Restart
    <2>2. /\ UNCHANGED <<thread.bound, past, entries, pending, delivery, ran, heard, given, dropped>>
          /\ wire' \subseteq wire /\ live' \subseteq live
        BY <1>27 DEF Restart
    <2> QED
        BY <2>1, <2>2, GivenUp
<1>29. CASE Unsaved
    <2>1. worker'.at = "free" /\ worker.at \in {"answered", "fail"}
        BY <1>29 DEF Unsaved
    <2> QED
        BY <1>29, <2>1, QuietStep DEF Unsaved
<1>30. ASSUME NEW f \in Family, RuntimeDies(f) PROVE BriefInv'
    BY <1>30, QuietStep DEF RuntimeDies
<1>28. CASE UNCHANGED vars
    BY <1>28, QuietStep DEF vars
<1> QED
    BY <1>1, <1>2, <1>3, <1>4, <1>5, <1>6, <1>7, <1>8, <1>9, <1>10, <1>11, <1>12, <1>13, <1>14,
       <1>15, <1>16, <1>17, <1>18, <1>19, <1>20, <1>21, <1>22, <1>23, <1>24, <1>25, <1>26, <1>27, <1>28,
       <1>29, <1>30
    DEF Next, Owner, Release, Transition, Binding, Submission, Provider, Recovery, Fault

LEMMA BriefAlways == Spec => []BriefInv
<1>1. IInv /\ BriefInv /\ [Next]_vars => BriefInv'
    BY BriefStep
<1> QED
    BY BriefInit, InductiveInvariant, <1>1, PTL DEF Spec

(* A session is given the context of a switch once, through refusals, lost   *)
(* answers, failed writes and restarts, except by a delivery that was given  *)
(* up while no note told that it may have been made (delivery_started,       *)
(* delivery_accepted and the ambiguity test of apply_transition).            *)
THEOREM ContextOnce == Spec => []GivenOnce
<1>1. BriefInv => GivenOnce
    BY DEF BriefInv, Once, Distinct, GivenOnce
<1> QED
    BY BriefAlways, <1>1, PTL

(* Whoever works on the thread has heard all that was run in it, by any      *)
(* number of switches between any providers, unless what was owed gave way   *)
(* to a later switch (switch_project_runtime and the briefing that prepare   *)
(* reads from project_runtime_history).                                      *)
THEOREM WorkerKnowsAll == Spec => []KnowsAll
<1>1. IInv /\ BriefInv => KnowsAll
    <2> SUFFICES ASSUME IInv, BriefInv, ~dropped, NEW s \in Session, ran[s] \cap live # {},
                        NEW m \in AllRan
                 PROVE  m \in heard[s]
        BY DEF KnowsAll
    <2>1. s = thread.bound /\ live # {} /\ Ran(m) /\ m \in Message
        BY DEF IInv, Shape, RuntimeOK, WorkInv, Running, TakenThere, AllRan, Ran
    <2> QED
        BY <2>1 DEF BriefInv, Knows, Heard
<1> QED
    BY BriefAlways, InductiveInvariant, <1>1, PTL
=============================================================================
