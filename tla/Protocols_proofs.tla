------------------------- MODULE Protocols_proofs -------------------------
(***************************************************************************)
(* What holds of the protocols for any number of requests, calls, keys,    *)
(* attempts, turns, runs and faults: first of the part of Approvals, then  *)
(* of UpdateHandoff, and then of all parts side by side, with the          *)
(* theorems of ComputerControl_proofs and Automations_proofs.              *)
(***************************************************************************)
EXTENDS Protocols, FiniteSetTheorems, TLAPS

(***************************************************************************)
(* Approvals. None of the properties is inductive: each says what the rows *)
(* and the history have come to, and leaves open what the holder of the    *)
(* lock is about to write.  IInv adds how far it is, and what it may still *)
(* do.                                                                     *)
(***************************************************************************)
Owned == Question \cup Tool

(* Which requests and keys the lock is held for at each stage. *)
Stages ==
    /\ holder.at # "free" => holder.req \in Req /\ holder.key # None
    /\ holder.at = "check" => holder.req \in Owned /\ holder.key \in Key
    /\ holder.at \in {"intend", "execute", "act"} => holder.req \in Tool \cup Permitted
    /\ holder.at = "apologise" => holder.req \in Permitted
    /\ holder.req \in Permitted <=> holder.key = "automatic"
    /\ holder.at \in {"persist", "respond", "apologise"} => holder.reply # None
    /\ holder.key = "expired" => /\ holder.reply = "empty"
                                 /\ holder.at \in {"persist", "respond", "finish"}

(* A key and a response are saved together, the deadline saves no other     *)
(* than the empty one, and a decision closes the row.                       *)
KeyWithSaved == \A r \in Req :
    /\ row[r].key = None <=> row[r].saved = None
    /\ row[r].key = "expired" => row[r].saved = "empty"
    /\ row[r].decision # None => row[r].state = "resolved"

(* A call was carried out by the request that reserved it, which had saved  *)
(* a response before.                                                       *)
Reserved == \A c \in Call :
    /\ acted[c] \in {0, 1}
    /\ acted[c] = 1 => call[c] # None
    /\ call[c] # None => /\ call[c] \in Tool \cup Permitted
                         /\ CallOf[call[c]] = c
                         /\ row[call[c]].saved # None

SentIsSaved == \A r \in Owned : sent[r] \subseteq {row[r].saved}

(* What whoever holds the lock may still write over, and has to send. *)
Hold ==
    /\ holder.at \in {"execute", "act"} => row[holder.req].saved # None
    /\ holder.at = "act" => /\ call[CallOf[holder.req]] = holder.req
                            /\ acted[CallOf[holder.req]] = 0
    /\ holder.req \in Owned =>
        /\ holder.at \in {"intend", "execute", "act"} => sent[holder.req] = {}
        /\ holder.at = "persist" /\ row[holder.req].key \in {None, holder.key} =>
             sent[holder.req] = {} \/ holder.reply = row[holder.req].saved
        /\ holder.at = "respond" => holder.reply = row[holder.req].saved
        /\ holder.at = "finish" => sent[holder.req] = {row[holder.req].saved}

IInv == TypeOK /\ Stages /\ KeyWithSaved /\ Reserved /\ SentIsSaved /\ Hold /\ DecidedAsSent

-----------------------------------------------------------------------------
Row == [state : {None, "pending", "resolving", "resolved"},
        key : Key \cup {None, "expired", "automatic"},
        saved : Reply \cup {None},
        decision : Key \cup {None, "expired", "automatic", "server", "turn_ended",
                             "app_server_lost"}]

Holder == [at : {"free", "check", "intend", "execute", "act", "persist", "respond", "apologise",
                 "finish"},
           req : Req \cup {None}, key : Key \cup {None, "expired", "automatic"},
           reply : Reply \cup {None}]

LEMMA InitInv == Init => IInv
<1> SUFFICES ASSUME Init PROVE IInv
  OBVIOUS
<1>1. TypeOK
  <2>1. row \in [Req -> Row]
    BY DEF Init, Row
  <2>2. holder \in Holder
    BY DEF Init, Free, Holder
  <2>3. sent \in [Req -> SUBSET Reply] /\ acted \in [Call -> Nat] /\ attempts \in 0..MaxAttempts
    BY ApprovalsAssumption DEF Init
  <2>4. call \in [Call -> Req \cup {None}] /\ due \subseteq Question /\ broken \subseteq Req
    BY DEF Init
  <2>5. alive \in BOOLEAN /\ turnOver \in BOOLEAN
    BY DEF Init
  <2> QED
    BY <2>1, <2>2, <2>3, <2>4, <2>5 DEF TypeOK, Row, Holder
<1>2. Stages /\ Hold
  BY ApprovalsAssumption DEF Init, Stages, Hold, Free, None, Req, Owned
<1>3. KeyWithSaved /\ Reserved /\ SentIsSaved
  BY DEF Init, KeyWithSaved, Reserved, SentIsSaved, None, Owned, Req
<1>4. DecidedAsSent
  BY ApprovalsAssumption DEF Init, DecidedAsSent, None, Req
<1> QED
  BY <1>1, <1>2, <1>3, <1>4 DEF IInv

-----------------------------------------------------------------------------
(* Steps that leave every saved response, and what was sent and carried     *)
(* out, as it was.                                                          *)

Kept(r) == /\ row'[r].key = row[r].key /\ row'[r].saved = row[r].saved
           /\ row'[r].decision # None => row'[r].state = "resolved"
           /\ row'[r].decision = row[r].decision \/ row'[r].decision \notin Key \cup {"expired"}

LEMMA RowsKept ==
    ASSUME IInv, \A r \in Req : Kept(r), UNCHANGED <<call, sent, acted>>
    PROVE  KeyWithSaved' /\ Reserved' /\ SentIsSaved' /\ DecidedAsSent'
<1>1. KeyWithSaved'
  BY DEF IInv, KeyWithSaved, Kept
<1>2. Reserved'
  <2>1. ASSUME NEW c \in Call, call[c] # None
        PROVE  row'[call[c]].saved = row[call[c]].saved
    <3>1. call[c] \in Req
      BY <2>1 DEF IInv, TypeOK
    <3> QED
      BY <3>1 DEF Kept
  <2> QED
    BY <2>1 DEF IInv, Reserved
<1>3. SentIsSaved'
  BY DEF IInv, SentIsSaved, Kept, Req, Owned
<1>4. DecidedAsSent'
  BY DEF IInv, DecidedAsSent, Kept, Req
<1> QED
  BY <1>1, <1>2, <1>3, <1>4

LEMMA HolderKept ==
    ASSUME IInv, TypeOK', \A r \in Req : Kept(r), UNCHANGED <<call, sent, acted>>,
           holder' \in {holder, Free}
    PROVE  IInv'
<1>1. CASE holder' = holder
  <2>1. Stages'
    BY <1>1 DEF IInv, Stages
  <2>2. Hold'
    BY <1>1 DEF IInv, Stages, Hold, Kept, Req, Owned
  <2> QED
    BY <2>1, <2>2, RowsKept DEF IInv
<1>2. CASE holder' = Free
  <2>1. Stages' /\ Hold'
    BY <1>2, ApprovalsAssumption DEF Free, Stages, Hold, None, Owned
  <2> QED
    BY <2>1, RowsKept DEF IInv
<1> QED
  BY <1>1, <1>2

LEMMA AskStep == ASSUME IInv, NEW r \in Req, Ask(r) PROVE IInv'
<1>1. TypeOK'
  BY DEF IInv, TypeOK, Ask, Set
<1>2. \A q \in Req : Kept(q)
  BY DEF IInv, TypeOK, KeyWithSaved, Ask, Set, Kept, None
<1> QED
  BY <1>1, <1>2, HolderKept DEF Ask

LEMMA PassDeadlineStep == ASSUME IInv, NEW r \in Question, PassDeadline(r) PROVE IInv'
<1>1. TypeOK'
  BY DEF IInv, TypeOK, PassDeadline
<1>2. \A q \in Req : Kept(q)
  BY DEF IInv, KeyWithSaved, PassDeadline, Kept
<1> QED
  BY <1>1, <1>2, HolderKept DEF PassDeadline

(* A row that changes its state stays a row. *)
LEMMA RowStays ==
    ASSUME IInv, NEW r \in Req, NEW s \in {None, "pending", "resolving", "resolved"},
           row' = [row EXCEPT ![r].state = s]
    PROVE  row' \in [Req -> Row]
<1>1. row \in [Req -> Row]
  BY DEF IInv, TypeOK, Row
<1>2. [row[r] EXCEPT !.state = s] \in Row
  BY <1>1 DEF Row
<1> QED
  BY <1>1, <1>2

LEMMA RefuseStep == ASSUME IInv, Refuse \/ Conflict PROVE IInv'
<1>1. holder.req \in Req
  BY DEF IInv, Stages, Refuse, Conflict
<1>2. TypeOK'
  <2>1. row \in [Req -> Row]
    BY DEF IInv, TypeOK, Row
  <2>2. CASE Conflict
    BY <2>1, <2>2 DEF IInv, TypeOK, Conflict, Release, Free, Row
  <2>3. CASE Refuse
    <3> DEFINE s == IF row[holder.req].state = "resolving" THEN "pending" ELSE row[holder.req].state
    <3>1. s \in {None, "pending", "resolving", "resolved"}
      BY <1>1, <2>1 DEF Row
    <3>2. row' = [row EXCEPT ![holder.req].state = s]
      BY <2>3 DEF Refuse, Reset
    <3>3. row' \in [Req -> Row]
      BY <1>1, <3>1, <3>2, RowStays
    <3>4. /\ holder' = Free
          /\ UNCHANGED <<call, due, alive, turnOver, attempts, sent, acted, broken>>
      BY <2>3 DEF Refuse, Release
    <3> QED
      BY <3>3, <3>4 DEF IInv, TypeOK, Free, Row
  <2> QED
    BY <2>2, <2>3
<1>3. \A q \in Req : Kept(q)
  BY <1>1 DEF IInv, TypeOK, KeyWithSaved, Refuse, Conflict, Reset, Kept
<1> QED
  BY <1>2, <1>3, HolderKept DEF Refuse, Conflict, Release

LEMMA AbandonStep == ASSUME IInv, Abandon PROVE IInv'
<1>1. holder.req \in Req
  BY DEF IInv, Stages, Abandon
<1>2. TypeOK'
  BY <1>1 DEF IInv, TypeOK, Abandon, Release, Free
<1>3. \A q \in Req : Kept(q)
  BY DEF IInv, KeyWithSaved, Abandon, Kept
<1> QED
  BY <1>2, <1>3, HolderKept DEF Abandon, Release

(* A row is closed without an answer of the owner or the deadline. *)
Closed(r) == \E why \in {"server", "turn_ended", "app_server_lost"} :
                 row'[r] = [row[r] EXCEPT !.state = "resolved", !.decision = why]

LEMMA ClosedRow ==
    ASSUME IInv, NEW r \in Req, row'[r] = row[r] \/ Closed(r)
    PROVE  row'[r] \in Row /\ Kept(r)
<1>1. row[r] \in Row
  BY DEF IInv, TypeOK, Row
<1>2. CASE row'[r] = row[r]
  BY <1>1, <1>2 DEF IInv, KeyWithSaved, Kept
<1>3. CASE Closed(r)
  <2>1. PICK why \in {"server", "turn_ended", "app_server_lost"} :
            row'[r] = [row[r] EXCEPT !.state = "resolved", !.decision = why]
    BY <1>3 DEF Closed
  <2>2. row'[r] \in Row
    BY <1>1, <2>1 DEF Row
  <2>3. Kept(r)
    BY <1>1, <2>1, ApprovalsAssumption DEF Row, Kept
  <2> QED
    BY <2>2, <2>3
<1> QED
  BY <1>2, <1>3

LEMMA ClosingStep ==
    ASSUME IInv, \A r \in Req : row'[r] = row[r] \/ Closed(r),
           row' = [r \in Req |-> row'[r]],
           UNCHANGED <<call, holder, due, alive, turnOver, attempts, sent, acted, broken>>
    PROVE  IInv'
<1>1. row' \in [Req -> Row]
  BY ClosedRow
<1>2. TypeOK'
  BY <1>1 DEF IInv, TypeOK, Row
<1> QED
  BY <1>2, ClosedRow, HolderKept

LEMMA ServerResolvedStep == ASSUME IInv, NEW r \in Req, ServerResolved(r) PROVE IInv'
<1>1. row' = [q \in Req |-> row'[q]] /\ \A q \in Req : row'[q] = row[q] \/ Closed(q)
  BY DEF IInv, TypeOK, ServerResolved, Closed
<1> QED
  BY <1>1, ClosingStep DEF ServerResolved

LEMMA RetireStep == ASSUME IInv, Retire PROVE IInv'
<1>1. row' = [q \in Req |-> row'[q]] /\ \A q \in Req : row'[q] = row[q] \/ Closed(q)
  BY DEF Retire, Closed
<1> QED
  BY <1>1, ClosingStep DEF Retire

LEMMA RecoverStep == ASSUME IInv, Recover PROVE IInv'
<1>1. row' = [q \in Req |-> row'[q]] /\ \A q \in Req : row'[q] = row[q] \/ Closed(q)
  BY DEF Recover, Closed
<1> QED
  BY <1>1, ClosingStep DEF Recover

LEMMA EndTurnStep == ASSUME IInv, EndTurn PROVE IInv'
<1>1. TypeOK'
  BY DEF IInv, TypeOK, EndTurn
<1>2. \A q \in Req : Kept(q)
  BY DEF IInv, KeyWithSaved, EndTurn, Kept
<1> QED
  BY <1>1, <1>2, HolderKept DEF EndTurn

LEMMA ExitStep == ASSUME IInv, Exit PROVE IInv'
<1>1. TypeOK'
  <2>1. holder' \in Holder
    BY DEF IInv, TypeOK, Exit, Free, Holder
  <2>2. alive' \in BOOLEAN
    BY DEF Exit
  <2> QED
    BY <2>1, <2>2 DEF IInv, TypeOK, Exit, Holder
<1>2. \A q \in Req : Kept(q)
  BY DEF IInv, KeyWithSaved, Exit, Kept
<1> QED
  BY <1>1, <1>2, HolderKept DEF Exit

-----------------------------------------------------------------------------
(* Somebody takes the lock.                                                 *)

(* Before a response is saved, none was sent. *)
LEMMA NothingSent ==
    ASSUME IInv, NEW r \in Owned, row[r].key = None
    PROVE  sent[r] = {}
<1>1. r \in Req
  BY DEF Owned, Req
<1>2. row[r].saved = None
  BY <1>1 DEF IInv, KeyWithSaved
<1>3. sent[r] \subseteq {None} /\ sent[r] \subseteq Reply
  BY <1>1, <1>2 DEF IInv, TypeOK, SentIsSaved
<1>4. None \notin Reply
  BY DEF None, Reply
<1> QED
  BY <1>3, <1>4

LEMMA PermittedIsNotOwned ==
    ASSUME NEW r \in Permitted
    PROVE  r \in Req /\ r \notin Owned /\ r # None
<1>1. r \in Req /\ r # None
  BY ApprovalsAssumption DEF Req, None
<1>2. (Question \cup Tool) \cap Permitted = {}
  BY ApprovalsAssumption
<1>3. r \notin Question \cup Tool
  BY <1>2
<1> QED
  BY <1>1, <1>3 DEF Owned

LEMMA ResolveStep ==
    ASSUME IInv, NEW r \in Owned, NEW k \in Key, Resolve(r, k) PROVE IInv'
<1>1. /\ row' = [row EXCEPT ![r].state = "resolving"]
      /\ holder' = [at |-> "check", req |-> r, key |-> k, reply |-> None]
      /\ UNCHANGED <<call, due, alive, turnOver, sent, acted, broken>>
      /\ r \in Req /\ row[r].state # "resolved"
  BY DEF Resolve, Begin, Set, Active, Owned, Req
<1>2. attempts' \in 0..MaxAttempts
  BY ApprovalsAssumption DEF Resolve, Attempt, IInv, TypeOK
<1>3. TypeOK'
  <2>1. row' \in [Req -> Row]
    BY <1>1, RowStays
  <2> QED
    BY <1>1, <1>2, <2>1 DEF IInv, TypeOK, Row
<1>4. \A q \in Req : Kept(q)
  BY <1>1 DEF IInv, TypeOK, KeyWithSaved, Kept
<1>5. Stages' /\ Hold'
  BY <1>1, ApprovalsAssumption, PermittedIsNotOwned DEF Stages, Hold, None
<1> QED
  BY <1>1, <1>3, <1>4, <1>5, RowsKept DEF IInv

LEMMA ExpireStep == ASSUME IInv, NEW r \in Question, Expire(r) PROVE IInv'
<1>1. /\ row' = [row EXCEPT ![r].state = "resolving"]
      /\ holder' = [at |-> "persist", req |-> r, key |-> "expired", reply |-> "empty"]
      /\ UNCHANGED <<call, due, alive, turnOver, attempts, sent, acted, broken>>
      /\ r \in Req /\ row[r].state = "pending"
  BY DEF Expire, Set, Req
<1>2. TypeOK'
  BY <1>1 DEF IInv, TypeOK, Reply
<1>3. \A q \in Req : Kept(q)
  BY <1>1 DEF IInv, TypeOK, KeyWithSaved, Kept
<1>4. Stages'
  BY <1>1, PermittedIsNotOwned DEF Stages, None, Owned
<1>5. Hold'
  <2>1. row'[r].key = row[r].key /\ row'[r].saved = row[r].saved
    BY <1>3, <1>1 DEF Kept
  <2>2. row[r].key = None => sent[r] = {}
    BY <1>1, NothingSent DEF Owned
  <2>3. row[r].key = "expired" => row[r].saved = "empty"
    BY <1>1 DEF IInv, KeyWithSaved
  <2> QED
    BY <1>1, <2>1, <2>2, <2>3 DEF Hold
<1> QED
  BY <1>1, <1>2, <1>3, <1>4, <1>5, RowsKept DEF IInv

LEMMA AutomaticStep == ASSUME IInv, NEW r \in Permitted, Automatic(r) PROVE IInv'
<1>1. r \in Req /\ r \notin Owned /\ r # None
  BY PermittedIsNotOwned
<1>2. /\ row' = [row EXCEPT ![r].state = IF @ = "pending" THEN "resolving" ELSE @]
      /\ UNCHANGED <<call, due, alive, turnOver, sent, acted, broken>>
      /\ holder'.req = r /\ holder'.key = "automatic"
      /\ holder'.at \in {"respond", "intend"}
      /\ holder'.at = "respond" => holder'.reply = row[r].saved /\ row[r].saved # None
      /\ holder' \in Holder
  <2>1. row[r].saved \in Reply \cup {None}
    BY <1>1 DEF IInv, TypeOK
  <2>2. CASE Recovering(r)
    BY <1>1, <2>1, <2>2 DEF Automatic, Holder, Recovering
  <2>3. CASE ~Recovering(r)
    BY <1>1, <2>3 DEF Automatic, Holder, Reply
  <2> QED
    BY <2>2, <2>3
<1>3. attempts' \in 0..MaxAttempts
  BY ApprovalsAssumption DEF Automatic, Attempt, IInv, TypeOK
<1>4. TypeOK'
  <2>1. row[r].state \in {None, "pending", "resolving", "resolved"}
    BY <1>1 DEF IInv, TypeOK
  <2>2. row' \in [Req -> Row]
    BY <1>1, <1>2, <2>1, RowStays
  <2> QED
    BY <1>2, <1>3, <2>2 DEF IInv, TypeOK, Holder, Row
<1>5. \A q \in Req : Kept(q)
  BY <1>1, <1>2 DEF IInv, TypeOK, KeyWithSaved, Kept
<1>6. Stages'
  BY <1>1, <1>2 DEF Stages, None, Req
<1>7. Hold'
  BY <1>1, <1>2 DEF Hold
<1> QED
  BY <1>2, <1>4, <1>5, <1>6, <1>7, RowsKept DEF IInv

-----------------------------------------------------------------------------
(* Whoever holds the lock goes on.                                          *)

LEMMA AcceptStep == ASSUME IInv, Accept PROVE IInv'
<1> DEFINE r == holder.req
<1>1. r \in Owned /\ r \in Req /\ holder.key \in Key /\ holder.at = "check"
  BY DEF IInv, Stages, Accept, Owned, Req
<1>2. holder \in Holder /\ row[r] \in Row
  BY <1>1 DEF IInv, TypeOK, Holder, Row
<1>3. holder'.req = r /\ holder'.key = holder.key /\ holder' \in Holder
  BY <1>2 DEF Accept, StepWith, Holder, Row, Reply, Recovering
<1>4. \/ holder'.at = "intend" /\ r \in Tool /\ row[r].saved = None
      \/ /\ holder'.at = "persist" /\ holder'.reply # None
         /\ row[r].saved # None => holder'.reply = row[r].saved
  BY <1>2 DEF Accept, StepWith, Holder, None, Recovering
<1>5. row[r].saved = None => sent[r] = {}
  BY <1>1, NothingSent DEF IInv, KeyWithSaved
<1>6. UNCHANGED <<row, call, due, alive, turnOver, attempts, sent, acted, broken>>
  BY DEF Accept
<1>7. TypeOK'
  BY <1>3, <1>6 DEF IInv, TypeOK, Holder
<1>8. \A q \in Req : Kept(q)
  BY <1>6 DEF IInv, KeyWithSaved, Kept
<1>9. Stages'
  BY <1>1, <1>3, <1>4, ApprovalsAssumption, PermittedIsNotOwned DEF Stages, None
<1>10. Hold'
  BY <1>3, <1>4, <1>5, <1>6 DEF Hold
<1> QED
  BY <1>6, <1>7, <1>8, <1>9, <1>10, RowsKept DEF IInv

(* A response is saved: nothing else was sent. *)
LEMMA Saving ==
    ASSUME IInv, NEW r \in Req, NEW k \in Key \cup {"expired", "automatic"}, NEW reply \in Reply,
           row[r].state = "resolving", k = "expired" => reply = "empty", k # None,
           r \in Owned => sent[r] = {} \/ reply = row[r].saved,
           row' = [row EXCEPT ![r].key = k, ![r].saved = reply],
           UNCHANGED <<call, sent, acted>>
    PROVE  row' \in [Req -> Row] /\ KeyWithSaved' /\ Reserved' /\ SentIsSaved' /\ DecidedAsSent'
<1>1. row[r] \in Row /\ row \in [Req -> Row]
  BY DEF IInv, TypeOK, Row
<1>2. row' \in [Req -> Row]
  BY <1>1 DEF Row
<1>3. /\ row'[r].key = k /\ row'[r].saved = reply
      /\ row'[r].state = "resolving" /\ row'[r].decision = row[r].decision
  BY <1>1 DEF Row
<1>4. \A q \in Req : q # r => row'[q] = row[q]
  BY <1>1
<1>5. reply # None
  BY DEF None, Reply
<1>6. row[r].decision = None
  BY DEF IInv, KeyWithSaved, None
<1>7. KeyWithSaved'
  <2> SUFFICES ASSUME NEW q \in Req
               PROVE  /\ row'[q].key = None <=> row'[q].saved = None
                      /\ row'[q].key = "expired" => row'[q].saved = "empty"
                      /\ row'[q].decision # None => row'[q].state = "resolved"
    BY DEF KeyWithSaved
  <2>1. CASE q = r
    BY <1>3, <1>5, <1>6, <2>1
  <2>2. CASE q # r
    BY <1>4, <2>2 DEF IInv, KeyWithSaved
  <2> QED
    BY <2>1, <2>2
<1>8. Reserved'
  <2>1. ASSUME NEW c \in Call, call[c] # None
        PROVE  row'[call[c]].saved # None
    <3>1. call[c] \in Req /\ row[call[c]].saved # None
      BY <2>1 DEF IInv, TypeOK, Reserved
    <3> QED
      BY <3>1, <1>3, <1>4, <1>5
  <2> QED
    BY <2>1 DEF IInv, Reserved
<1>9. SentIsSaved'
  BY <1>3, <1>4 DEF IInv, SentIsSaved, Owned, Req
<1>10. DecidedAsSent'
  <2> SUFFICES ASSUME NEW q \in Question \cup Tool, row'[q].decision \in Key \cup {"expired"}
               PROVE  sent[q] = {row'[q].saved}
    BY DEF DecidedAsSent
  <2>1. None \notin Key \cup {"expired"}
    BY ApprovalsAssumption DEF None
  <2>2. q # r /\ q \in Req
    BY <1>3, <1>6, <2>1 DEF Req
  <2> QED
    BY <1>4, <2>2 DEF IInv, DecidedAsSent
<1> QED
  BY <1>2, <1>7, <1>8, <1>9, <1>10

LEMMA IntendStep == ASSUME IInv, Intend PROVE IInv'
<1> DEFINE r == holder.req
<1>1. /\ r \in Req /\ r \in Tool \cup Permitted /\ holder.at = "intend"
      /\ holder.key \in Key \cup {"expired", "automatic"} /\ holder.key # "expired" /\ holder.key # None
  BY DEF IInv, TypeOK, Stages, Intend
<1>2. CASE ~MaySave(r, holder.key)
  <2>1. TypeOK'
    BY <1>2 DEF Intend, Release, Free, IInv, TypeOK
  <2>2. \A q \in Req : Kept(q)
    BY <1>2 DEF Intend, IInv, KeyWithSaved, Kept
  <2> QED
    BY <1>2, <2>1, <2>2, HolderKept DEF Intend, Release
<1>3. CASE MaySave(r, holder.key)
  <2>1. /\ row' = [row EXCEPT ![r].key = holder.key, ![r].saved = "interrupted"]
        /\ holder' = [holder EXCEPT !.at = "execute"]
        /\ UNCHANGED <<call, due, alive, turnOver, attempts, sent, acted, broken>>
    BY <1>3 DEF Intend, Save, Step
  <2>2. /\ row' \in [Req -> Row] /\ row'[r].saved = "interrupted"
        /\ KeyWithSaved' /\ Reserved' /\ SentIsSaved' /\ DecidedAsSent'
    <3>1. row[r].state = "resolving"
      BY <1>3 DEF MaySave
    <3>2. r \in Owned => sent[r] = {}
      BY <1>1 DEF IInv, Hold
    <3>3. "interrupted" \in Reply
      BY DEF Reply
    <3>4. row' \in [Req -> Row] /\ KeyWithSaved' /\ Reserved' /\ SentIsSaved' /\ DecidedAsSent'
      BY <1>1, <2>1, <3>1, <3>2, <3>3, Saving
    <3>5. row'[r].saved = "interrupted"
      BY <1>1, <2>1 DEF IInv, TypeOK
    <3> QED
      BY <3>4, <3>5
  <2>3. holder' \in Holder /\ holder'.req = r /\ holder'.key = holder.key /\ holder'.at = "execute"
    BY <2>1 DEF IInv, TypeOK, Holder
  <2>4. TypeOK'
    BY <2>1, <2>2, <2>3 DEF IInv, TypeOK, Row, Holder
  <2>5. Stages'
    BY <1>1, <2>3 DEF IInv, Stages
  <2>6. Hold'
    BY <1>1, <2>1, <2>2, <2>3 DEF IInv, Hold, None
  <2> QED
    BY <2>2, <2>4, <2>5, <2>6 DEF IInv
<1> QED
  BY <1>2, <1>3

LEMMA ExecuteStep == ASSUME IInv, Execute PROVE IInv'
<1> DEFINE r == holder.req
           c == CallOf[r]
           first == call[c]
<1>1. /\ r \in Req /\ r \in Tool \cup Permitted /\ holder.at = "execute" /\ row[r].saved # None
      /\ holder.key \in Key \cup {"expired", "automatic"} /\ holder.key # "expired" /\ holder.key # None
  BY DEF IInv, TypeOK, Stages, Hold, Execute
<1>2. c \in Call /\ first \in Req \cup {None} /\ r # None /\ holder \in Holder
  BY <1>1, ApprovalsAssumption DEF IInv, TypeOK, Holder, None
<1>3. UNCHANGED <<row, due, alive, turnOver, attempts, sent, acted, broken>>
  BY DEF Execute
<1>4. \/ /\ first = None /\ call' = [call EXCEPT ![c] = r]
         /\ holder' = [holder EXCEPT !.at = "act"]
      \/ /\ call' = call
         /\ \E reply \in Reply : holder' = [holder EXCEPT !.at = "persist", !.reply = reply]
  <2>1. CASE first = None
    <3>1. "interrupted" \in Reply
      BY DEF Reply
    <3> QED
      BY <2>1, <3>1 DEF Execute, ReservedBy, Step, StepWith
  <2>2. CASE first # None
    <3>1. row[first].saved # None /\ row[first].saved \in Reply \cup {None}
      BY <1>2, <2>2 DEF IInv, TypeOK, Reserved
    <3>2. call' = call /\ holder' = [holder EXCEPT !.at = "persist", !.reply = row[first].saved]
      BY <2>2, <3>1 DEF Execute, ReservedBy, StepWith
    <3> QED
      BY <3>1, <3>2
  <2> QED
    BY <2>1, <2>2
<1>5. /\ holder'.at \in {"act", "persist"} /\ holder'.req = r /\ holder'.key = holder.key
      /\ holder'.at = "act" => first = None /\ call' = [call EXCEPT ![c] = r]
      /\ holder'.at = "persist" => holder'.reply # None /\ call' = call
      /\ holder' \in Holder
  BY <1>2, <1>4 DEF Holder, Reply, None
<1>6. call' \in [Call -> Req \cup {None}]
  BY <1>1, <1>2, <1>4 DEF IInv, TypeOK
<1>7. TypeOK'
  BY <1>3, <1>5, <1>6 DEF IInv, TypeOK, Holder
<1>8. Stages'
  BY <1>1, <1>5 DEF IInv, Stages
<1>9. Reserved'
  <2>1. CASE call' = call
    BY <1>3, <2>1 DEF IInv, Reserved
  <2>2. CASE first = None /\ call' = [call EXCEPT ![c] = r]
    <3> SUFFICES ASSUME NEW d \in Call
                 PROVE  /\ acted'[d] \in {0, 1}
                        /\ acted'[d] = 1 => call'[d] # None
                        /\ call'[d] # None => /\ call'[d] \in Tool \cup Permitted
                                              /\ CallOf[call'[d]] = d
                                              /\ row'[call'[d]].saved # None
      BY DEF Reserved
    <3>1. CASE d = c
      <4>1. call'[d] = r
        BY <1>1, <2>2, <3>1 DEF IInv, TypeOK
      <4> QED
        BY <1>1, <1>2, <1>3, <3>1, <4>1 DEF IInv, Reserved
    <3>2. CASE d # c
      <4>1. call'[d] = call[d]
        BY <1>1, <2>2, <3>2 DEF IInv, TypeOK
      <4> QED
        BY <1>3, <4>1 DEF IInv, Reserved
    <3> QED
      BY <3>1, <3>2
  <2> QED
    BY <1>4, <2>1, <2>2
<1>10. KeyWithSaved' /\ SentIsSaved' /\ DecidedAsSent'
  BY <1>3 DEF IInv, KeyWithSaved, SentIsSaved, DecidedAsSent
<1>11. Hold'
  <2>1. holder'.at = "act" => call'[c] = r /\ acted'[c] = 0
    BY <1>2, <1>3, <1>5 DEF IInv, TypeOK, Reserved
  <2> QED
    BY <1>1, <1>3, <1>5, <2>1 DEF IInv, Hold
<1> QED
  BY <1>7, <1>8, <1>9, <1>10, <1>11 DEF IInv

LEMMA ActStep == ASSUME IInv, Act PROVE IInv'
<1> DEFINE r == holder.req
           c == CallOf[r]
<1>1. /\ r \in Tool \cup Permitted /\ r \in Req /\ holder.at = "act" /\ row[r].saved # None
      /\ holder.key # "expired" /\ holder.key # None
      /\ call[c] = r /\ acted[c] = 0
  BY DEF IInv, TypeOK, Stages, Hold, Act, Req
<1>2. c \in Call /\ r # None /\ holder \in Holder
  BY <1>1, ApprovalsAssumption DEF IInv, TypeOK, Holder, None
<1>3. /\ UNCHANGED <<row, call, due, alive, turnOver, attempts, sent, broken>>
      /\ acted' = [acted EXCEPT ![c] = 1]
      /\ holder' = [holder EXCEPT !.at = "persist", !.reply = "done"]
  BY <1>1, <1>2 DEF Act, StepWith, IInv, TypeOK
<1>4. /\ holder'.at = "persist" /\ holder'.req = r /\ holder'.key = holder.key
      /\ holder'.reply # None /\ holder' \in Holder
  BY <1>2, <1>3 DEF Holder, Reply, None
<1>5. TypeOK'
  BY <1>3, <1>4 DEF IInv, TypeOK, Holder
<1>6. Stages'
  BY <1>1, <1>4 DEF IInv, Stages
<1>7. Reserved'
  BY <1>1, <1>2, <1>3 DEF IInv, TypeOK, Reserved
<1>8. KeyWithSaved' /\ SentIsSaved' /\ DecidedAsSent'
  BY <1>3 DEF IInv, KeyWithSaved, SentIsSaved, DecidedAsSent
<1>9. Hold'
  BY <1>1, <1>3, <1>4 DEF IInv, Hold
<1> QED
  BY <1>5, <1>6, <1>7, <1>8, <1>9 DEF IInv

(* The apology: nothing but the holder moves. *)
LEMMA ApologyStep ==
    ASSUME IInv, \/ Unconfirmed
                 \/ \E r \in Permitted : Unclaimed(r)
    PROVE  IInv'
<1>1. /\ UNCHANGED <<row, call, due, alive, turnOver, sent, acted>>
      /\ attempts' \in 0..MaxAttempts /\ broken' \subseteq Req
      /\ holder' \in Holder /\ holder'.at = "apologise" /\ holder'.key = "automatic"
      /\ holder'.reply # None /\ holder'.req \in Permitted
  <2>1. ASSUME NEW r \in Permitted, Unclaimed(r)
        PROVE  /\ attempts' \in 0..MaxAttempts /\ broken' \subseteq Req
               /\ holder' \in Holder /\ holder'.at = "apologise" /\ holder'.key = "automatic"
               /\ holder'.reply # None /\ holder'.req \in Permitted
    BY <2>1, ApprovalsAssumption
       DEF Unclaimed, Attempt, IInv, TypeOK, Holder, Reply, Req, None
  <2>2. ASSUME Unconfirmed
        PROVE  /\ attempts' \in 0..MaxAttempts /\ broken' \subseteq Req
               /\ holder' \in Holder /\ holder'.at = "apologise" /\ holder'.key = "automatic"
               /\ holder'.reply # None /\ holder'.req \in Permitted
    <3>1. holder.req \in Permitted
      BY <2>2 DEF Unconfirmed, IInv, Stages
    <3>2. holder \in Holder /\ holder.key = "automatic" /\ "unconfirmed" \in Reply
      BY <2>2 DEF Unconfirmed, IInv, TypeOK, Holder, Reply
    <3> QED
      BY <2>2, <3>1, <3>2 DEF Unconfirmed, StepWith, IInv, TypeOK, Holder, Req, None
  <2> QED
    BY <2>1, <2>2 DEF Unclaimed, Unconfirmed
<1>2. holder'.req \notin Owned /\ holder'.req \in Req /\ "automatic" # "expired" /\ "automatic" # None
  BY <1>1, PermittedIsNotOwned DEF None
<1>3. TypeOK'
  BY <1>1 DEF IInv, TypeOK, Holder
<1>4. Stages' /\ Hold'
  BY <1>1, <1>2 DEF Stages, Hold
<1> QED
  BY <1>1, <1>3, <1>4 DEF IInv, KeyWithSaved, Reserved, SentIsSaved, DecidedAsSent

LEMMA PersistStep == ASSUME IInv, Persist PROVE IInv'
<1> DEFINE r == holder.req
<1>1. /\ r \in Req /\ holder.at = "persist" /\ holder.reply \in Reply
      /\ holder.key \in Key \cup {"expired", "automatic"} /\ holder.key # None
  BY DEF IInv, TypeOK, Stages, Persist
<1>2. CASE ~MaySave(r, holder.key)
  <2>1. TypeOK'
    BY <1>2 DEF Persist, Release, Free, IInv, TypeOK
  <2>2. \A q \in Req : Kept(q)
    BY <1>2 DEF Persist, IInv, KeyWithSaved, Kept
  <2> QED
    BY <1>2, <2>1, <2>2, HolderKept DEF Persist, Release
<1>3. CASE MaySave(r, holder.key)
  <2>1. /\ row' = [row EXCEPT ![r].key = holder.key, ![r].saved = holder.reply]
        /\ holder' = [holder EXCEPT !.at = "respond"]
        /\ UNCHANGED <<call, due, alive, turnOver, attempts, sent, acted, broken>>
    BY <1>3 DEF Persist, Save, Step
  <2>2. row' \in [Req -> Row] /\ KeyWithSaved' /\ Reserved' /\ SentIsSaved' /\ DecidedAsSent'
    <3>1. row[r].state = "resolving" /\ row[r].key \in {None, holder.key}
      BY <1>3 DEF MaySave
    <3>2. r \in Owned => sent[r] = {} \/ holder.reply = row[r].saved
      BY <1>1, <3>1 DEF IInv, Hold
    <3>3. holder.key = "expired" => holder.reply = "empty"
      BY DEF IInv, Stages
    <3> QED
      BY <1>1, <2>1, <3>1, <3>2, <3>3, Saving
  <2>3. row'[r].saved = holder.reply
    BY <1>1, <2>1 DEF IInv, TypeOK
  <2>4. /\ holder' \in Holder /\ holder'.req = r /\ holder'.key = holder.key
        /\ holder'.at = "respond" /\ holder'.reply = holder.reply
    BY <2>1 DEF IInv, TypeOK, Holder
  <2>5. TypeOK'
    BY <2>1, <2>2, <2>4 DEF IInv, TypeOK, Row, Holder
  <2>6. Stages'
    BY <1>1, <2>4 DEF IInv, Stages, None, Reply
  <2>7. Hold'
    BY <2>3, <2>4 DEF Hold
  <2> QED
    BY <2>2, <2>5, <2>6, <2>7 DEF IInv
<1> QED
  BY <1>2, <1>3

(* What is written to the runtime for r, if anything is. *)
LEMMA Writing ==
    ASSUME IInv, NEW r \in Req, NEW reply \in Reply, r \in Owned => reply = row[r].saved,
           \/ sent' = sent
           \/ sent' = [sent EXCEPT ![r] = @ \cup {reply}],
           UNCHANGED row
    PROVE  sent' \in [Req -> SUBSET Reply] /\ SentIsSaved' /\ DecidedAsSent'
<1>1. sent' \in [Req -> SUBSET Reply]
  BY DEF IInv, TypeOK
<1>2. ASSUME NEW q \in Owned
      PROVE  /\ sent'[q] \subseteq {row[q].saved}
             /\ sent[q] = {row[q].saved} => sent'[q] = {row[q].saved}
  <2>1. q \in Req
    BY DEF Owned, Req
  <2>2. sent[q] \subseteq {row[q].saved}
    BY DEF IInv, SentIsSaved
  <2>3. sent'[q] = sent[q] \/ (q = r /\ sent'[q] = sent[q] \cup {reply})
    BY <2>1 DEF IInv, TypeOK
  <2>4. CASE sent'[q] = sent[q]
    BY <2>2, <2>4
  <2>5. CASE q = r /\ sent'[q] = sent[q] \cup {reply}
    <3>1. reply = row[q].saved
      BY <2>5
    <3> QED
      BY <2>2, <2>5, <3>1
  <2> QED
    BY <2>3, <2>4, <2>5
<1>3. SentIsSaved'
  BY <1>2 DEF SentIsSaved
<1>4. DecidedAsSent'
  BY <1>2 DEF IInv, DecidedAsSent, Owned
<1> QED
  BY <1>1, <1>3, <1>4

LEMMA RespondStep == ASSUME IInv, Respond PROVE IInv'
<1> DEFINE r == holder.req
<1>1. /\ r \in Req /\ holder.at = "respond" /\ holder.reply \in Reply /\ holder.key # None
      /\ r \in Owned => holder.reply = row[r].saved
  BY DEF IInv, TypeOK, Stages, Hold, Respond
<1>2. /\ UNCHANGED <<row, call, due, alive, turnOver, attempts, acted>>
      /\ sent' = sent \/ sent' = [sent EXCEPT ![r] = @ \cup {holder.reply}]
      /\ broken' = broken \/ broken' = broken \cup {r}
      /\ \/ holder' = [holder EXCEPT !.at = "finish"]
            /\ sent' = [sent EXCEPT ![r] = @ \cup {holder.reply}]
         \/ r \in Permitted /\ holder' = [holder EXCEPT !.at = "apologise", !.reply = "unconfirmed"]
         \/ r \notin Permitted /\ holder' = Free
  BY DEF Respond, Step, StepWith, Release
<1>3. sent' \in [Req -> SUBSET Reply] /\ SentIsSaved' /\ DecidedAsSent'
  BY <1>1, <1>2, Writing
<1>4. KeyWithSaved' /\ Reserved'
  BY <1>2 DEF IInv, KeyWithSaved, Reserved
<1>5. broken' \subseteq Req
  BY <1>1, <1>2 DEF IInv, TypeOK
<1>6. holder' \in Holder
  <2>1. holder \in Holder /\ Free \in Holder
    BY DEF IInv, TypeOK, Holder, Free
  <2>2. [holder EXCEPT !.at = "finish"] \in Holder
    BY <2>1 DEF Holder
  <2>3. [holder EXCEPT !.at = "apologise", !.reply = "unconfirmed"] \in Holder
    BY <2>1 DEF Holder, Reply
  <2> QED
    BY <1>2, <2>1, <2>2, <2>3
<1>7. TypeOK'
  BY <1>2, <1>3, <1>5, <1>6 DEF IInv, TypeOK, Holder
<1>8. CASE /\ holder' = [holder EXCEPT !.at = "finish"]
           /\ sent' = [sent EXCEPT ![r] = @ \cup {holder.reply}]
  <2>1. holder'.at = "finish" /\ holder'.req = r /\ holder'.key = holder.key /\ holder'.reply = holder.reply
    BY <1>8 DEF IInv, TypeOK
  <2>2. r \in Owned => sent'[r] = {row[r].saved}
    <3> SUFFICES ASSUME r \in Owned PROVE sent'[r] = {row[r].saved}
      OBVIOUS
    <3>1. sent'[r] = sent[r] \cup {row[r].saved}
      BY <1>1, <1>8 DEF IInv, TypeOK
    <3>2. sent[r] \subseteq {row[r].saved}
      BY DEF IInv, SentIsSaved
    <3> QED
      BY <3>1, <3>2
  <2>3. Stages' /\ Hold'
    BY <1>1, <1>2, <2>1, <2>2 DEF IInv, Stages, Hold
  <2> QED
    BY <1>3, <1>4, <1>7, <2>3 DEF IInv
<1>9. CASE r \in Permitted /\ holder' = [holder EXCEPT !.at = "apologise", !.reply = "unconfirmed"]
  <2>1. /\ holder'.at = "apologise" /\ holder'.req = r /\ holder'.key = holder.key
        /\ holder'.reply # None
    BY <1>9 DEF IInv, TypeOK, None
  <2>2. holder.key # "expired"
    BY <1>9 DEF IInv, Stages
  <2>3. Stages' /\ Hold'
    BY <1>1, <1>9, <2>1, <2>2 DEF IInv, Stages, Hold
  <2> QED
    BY <1>3, <1>4, <1>7, <2>3 DEF IInv
<1>10. CASE holder' = Free
  <2>1. Stages' /\ Hold'
    BY <1>10, ApprovalsAssumption DEF Free, Stages, Hold, None, Owned
  <2> QED
    BY <1>3, <1>4, <1>7, <2>1 DEF IInv
<1> QED
  BY <1>2, <1>8, <1>9, <1>10

LEMMA ApologiseStep == ASSUME IInv, Apologise PROVE IInv'
<1> DEFINE r == holder.req
<1>1. r \in Req /\ r \notin Owned /\ holder.at = "apologise"
      /\ holder.reply \in Reply /\ holder.key # "expired" /\ holder.key # None
  BY PermittedIsNotOwned DEF IInv, TypeOK, Stages, Apologise
<1>2. /\ UNCHANGED <<row, call, due, alive, turnOver, attempts, acted, broken>>
      /\ holder' = [holder EXCEPT !.at = "finish"]
      /\ sent' = sent \/ sent' = [sent EXCEPT ![r] = @ \cup {holder.reply}]
  BY DEF Apologise, Step
<1>3. sent' \in [Req -> SUBSET Reply] /\ SentIsSaved' /\ DecidedAsSent'
  BY <1>1, <1>2, Writing
<1>4. holder' \in Holder /\ holder'.at = "finish" /\ holder'.req = r /\ holder'.key = holder.key
  BY <1>2 DEF IInv, TypeOK, Holder
<1>5. TypeOK'
  BY <1>2, <1>3, <1>4 DEF IInv, TypeOK, Holder
<1>6. Stages' /\ Hold'
  BY <1>1, <1>4 DEF IInv, Stages, Hold
<1> QED
  BY <1>2, <1>3, <1>5, <1>6 DEF IInv, KeyWithSaved, Reserved

LEMMA DecidedRow ==
    ASSUME NEW old \in Row, NEW k \in Key \cup {"expired", "automatic"}
    PROVE  LET closed == [old EXCEPT !.state = "resolved", !.decision = k]
           IN  /\ closed \in Row /\ closed.state = "resolved"
               /\ closed.key = old.key /\ closed.saved = old.saved
  BY DEF Row

LEMMA FinishStep == ASSUME IInv, Finish PROVE IInv'
<1> DEFINE r == holder.req
<1>1. /\ r \in Req /\ holder.at = "finish" /\ row[r] \in Row /\ row \in [Req -> Row]
      /\ holder.key \in Key \cup {"expired", "automatic"}
      /\ r \in Owned => sent[r] = {row[r].saved}
  BY DEF IInv, TypeOK, Stages, Hold, Finish, Row
<1>2. /\ UNCHANGED <<call, due, alive, turnOver, attempts, sent, acted, broken>>
      /\ holder' = Free
  BY DEF Finish, Release
<1>3. PICK closed \in Row : /\ row' = [row EXCEPT ![r] = closed]
                            /\ closed.key = row[r].key /\ closed.saved = row[r].saved
                            /\ closed = row[r] \/ closed.state = "resolved"
  <2>1. CASE row[r].state = "resolving"
    BY <1>1, <2>1, DecidedRow DEF Finish
  <2>2. CASE row[r].state # "resolving"
    BY <1>1, <2>2 DEF Finish
  <2> QED
    BY <2>1, <2>2
<1>4. /\ \A q \in Req : q # r => row'[q] = row[q]
      /\ row'[r].key = row[r].key /\ row'[r].saved = row[r].saved
      /\ row'[r] = row[r] \/ row'[r].state = "resolved"
      /\ row' \in [Req -> Row]
  BY <1>1, <1>3
<1>5. TypeOK'
  BY <1>2, <1>4 DEF IInv, TypeOK, Row, Free
<1>6. KeyWithSaved'
  BY <1>4 DEF IInv, KeyWithSaved
<1>7. Reserved'
  <2>1. ASSUME NEW c \in Call, call[c] # None
        PROVE  row'[call[c]].saved = row[call[c]].saved
    <3>1. call[c] \in Req
      BY <2>1 DEF IInv, TypeOK
    <3> QED
      BY <1>4, <3>1
  <2> QED
    BY <1>2, <2>1 DEF IInv, Reserved
<1>8. SentIsSaved'
  BY <1>2, <1>4 DEF IInv, SentIsSaved, Owned, Req
<1>9. DecidedAsSent'
  <2>1. ASSUME NEW q \in Question \cup Tool, q # r
        PROVE  row'[q] = row[q]
    BY <1>4, <2>1 DEF Req
  <2>2. r \in Question \cup Tool => sent'[r] = {row'[r].saved}
    BY <1>1, <1>2, <1>4 DEF Owned
  <2> QED
    BY <1>2, <2>1, <2>2 DEF IInv, DecidedAsSent
<1>10. Stages' /\ Hold'
  BY <1>2, ApprovalsAssumption DEF Free, Stages, Hold, None, Owned
<1> QED
  BY <1>5, <1>6, <1>7, <1>8, <1>9, <1>10 DEF IInv

-----------------------------------------------------------------------------
LEMMA NextStep == ASSUME IInv, [Next]_vars PROVE IInv'
<1>1. CASE \E r \in Req : Ask(r) \/ ServerResolved(r)
  BY <1>1, AskStep, ServerResolvedStep
<1>2. CASE \E r \in Question : PassDeadline(r) \/ Expire(r)
  BY <1>2, PassDeadlineStep, ExpireStep
<1>3. CASE \E r \in Question \cup Tool, k \in Key : Resolve(r, k)
  BY <1>3, ResolveStep DEF Owned
<1>4. CASE \E r \in Permitted : Automatic(r) \/ Unclaimed(r)
  BY <1>4, AutomaticStep, ApologyStep
<1>5. CASE Going
  BY <1>5, RefuseStep, AcceptStep, IntendStep, ExecuteStep, ActStep, PersistStep,
     RespondStep, ApologiseStep, FinishStep DEF Going
<1>6. CASE Abandon \/ Unconfirmed
  BY <1>6, AbandonStep, ApologyStep
<1>7. CASE EndTurn \/ Retire \/ Exit \/ Recover
  BY <1>7, EndTurnStep, RetireStep, ExitStep, RecoverStep
<1>8. CASE UNCHANGED vars
  BY <1>8 DEF vars, IInv, TypeOK, Stages, KeyWithSaved, Reserved, SentIsSaved, Hold, DecidedAsSent
<1> QED
  BY <1>1, <1>2, <1>3, <1>4, <1>5, <1>6, <1>7, <1>8 DEF Next

(* The invariant and its parts. *)
LEMMA Invariance == Spec => []IInv
<1>1. IInv /\ [Next]_vars => IInv'
  BY NextStep
<1> QED
  BY <1>1, InitInv, PTL DEF Spec

(* Every variable keeps its type: a row has a key and a response out of     *)
(* those that were ever given, and only requests are broken off.            *)
THEOREM TypeCorrect == Spec => []TypeOK
<1>1. IInv => TypeOK
  BY DEF IInv
<1> QED
  BY <1>1, Invariance, PTL

(* The runtime is given one answer at most to each request that somebody    *)
(* has to answer: what is sent is what the row keeps, and a response is     *)
(* replaced only while nothing was sent (approval_service and store).       *)
THEOREM AnsweredOnce == Spec => []OneAnswer
<1>1. IInv => OneAnswer
  <2> SUFFICES ASSUME IInv, NEW r \in Question \cup Tool
               PROVE  Cardinality(sent[r]) <= 1
    BY DEF OneAnswer
  <2>1. sent[r] \subseteq {row[r].saved}
    BY DEF IInv, SentIsSaved, Owned
  <2>2. IsFiniteSet({row[r].saved}) /\ Cardinality({row[r].saved}) = 1
    BY FS_Singleton
  <2>3. Cardinality(sent[r]) <= Cardinality({row[r].saved})
    BY <2>1, <2>2, FS_Subset
  <2> QED
    BY <2>2, <2>3
<1> QED
  BY <1>1, Invariance, PTL

(* A call of the computer tool is carried out once at most, by the request  *)
(* that reserved it (execute_once).                                         *)
THEOREM CarriedOutOnce == Spec => []ActedOnce
<1>1. IInv => ActedOnce
  BY DEF IInv, Reserved, ActedOnce
<1> QED
  BY <1>1, Invariance, PTL

(* No call is carried out without a response on record that a restart can   *)
(* send (the interrupted receipt of resolve_approval and automatic_reply).  *)
THEOREM ReceiptComesFirst == Spec => []ReceiptFirst
<1>1. IInv => ReceiptFirst
  BY DEF IInv, Reserved, ReceiptFirst
<1> QED
  BY <1>1, Invariance, PTL

(* What the row says was decided by the owner or the deadline is what the   *)
(* runtime was told.                                                        *)
THEOREM DecidedIsSent == Spec => []DecidedAsSent
<1>1. IInv => DecidedAsSent
  BY DEF IInv
<1> QED
  BY <1>1, Invariance, PTL

(***************************************************************************)
(* The update handoff. A stopped turn is continued by one request at most  *)
(* because the request leaves only with the write that takes its handoff   *)
(* out of "paused" (claim_update_continuation), and no handoff gets there  *)
(* twice: Unsent. That the turn was cut off is what Look has read without  *)
(* a lock on the runtime (Held: a record of a turn that is cut off does    *)
(* not change), that its owner has not stopped it is what his Stop leaves  *)
(* behind (StopRespected), and Begun keeps both about turns that exist.    *)
(***************************************************************************)
Limits == /\ MaxTurns \in Nat \ {0} /\ MaxUpdates \in Nat
          /\ MaxStops \in Nat /\ MaxFaults \in Nat

(* Before it is submitting, a handoff was never sent: no request carries it *)
(* and no turn continues it (claim_update_continuation).                    *)
Unsent ==
    \A h \in Handoff!Turn : handoff[h] \in {"none", "paused"} =>
        sends[h] = 0 /\ h \notin wire /\ \A t \in Handoff!Turn : carries[t] # h

(* What a row, a request or the worker names is a turn that the runtime     *)
(* began.                                                                   *)
Begun ==
    /\ history[message.turn] # "none"
    /\ \A t \in Handoff!Turn : (handoff[t] # "none" \/ carries[t] # Handoff!None) => history[t] # "none"
    /\ worker.turn # Handoff!None => history[worker.turn] # "none"
    /\ worker.next # Handoff!None => history[worker.next] # "none"

(* What the holder of the lock knows at each stage: above all, that a turn  *)
(* which it is about to continue was interrupted, and that a Stop which it  *)
(* carries on with has found no handoff waiting.                            *)
Held ==
    /\ worker.at # "free" => worker.turn # Handoff!None
    /\ worker.at = "claim" => history[worker.turn] = "interrupted"
    /\ worker.at = "finish" => worker.next # Handoff!None
    /\ worker.at = "stop" => handoff[worker.turn] \notin Handoff!Waiting
    /\ (worker.at = "save" /\ handoff[worker.turn] = "none") => worker.turn \notin stopped

(* After the owner's Stop of a turn no handoff of it waits, and none can be *)
(* prepared: the turn is not running any more (cancel_update_handoff).      *)
StopRespected ==
    \A t \in stopped : /\ handoff[t] \notin Handoff!Waiting
                       /\ history[t] # "none"
                       /\ handoff[t] = "none" => history[t] # "inProgress"

HandoffInv == Handoff!TypeOK /\ Unsent /\ Begun /\ Held /\ StopRespected

Places == {"free", "save", "interrupt", "confirm", "validate", "look", "claim",
           "start", "finish", "stop"}
Marks == {"none", "paused", "submitting", "resumed", "cancelled"}
Workers == [at : Places, turn : Handoff!Turn \cup {Handoff!None}, seen : {"none", "paused", "submitting"},
            next : Handoff!Turn \cup {Handoff!None}]
Messages == [turn : Handoff!Turn, state : {"active", "interrupted", "completed", "uncertain"}]
Statuses == {"none", "inProgress", "interrupted", "completed"}

(* ------------------------------- operators ------------------------------- *)

LEMMA NoneIsNoTurn == Handoff!None \notin Handoff!Turn
BY DEF Handoff!None, Handoff!Turn

LEMMA FreeFacts ==
    /\ Handoff!Free.at = "free" /\ Handoff!Free.turn = Handoff!None
    /\ Handoff!Free.seen = "none" /\ Handoff!Free.next = Handoff!None
    /\ Handoff!Free \in Workers
BY DEF Handoff!Free, Workers, Places

LEMMA AtFacts ==
    ASSUME NEW where \in Places, NEW t \in Handoff!Turn, Handoff!At(where, t)
    PROVE  /\ worker' \in Workers
           /\ worker'.at = where /\ worker'.turn = t /\ worker'.next = Handoff!None
BY DEF Handoff!At, Handoff!Free, Workers, Places

LEMMA GoFacts ==
    ASSUME Handoff!TypeOK, NEW where \in Places, Handoff!Go(where)
    PROVE  /\ worker' \in Workers
           /\ worker'.at = where /\ worker'.turn = worker.turn /\ worker'.next = worker.next
BY DEF Handoff!TypeOK, Handoff!Go, Workers, Places

LEMMA CancelledFacts ==
    ASSUME Handoff!TypeOK, NEW t \in Handoff!Turn
    PROVE  /\ Handoff!Cancelled(t) \in [Handoff!Turn -> Marks]
           /\ \A u \in Handoff!Turn : Handoff!Cancelled(t)[u] = handoff[u]
                              \/ (handoff[u] \in Handoff!Waiting /\ Handoff!Cancelled(t)[u] = "cancelled")
           /\ Handoff!Cancelled(t)[t] \notin Handoff!Waiting
BY DEF Handoff!TypeOK, Handoff!Cancelled, Handoff!Waiting, Marks


(* How a step may move the runtime's record and the handoffs without         *)
(* disturbing what the invariant says of them.                               *)
Onward ==
    /\ history' \in [Handoff!Turn -> Statuses]
    /\ \A t \in Handoff!Turn : /\ history'[t] = "none" <=> history[t] = "none"
                               /\ history[t] = "interrupted" => history'[t] = "interrupted"
                               /\ history'[t] = "inProgress" => history[t] = "inProgress"

Settling ==
    /\ handoff' \in [Handoff!Turn -> Marks]
    /\ \A t \in Handoff!Turn : handoff'[t] = handoff[t]
                       \/ (handoff[t] \in Handoff!Waiting /\ handoff'[t] = "cancelled")

LEMMA InterruptedFacts ==
    ASSUME Handoff!TypeOK, NEW t \in Handoff!Turn, Handoff!Interrupted(t)
    PROVE  /\ Onward /\ events' \subseteq Handoff!Turn /\ history'[t] # "inProgress"
BY DEF Handoff!TypeOK, Handoff!Interrupted, Onward, Statuses

LEMMA StillOnward == ASSUME Handoff!TypeOK, UNCHANGED history PROVE Onward
BY DEF Handoff!TypeOK, Onward, Statuses

LEMMA StillSettling == ASSUME Handoff!TypeOK, UNCHANGED handoff PROVE Settling
BY DEF Handoff!TypeOK, Settling, Marks

LEMMA CancelledSettles ==
    ASSUME Handoff!TypeOK, NEW t \in Handoff!Turn, handoff' = Handoff!Cancelled(t)
    PROVE  Settling /\ handoff'[t] \notin Handoff!Waiting
BY CancelledFacts DEF Settling

(* A step that moves them so, that sends nothing and whose lock holder is    *)
(* released or goes to a place the invariant says nothing of keeps it.       *)
Quiet == {"free", "interrupt", "confirm", "validate", "look", "start"}

LEMMA UnsentKept ==
    ASSUME HandoffInv, Settling, UNCHANGED sends, UNCHANGED carries, wire' \subseteq wire
    PROVE  Unsent'
BY DEF HandoffInv, Unsent, Settling, Handoff!Waiting

LEMMA BegunKept ==
    ASSUME HandoffInv, Onward, Settling, UNCHANGED carries,
           message'.turn = message.turn
           \/ (message'.turn \in Handoff!Turn /\ history[message'.turn] # "none"),
           worker'.turn = Handoff!None \/ worker'.turn = worker.turn
           \/ (worker'.turn \in Handoff!Turn /\ history[worker'.turn] # "none"),
           worker'.next = Handoff!None \/ worker'.next = worker.next
           \/ (worker'.next \in Handoff!Turn /\ history[worker'.next] # "none")
    PROVE  Begun'
<1>1. /\ message.turn \in Handoff!Turn
      /\ {worker.turn, worker.next} \subseteq Handoff!Turn \cup {Handoff!None}
      BY DEF HandoffInv, Handoff!TypeOK
<1>2. \A t \in Handoff!Turn : history'[t] = "none" <=> history[t] = "none" BY DEF Onward
<1>3. history[message.turn] # "none" /\ (worker.turn # Handoff!None => history[worker.turn] # "none")
      /\ (worker.next # Handoff!None => history[worker.next] # "none")
      BY DEF HandoffInv, Begun
<1>4. history'[message'.turn] # "none" BY <1>1, <1>2, <1>3
<1>5. (worker.turn # Handoff!None => history[worker.turn] # "none")' BY <1>1, <1>2, <1>3
<1>6. (worker.next # Handoff!None => history[worker.next] # "none")' BY <1>1, <1>2, <1>3
<1>7. \A t \in Handoff!Turn : (handoff'[t] # "none" \/ carries[t] # Handoff!None) => history'[t] # "none"
      BY <1>2 DEF HandoffInv, Begun, Settling, Handoff!Waiting
<1> QED BY <1>4, <1>5, <1>6, <1>7 DEF Begun

LEMMA RespectedKept ==
    ASSUME HandoffInv, Onward, Settling, UNCHANGED stopped
    PROVE  StopRespected'
<1>1. \A t \in stopped : t \in Handoff!Turn BY DEF HandoffInv, Handoff!TypeOK
<1> QED BY <1>1 DEF HandoffInv, StopRespected, Onward, Settling, Handoff!Waiting

LEMMA HeldQuiet ==
    ASSUME worker'.at \in Quiet, worker'.at # "free" => worker'.turn # Handoff!None
    PROVE  Held'
BY DEF Held, Quiet

LEMMA HeldKept ==
    ASSUME HandoffInv, Onward, Settling, UNCHANGED worker, UNCHANGED stopped
    PROVE  Held'
<1>1. worker.turn \in Handoff!Turn \cup {Handoff!None} BY DEF HandoffInv, Handoff!TypeOK
<1> QED BY <1>1 DEF HandoffInv, Held, Onward, Settling, Handoff!Waiting

(* ------------------------------- the runtime ------------------------------- *)

LEMMA WorkerTypes ==
    ASSUME Handoff!TypeOK, Handoff!Release
    PROVE  /\ worker' \in Workers
           /\ worker'.at = "free" /\ worker'.turn = Handoff!None /\ worker'.next = Handoff!None
BY FreeFacts DEF Handoff!Release

LEMMA TurnEndsKeeps ==
    ASSUME HandoffInv, NEW t \in Handoff!Turn, Handoff!TurnEnds(t) PROVE HandoffInv'
<1>1. Handoff!TypeOK'
  BY DEF HandoffInv, Handoff!TypeOK, Handoff!TurnEnds, Handoff!storeVars, Handoff!taskVars,
         Handoff!bounds, Handoff!records
<1>2. Onward BY DEF HandoffInv, Handoff!TypeOK, Handoff!TurnEnds, Onward, Statuses
<1>3. Settling BY StillSettling DEF HandoffInv, Handoff!TurnEnds
<1>4. /\ UNCHANGED <<sends, carries, wire, message, worker, stopped>>
      BY DEF Handoff!TurnEnds, Handoff!taskVars, Handoff!records
<1> QED BY <1>1, <1>2, <1>3, <1>4, UnsentKept, BegunKept, RespectedKept, HeldKept DEF HandoffInv

LEMMA AcceptKeeps ==
    ASSUME HandoffInv, NEW h \in Handoff!Turn, Handoff!Accept(h) PROVE HandoffInv'
<1>1. PICK t \in Handoff!Turn : /\ history[t] = "none"
                                /\ history' = [history EXCEPT ![t] = "inProgress"]
                                /\ carries' = [carries EXCEPT ![t] = h]
      BY DEF Handoff!Accept
<1>2. /\ UNCHANGED <<message, handoff, events, requested, scan, worker, preparing,
                     updates, stops, faults, sends, stopped, told>>
      /\ h \in wire /\ wire' = wire \ {h}
      BY DEF Handoff!Accept, Handoff!storeVars, Handoff!taskVars, Handoff!bounds, Handoff!records
<1>3. Handoff!TypeOK' BY <1>1, <1>2 DEF HandoffInv, Handoff!TypeOK
<1>4. handoff[h] \notin {"none", "paused"} BY DEF HandoffInv, Unsent, Handoff!Accept
<1>5. \A u \in Handoff!Turn : /\ carries'[u] = IF u = t THEN h ELSE carries[u]
                              /\ history'[u] = IF u = t THEN "inProgress" ELSE history[u]
      BY <1>1 DEF HandoffInv, Handoff!TypeOK
<1>6. Unsent' BY <1>2, <1>4, <1>5 DEF HandoffInv, Unsent
<1>7. Begun'
  <2>1. /\ message.turn \in Handoff!Turn
        /\ {worker.turn, worker.next} \subseteq Handoff!Turn \cup {Handoff!None}
        BY DEF HandoffInv, Handoff!TypeOK
  <2> QED BY <1>2, <1>5, <2>1, NoneIsNoTurn DEF HandoffInv, Begun
<1>8. Held'
  <2>1. worker.turn \in Handoff!Turn \cup {Handoff!None} BY DEF HandoffInv, Handoff!TypeOK
  <2> QED BY <1>1, <1>2, <1>5, <2>1 DEF HandoffInv, Held
<1>9. StopRespected'
  <2>1. \A u \in stopped : u \in Handoff!Turn /\ u # t
    BY <1>1 DEF HandoffInv, Handoff!TypeOK, StopRespected
  <2> QED BY <1>2, <1>5, <2>1 DEF HandoffInv, StopRespected
<1> QED BY <1>3, <1>6, <1>7, <1>8, <1>9 DEF HandoffInv

LEMMA CutOffFacts ==
    ASSUME Handoff!TypeOK, Handoff!CutOff
    PROVE  Onward /\ wire' = {} /\ requested' = TRUE /\ carries' = carries
BY DEF Handoff!TypeOK, Handoff!CutOff, Onward, Statuses

LEMMA FaultFacts == ASSUME Limits, Handoff!TypeOK, Handoff!Fault PROVE faults' \in 0..MaxFaults
BY DEF Limits, Handoff!TypeOK, Handoff!Fault

LEMMA RuntimeDiesKeeps ==
    ASSUME Limits, HandoffInv, Handoff!RuntimeDies PROVE HandoffInv'
<1>1. Onward /\ wire' = {} /\ requested' = TRUE /\ UNCHANGED carries
      BY CutOffFacts DEF HandoffInv, Handoff!RuntimeDies
<1>2. UNCHANGED <<message, handoff, events, scan, worker, preparing, updates, stops,
                  sends, stopped, told>>
      BY DEF Handoff!RuntimeDies, Handoff!storeVars, Handoff!records
<1>3. faults' \in 0..MaxFaults BY FaultFacts DEF HandoffInv, Handoff!RuntimeDies
<1>4. Handoff!TypeOK' BY <1>1, <1>2, <1>3 DEF HandoffInv, Handoff!TypeOK, Onward, Statuses
<1>5. Settling BY <1>2, StillSettling DEF HandoffInv
<1> QED BY <1>1, <1>2, <1>4, <1>5, UnsentKept, BegunKept, RespectedKept, HeldKept DEF HandoffInv

LEMMA RestartKeeps ==
    ASSUME Limits, HandoffInv, Handoff!Restart PROVE HandoffInv'
<1>1. Onward /\ wire' = {} /\ requested' = TRUE /\ UNCHANGED carries
      BY CutOffFacts DEF HandoffInv, Handoff!Restart
<1>2. /\ UNCHANGED <<message, handoff, updates, stops, sends, stopped, told>>
      /\ scan' = Handoff!None /\ preparing' = FALSE /\ events' \subseteq Handoff!Turn
      BY DEF Handoff!Restart, Handoff!records, HandoffInv, Handoff!TypeOK
<1>3. faults' \in 0..MaxFaults BY FaultFacts DEF HandoffInv, Handoff!Restart
<1>4. /\ worker' \in Workers
      /\ worker'.at = "free" /\ worker'.turn = Handoff!None /\ worker'.next = Handoff!None
      BY WorkerTypes DEF HandoffInv, Handoff!Restart
<1>5. Handoff!TypeOK'
  BY <1>1, <1>2, <1>3, <1>4 DEF HandoffInv, Handoff!TypeOK, Onward, Statuses, Workers, Places
<1>6. Settling BY <1>2, StillSettling DEF HandoffInv
<1>7. Held' BY <1>4, HeldQuiet DEF Quiet
<1> QED BY <1>1, <1>2, <1>4, <1>5, <1>6, <1>7, UnsentKept, BegunKept, RespectedKept DEF HandoffInv

(* --------------------- steps of who holds the lock ----------------------- *)

LEMMA QuietStep ==
    ASSUME HandoffInv, Handoff!TypeOK', Held', Onward, Settling,
           UNCHANGED <<sends, carries, stopped>>, wire' \subseteq wire,
           message'.turn = message.turn
           \/ (message'.turn \in Handoff!Turn /\ history[message'.turn] # "none"),
           worker'.turn = Handoff!None \/ worker'.turn = worker.turn
           \/ (worker'.turn \in Handoff!Turn /\ history[worker'.turn] # "none"),
           worker'.next = Handoff!None \/ worker'.next = worker.next
           \/ (worker'.next \in Handoff!Turn /\ history[worker'.next] # "none")
    PROVE  HandoffInv'
BY UnsentKept, BegunKept, RespectedKept DEF HandoffInv

LEMMA HolderTurn ==
    ASSUME HandoffInv, worker.at # "free"
    PROVE  worker.turn \in Handoff!Turn /\ history[worker.turn] # "none"
BY DEF HandoffInv, Handoff!TypeOK, Held, Begun

LEMMA PrepareKeeps == ASSUME Limits, HandoffInv, Handoff!Prepare PROVE HandoffInv'
<1> DEFINE found == {t \in Handoff!Turn : \/ Handoff!Active(t) /\ history[t] = "inProgress"
                                          \/ Handoff!Pending(t)}
<1>1. UNCHANGED <<history, carries, wire, message, handoff, events, requested, scan, stops, faults,
                  sends, stopped, told>>
      BY DEF Handoff!Prepare, Handoff!runtimeVars, Handoff!storeVars, Handoff!records
<1>2. updates' \in 0..MaxUpdates /\ preparing' = TRUE
      BY DEF Handoff!Prepare, HandoffInv, Handoff!TypeOK, Limits
<1>3. IF found = {} THEN Handoff!Release ELSE \E t \in found : Handoff!At("save", t)
      BY DEF Handoff!Prepare
<1>4. Onward /\ Settling BY <1>1, StillOnward, StillSettling DEF HandoffInv
<1>5. CASE found = {}
  <2>1. Handoff!Release BY <1>3, <1>5
  <2>2. /\ worker' \in Workers
        /\ worker'.at = "free" /\ worker'.turn = Handoff!None /\ worker'.next = Handoff!None
        BY <2>1, WorkerTypes DEF HandoffInv
  <2>3. Handoff!TypeOK' BY <1>1, <1>2, <2>2 DEF HandoffInv, Handoff!TypeOK, Workers, Places
  <2>4. Held' BY <2>2, HeldQuiet DEF Quiet
  <2> QED BY <1>1, <1>4, <2>2, <2>3, <2>4, QuietStep
<1>6. CASE found # {}
  <2>1. PICK t \in Handoff!Turn : /\ (Handoff!Active(t) /\ history[t] = "inProgress") \/ Handoff!Pending(t)
                                  /\ Handoff!At("save", t)
        BY <1>3, <1>6
  <2>2. /\ worker' \in Workers
        /\ worker'.at = "save" /\ worker'.turn = t /\ worker'.next = Handoff!None
        BY <2>1, AtFacts DEF Workers, Places
  <2>3. Handoff!TypeOK' BY <1>1, <1>2, <2>2 DEF HandoffInv, Handoff!TypeOK, Workers, Places
  <2>4. history[t] # "none" BY <2>1 DEF Handoff!Pending, Handoff!Waiting, HandoffInv, Begun
  <2>5. handoff[t] = "none" => t \notin stopped
    <3>1. handoff[t] = "none" => history[t] = "inProgress"
      BY <2>1 DEF Handoff!Pending, Handoff!Waiting
    <3> QED BY <3>1 DEF HandoffInv, StopRespected
  <2>6. Held' BY <1>1, <2>2, <2>5, NoneIsNoTurn DEF Held
  <2> QED BY <1>1, <1>4, <2>2, <2>3, <2>4, <2>6, QuietStep
<1> QED BY <1>5, <1>6

LEMMA SaveKeeps == ASSUME HandoffInv, Handoff!Save PROVE HandoffInv'
<1> DEFINE h == worker.turn
<1>1. /\ UNCHANGED <<history, carries, wire, message, events, requested, scan, preparing,
                     updates, stops, faults, sends, stopped, told>>
      /\ worker.at = "save"
      BY DEF Handoff!Save, Handoff!runtimeVars, Handoff!bounds, Handoff!records
<1>2. h \in Handoff!Turn /\ history[h] # "none" BY <1>1, HolderTurn
<1>3. handoff' = [handoff EXCEPT ![h] = IF @ = "none" THEN "paused" ELSE @] BY DEF Handoff!Save
<1>4. /\ worker' \in Workers
      /\ worker'.at = "interrupt" /\ worker'.turn = h /\ worker'.next = worker.next
      BY GoFacts DEF Handoff!Save, HandoffInv, Workers, Places
<1>5. \A t \in Handoff!Turn : handoff'[t] = IF t = h /\ handoff[t] = "none" THEN "paused" ELSE handoff[t]
      BY <1>2, <1>3 DEF HandoffInv, Handoff!TypeOK
<1>6. handoff' \in [Handoff!Turn -> Marks] BY <1>2, <1>3 DEF HandoffInv, Handoff!TypeOK, Marks
<1>7. Handoff!TypeOK' BY <1>1, <1>4, <1>6 DEF HandoffInv, Handoff!TypeOK, Workers, Places, Marks
<1>8. Unsent' BY <1>1, <1>5 DEF HandoffInv, Unsent
<1>9. Begun' BY <1>1, <1>2, <1>4, <1>5 DEF HandoffInv, Begun
<1>10. Held' BY <1>2, <1>4, NoneIsNoTurn, HeldQuiet DEF Quiet
<1>11. StopRespected'
  <2>1. \A t \in stopped : t \in Handoff!Turn BY DEF HandoffInv, Handoff!TypeOK
  <2>2. handoff[h] = "none" => h \notin stopped BY <1>1 DEF HandoffInv, Held
  <2>3. \A t \in stopped : handoff'[t] = handoff[t] BY <1>5, <2>1, <2>2
  <2> QED BY <1>1, <2>1, <2>3 DEF HandoffInv, StopRespected
<1> QED BY <1>7, <1>8, <1>9, <1>10, <1>11 DEF HandoffInv

LEMMA InterruptKeeps == ASSUME HandoffInv, Handoff!Interrupt PROVE HandoffInv'
<1>1. UNCHANGED <<carries, wire, message, handoff, requested, scan, preparing,
                  updates, stops, faults, sends, stopped, told>>
      BY DEF Handoff!Interrupt, Handoff!bounds, Handoff!records
<1>2. worker.turn \in Handoff!Turn /\ history[worker.turn] # "none"
  BY HolderTurn DEF Handoff!Interrupt
<1>3. Onward /\ events' \subseteq Handoff!Turn
  BY <1>2, InterruptedFacts DEF Handoff!Interrupt, HandoffInv
<1>4. /\ worker' \in Workers
      /\ worker'.at = "confirm" /\ worker'.turn = worker.turn /\ worker'.next = worker.next
      BY GoFacts DEF Handoff!Interrupt, HandoffInv, Workers, Places
<1>5. Handoff!TypeOK'
  BY <1>1, <1>3, <1>4 DEF HandoffInv, Handoff!TypeOK, Onward, Statuses, Workers, Places
<1>6. Held' BY <1>2, <1>4, NoneIsNoTurn, HeldQuiet DEF Quiet
<1>7. Settling BY <1>1, StillSettling DEF HandoffInv
<1> QED BY <1>1, <1>3, <1>4, <1>5, <1>6, <1>7, QuietStep

(* A step that lets go of the lock and changes at most handoffs, the         *)
(* message's state and what is recorded of the owner.                        *)
LEMMA ReleasingStep ==
    ASSUME HandoffInv, Handoff!Release, Onward, Settling, events' \subseteq Handoff!Turn,
           UNCHANGED <<carries, wire, scan, updates, stops, faults, sends, stopped>>,
           message' \in Messages,
           message'.turn = message.turn
           \/ (message'.turn \in Handoff!Turn /\ history[message'.turn] # "none"),
           requested' \in BOOLEAN, preparing' \in BOOLEAN, told' \subseteq Handoff!Turn
    PROVE  HandoffInv'
<1>1. /\ worker' \in Workers
      /\ worker'.at = "free" /\ worker'.turn = Handoff!None /\ worker'.next = Handoff!None
      BY WorkerTypes DEF HandoffInv
<1>2. Handoff!TypeOK'
  BY <1>1 DEF HandoffInv, Handoff!TypeOK, Onward, Settling, Statuses, Marks, Workers, Places,
         Messages
<1>3. Held' BY <1>1, HeldQuiet DEF Quiet
<1> QED BY <1>1, <1>2, <1>3, QuietStep

LEMMA TellFacts ==
    ASSUME Handoff!TypeOK, NEW t \in Handoff!Turn, Handoff!Tell(t) PROVE told' \subseteq Handoff!Turn
BY DEF Handoff!TypeOK, Handoff!Tell

LEMMA MessageTyped ==
    ASSUME HandoffInv
    PROVE  /\ message \in Messages
           /\ requested \in BOOLEAN /\ preparing \in BOOLEAN /\ told \subseteq Handoff!Turn /\ events \subseteq Handoff!Turn
BY DEF HandoffInv, Handoff!TypeOK, Messages

LEMMA ConfirmKeeps == ASSUME HandoffInv, Handoff!Confirm PROVE HandoffInv'
<1>1. /\ UNCHANGED <<history, carries, wire, message, events, requested, scan, preparing,
                     updates, stops, faults, sends, stopped, told>>
      /\ Handoff!Release /\ worker.at = "confirm"
      BY DEF Handoff!Confirm, Handoff!runtimeVars, Handoff!bounds, Handoff!records
<1>2. worker.turn \in Handoff!Turn BY <1>1, HolderTurn
<1>3. handoff' = Handoff!Cancelled(worker.turn) \/ UNCHANGED handoff BY DEF Handoff!Confirm
<1>4. Settling BY <1>2, <1>3, CancelledSettles, StillSettling DEF HandoffInv
<1>5. Onward BY <1>1, StillOnward DEF HandoffInv
<1> QED BY <1>1, <1>4, <1>5, MessageTyped, ReleasingStep

LEMMA PrepareFailsKeeps == ASSUME HandoffInv, Handoff!PrepareFails PROVE HandoffInv'
<1>1. /\ UNCHANGED <<history, carries, wire, message, handoff, events, requested, scan,
                     updates, stops, faults, sends, stopped, told>>
      /\ Handoff!Release /\ preparing' = FALSE
      BY DEF Handoff!PrepareFails, Handoff!runtimeVars, Handoff!storeVars, Handoff!bounds,
             Handoff!records
<1>2. Onward /\ Settling BY <1>1, StillOnward, StillSettling DEF HandoffInv
<1> QED BY <1>1, <1>2, MessageTyped, ReleasingStep

LEMMA LeaseEndsKeeps == ASSUME HandoffInv, Handoff!LeaseEnds PROVE HandoffInv'
<1>1. /\ UNCHANGED <<history, carries, wire, message, handoff, events, requested, scan, worker,
                     updates, stops, faults, sends, stopped, told>>
      /\ preparing' = FALSE
      BY DEF Handoff!LeaseEnds, Handoff!runtimeVars, Handoff!storeVars, Handoff!bounds,
             Handoff!records
<1>2. Onward /\ Settling BY <1>1, StillOnward, StillSettling DEF HandoffInv
<1>3. preparing' \in BOOLEAN BY <1>1
<1>4. Handoff!TypeOK' BY <1>1, <1>3 DEF HandoffInv, Handoff!TypeOK
<1>5. Held' BY <1>1, <1>2, HeldKept
<1> QED BY <1>1, <1>2, <1>4, <1>5, QuietStep

LEMMA RecoverKeeps == ASSUME HandoffInv, NEW h \in Handoff!Turn, Handoff!Recover(h) PROVE HandoffInv'
<1>1. UNCHANGED <<history, carries, wire, message, events, requested, scan, preparing,
                  updates, stops, faults, sends, stopped, told>>
      BY DEF Handoff!Recover, Handoff!runtimeVars, Handoff!bounds, Handoff!records
<1>2. handoff[h] \in Handoff!Waiting /\ worker = Handoff!Free
  BY DEF Handoff!Recover, Handoff!Pending
<1>3. history[h] # "none" BY <1>2 DEF HandoffInv, Begun, Handoff!Waiting
<1>4. Onward BY <1>1, StillOnward DEF HandoffInv
<1>5. CASE Handoff!Active(h)
  <2>1. worker' = [Handoff!Free EXCEPT !.at = "validate", !.turn = h, !.seen = handoff[h]] /\ UNCHANGED handoff
        BY <1>5 DEF Handoff!Recover
  <2>2. /\ worker' \in Workers
        /\ worker'.at = "validate" /\ worker'.turn = h /\ worker'.next = Handoff!None
        BY <1>2, <2>1 DEF Handoff!Free, Workers, Places, Handoff!Waiting
  <2>3. Handoff!TypeOK' BY <1>1, <2>1, <2>2 DEF HandoffInv, Handoff!TypeOK, Workers, Places
  <2>4. Held' BY <2>2, NoneIsNoTurn, HeldQuiet DEF Quiet
  <2>5. Settling BY <2>1, StillSettling DEF HandoffInv
  <2> QED BY <1>1, <1>3, <1>4, <2>2, <2>3, <2>4, <2>5, QuietStep
<1>6. CASE ~Handoff!Active(h)
  <2>1. handoff' = Handoff!Cancelled(h) /\ UNCHANGED worker BY <1>6 DEF Handoff!Recover
  <2>2. Settling BY <2>1, CancelledSettles DEF HandoffInv
  <2>3. Handoff!TypeOK' BY <1>1, <2>1, <2>2 DEF HandoffInv, Handoff!TypeOK, Settling, Marks
  <2>4. Held' BY <1>1, <1>4, <2>1, <2>2, HeldKept
  <2> QED BY <1>1, <1>4, <2>1, <2>2, <2>3, <2>4, QuietStep
<1> QED BY <1>5, <1>6

(* A step from one place of the lock holder to another that the invariant    *)
(* says nothing of, and that changes nothing else.                           *)
LEMMA GoingStep ==
    ASSUME HandoffInv, NEW where \in Quiet, Handoff!Go(where), worker.at # "free",
           UNCHANGED <<history, carries, wire, message, handoff, events, requested, scan,
                       preparing, updates, stops, faults, sends, stopped, told>>
    PROVE  HandoffInv'
<1>1. where \in Places BY DEF Quiet, Workers, Places
<1>2. /\ worker' \in Workers
      /\ worker'.at = where /\ worker'.turn = worker.turn /\ worker'.next = worker.next
      BY <1>1, GoFacts DEF HandoffInv
<1>3. Handoff!TypeOK' BY <1>2 DEF HandoffInv, Handoff!TypeOK, Workers, Places
<1>4. Held' BY <1>2, HolderTurn, NoneIsNoTurn, HeldQuiet
<1>5. Onward /\ Settling BY StillOnward, StillSettling DEF HandoffInv
<1> QED BY <1>2, <1>3, <1>4, <1>5, QuietStep

LEMMA ValidatedKeeps == ASSUME HandoffInv, Handoff!Validated PROVE HandoffInv'
<1>1. "look" \in Quiet BY DEF Quiet
<1>2. /\ Handoff!Go("look") /\ worker.at # "free"
      /\ UNCHANGED <<history, carries, wire, message, handoff, events, requested, scan,
                     preparing, updates, stops, faults, sends, stopped, told>>
      BY DEF Handoff!Validated, Handoff!runtimeVars, Handoff!storeVars, Handoff!bounds,
             Handoff!records
<1> QED BY <1>1, <1>2, GoingStep

LEMMA BlockKeeps == ASSUME HandoffInv, Handoff!Block PROVE HandoffInv'
<1> DEFINE h == worker.turn
<1>1. /\ UNCHANGED <<history, carries, wire, events, requested, scan, preparing,
                     updates, stops, faults, sends, stopped>>
      /\ Handoff!Release /\ worker.at = "validate" /\ Handoff!Tell(h) /\ handoff' = Handoff!Cancelled(h)
      /\ message' = IF Handoff!Active(h) THEN [message EXCEPT !.state = "interrupted"] ELSE message
      BY DEF Handoff!Block, Handoff!runtimeVars, Handoff!bounds
<1>2. h \in Handoff!Turn BY <1>1, HolderTurn
<1>3. Settling /\ told' \subseteq Handoff!Turn
  BY <1>1, <1>2, CancelledSettles, TellFacts DEF HandoffInv
<1>4. Onward BY <1>1, StillOnward DEF HandoffInv
<1>5. /\ message' \in Messages
      /\ message'.turn = message.turn
      BY <1>1, MessageTyped DEF Messages
<1> QED BY <1>1, <1>3, <1>4, <1>5, MessageTyped, ReleasingStep

LEMMA ReportKeeps ==
    ASSUME HandoffInv, worker.at # "free", Handoff!Report,
           UNCHANGED <<history, carries, wire, message, events, requested, scan, preparing,
                       updates, stops, faults, sends, stopped>>
    PROVE  HandoffInv'
<1>1. Handoff!Tell(worker.turn) /\ Handoff!Release /\ UNCHANGED handoff BY DEF Handoff!Report
<1>2. worker.turn \in Handoff!Turn BY HolderTurn
<1>3. told' \subseteq Handoff!Turn BY <1>1, <1>2, TellFacts DEF HandoffInv
<1>4. Onward /\ Settling BY <1>1, StillOnward, StillSettling DEF HandoffInv
<1> QED BY <1>1, <1>3, <1>4, MessageTyped, ReleasingStep

LEMMA LookFailsKeeps == ASSUME HandoffInv, Handoff!LookFails PROVE HandoffInv'
BY ReportKeeps DEF Handoff!LookFails, Handoff!runtimeVars, Handoff!bounds

LEMMA StartUnansweredKeeps == ASSUME HandoffInv, Handoff!StartUnanswered PROVE HandoffInv'
BY ReportKeeps DEF Handoff!StartUnanswered, Handoff!runtimeVars, Handoff!bounds

(* The turn that is found continues one of the thread: it has begun.         *)
LEMMA FoundStep ==
    ASSUME HandoffInv, worker.at # "free", Handoff!Continuations(worker.turn) # {},
           worker' = [worker EXCEPT !.at = "finish",
                                    !.next = CHOOSE t \in Handoff!Continuations(worker.turn) : TRUE],
           UNCHANGED <<history, carries, wire, message, handoff, events, requested, scan,
                       preparing, updates, stops, faults, sends, stopped, told>>
    PROVE  HandoffInv'
<1> DEFINE n == CHOOSE t \in Handoff!Continuations(worker.turn) : TRUE
<1>1. worker.turn \in Handoff!Turn /\ history[worker.turn] # "none" BY HolderTurn
<1>2. n \in Handoff!Continuations(worker.turn) OBVIOUS
<1>3. n \in Handoff!Turn /\ carries[n] = worker.turn BY <1>2 DEF Handoff!Continuations
<1>4. history[n] # "none" BY <1>1, <1>3, NoneIsNoTurn DEF HandoffInv, Begun
<1> HIDE DEF n
<1>5. worker' = [worker EXCEPT !.at = "finish", !.next = n] BY DEF n
<1>6. /\ worker' \in Workers
      /\ worker'.at = "finish" /\ worker'.turn = worker.turn /\ worker'.next = n
      BY <1>3, <1>5 DEF HandoffInv, Handoff!TypeOK, Workers, Places
<1>7. Handoff!TypeOK' BY <1>6 DEF HandoffInv, Handoff!TypeOK, Workers, Places
<1>8. Held' BY <1>1, <1>3, <1>6, NoneIsNoTurn DEF Held
<1>9. Onward /\ Settling BY StillOnward, StillSettling DEF HandoffInv
<1> QED BY <1>3, <1>4, <1>6, <1>7, <1>8, <1>9, QuietStep

LEMMA StartAnsweredKeeps == ASSUME HandoffInv, Handoff!StartAnswered PROVE HandoffInv'
BY FoundStep DEF Handoff!StartAnswered, Handoff!runtimeVars, Handoff!storeVars, Handoff!bounds,
       Handoff!records

LEMMA LookKeeps == ASSUME HandoffInv, Handoff!Look PROVE HandoffInv'
<1> DEFINE h == worker.turn
<1>1. /\ UNCHANGED <<history, carries, wire, message, events, requested, scan, preparing,
                     updates, stops, faults, sends, stopped>>
      /\ worker.at = "look" /\ worker.at # "free"
      BY DEF Handoff!Look, Handoff!runtimeVars, Handoff!bounds
<1>2. h \in Handoff!Turn /\ history[h] # "none" BY <1>1, HolderTurn
<1>3. Onward BY <1>1, StillOnward DEF HandoffInv
<1>4. CASE Handoff!Continuations(h) # {}
  <2>1. /\ worker' = [worker EXCEPT !.at = "finish", !.next = CHOOSE t \in Handoff!Continuations(h) : TRUE]
        /\ UNCHANGED <<handoff, told>>
        BY <1>4 DEF Handoff!Look
  <2> QED BY <1>1, <1>4, <2>1, FoundStep
<1>5. CASE Handoff!Continuations(h) = {} /\ (Handoff!Running \/ worker.seen = "submitting")
  <2>1. Handoff!Report BY <1>5 DEF Handoff!Look
  <2> QED BY <1>1, <2>1, ReportKeeps
<1>6. CASE /\ Handoff!Continuations(h) = {} /\ ~(Handoff!Running \/ worker.seen = "submitting")
           /\ history[h] = "completed"
  <2>1. handoff' = Handoff!Cancelled(h) /\ Handoff!Release /\ UNCHANGED told
    BY <1>6 DEF Handoff!Look
  <2>2. Settling BY <1>2, <2>1, CancelledSettles DEF HandoffInv
  <2> QED BY <1>1, <1>3, <2>1, <2>2, MessageTyped, ReleasingStep
<1>7. CASE /\ Handoff!Continuations(h) = {} /\ ~(Handoff!Running \/ worker.seen = "submitting")
           /\ history[h] # "completed"
  <2>1. Handoff!Go("claim") /\ UNCHANGED handoff /\ UNCHANGED told BY <1>7 DEF Handoff!Look
  <2>2. "claim" \in Places BY DEF Workers, Places
  <2>3. /\ worker' \in Workers
        /\ worker'.at = "claim" /\ worker'.turn = h /\ worker'.next = worker.next
        BY <2>1, <2>2, GoFacts DEF HandoffInv
  <2>4. history[h] # "inProgress" BY <1>2, <1>7 DEF Handoff!Running
  <2>5. history[h] = "interrupted" BY <1>2, <1>7, <2>4 DEF HandoffInv, Handoff!TypeOK
  <2>6. Handoff!TypeOK' BY <1>1, <2>1, <2>3 DEF HandoffInv, Handoff!TypeOK, Workers, Places
  <2>7. Held' BY <1>1, <1>2, <2>3, <2>5, NoneIsNoTurn DEF Held
  <2>8. Settling BY <2>1, StillSettling DEF HandoffInv
  <2> QED BY <1>1, <1>3, <2>3, <2>6, <2>7, <2>8, QuietStep
<1> QED BY <1>4, <1>5, <1>6, <1>7

(* The request leaves once: whoever claims finds the handoff paused, and a   *)
(* paused one has never been sent.                                           *)
LEMMA ClaimKeeps == ASSUME HandoffInv, Handoff!Claim PROVE HandoffInv'
<1> DEFINE h == worker.turn
<1>1. /\ UNCHANGED <<history, carries, message, events, requested, scan, preparing,
                     updates, stops, faults, stopped, told>>
      /\ worker.at = "claim"
      BY DEF Handoff!Claim, Handoff!bounds
<1>2. h \in Handoff!Turn /\ history[h] = "interrupted" BY <1>1, HolderTurn DEF HandoffInv, Held
<1>3. CASE handoff[h] = "paused"
  <2>1. /\ handoff' = [handoff EXCEPT ![h] = "submitting"]
        /\ wire' = wire \cup {h}
        /\ sends' = [sends EXCEPT ![h] = @ + 1]
        /\ Handoff!Go("start")
        BY <1>3 DEF Handoff!Claim
  <2>2. sends[h] = 0 BY <1>2, <1>3 DEF HandoffInv, Unsent
  <2>3. /\ worker' \in Workers
        /\ worker'.at = "start" /\ worker'.turn = h /\ worker'.next = worker.next
        BY <2>1, GoFacts DEF HandoffInv, Workers, Places
  <2>4. \A t \in Handoff!Turn : /\ handoff'[t] = IF t = h THEN "submitting" ELSE handoff[t]
                                /\ sends'[t] = IF t = h THEN 1 ELSE sends[t]
        BY <1>2, <2>1, <2>2 DEF HandoffInv, Handoff!TypeOK
  <2>5. sends' \in [Handoff!Turn -> 0..1] /\ handoff' \in [Handoff!Turn -> Marks] /\ wire' \subseteq Handoff!Turn
        BY <1>2, <2>1, <2>4 DEF HandoffInv, Handoff!TypeOK, Marks
  <2>6. Handoff!TypeOK' BY <1>1, <2>3, <2>5 DEF HandoffInv, Handoff!TypeOK, Workers, Places, Marks
  <2>7. Unsent' BY <1>1, <2>1, <2>4 DEF HandoffInv, Unsent
  <2>8. Begun' BY <1>1, <1>2, <2>3, <2>4 DEF HandoffInv, Begun
  <2>9. Held' BY <1>2, <2>3, NoneIsNoTurn, HeldQuiet DEF Quiet
  <2>10. StopRespected'
    <3>1. \A t \in stopped : t \in Handoff!Turn /\ t # h
          BY <1>3 DEF HandoffInv, Handoff!TypeOK, StopRespected, Handoff!Waiting
    <3> QED BY <1>1, <2>4, <3>1 DEF HandoffInv, StopRespected
  <2> QED BY <2>6, <2>7, <2>8, <2>9, <2>10 DEF HandoffInv
<1>4. CASE handoff[h] # "paused"
  <2>1. Handoff!Release /\ UNCHANGED <<handoff, wire, sends>> BY <1>4 DEF Handoff!Claim
  <2>2. Onward /\ Settling BY <1>1, <2>1, StillOnward, StillSettling DEF HandoffInv
  <2> QED BY <1>1, <2>1, <2>2, MessageTyped, ReleasingStep
<1> QED BY <1>3, <1>4

LEMMA FinishKeeps == ASSUME HandoffInv, Handoff!Finish PROVE HandoffInv'
<1> DEFINE h == worker.turn
<1>1. /\ UNCHANGED <<history, carries, wire, events, scan, preparing,
                     updates, stops, faults, sends, stopped, told>>
      /\ worker.at = "finish" /\ Handoff!Release
      BY DEF Handoff!Finish, Handoff!runtimeVars, Handoff!bounds, Handoff!records
<1>2. h \in Handoff!Turn /\ history[h] # "none" BY <1>1, HolderTurn
<1>3. worker.next \in Handoff!Turn /\ history[worker.next] # "none"
      BY <1>1 DEF HandoffInv, Handoff!TypeOK, Held, Begun
<1>4. CASE handoff[h] = "submitting"
  <2>1. /\ handoff' = [handoff EXCEPT ![h] = "resumed"]
        /\ message' = IF Handoff!Active(h) THEN [message EXCEPT !.turn = worker.next] ELSE message
        /\ requested' = TRUE
        BY <1>4 DEF Handoff!Finish
  <2>2. \A t \in Handoff!Turn : handoff'[t] = IF t = h THEN "resumed" ELSE handoff[t]
        BY <1>2, <2>1 DEF HandoffInv, Handoff!TypeOK
  <2>3. handoff' \in [Handoff!Turn -> Marks] BY <1>2, <2>1 DEF HandoffInv, Handoff!TypeOK, Marks
  <2>4. /\ message' \in Messages
        /\ message'.turn = message.turn \/ message'.turn = worker.next
        BY <1>3, <2>1, MessageTyped DEF Messages
  <2>5. /\ worker' \in Workers
        /\ worker'.at = "free" /\ worker'.turn = Handoff!None /\ worker'.next = Handoff!None
        BY <1>1, WorkerTypes DEF HandoffInv
  <2>6. Handoff!TypeOK'
    BY <1>1, <2>1, <2>3, <2>4, <2>5 DEF HandoffInv, Handoff!TypeOK, Workers, Places, Marks, Messages
  <2>7. Unsent' BY <1>1, <2>2 DEF HandoffInv, Unsent
  <2>8. Begun' BY <1>1, <1>2, <1>3, <2>2, <2>4, <2>5 DEF HandoffInv, Begun
  <2>9. Held' BY <2>5, HeldQuiet DEF Quiet
  <2>10. StopRespected'
    <3>1. \A t \in stopped : t \in Handoff!Turn /\ t # h
          BY <1>4 DEF HandoffInv, Handoff!TypeOK, StopRespected, Handoff!Waiting
    <3> QED BY <1>1, <2>2, <3>1 DEF HandoffInv, StopRespected
  <2> QED BY <2>6, <2>7, <2>8, <2>9, <2>10 DEF HandoffInv
<1>5. CASE handoff[h] # "submitting"
  <2>1. UNCHANGED <<handoff, message, requested>> BY <1>5 DEF Handoff!Finish
  <2>2. Onward /\ Settling BY <1>1, <2>1, StillOnward, StillSettling DEF HandoffInv
  <2> QED BY <1>1, <2>1, <2>2, MessageTyped, ReleasingStep
<1> QED BY <1>4, <1>5

(* ---------------------- beside the continuation -------------------------- *)

(* A step beside the lock: it settles the message or a handoff.              *)
LEMMA BesideStep ==
    ASSUME HandoffInv, Settling, events' \subseteq Handoff!Turn, scan' \in Handoff!Turn \cup {Handoff!None},
           requested' \in BOOLEAN,
           message' \in Messages,
           message'.turn = message.turn,
           UNCHANGED <<history, carries, wire, worker, preparing, updates, stops, faults,
                       sends, stopped, told>>
    PROVE  HandoffInv'
<1>1. Onward BY StillOnward DEF HandoffInv
<1>2. Handoff!TypeOK' BY DEF HandoffInv, Handoff!TypeOK, Settling, Marks, Messages
<1>3. Held' BY <1>1, HeldKept
<1> QED BY <1>1, <1>2, <1>3, QuietStep

LEMMA CompletesFacts ==
    ASSUME HandoffInv, NEW t, Handoff!Completes(t)
    PROVE  /\ message' \in Messages
           /\ message'.turn = message.turn
BY MessageTyped DEF Handoff!Completes, Messages

LEMMA TerminalKeeps == ASSUME HandoffInv, NEW t \in Handoff!Turn, Handoff!Terminal(t) PROVE HandoffInv'
<1>1. /\ UNCHANGED <<history, carries, wire, requested, scan, worker, preparing,
                     updates, stops, faults, sends, stopped, told>>
      /\ events' = events \ {t}
      BY DEF Handoff!Terminal, Handoff!runtimeVars, Handoff!taskVars, Handoff!bounds,
             Handoff!records
<1>2. UNCHANGED <<message, handoff>> \/ (Handoff!Completes(t) /\ handoff' = Handoff!Cancelled(t))
      BY DEF Handoff!Terminal
<1>3. Settling BY <1>2, StillSettling, CancelledSettles DEF HandoffInv
<1>4. /\ message' \in Messages
      /\ message'.turn = message.turn
      BY <1>2, CompletesFacts, MessageTyped
<1>5. events' \subseteq Handoff!Turn /\ scan' \in Handoff!Turn \cup {Handoff!None} /\ requested' \in BOOLEAN
      BY <1>1 DEF HandoffInv, Handoff!TypeOK
<1> QED BY <1>1, <1>3, <1>4, <1>5, BesideStep

LEMMA ScanListsKeeps == ASSUME HandoffInv, Handoff!ScanLists PROVE HandoffInv'
<1>1. UNCHANGED <<history, carries, wire, message, handoff, events, worker, preparing,
                  updates, stops, faults, sends, stopped, told>>
      BY DEF Handoff!ScanLists, Handoff!runtimeVars, Handoff!storeVars, Handoff!bounds,
             Handoff!records
<1>2. requested' \in BOOLEAN /\ scan' \in Handoff!Turn \cup {Handoff!None}
      BY MessageTyped DEF Handoff!ScanLists, Messages
<1>3. Settling BY <1>1, StillSettling DEF HandoffInv
<1> QED BY <1>1, <1>2, <1>3, MessageTyped, BesideStep

LEMMA ScanSettlesKeeps == ASSUME HandoffInv, Handoff!ScanSettles PROVE HandoffInv'
<1>1. /\ UNCHANGED <<history, carries, wire, events, requested, worker, preparing,
                     updates, stops, faults, sends, stopped, told>>
      /\ scan' = Handoff!None /\ scan # Handoff!None
      BY DEF Handoff!ScanSettles, Handoff!runtimeVars, Handoff!bounds, Handoff!records
<1>2. scan \in Handoff!Turn BY <1>1 DEF HandoffInv, Handoff!TypeOK
<1>3. \/ UNCHANGED <<message, handoff>>
      \/ Handoff!Completes(scan) /\ handoff' = Handoff!Cancelled(scan)
      \/ /\ message' = IF Handoff!Active(scan) THEN [message EXCEPT !.state = "uncertain"] ELSE message
         /\ UNCHANGED handoff
      BY <1>2 DEF Handoff!ScanSettles, HandoffInv, Handoff!TypeOK
<1>4. Settling BY <1>2, <1>3, StillSettling, CancelledSettles DEF HandoffInv
<1>5. /\ message' \in Messages
      /\ message'.turn = message.turn
      BY <1>3, CompletesFacts, MessageTyped DEF Messages
<1> QED BY <1>1, <1>4, <1>5, MessageTyped, BesideStep

LEMMA StopKeeps == ASSUME Limits, HandoffInv, Handoff!Stop PROVE HandoffInv'
<1> DEFINE t == message.turn
<1>1. /\ UNCHANGED <<history, carries, wire, message, events, requested, scan, preparing,
                     updates, faults, sends, told>>
      /\ handoff' = Handoff!Cancelled(t)
      /\ stopped' = IF Handoff!Pending(t) THEN stopped \cup {t} ELSE stopped
      BY DEF Handoff!Stop, Handoff!runtimeVars
<1>2. t \in Handoff!Turn /\ history[t] # "none" BY MessageTyped DEF HandoffInv, Begun, Messages
<1>3. stops' \in 0..MaxStops BY DEF Handoff!Stop, HandoffInv, Handoff!TypeOK, Limits
<1>4. Handoff!At("stop", t) \/ Handoff!Release BY DEF Handoff!Stop
<1>5. /\ worker' \in Workers
      /\ \/ worker'.at = "free" /\ worker'.turn = Handoff!None /\ worker'.next = Handoff!None
         \/ worker'.at = "stop" /\ worker'.turn = t /\ worker'.next = Handoff!None
      BY <1>2, <1>4, AtFacts, WorkerTypes DEF HandoffInv, Workers, Places
<1>6. Settling /\ handoff'[t] \notin Handoff!Waiting BY <1>1, <1>2, CancelledSettles DEF HandoffInv
<1>7. stopped' \subseteq Handoff!Turn BY <1>1, <1>2 DEF HandoffInv, Handoff!TypeOK
<1>8. Handoff!TypeOK'
  BY <1>1, <1>3, <1>5, <1>6, <1>7 DEF HandoffInv, Handoff!TypeOK, Settling, Marks, Workers, Places
<1>9. Onward BY <1>1, StillOnward DEF HandoffInv
<1>10. Unsent' BY <1>1, <1>6, UnsentKept
<1>11. Begun' BY <1>1, <1>2, <1>5, <1>6, <1>9, BegunKept
<1>12. Held' BY <1>2, <1>5, <1>6, NoneIsNoTurn DEF Held
<1>13. StopRespected'
  <2>1. \A u \in stopped' : u \in stopped \/ (u = t /\ Handoff!Pending(t)) BY <1>1
  <2>2. Handoff!Pending(t) => handoff'[t] = "cancelled" BY <1>2, <1>6 DEF Settling, Handoff!Pending
  <2>3. ASSUME NEW u \in stopped
        PROVE  /\ handoff'[u] \notin Handoff!Waiting /\ history[u] # "none"
               /\ handoff'[u] = "none" => history[u] # "inProgress"
    <3>1. u \in Handoff!Turn BY DEF HandoffInv, Handoff!TypeOK
    <3> QED BY <1>6, <3>1 DEF HandoffInv, StopRespected, Settling, Handoff!Waiting
  <2> QED BY <1>1, <1>2, <1>6, <2>1, <2>2, <2>3 DEF StopRespected
<1> QED BY <1>8, <1>10, <1>11, <1>12, <1>13 DEF HandoffInv

LEMMA StopAnsweredKeeps == ASSUME HandoffInv, Handoff!StopAnswered PROVE HandoffInv'
<1> DEFINE t == worker.turn
<1>1. /\ UNCHANGED <<carries, wire, handoff, requested, scan, preparing,
                     updates, stops, faults, sends, told>>
      /\ worker.at = "stop" /\ Handoff!Release /\ Handoff!Interrupted(t)
      /\ message' = IF Handoff!Active(t) THEN [message EXCEPT !.state = "interrupted"] ELSE message
      /\ stopped' = stopped \cup {t}
      BY DEF Handoff!StopAnswered, Handoff!bounds
<1>2. t \in Handoff!Turn /\ history[t] # "none" /\ handoff[t] \notin Handoff!Waiting
      BY <1>1, HolderTurn DEF HandoffInv, Held
<1>3. Onward /\ events' \subseteq Handoff!Turn /\ history'[t] # "inProgress"
      BY <1>1, <1>2, InterruptedFacts DEF HandoffInv
<1>4. Settling BY <1>1, StillSettling DEF HandoffInv
<1>5. /\ worker' \in Workers
      /\ worker'.at = "free" /\ worker'.turn = Handoff!None /\ worker'.next = Handoff!None
      BY <1>1, WorkerTypes DEF HandoffInv
<1>6. /\ message' \in Messages
      /\ message'.turn = message.turn
      BY <1>1, MessageTyped DEF Messages
<1>7. stopped' \subseteq Handoff!Turn BY <1>1, <1>2 DEF HandoffInv, Handoff!TypeOK
<1>8. Handoff!TypeOK'
  BY <1>1, <1>3, <1>5, <1>6, <1>7 DEF HandoffInv, Handoff!TypeOK, Onward, Statuses, Workers, Places
<1>9. Unsent' BY <1>1, <1>4, UnsentKept
<1>10. Begun' BY <1>1, <1>3, <1>4, <1>5, <1>6, BegunKept
<1>11. Held' BY <1>5, HeldQuiet DEF Quiet
<1>12. StopRespected'
  <2>1. history'[t] # "none" BY <1>2, <1>3 DEF Onward
  <2>2. ASSUME NEW u \in stopped
        PROVE  /\ handoff[u] \notin Handoff!Waiting /\ history'[u] # "none"
               /\ handoff[u] = "none" => history'[u] # "inProgress"
    <3>1. u \in Handoff!Turn BY DEF HandoffInv, Handoff!TypeOK
    <3> QED BY <1>3, <3>1 DEF HandoffInv, StopRespected, Onward
  <2> QED BY <1>1, <1>2, <1>3, <2>1, <2>2 DEF StopRespected
<1> QED BY <1>8, <1>9, <1>10, <1>11, <1>12 DEF HandoffInv

LEMMA StopUnansweredKeeps == ASSUME HandoffInv, Handoff!StopUnanswered PROVE HandoffInv'
<1>1. /\ UNCHANGED <<carries, wire, message, handoff, requested, scan, preparing,
                     updates, stops, faults, sends, stopped>>
      /\ worker.at # "free" /\ Handoff!Release /\ Handoff!Tell(worker.turn)
      /\ Handoff!Interrupted(worker.turn) \/ UNCHANGED <<history, events>>
      BY DEF Handoff!StopUnanswered, Handoff!bounds
<1>2. worker.turn \in Handoff!Turn BY <1>1, HolderTurn
<1>3. Onward /\ events' \subseteq Handoff!Turn
      BY <1>1, <1>2, InterruptedFacts, StillOnward, MessageTyped DEF HandoffInv
<1>4. Settling /\ told' \subseteq Handoff!Turn
  BY <1>1, <1>2, StillSettling, TellFacts DEF HandoffInv
<1> QED BY <1>1, <1>3, <1>4, MessageTyped, ReleasingStep

(* ------------------------------ the theorem ------------------------------ *)

LEMMA HandoffInit == ASSUME Limits, Handoff!Init PROVE HandoffInv
<1>1. 1 \in Handoff!Turn /\ 1 # Handoff!None BY DEF Limits, Handoff!Turn, Handoff!None
<1>2. Handoff!TypeOK
  <2>1. history \in [Handoff!Turn -> Statuses] /\ carries \in [Handoff!Turn -> Handoff!Turn \cup {Handoff!None}]
        BY DEF Handoff!Init, Statuses
  <2>2. handoff \in [Handoff!Turn -> Marks] /\ sends \in [Handoff!Turn -> 0..1]
    BY DEF Handoff!Init, Marks
  <2>3. message \in Messages
        BY <1>1 DEF Handoff!Init, Messages
  <2>4. updates \in 0..MaxUpdates /\ stops \in 0..MaxStops /\ faults \in 0..MaxFaults
        BY DEF Handoff!Init, Limits
  <2>5. worker \in Workers
        BY FreeFacts DEF Handoff!Init
  <2>6. /\ wire = {} /\ events = {} /\ requested = FALSE /\ scan = Handoff!None /\ preparing = FALSE
        /\ stopped = {} /\ told = {}
        BY DEF Handoff!Init
  <2> QED
    BY <2>1, <2>2, <2>3, <2>4, <2>5, <2>6 DEF Handoff!TypeOK, Statuses, Marks, Workers, Places,
           Messages
<1>3. Unsent BY NoneIsNoTurn DEF Handoff!Init, Unsent
<1>4. Begun BY <1>1, FreeFacts DEF Handoff!Init, Begun
<1>5. Held BY FreeFacts DEF Handoff!Init, Held
<1>6. StopRespected BY DEF Handoff!Init, StopRespected
<1> QED BY <1>2, <1>3, <1>4, <1>5, <1>6 DEF HandoffInv

LEMMA StutterKeeps == ASSUME HandoffInv, UNCHANGED Handoff!vars PROVE HandoffInv'
BY DEF Handoff!vars, Handoff!runtimeVars, Handoff!storeVars, Handoff!taskVars, Handoff!bounds,
       Handoff!records, HandoffInv, Handoff!TypeOK, Unsent,
       Begun, Held, StopRespected, Handoff!Waiting

LEMMA GoingKeeps == ASSUME HandoffInv, Handoff!Going PROVE HandoffInv'
BY SaveKeeps, InterruptKeeps, ConfirmKeeps, PrepareFailsKeeps, ValidatedKeeps, BlockKeeps,
   LookKeeps, LookFailsKeeps, ClaimKeeps, StartAnsweredKeeps, StartUnansweredKeeps, FinishKeeps,
   StopAnsweredKeeps, StopUnansweredKeeps DEF Handoff!Going

LEMMA HandoffStep == ASSUME Limits, HandoffInv, Handoff!Next PROVE HandoffInv'
<1>1. ASSUME NEW t \in Handoff!Turn, Handoff!TurnEnds(t) \/ Handoff!Accept(t) PROVE HandoffInv'
      BY <1>1, TurnEndsKeeps, AcceptKeeps
<1>2. CASE Handoff!Going BY <1>2, GoingKeeps
<1>3. CASE Handoff!RecoverAny BY <1>3, RecoverKeeps DEF Handoff!RecoverAny
<1>4. CASE Handoff!TerminalAny BY <1>4, TerminalKeeps DEF Handoff!TerminalAny
<1>5. CASE Handoff!Prepare BY <1>5, PrepareKeeps
<1>6. CASE Handoff!LeaseEnds BY <1>6, LeaseEndsKeeps
<1>7. CASE Handoff!ScanLists \/ Handoff!ScanSettles BY <1>7, ScanListsKeeps, ScanSettlesKeeps
<1>8. CASE Handoff!Stop BY <1>8, StopKeeps
<1>9. CASE Handoff!RuntimeDies \/ Handoff!Restart BY <1>9, RuntimeDiesKeeps, RestartKeeps
<1> QED BY <1>1, <1>2, <1>3, <1>4, <1>5, <1>6, <1>7, <1>8, <1>9 DEF Handoff!Next

(* Only the claim of a paused handoff sends: every other step leaves `sends`. *)
Sending == \A h \in Handoff!Turn : sends'[h] # sends[h] =>
               /\ sends[h] = 0 /\ Handoff!Continuations(h) = {}
               /\ history[h] = "interrupted" /\ h \notin stopped

LEMMA ClaimSends == ASSUME HandoffInv, Handoff!Claim PROVE Sending
<1> DEFINE h == worker.turn
<1>1. h \in Handoff!Turn /\ history[h] = "interrupted"
  BY HolderTurn DEF Handoff!Claim, HandoffInv, Held
<1>2. CASE handoff[h] = "paused"
  <2>1. sends' = [sends EXCEPT ![h] = @ + 1] BY <1>2 DEF Handoff!Claim
  <2>2. sends[h] = 0 /\ Handoff!Continuations(h) = {}
        BY <1>1, <1>2 DEF HandoffInv, Unsent, Handoff!Continuations
  <2>3. h \notin stopped BY <1>2 DEF HandoffInv, StopRespected, Handoff!Waiting
  <2>4. \A t \in Handoff!Turn : sends'[t] # sends[t] => t = h BY <2>1 DEF HandoffInv, Handoff!TypeOK
  <2> QED BY <1>1, <2>2, <2>3, <2>4 DEF Sending
<1>3. CASE handoff[h] # "paused" BY <1>3 DEF Handoff!Claim, Sending
<1> QED BY <1>2, <1>3

LEMMA OnlyClaimSends == ASSUME HandoffInv, Handoff!Next \/ UNCHANGED Handoff!vars PROVE Sending
<1>1. CASE Handoff!Claim BY <1>1, ClaimSends
<1>2. CASE UNCHANGED sends BY <1>2 DEF Sending
<1>3. \A t \in Handoff!Turn : (Handoff!TurnEnds(t) \/ Handoff!Accept(t)) => UNCHANGED sends
      BY DEF Handoff!TurnEnds, Handoff!Accept, Handoff!records
<1>4. Handoff!Going => Handoff!Claim \/ UNCHANGED sends
      BY DEF Handoff!Going, Handoff!Save, Handoff!Interrupt, Handoff!Confirm,
             Handoff!PrepareFails, Handoff!Validated, Handoff!Block, Handoff!Look,
             Handoff!LookFails,
             Handoff!StartAnswered, Handoff!StartUnanswered, Handoff!Finish,
             Handoff!StopAnswered, Handoff!StopUnanswered, Handoff!records
<1>5. Handoff!RecoverAny \/ Handoff!TerminalAny => UNCHANGED sends
      BY DEF Handoff!RecoverAny, Handoff!TerminalAny, Handoff!Recover, Handoff!Terminal,
             Handoff!records
<1>6. Handoff!Prepare \/ Handoff!LeaseEnds \/ Handoff!ScanLists \/ Handoff!ScanSettles
         \/ Handoff!Stop => UNCHANGED sends
      BY DEF Handoff!Prepare, Handoff!LeaseEnds, Handoff!ScanLists, Handoff!ScanSettles,
             Handoff!Stop, Handoff!records
<1>7. Handoff!RuntimeDies \/ Handoff!Restart => UNCHANGED sends
  BY DEF Handoff!RuntimeDies, Handoff!Restart, Handoff!records
<1>8. UNCHANGED Handoff!vars => UNCHANGED sends BY DEF Handoff!vars, Handoff!records
<1> QED BY <1>1, <1>2, <1>3, <1>4, <1>5, <1>6, <1>7, <1>8 DEF Handoff!Next

(* The inductive invariant of the handoff, from which ContinuedOnce follows: *)
(* a handoff is paused only while nothing of it was sent (submit, recover_one *)
(* and the claim of update_handoff).                                        *)
THEOREM HandoffInvariant == Limits => (Handoff!Spec => []HandoffInv)
<1> SUFFICES ASSUME Limits PROVE Handoff!Spec => []HandoffInv OBVIOUS
<1>1. Handoff!Init => HandoffInv BY HandoffInit
<1>2. HandoffInv /\ [Handoff!Next]_(Handoff!vars) => HandoffInv' BY HandoffStep, StutterKeeps
<1> QED BY <1>1, <1>2, PTL DEF Handoff!Spec

(* A continuation is sent for a turn that the update has interrupted, when   *)
(* none was sent before, no turn continues it and its owner has not stopped *)
(* it (claim_update_continuation, cancel_update_handoff).                   *)
THEOREM Continued == Limits => (Handoff!Spec => Handoff!ContinuedOnce)
<1> SUFFICES ASSUME Limits PROVE Handoff!Spec => Handoff!ContinuedOnce OBVIOUS
<1>1. Handoff!Spec => []HandoffInv BY HandoffInvariant
<1>2. HandoffInv /\ [Handoff!Next]_(Handoff!vars) =>
        [\A h \in Handoff!Turn : sends'[h] # sends[h] =>
          /\ sends[h] = 0 /\ Handoff!Continuations(h) = {}
          /\ history[h] = "interrupted" /\ h \notin stopped]_(Handoff!vars)
      BY OnlyClaimSends DEF Sending
<1> QED BY <1>1, <1>2, PTL DEF Handoff!Spec, Handoff!ContinuedOnce

(***************************************************************************)
(* All parts. Protocols implements each of them: a step of the whole is a  *)
(* step of one part and leaves the variables of the others. What is proved *)
(* of ComputerControl and Automations is stated in modules of their own,   *)
(* whose definitions are those of Control and Automation.                  *)
(***************************************************************************)
ControlProved == INSTANCE ComputerControl_proofs
AutomationProved == INSTANCE Automations_proofs WITH
    Request <- RunRequest, message <- written, handler <- asking, wire <- started,
    faults <- failed

LEMMA ControlInit == Control!Init <=> ControlProved!Init
BY DEF Control!Init, Control!Request, Control!Kind, Control!Idle,
       Control!None, Control!Closed, Control!Watching, ControlProved!Init,
       ControlProved!Request, ControlProved!Kind, ControlProved!Idle,
       ControlProved!None, ControlProved!Closed, ControlProved!Watching

LEMMA ControlNext == Control!Next <=> ControlProved!Next
BY DEF Control!Next, Control!Request, Control!Kind, Control!TakeControl,
       Control!None, Control!helperVars, Control!Idle, Control!Counted,
       Control!Called, Control!SendInput, Control!phoneVars,
       Control!SendHeartbeat, Control!Done, Control!LetGo, Control!Watching,
       Control!HangUp, Control!GiveUp, Control!AcquireAnswered,
       Control!Answered, Control!Taken, Control!TooLateForControl,
       Control!BeatAnswered, Control!Larger, Control!ReleaseAnswered,
       Control!Lose, Control!Loss, Control!Drop, Control!Orphan,
       Control!Unanswered, Control!GoOn, Control!Answer,
       Control!InputAnswered, Control!Waiting, Control!RowExpires,
       Control!Valid, Control!Active, Control!Revoked, Control!Released,
       Control!Command, Control!Consent, Control!Activate, Control!Closed,
       Control!Heartbeat, Control!Deliver, Control!ReleaseGate,
       Control!GateExpires, Control!daemonVars, Control!Timer, Control!Close,
       Control!LocalStop, Control!Daemon, Control!Lookup, Control!Step,
       Control!Reply, Control!Ask, Control!Expired, Control!Renew,
       Control!Undo, Control!BeatRead, Control!BeatWrite,
       Control!BeatRefused, Control!Prepare, Control!Advance,
       Control!Overtaken, Control!AskRelease, Control!ReleaseRow,
       ControlProved!Next, ControlProved!Request, ControlProved!Kind,
       ControlProved!TakeControl, ControlProved!None,
       ControlProved!helperVars, ControlProved!Idle, ControlProved!Counted,
       ControlProved!Called, ControlProved!SendInput,
       ControlProved!phoneVars, ControlProved!SendHeartbeat,
       ControlProved!Done, ControlProved!LetGo, ControlProved!Watching,
       ControlProved!HangUp, ControlProved!GiveUp,
       ControlProved!AcquireAnswered, ControlProved!Answered,
       ControlProved!Taken, ControlProved!TooLateForControl,
       ControlProved!BeatAnswered, ControlProved!Larger,
       ControlProved!ReleaseAnswered, ControlProved!Lose, ControlProved!Loss,
       ControlProved!Drop, ControlProved!Orphan, ControlProved!Unanswered,
       ControlProved!GoOn, ControlProved!Answer, ControlProved!InputAnswered,
       ControlProved!Waiting, ControlProved!RowExpires, ControlProved!Valid,
       ControlProved!Active, ControlProved!Revoked, ControlProved!Released,
       ControlProved!Command, ControlProved!Consent, ControlProved!Activate,
       ControlProved!Closed, ControlProved!Heartbeat, ControlProved!Deliver,
       ControlProved!ReleaseGate, ControlProved!GateExpires,
       ControlProved!daemonVars, ControlProved!Timer, ControlProved!Close,
       ControlProved!LocalStop, ControlProved!Daemon, ControlProved!Lookup,
       ControlProved!Step, ControlProved!Reply, ControlProved!Ask,
       ControlProved!Expired, ControlProved!Renew, ControlProved!Undo,
       ControlProved!BeatRead, ControlProved!BeatWrite,
       ControlProved!BeatRefused, ControlProved!Prepare,
       ControlProved!Advance, ControlProved!Overtaken,
       ControlProved!AskRelease, ControlProved!ReleaseRow

LEMMA ControlVars == UNCHANGED Control!vars <=> UNCHANGED ControlProved!vars
BY DEF Control!vars, Control!daemonVars, Control!helperVars,
       Control!phoneVars, ControlProved!vars, ControlProved!daemonVars,
       ControlProved!helperVars, ControlProved!phoneVars

LEMMA ControlTypeOK == Control!TypeOK <=> ControlProved!TypeOK
BY DEF Control!TypeOK, Control!Request, Control!None, Control!Kind,
       ControlProved!TypeOK, ControlProved!Request, ControlProved!None,
       ControlProved!Kind

LEMMA ControlEachInputOnce == Control!EachInputOnce <=> ControlProved!EachInputOnce
BY DEF Control!EachInputOnce, Control!Request, ControlProved!EachInputOnce,
       ControlProved!Request

LEMMA AutomationInit == Automation!Init <=> AutomationProved!Init
BY DEF Automation!Init, Automation!Run, Automation!None, Automation!NoSeen,
       Automation!NoTask, Automation!Spawner, Automation!Idle,
       AutomationProved!Init, AutomationProved!Run, AutomationProved!None,
       AutomationProved!NoSeen, AutomationProved!NoTask,
       AutomationProved!Spawner, AutomationProved!Idle

LEMMA AutomationNext == Automation!Next <=> AutomationProved!Next
BY DEF Automation!Next, Automation!TimePasses, Automation!runVars,
       Automation!taskVars, Automation!workVars, Automation!AskDropped,
       Automation!scheduleVars, Automation!Fault, Automation!Idle,
       Automation!None, Automation!NoSeen, Automation!Restart,
       Automation!Run, Automation!NoTask, Automation!Spawner,
       Automation!Owner, Automation!Reword, Automation!Edited,
       Automation!Pause, Automation!Reschedule, Automation!Ask,
       Automation!Admitted, Automation!Asked, Automation!OwnerStops,
       Automation!OwnerCancels, Automation!OwnerRetries, Automation!Loop,
       Automation!Tick, Automation!Running, Automation!Reconciled,
       Automation!Settled, Automation!Due, Automation!ClaimDue,
       Automation!Spawned, Automation!Admits, Automation!Accept,
       Automation!Free, Automation!TickOver, Automation!Advanced,
       Automation!SkipDue, Automation!Going, Automation!Handler,
       Automation!AskClaims, Automation!AskRefused, Automation!AskSpawns,
       Automation!RunStep, Automation!TaskStep, Automation!Unavailable,
       Automation!Ended, Automation!Materialize, Automation!Made,
       Automation!MaterializeFails, Automation!TaskEnds,
       Automation!Submission, Automation!Claim, Automation!Busy,
       Automation!Submit, Automation!PrepareFails, Automation!Answered,
       Automation!Unanswered, Automation!TurnStep, Automation!Take,
       Automation!TurnEnds, Automation!Found, Automation!Project,
       Automation!ProjectRun, Automation!RecoverTurn, AutomationProved!Next,
       AutomationProved!TimePasses, AutomationProved!runVars,
       AutomationProved!taskVars, AutomationProved!workVars,
       AutomationProved!AskDropped, AutomationProved!scheduleVars,
       AutomationProved!Fault, AutomationProved!Idle, AutomationProved!None,
       AutomationProved!NoSeen, AutomationProved!Restart,
       AutomationProved!Run, AutomationProved!NoTask,
       AutomationProved!Spawner, AutomationProved!Owner,
       AutomationProved!Reword, AutomationProved!Edited,
       AutomationProved!Pause, AutomationProved!Reschedule,
       AutomationProved!Ask, AutomationProved!Admitted,
       AutomationProved!Asked, AutomationProved!OwnerStops,
       AutomationProved!OwnerCancels, AutomationProved!OwnerRetries,
       AutomationProved!Loop, AutomationProved!Tick,
       AutomationProved!Running, AutomationProved!Reconciled,
       AutomationProved!Settled, AutomationProved!Due,
       AutomationProved!ClaimDue, AutomationProved!Spawned,
       AutomationProved!Admits, AutomationProved!Accept,
       AutomationProved!Free, AutomationProved!TickOver,
       AutomationProved!Advanced, AutomationProved!SkipDue,
       AutomationProved!Going, AutomationProved!Handler,
       AutomationProved!AskClaims, AutomationProved!AskRefused,
       AutomationProved!AskSpawns, AutomationProved!RunStep,
       AutomationProved!TaskStep, AutomationProved!Unavailable,
       AutomationProved!Ended, AutomationProved!Materialize,
       AutomationProved!Made, AutomationProved!MaterializeFails,
       AutomationProved!TaskEnds, AutomationProved!Submission,
       AutomationProved!Claim, AutomationProved!Busy,
       AutomationProved!Submit, AutomationProved!PrepareFails,
       AutomationProved!Answered, AutomationProved!Unanswered,
       AutomationProved!TurnStep, AutomationProved!Take,
       AutomationProved!TurnEnds, AutomationProved!Found,
       AutomationProved!Project, AutomationProved!ProjectRun,
       AutomationProved!RecoverTurn

LEMMA AutomationVars == UNCHANGED Automation!vars <=> UNCHANGED AutomationProved!vars
BY DEF Automation!vars, Automation!scheduleVars, Automation!runVars,
       Automation!taskVars, Automation!workVars, AutomationProved!vars,
       AutomationProved!scheduleVars, AutomationProved!runVars,
       AutomationProved!taskVars, AutomationProved!workVars

LEMMA AutomationTypeOK == Automation!TypeOK <=> AutomationProved!TypeOK
BY DEF Automation!TypeOK, Automation!Run, Automation!None,
       Automation!Spawner, AutomationProved!TypeOK, AutomationProved!Run,
       AutomationProved!None, AutomationProved!Spawner

LEMMA AutomationRunsAsAccepted == Automation!RunsAsAccepted <=> AutomationProved!RunsAsAccepted
BY DEF Automation!RunsAsAccepted, Automation!Run,
       AutomationProved!RunsAsAccepted, AutomationProved!Run

LEMMA PartStep ==
  ASSUME [ProtocolsNext]_protocolsVars
  PROVE  /\ [Next]_vars
         /\ [Control!Next]_(Control!vars)
         /\ [Handoff!Next]_(Handoff!vars)
         /\ [Automation!Next]_(Automation!vars)
<1>1. UNCHANGED controlVars => UNCHANGED Control!vars
  BY DEF controlVars, Control!vars, Control!daemonVars, Control!helperVars, Control!phoneVars
<1>2. UNCHANGED handoffVars => UNCHANGED Handoff!vars
  BY DEF handoffVars, Handoff!vars, Handoff!runtimeVars, Handoff!storeVars, Handoff!taskVars,
         Handoff!bounds, Handoff!records
<1>3. UNCHANGED automationVars => UNCHANGED Automation!vars
  BY DEF automationVars, Automation!vars, Automation!scheduleVars, Automation!runVars,
         Automation!taskVars, Automation!workVars
<1>4. CASE UNCHANGED protocolsVars
  BY <1>1, <1>2, <1>3, <1>4 DEF protocolsVars
<1>5. CASE ProtocolsNext
  BY <1>1, <1>2, <1>3, <1>5 DEF ProtocolsNext
<1> QED
  BY <1>4, <1>5

(* Every behaviour of the run is one of Approvals, of ComputerControl, of    *)
(* UpdateHandoff and, but for its fairness, of Automations.                  *)
THEOREM PartsImplemented ==
  ProtocolsSpec => /\ Spec
                   /\ Control!Spec
                   /\ Handoff!Spec
                   /\ Automation!Init /\ [][Automation!Next]_(Automation!vars)
<1>1. ProtocolsInit => Init /\ Control!Init /\ Handoff!Init /\ Automation!Init
  BY DEF ProtocolsInit
<1> QED
  BY <1>1, PartStep, PTL DEF ProtocolsSpec, Spec, Control!Spec, Handoff!Spec

LEMMA HandoffKept == ProtocolsSpec => []HandoffInv
<1>1. Limits
  BY ProtocolsAssumption DEF Limits
<1> QED
  BY <1>1, HandoffInvariant, PartsImplemented, PTL

LEMMA ControlKept == ProtocolsSpec => []Control!TypeOK /\ []Control!EachInputOnce
<1>1. ControlProved!Bounds
  BY ProtocolsAssumption DEF ControlProved!Bounds
<1>2. ControlProved!Spec => []ControlProved!TypeOK
  BY <1>1, ControlProved!TypeCorrect
<1>3. ControlProved!Spec => []ControlProved!EachInputOnce
  BY <1>1, ControlProved!InputOnce
<1>4. Control!Init => ControlProved!Init
  BY ControlInit
<1>5. [Control!Next]_(Control!vars) => [ControlProved!Next]_(ControlProved!vars)
  BY ControlNext, ControlVars
<1>6. ControlProved!TypeOK => Control!TypeOK
  BY ControlTypeOK
<1>7. ControlProved!EachInputOnce => Control!EachInputOnce
  BY ControlEachInputOnce
<1> QED
  BY <1>2, <1>3, <1>4, <1>5, <1>6, <1>7, PartsImplemented, PTL DEF Control!Spec, ControlProved!Spec

LEMMA AutomationKept == ProtocolsSpec => []Automation!TypeOK /\ []Automation!RunsAsAccepted
<1>1. AutomationProved!Limits
  BY ProtocolsAssumption DEF AutomationProved!Limits
<1> DEFINE Inv == AutomationProved!IInv /\ AutomationProved!WithinInv
<1>2. Automation!Init => Inv
  BY <1>1, AutomationInit, AutomationProved!InitOK, AutomationProved!WithinInit
<1>3. Inv /\ [Automation!Next]_(Automation!vars) => Inv'
  BY <1>1, AutomationNext, AutomationVars, AutomationProved!StepOK, AutomationProved!WithinStep
<1>4. Inv => Automation!TypeOK
  BY <1>1, AutomationTypeOK, AutomationProved!WithinTypes
<1>5. Inv => Automation!RunsAsAccepted
  BY AutomationRunsAsAccepted, AutomationProved!InvAccepted
<1> QED
  BY <1>2, <1>3, <1>4, <1>5, PartsImplemented, PTL

(* Every variable of every part keeps its type.                              *)
THEOREM TypesCorrect == ProtocolsSpec => []TypesOK
<1>1. HandoffInv => Handoff!TypeOK
  BY DEF HandoffInv
<1>2. TypeOK /\ Control!TypeOK /\ Handoff!TypeOK /\ Automation!TypeOK => TypesOK
  BY DEF TypesOK
<1> QED
  BY <1>1, <1>2, TypeCorrect, PartsImplemented, HandoffKept, ControlKept, AutomationKept, PTL

(* Beside the other parts, too, a batch of input is carried out at most once *)
(* and in order (advance_control_sequence, ControlGate).                     *)
THEOREM InputOnce == ProtocolsSpec => []EachInputOnce
<1>1. Control!EachInputOnce => EachInputOnce
  BY DEF EachInputOnce
<1> QED
  BY <1>1, ControlKept, PTL

(* A turn that the update has stopped is continued by one request at most,   *)
(* ever, if it was cut off and its owner had not stopped it before           *)
(* (claim_update_continuation, cancel_update_handoff).                       *)
THEOREM ContinuesOnce == ProtocolsSpec => ContinuedOnce
<1>1. Limits
  BY ProtocolsAssumption DEF Limits
<1>2. Handoff!ContinuedOnce => ContinuedOnce
  BY DEF ContinuedOnce
<1> QED
  BY <1>1, <1>2, Continued, PartsImplemented, PTL

(* The runtime takes one task for a run of an automation, once, with the     *)
(* text the schedule had when the run was accepted                           *)
(* (claim_scheduled_automation).                                             *)
THEOREM RunsKeepTheirTask == ProtocolsSpec => []RunsAsAccepted
<1>1. Automation!RunsAsAccepted => RunsAsAccepted
  BY DEF RunsAsAccepted
<1> QED
  BY <1>1, AutomationKept, PTL
=============================================================================
