---------------------- MODULE ComputerControl_proofs ----------------------
(* Input from a phone is carried out once and in order, for any number of    *)
(* requests for control, batches, heartbeats and losses.                     *)
(*                                                                           *)
(* The helper forgets how far it got when a gate closes: a gate that opened  *)
(* again for the same request would carry out its first batch once more. So  *)
(* the proof follows the commands that open gates. A request for control is  *)
(* used again only until the phone has had an answer to it, and the pipe is  *)
(* in order: when the first batch of a request is sent, no attempt at it is  *)
(* left, neither in a handler nor in the pipe (Contested, Untouched).        *)
EXTENDS ComputerControl, TLAPS

Bounds == MaxRequests \in Nat /\ MaxSeq \in Nat /\ MaxLosses \in Nat

-----------------------------------------------------------------------------
(* Each handler is at a step of its own operation.                           *)
Steps == [acquire |-> {"idle", "lookup", "consent", "renew", "activate", "undo", "undone", "reply"},
          heartbeat |-> {"idle", "read", "beat", "renewing", "refused", "reply"},
          input |-> {"idle", "prepare", "input", "advance", "undo", "undone", "reply"},
          release |-> {"idle", "ask", "releasing", "row", "reply"}]
HandlersOK == \A k \in Kind :
    /\ handler[k].at \in Steps[k]
    /\ handler[k].at = "idle" => handler[k] = Idle
    /\ handler[k].at # "idle" => handler[k].req \in Request

(* Whoever waits for a command waits for that one, which is in the pipe once. *)
AwaitedAt(op) == CASE op = "heartbeat" -> {"renewing"}
                   [] op = "release" -> {"undone", "releasing"}
                   [] OTHER -> {op}
Owned == \A i \in 1..Len(pipe) : pipe[i].by \in Kind =>
    /\ handler[pipe[i].by].at \in AwaitedAt(pipe[i].op)
    /\ handler[pipe[i].by].req = pipe[i].req
    /\ handler[pipe[i].by].seq = pipe[i].seq \/ pipe[i].op = "heartbeat"
    /\ \A j \in 1..Len(pipe) : pipe[j].by = pipe[i].by => j = i

(* An attempt at control that was dropped is ahead of the next one, and none *)
(* is left once the phone has its answer.                                    *)
Activating(i) == i \in 1..Len(pipe) /\ pipe[i].op = "activate"
LastOne == \A i \in 1..Len(pipe) :
    Activating(i) /\ pipe[i].by = "acquire" => \A j \in 1..Len(pipe) : Activating(j) => j <= i
Given == handler["acquire"].at = "reply" /\ handler["acquire"].ok
NoneLeft == Given \/ phone.at = "active" => \A i \in 1..Len(pipe) : ~Activating(i)

(* Whom the phone listens to.                                                *)
Listening ==
    /\ handler["acquire"].heard => phone.at = "starting" /\ phone.req = handler["acquire"].req
    /\ \A k \in {"heartbeat", "input"} :
          handler[k].heard => phone.at = "active" /\ phone.req = handler[k].req
    /\ phone.at = "active" => handler["acquire"] = Idle
    /\ phone.at # "watching" => phone.req \in Request
    /\ phone.req < next /\ handler["acquire"].req < next

(* A request for control that may still be made: nothing was sent under it.  *)
Contested(r) ==
    \/ r >= next
    \/ phone.req = r /\ phone.at # "active"
    \/ handler["acquire"].req = r
    \/ \E i \in 1..Len(pipe) : Activating(i) /\ pipe[i].req = r
Untouched(r) ==
    /\ \A s \in 1..MaxSeq : executed[r][s] = 0
    /\ handler["input"].req # r
    /\ \A i \in 1..Len(pipe) : pipe[i].op = "input" => pipe[i].req # r
Fresh == \A r \in Request : Contested(r) => Untouched(r)

(* What the helper did, and what the others know of it.                      *)
Carried(r, n) == \A b \in 1..n : executed[r][b] = 1
InOrder == \A r \in Request : \A s \in 1..MaxSeq :
    /\ executed[r][s] \in {0, 1}
    /\ executed[r][s] = 1 => Carried(r, s)
GateKnows == gate.req \in Request =>
    \A s \in 1..MaxSeq : executed[gate.req][s] = 1 <=> s <= gate.last
Behind ==
    /\ \A r \in Request : Carried(r, lease[r].seq)
    /\ phone.req \in Request => Carried(phone.req, phone.seq)
    /\ \A k \in Kind : \/ handler[k].at \in {"advance", "renewing"}
                       \/ handler[k].at = "reply" /\ handler[k].ok
                       => Carried(handler[k].req, handler[k].seq)

Shape == TypeOK /\ HandlersOK /\ Owned
Talk == LastOne /\ NoneLeft /\ Listening
Account == Fresh /\ InOrder /\ GateKnows /\ Behind
IInv == Shape /\ Talk /\ Account

-----------------------------------------------------------------------------
(* The types, by name.                                                       *)
LeaseRow == [status : {"none", "active", "expired", "released"}, seq : 0..MaxSeq, late : BOOLEAN]
HandlerRow == [at : {"idle", "lookup", "consent", "renew", "activate", "undo", "undone",
                     "read", "beat", "renewing", "refused", "prepare", "input", "advance",
                     "ask", "releasing", "row", "reply"},
               req : Request \cup {None}, seq : 0..MaxSeq, heard : BOOLEAN, ok : BOOLEAN]
PipeRow == [op : {"consent", "activate", "heartbeat", "input", "release"},
            req : Request, seq : 0..MaxSeq, by : Kind \cup {"nobody"}]
GateRow == [req : Request \cup {None}, last : 0..MaxSeq, late : BOOLEAN]
PhoneRow == [at : {"watching", "starting", "active"}, req : Request \cup {None}, seq : 0..MaxSeq]

RowsTyped == lease \in [Request -> LeaseRow] /\ losses \in 0..MaxLosses
HandlersTyped == handler \in [Kind -> HandlerRow]
PipeTyped == pipe \in Seq(PipeRow)
HelperTyped == /\ consent \in [Request -> {"unasked", "allowed", "denied"}]
               /\ gate \in GateRow /\ revoked \subseteq Request
               /\ executed \in [Request -> [1..MaxSeq -> 0..2]]
PhoneTyped == phone \in PhoneRow /\ next \in 1..(MaxRequests + 1)

LEMMA Types ==
    TypeOK <=> RowsTyped /\ HandlersTyped /\ PipeTyped /\ HelperTyped /\ PhoneTyped
BY DEF TypeOK, RowsTyped, HandlersTyped, PipeTyped, HelperTyped, PhoneTyped, LeaseRow,
   HandlerRow, PipeRow, GateRow, PhoneRow

(* A handler that is as it should be.                                        *)
Well(k, h) == /\ h \in HandlerRow /\ h.at \in Steps[k]
              /\ h.at = "idle" => h = Idle
              /\ h.at # "idle" => h.req \in Request
AllWell(H) == DOMAIN H = Kind /\ H = [k \in Kind |-> H[k]] /\ \A k \in Kind : Well(k, H[k])

LEMMA WellHandlers == HandlersTyped /\ HandlersOK <=> AllWell(handler)
BY DEF HandlersTyped, HandlersOK, AllWell, Well

LEMMA OneWell ==
    ASSUME NEW H, AllWell(H), NEW k \in Kind, NEW h, Well(k, h)
    PROVE  AllWell([H EXCEPT ![k] = h])
BY DEF AllWell

LEMMA Beginnings ==
    ASSUME Bounds
    PROVE  /\ \A k \in Kind : Well(k, Idle)
           /\ \A r \in Request : /\ Well("acquire", Called("lookup", r, 0))
                                 /\ Well("heartbeat", Called("read", r, 0))
                                 /\ Well("release", Called("ask", r, 0))
           /\ \A r \in Request : \A s \in 0..MaxSeq : Well("input", Called("prepare", r, s))
<1>0. 0 \in 0..MaxSeq
  BY DEF Bounds
<1>1. ASSUME NEW k \in Kind PROVE Well(k, Idle)
  <2>1. "idle" \in Steps[k]
    BY DEF Steps, Kind
  <2>2. Idle \in HandlerRow
    BY <1>0 DEF Idle, HandlerRow, None
  <2> QED BY <2>1, <2>2 DEF Well, Idle
<1>2. ASSUME NEW r \in Request, NEW s \in 0..MaxSeq, NEW k \in Kind, NEW at \in Steps[k] \ {"idle"}
      PROVE  Well(k, Called(at, r, s))
  <2>1. [at |-> at, req |-> r, seq |-> s, heard |-> TRUE, ok |-> FALSE] \in HandlerRow
    BY DEF HandlerRow, Steps, Kind
  <2> QED BY <2>1 DEF Well, Called
<1>3. /\ "lookup" \in Steps["acquire"] /\ "read" \in Steps["heartbeat"]
      /\ "ask" \in Steps["release"] /\ "prepare" \in Steps["input"]
  BY DEF Steps
<1> QED BY <1>0, <1>1, <1>2, <1>3 DEF Kind

LEMMA HungUp == ASSUME NEW H, AllWell(H) PROVE AllWell(HangUp(H))
<1>1. ASSUME NEW k \in Kind PROVE Well(k, HangUp(H)[k])
  <2>1. Well(k, H[k])
    BY DEF AllWell
  <2>2. CASE k = "release" \/ H[k] = Idle
    BY <2>1, <2>2 DEF HangUp
  <2>3. CASE ~(k = "release" \/ H[k] = Idle)
    <3>1. HangUp(H)[k] = [H[k] EXCEPT !.heard = FALSE]
      BY <2>3 DEF HangUp
    <3>2. H[k] \in HandlerRow /\ H[k].at # "idle"
      BY <2>1, <2>3 DEF Well
    <3>3. /\ [H[k] EXCEPT !.heard = FALSE] \in HandlerRow
          /\ [H[k] EXCEPT !.heard = FALSE].at = H[k].at
          /\ [H[k] EXCEPT !.heard = FALSE].req = H[k].req
      BY <3>2 DEF HandlerRow
    <3> QED BY <2>1, <3>1, <3>2, <3>3 DEF Well
  <2> QED BY <2>2, <2>3
<1> QED BY <1>1 DEF AllWell, HangUp

(* What each handler's next step is.                                         *)
LEMMA Answers ==
    ASSUME Bounds, NEW k \in Kind, NEW h, Well(k, h), h # Idle, NEW ok \in BOOLEAN,
           NEW s \in 0..MaxSeq
    PROVE  Well(k, Answer(h, ok, s))
<1>1. h.at # "idle" /\ "reply" \in Steps[k]
  BY DEF Well, Steps, Kind
<1> QED BY <1>1, Beginnings DEF Well, Answer, HandlerRow

(* How a handler that has heard from the helper, or has not, goes on.        *)
Awaits == {"consent", "activate", "undone", "renewing", "input", "releasing"}
LEMMA GoesOn ==
    ASSUME Bounds, AllWell(handler), RowsTyped, NEW k \in Kind, handler[k].at \in Awaits,
           NEW yes \in BOOLEAN
    PROVE  Well(k, GoOn(k, yes))
<1> DEFINE h == handler[k]
<1>0. Well(k, h) /\ h # Idle /\ h.req \in Request /\ 0 \in 0..MaxSeq
  BY DEF AllWell, Well, Awaits, Idle, Bounds
<1>1. lease[h.req].seq \in 0..MaxSeq /\ h.seq \in 0..MaxSeq
  BY <1>0 DEF RowsTyped, LeaseRow, Well, HandlerRow
<1>2. \A ok \in BOOLEAN : /\ Well(k, Answer(h, ok, 0)) /\ Well(k, Answer(h, ok, h.seq))
                          /\ Well(k, Answer(h, ok, lease[h.req].seq))
  BY <1>0, <1>1, Answers
<1>3. ASSUME NEW at \in Steps[k] \ {"idle"} PROVE Well(k, [h EXCEPT !.at = at])
  BY <1>0, <1>3 DEF Well, HandlerRow, Steps, Kind
<1>4. CASE h.at = "consent"
  <2>1. k = "acquire"
    BY <1>0, <1>4 DEF Well, Steps, Kind
  <2> QED BY <1>3, <1>4, <2>1 DEF GoOn, Steps
<1>5. CASE h.at = "activate"
  <2>1. k = "acquire"
    BY <1>0, <1>5 DEF Well, Steps, Kind
  <2> QED BY <1>2, <1>3, <1>5, <2>1 DEF GoOn, Steps
<1>6. CASE h.at = "undone"
  BY <1>2, <1>6 DEF GoOn
<1>7. CASE h.at = "renewing"
  <2>1. k = "heartbeat"
    BY <1>0, <1>7 DEF Well, Steps, Kind
  <2> QED BY <1>2, <1>3, <1>7, <2>1 DEF GoOn, Steps
<1>8. CASE h.at = "input"
  <2>1. k = "input"
    BY <1>0, <1>8 DEF Well, Steps, Kind
  <2> QED BY <1>2, <1>3, <1>8, <2>1 DEF GoOn, InputAnswered, Steps
<1>9. CASE h.at = "releasing"
  <2>1. k = "release"
    BY <1>0, <1>9 DEF Well, Steps, Kind
  <2> QED BY <1>3, <1>9, <2>1 DEF GoOn, Steps
<1> QED BY <1>4, <1>5, <1>6, <1>7, <1>8, <1>9 DEF Awaits

(* Whoever has a command in the pipe waits for it.                           *)
LEMMA AskersWait ==
    ASSUME Shape, NEW i \in 1..Len(pipe), pipe[i].by \in Kind
    PROVE  handler[pipe[i].by].at \in Awaits
<1>1. pipe[i] \in PipeRow
  BY Types DEF Shape, PipeTyped
<1> QED BY <1>1 DEF Shape, Owned, AwaitedAt, Awaits, PipeRow

-----------------------------------------------------------------------------
(* Each handler stays at a step of its own operation.                        *)

(* A handler moves on, with what it carries.                                 *)
LEMMA Moves ==
    ASSUME AllWell(handler), NEW k \in Kind, handler[k].at # "idle", NEW at \in Steps[k] \ {"idle"}
    PROVE  AllWell([handler EXCEPT ![k].at = at])
<1>1. Well(k, handler[k])
  BY DEF AllWell
<1>2. Well(k, [handler[k] EXCEPT !.at = at])
  BY <1>1 DEF Well, HandlerRow, Steps, Kind
<1> QED BY <1>2, OneWell

LEMMA Replies ==
    ASSUME Bounds, AllWell(handler), NEW k \in Kind, handler[k].at # "idle", NEW ok \in BOOLEAN,
           NEW s \in 0..MaxSeq
    PROVE  AllWell([handler EXCEPT ![k] = Answer(@, ok, s)])
<1>1. Well(k, handler[k]) /\ handler[k] # Idle
  BY DEF AllWell, Idle
<1>2. Well(k, Answer(handler[k], ok, s))
  BY <1>1, Answers
<1> QED BY <1>2, OneWell

LEMMA LetsGo ==
    ASSUME Bounds, NEW H, AllWell(H), NEW r \in Request, NEW G, G = [HangUp(H) EXCEPT !["release"] = Called("ask", r, 0)]
    PROVE  AllWell(G)
BY HungUp, OneWell, Beginnings DEF Kind

LEMMA PhoneHandlers ==
    ASSUME Bounds, Shape, Talk,
           \/ TakeControl \/ SendInput \/ SendHeartbeat \/ Done \/ GiveUp
           \/ AcquireAnswered \/ TooLateForControl \/ ReleaseAnswered
           \/ \E k \in Kind : BeatAnswered(k) \/ Lose(k) \/ Drop(k)
    PROVE  AllWell(handler')
<1>0. /\ AllWell(handler) /\ PhoneTyped /\ \A k \in Kind : Well(k, handler[k])
      /\ phone.at = "active" => phone.req \in Request
  BY Types, WellHandlers DEF Shape, Talk, Listening, AllWell
<1>1. CASE TakeControl
  BY <1>0, <1>1, Beginnings, OneWell DEF TakeControl, Kind
<1>2. CASE SendInput
  <2>1. phone.seq + 1 \in 0..MaxSeq
    BY <1>0, <1>2 DEF SendInput, PhoneTyped, PhoneRow, Bounds
  <2> QED BY <1>0, <1>2, <2>1, Beginnings, OneWell DEF SendInput, Kind
<1>3. CASE SendHeartbeat
  BY <1>0, <1>3, Beginnings, OneWell DEF SendHeartbeat, Kind
<1>4. CASE Done
  BY <1>0, <1>4, LetsGo DEF Done, LetGo
<1>5. CASE GiveUp
  BY <1>0, <1>5, HungUp DEF GiveUp
<1>6. ASSUME NEW k \in Kind PROVE AllWell(Taken(k))
  BY <1>0, Beginnings, OneWell DEF Taken
<1>7. CASE AcquireAnswered
  BY <1>6, <1>7 DEF AcquireAnswered, Kind
<1>8. CASE TooLateForControl
  <2>1. handler["acquire"].req \in Request
    BY <1>0, <1>8 DEF TooLateForControl, Answered, Well, Kind
  <2> QED BY <1>6, <1>8, <2>1, Beginnings, OneWell DEF TooLateForControl, Kind
<1>9. CASE ReleaseAnswered
  BY <1>6, <1>9 DEF ReleaseAnswered, Kind
<1>10. ASSUME NEW k \in Kind, BeatAnswered(k) PROVE AllWell(handler')
  <2>1. handler[k].req \in Request
    BY <1>0, <1>10 DEF BeatAnswered, Answered, Well
  <2> QED BY <1>6, <1>10, <2>1, LetsGo DEF BeatAnswered, LetGo
<1>11. ASSUME NEW k \in Kind, Lose(k) PROVE AllWell(handler')
  <2>1. handler[k].at # "idle" /\ handler[k].req \in Request
    BY <1>0, <1>11 DEF Lose, Well, Idle
  <2>2. AllWell([handler EXCEPT ![k].heard = FALSE])
    <3>1. Well(k, [handler[k] EXCEPT !.heard = FALSE])
      BY <1>0, <2>1 DEF Well, HandlerRow
    <3> QED BY <1>0, <3>1, OneWell
  <2> QED BY <1>0, <1>11, <2>1, <2>2, LetsGo DEF Lose, LetGo
<1>12. ASSUME NEW k \in Kind, Drop(k) PROVE AllWell(handler')
  BY <1>0, <1>12, Beginnings, OneWell DEF Drop
<1> QED BY <1>1, <1>2, <1>3, <1>4, <1>5, <1>7, <1>8, <1>9, <1>10, <1>11, <1>12

LEMMA DaemonHandlers ==
    ASSUME Bounds, Shape, Daemon \/ \E k \in Kind : Unanswered(k)
    PROVE  AllWell(handler')
<1>0. /\ AllWell(handler) /\ RowsTyped /\ \A k \in Kind : Well(k, handler[k])
      /\ 0 \in 0..MaxSeq
  BY Types, WellHandlers DEF Shape, AllWell, Bounds
<1> USE DEF Kind
<1>1. CASE Lookup
  <2>1. handler["acquire"].at # "idle" /\ {"consent", "renew"} \subseteq Steps["acquire"] \ {"idle"}
    BY <1>1 DEF Lookup, Steps
  <2>2. /\ AllWell([handler EXCEPT !["acquire"].at = "consent"])
        /\ AllWell([handler EXCEPT !["acquire"].at = "renew"])
        /\ AllWell([handler EXCEPT !["acquire"] = Answer(@, FALSE, 0)])
    BY <1>0, <2>1, Moves, Replies
  <2> QED BY <1>1, <2>2 DEF Lookup, Ask, Step, Reply
<1>2. CASE Renew
  BY <1>0, <1>2, Moves DEF Renew, Ask, Step, Steps
<1>3. ASSUME NEW k \in Kind, Undo(k) PROVE AllWell(handler')
  <2>1. "undone" \in Steps[k]
    BY <1>0, <1>3 DEF Undo, Well, Steps
  <2> QED BY <1>0, <1>3, <2>1, Moves DEF Undo, Ask, Step
<1>4. CASE BeatRead
  <2>1. CASE Valid(handler["heartbeat"].req)
    <3>1. Well("heartbeat", [handler["heartbeat"] EXCEPT !.at = "beat", !.ok = TRUE])
      BY <1>0, <1>4 DEF BeatRead, Well, HandlerRow, Steps
    <3>2. handler' = [handler EXCEPT !["heartbeat"] = [@ EXCEPT !.at = "beat", !.ok = TRUE]]
      BY <1>4, <2>1, <1>0 DEF BeatRead, AllWell
    <3> QED BY <1>0, <3>1, <3>2, OneWell
  <2>2. CASE ~Valid(handler["heartbeat"].req)
    BY <1>0, <1>4, <2>2, Replies DEF BeatRead, Reply
  <2> QED BY <2>1, <2>2
<1>5. CASE BeatWrite
  <2>1. CASE Active(handler["heartbeat"].req) /\ handler["heartbeat"].ok
    <3>0. lease[handler["heartbeat"].req].seq \in 0..MaxSeq
      BY <1>0, <1>5 DEF BeatWrite, Well, RowsTyped, LeaseRow
    <3>1. Well("heartbeat", [handler["heartbeat"] EXCEPT !.at = "renewing",
                                                         !.seq = lease[handler["heartbeat"].req].seq])
      BY <1>0, <1>5, <3>0 DEF BeatWrite, Well, HandlerRow, Steps
    <3>2. handler' = [handler EXCEPT !["heartbeat"] = [@ EXCEPT !.at = "renewing",
                                        !.seq = lease[handler["heartbeat"].req].seq]]
      BY <1>5, <2>1, <1>0 DEF BeatWrite, AllWell
    <3> QED BY <1>0, <3>1, <3>2, OneWell
  <2>2. CASE ~(Active(handler["heartbeat"].req) /\ handler["heartbeat"].ok)
    BY <1>0, <1>5, <2>2, Replies DEF BeatWrite, Reply
  <2> QED BY <2>1, <2>2
<1>6. CASE BeatRefused
  BY <1>0, <1>6, Replies DEF BeatRefused, Reply
<1>7. CASE Prepare
  BY <1>0, <1>7, Moves, Replies DEF Prepare, Ask, Step, Reply, Steps
<1>8. CASE Advance
  <2>1. handler["input"].seq \in 0..MaxSeq
    BY <1>0 DEF Well, HandlerRow
  <2>2. AllWell(Overtaken(handler["input"].req, handler["input"].seq))
    <3>1. handler["heartbeat"].at = "beat"
          => Well("heartbeat", [handler["heartbeat"] EXCEPT !.ok = FALSE])
      BY <1>0 DEF Well, HandlerRow
    <3> QED BY <1>0, <3>1, OneWell DEF Overtaken
  <2>3. Overtaken(handler["input"].req, handler["input"].seq)["input"] = handler["input"]
    BY <1>0 DEF Overtaken, AllWell
  <2>4. Well("input", Answer(handler["input"], TRUE, handler["input"].seq))
    <3>1. handler["input"] # Idle /\ Well("input", handler["input"])
      BY <1>0, <1>8 DEF Advance, Idle
    <3> QED BY <2>1, <3>1, Answers
  <2>5. "undo" \in Steps["input"] \ {"idle"}
    BY DEF Steps
  <2>6. AllWell([handler EXCEPT !["input"].at = "undo"])
    BY <1>0, <1>8, <2>5, Moves DEF Advance
  <2>7. AllWell([Overtaken(handler["input"].req, handler["input"].seq)
                   EXCEPT !["input"] = Answer(handler["input"], TRUE, handler["input"].seq)])
    BY <2>2, <2>4, OneWell
  <2> QED BY <1>8, <2>3, <2>6, <2>7 DEF Advance, Step
<1>9. CASE AskRelease
  BY <1>0, <1>9, Moves DEF AskRelease, Ask, Step, Steps
<1>10. CASE ReleaseRow
  BY <1>0, <1>10, Replies DEF ReleaseRow, Reply
<1>11. ASSUME NEW k \in Kind, Unanswered(k) PROVE AllWell(handler')
  BY <1>0, <1>11, GoesOn, OneWell DEF Unanswered, Waiting, Awaits
<1> QED BY <1>1, <1>2, <1>3, <1>4, <1>5, <1>6, <1>7, <1>8, <1>9, <1>10, <1>11 DEF Daemon

LEMMA HandlersStep ==
    ASSUME Bounds, Shape, Talk, [Next]_vars
    PROVE  HandlersTyped' /\ HandlersOK'
<1>0. AllWell(handler) /\ RowsTyped
  BY Types, WellHandlers DEF Shape
<1>3. AllWell(handler') => HandlersTyped' /\ HandlersOK'
  BY DEF HandlersTyped, HandlersOK, AllWell, Well
<1>1. CASE Command
  <2> DEFINE k == Head(pipe).by
  <2>0. PICK yes \in BOOLEAN :
           handler' = IF k \in Kind THEN [handler EXCEPT ![k] = GoOn(k, yes)] ELSE handler
    BY <1>1 DEF Command
  <2>1. CASE k \in Kind
    <3>1. handler[k].at \in Awaits
      BY <1>1, <2>1, AskersWait, Types DEF Command, Shape, PipeTyped
    <3>2. Well(k, GoOn(k, yes))
      BY <1>0, <2>1, <3>1, GoesOn
    <3> QED BY <1>0, <1>3, <2>0, <2>1, <3>2, OneWell
  <2> QED BY <1>0, <1>3, <2>0, <2>1
<1>2. CASE UNCHANGED handler
  BY <1>0, <1>2, <1>3
<1>4. CASE \E r \in Request : RowExpires(r) \/ Revoked(r)
  BY <1>2, <1>4 DEF RowExpires, Revoked
<1>5. CASE GateExpires \/ Timer \/ LocalStop \/ UNCHANGED vars
  BY <1>2, <1>5 DEF GateExpires, Timer, LocalStop, Close, vars, daemonVars
<1> QED BY <1>1, <1>3, <1>4, <1>5, PhoneHandlers, DaemonHandlers DEF Next

-----------------------------------------------------------------------------
(* What one step does to the pipe and to those who wait for its commands.    *)
SameAsk(k) == /\ handler'[k].at = handler[k].at
              /\ handler'[k].req = handler[k].req
              /\ handler'[k].seq = handler[k].seq
NobodyAsks == pipe' = pipe /\ \A k \in Kind : SameAsk(k) \/ handler[k].at \notin Awaits
GivesUp(k) == pipe' = Orphan(k) /\ \A j \in Kind \ {k} : SameAsk(j)
Carries == /\ pipe # <<>> /\ pipe' = Tail(pipe)
           /\ \A j \in Kind : j # pipe[1].by => SameAsk(j)
Asks(k) == \E c \in PipeRow :
    /\ pipe' = Append(pipe, c) /\ c.by = k /\ handler[k].at \notin Awaits
    /\ \A j \in Kind \ {k} : SameAsk(j)
    /\ handler'[k].at \in AwaitedAt(c.op) /\ handler'[k].req = c.req
    /\ handler'[k].seq = c.seq \/ c.op = "heartbeat"
    /\ c.op = "activate" => k = "acquire" /\ handler[k].at = "renew" /\ c.req = handler[k].req
    /\ c.op = "input" => k = "input" /\ handler[k].at = "prepare" /\ c.req = handler[k].req
PipeMove == NobodyAsks \/ Carries \/ \E k \in Kind : GivesUp(k) \/ Asks(k)

LEMMA AskMoves ==
    ASSUME Shape, NEW k \in Kind, handler[k].at \notin Awaits \cup {"idle"},
           NEW op \in {"consent", "activate", "input", "release"},
           NEW at \in AwaitedAt(op), Ask(k, op, at),
           op = "activate" => k = "acquire" /\ handler[k].at = "renew",
           op = "input" => k = "input" /\ handler[k].at = "prepare"
    PROVE  Asks(k)
<1>0. handler \in [Kind -> HandlerRow] /\ handler[k].req \in Request
  BY Types DEF Shape, HandlersTyped, HandlersOK
<1> DEFINE c == [op |-> op, req |-> handler[k].req, seq |-> handler[k].seq, by |-> k]
<1>1. c \in PipeRow
  BY <1>0 DEF PipeRow, HandlerRow
<1>2. handler' = [handler EXCEPT ![k].at = at] /\ pipe' = Append(pipe, c)
  BY DEF Ask, Step
<1>3. \A j \in Kind \ {k} : SameAsk(j)
  BY <1>0, <1>2 DEF SameAsk
<1>4. handler'[k].at = at /\ handler'[k].req = c.req /\ handler'[k].seq = c.seq
  BY <1>0, <1>2 DEF HandlerRow
<1> QED BY <1>1, <1>2, <1>3, <1>4 DEF Asks

(* A handler that does not wait may do what it likes.                        *)
LEMMA QuietMoves ==
    ASSUME Shape, NEW k \in Kind, handler[k].at \notin Awaits, NEW h,
           handler' = [handler EXCEPT ![k] = h], pipe' = pipe
    PROVE  NobodyAsks
<1>0. handler \in [Kind -> HandlerRow]
  BY Types DEF Shape, HandlersTyped
<1> QED BY <1>0 DEF NobodyAsks, SameAsk

LEMMA HangsUp ==
    ASSUME Shape
    PROVE  \A k \in Kind : /\ HangUp(handler)[k].at = handler[k].at
                           /\ HangUp(handler)[k].req = handler[k].req
                           /\ HangUp(handler)[k].seq = handler[k].seq
<1>0. handler \in [Kind -> HandlerRow]
  BY Types DEF Shape, HandlersTyped
<1> QED BY <1>0 DEF HangUp, HandlerRow

LEMMA LetGoMoves ==
    ASSUME Shape, NEW k \in Kind, handler[k].at \notin Awaits, NEW r, LetGo(Taken(k), r),
           pipe' = pipe
    PROVE  NobodyAsks
<1>0. handler \in [Kind -> HandlerRow] /\ Idle.at = "idle"
  BY Types DEF Shape, HandlersTyped, Idle
<1>1. handler' = [HangUp(Taken(k)) EXCEPT !["release"] = Called("ask", r, 0)]
  BY DEF LetGo
<1>2. ASSUME NEW j \in Kind \ {"release", k} PROVE SameAsk(j)
  <2>1. handler'[j] = HangUp(Taken(k))[j] /\ Taken(k)[j] = handler[j]
    BY <1>0, <1>1, <1>2 DEF HangUp, Taken
  <2>2. handler'[j] = handler[j] \/ handler'[j] = [handler[j] EXCEPT !.heard = FALSE]
    BY <2>1 DEF HangUp
  <2> QED BY <1>0, <2>2 DEF SameAsk, HandlerRow
<1>3. k = "release" \/ handler["release"].at \notin Awaits
  BY <1>0 DEF LetGo, Awaits, Taken, Idle, Kind
<1> QED BY <1>2, <1>3 DEF NobodyAsks

LEMMA PhonePipe ==
    ASSUME Shape, Talk,
           \/ TakeControl \/ SendInput \/ SendHeartbeat \/ Done \/ GiveUp
           \/ AcquireAnswered \/ TooLateForControl \/ ReleaseAnswered
           \/ \E k \in Kind : BeatAnswered(k) \/ Lose(k) \/ Drop(k)
    PROVE  PipeMove
<1>0. handler \in [Kind -> HandlerRow] /\ "idle" \notin Awaits /\ Idle.at = "idle"
  BY Types DEF Shape, HandlersTyped, Awaits, Idle
<1>1. CASE TakeControl
  BY <1>0, <1>1, QuietMoves DEF TakeControl, PipeMove, Kind
<1>2. CASE SendInput
  BY <1>0, <1>2, QuietMoves DEF SendInput, PipeMove, Kind
<1>3. CASE SendHeartbeat
  BY <1>0, <1>3, QuietMoves DEF SendHeartbeat, PipeMove, Kind
<1>4. CASE Done
  <2>1. handler["release"] = Idle /\ pipe' = pipe
        /\ handler' = [HangUp(handler) EXCEPT !["release"] = Called("ask", phone.req, 0)]
    BY <1>4 DEF Done, LetGo
  <2>2. \A j \in Kind \ {"release"} : handler'[j] = HangUp(handler)[j]
    BY <2>1 DEF HangUp
  <2> QED BY <1>0, <2>1, <2>2, HangsUp DEF NobodyAsks, SameAsk, PipeMove
<1>5. CASE GiveUp
  BY <1>5, HangsUp DEF GiveUp, NobodyAsks, SameAsk, PipeMove
<1>6. "reply" \notin Awaits
  BY DEF Awaits
<1>7. CASE AcquireAnswered
  BY <1>6, <1>7, QuietMoves DEF AcquireAnswered, Answered, Taken, PipeMove, Kind
<1>8. CASE TooLateForControl
  <2>1. \A j \in Kind \ {"acquire", "release"} : handler'[j] = handler[j]
    BY <1>0, <1>8 DEF TooLateForControl, Taken
  <2>2. handler["acquire"].at = "reply" /\ handler["release"].at = "idle" /\ pipe' = pipe
    BY <1>0, <1>8 DEF TooLateForControl, Answered
  <2> QED BY <1>0, <1>6, <2>1, <2>2 DEF NobodyAsks, SameAsk, PipeMove
<1>9. CASE ReleaseAnswered
  BY <1>6, <1>9, QuietMoves DEF ReleaseAnswered, Answered, Taken, PipeMove, Kind
<1>10. ASSUME NEW k \in Kind, BeatAnswered(k) PROVE PipeMove
  <2>1. handler[k].at \notin Awaits /\ pipe' = pipe
    BY <1>6, <1>10 DEF BeatAnswered, Answered
  <2>2. CASE handler[k].ok
    BY <1>10, <2>1, <2>2, QuietMoves DEF BeatAnswered, Taken, PipeMove
  <2>3. CASE ~handler[k].ok
    BY <1>10, <2>1, <2>3, LetGoMoves DEF BeatAnswered, PipeMove
  <2> QED BY <2>2, <2>3
<1>11. ASSUME NEW k \in Kind, Lose(k) PROVE PipeMove
  <2>1. pipe' = pipe
    BY <1>11 DEF Lose
  <2>2. CASE k \in {"acquire", "release"}
    <3>1. handler' = [handler EXCEPT ![k].heard = FALSE]
      BY <1>11, <2>2 DEF Lose
    <3>2. \A j \in Kind : SameAsk(j)
      BY <1>0, <3>1 DEF SameAsk, HandlerRow
    <3> QED BY <2>1, <3>2 DEF NobodyAsks, PipeMove
  <2>3. CASE k \notin {"acquire", "release"}
    <3>1. LetGo(handler, handler[k].req)
      BY <1>11, <2>3 DEF Lose
    <3>2. /\ handler["release"] = Idle
          /\ handler' = [HangUp(handler) EXCEPT !["release"] = Called("ask", handler[k].req, 0)]
      BY <3>1 DEF LetGo
    <3>3. \A j \in Kind \ {"release"} : handler'[j] = HangUp(handler)[j]
      BY <3>2 DEF HangUp
    <3> QED BY <1>0, <2>1, <3>2, <3>3, HangsUp DEF NobodyAsks, SameAsk, PipeMove
  <2> QED BY <2>2, <2>3
<1>12. ASSUME NEW k \in Kind, Drop(k) PROVE PipeMove
  BY <1>0, <1>12 DEF Drop, GivesUp, SameAsk, PipeMove
<1> QED BY <1>1, <1>2, <1>3, <1>4, <1>5, <1>7, <1>8, <1>9, <1>10, <1>11, <1>12

LEMMA DaemonPipe ==
    ASSUME Bounds, Shape, Daemon \/ \E k \in Kind : Unanswered(k)
    PROVE  PipeMove
<1>0. handler \in [Kind -> HandlerRow]
  BY Types DEF Shape, HandlersTyped
<1> USE DEF Kind
<1> DEFINE Free == {"lookup", "renew", "undo", "read", "beat", "refused", "prepare", "advance",
                    "ask", "row"}
<1>1. Free \cap (Awaits \cup {"idle"}) = {}
  BY DEF Awaits
<1>2. /\ "consent" \in AwaitedAt("consent") /\ "activate" \in AwaitedAt("activate")
      /\ "input" \in AwaitedAt("input") /\ {"undone", "releasing"} \subseteq AwaitedAt("release")
      /\ "renewing" \in AwaitedAt("heartbeat")
  BY DEF AwaitedAt
<1>3. CASE Lookup
  <2>1. \/ Ask("acquire", "consent", "consent")
        \/ pipe' = pipe /\ Step("acquire", "renew")
        \/ pipe' = pipe /\ Reply("acquire", FALSE, 0)
    BY <1>3 DEF Lookup
  <2> QED BY <1>1, <1>2, <1>3, <2>1, AskMoves, QuietMoves DEF Lookup, Step, Reply, PipeMove
<1>4. CASE Renew
  BY <1>1, <1>2, <1>4, AskMoves, QuietMoves DEF Renew, Step, PipeMove
<1>5. ASSUME NEW k \in Kind, Undo(k) PROVE PipeMove
  BY <1>1, <1>2, <1>5, AskMoves DEF Undo, PipeMove
<1>6. CASE BeatRead
  <2>1. \/ handler' = [handler EXCEPT !["heartbeat"] = [@ EXCEPT !.at = "beat", !.ok = TRUE]]
        \/ Reply("heartbeat", FALSE, 0)
    BY <1>0, <1>6 DEF BeatRead
  <2> QED BY <1>1, <1>6, <2>1, QuietMoves DEF BeatRead, Reply, PipeMove
<1>7. CASE BeatWrite
  <2>0. handler["heartbeat"].at = "beat"
    BY <1>7 DEF BeatWrite
  <2>1. CASE Active(handler["heartbeat"].req) /\ handler["heartbeat"].ok
    <3> DEFINE c == [op |-> "heartbeat", req |-> handler["heartbeat"].req, seq |-> 0,
                     by |-> "heartbeat"]
               h == [handler["heartbeat"] EXCEPT !.at = "renewing",
                                                 !.seq = lease[handler["heartbeat"].req].seq]
    <3>1. handler' = [handler EXCEPT !["heartbeat"] = h] /\ pipe' = Append(pipe, c)
      BY <1>0, <1>7, <2>1 DEF BeatWrite
    <3>2. handler["heartbeat"].req \in Request
      BY <2>0 DEF Shape, HandlersOK
    <3>3. 0 \in 0..MaxSeq
      BY DEF Bounds
    <3>4. c \in PipeRow
      BY <3>2, <3>3 DEF PipeRow
    <3>5. h.at = "renewing" /\ h.req = c.req /\ handler'["heartbeat"] = h
      BY <1>0, <3>1 DEF HandlerRow
    <3>6. \A j \in Kind \ {"heartbeat"} : SameAsk(j)
      BY <1>0, <3>1 DEF SameAsk
    <3>7. c.by = "heartbeat" /\ c.op = "heartbeat" /\ handler["heartbeat"].at \notin Awaits
      BY <1>1, <2>0
    <3>8. Asks("heartbeat")
      BY <1>2, <3>1, <3>4, <3>5, <3>6, <3>7 DEF Asks
    <3> QED BY <3>8 DEF PipeMove
  <2>2. CASE ~(Active(handler["heartbeat"].req) /\ handler["heartbeat"].ok)
    BY <1>1, <1>7, <2>0, <2>2, QuietMoves DEF BeatWrite, Reply, PipeMove
  <2> QED BY <2>1, <2>2
<1>8. CASE BeatRefused
  BY <1>1, <1>8, QuietMoves DEF BeatRefused, Reply, PipeMove
<1>9. CASE Prepare
  BY <1>1, <1>2, <1>9, AskMoves, QuietMoves DEF Prepare, Reply, PipeMove
<1>10. CASE Advance
  <2>1. handler["input"].at \notin Awaits /\ pipe' = pipe
    BY <1>1, <1>10 DEF Advance
  <2>2. handler["heartbeat"].at # "beat" => SameAsk("heartbeat")
    BY <1>0, <1>10 DEF Advance, Overtaken, Step, SameAsk
  <2>3. SameAsk("acquire") /\ SameAsk("release")
    BY <1>0, <1>10 DEF Advance, Overtaken, Step, SameAsk
  <2> QED BY <1>1, <2>1, <2>2, <2>3 DEF NobodyAsks, PipeMove
<1>11. CASE AskRelease
  BY <1>1, <1>2, <1>11, AskMoves DEF AskRelease, PipeMove
<1>12. CASE ReleaseRow
  BY <1>1, <1>12, QuietMoves DEF ReleaseRow, Reply, PipeMove
<1>13. ASSUME NEW k \in Kind, Unanswered(k) PROVE PipeMove
  BY <1>0, <1>13 DEF Unanswered, GivesUp, SameAsk, PipeMove
<1> QED BY <1>3, <1>4, <1>5, <1>6, <1>7, <1>8, <1>9, <1>10, <1>11, <1>12, <1>13 DEF Daemon

LEMMA PipeStep ==
    ASSUME Bounds, Shape, Talk, [Next]_vars
    PROVE  PipeMove
<1>0. handler \in [Kind -> HandlerRow]
  BY Types DEF Shape, HandlersTyped
<1>1. CASE Command
  <2>1. Head(pipe) = pipe[1] /\ pipe # <<>> /\ pipe' = Tail(pipe)
    BY <1>1, Types DEF Command, Shape, PipeTyped
  <2> DEFINE k == pipe[1].by
  <2>2. PICK yes \in BOOLEAN :
           handler' = IF k \in Kind THEN [handler EXCEPT ![k] = GoOn(k, yes)] ELSE handler
    BY <1>1, <2>1 DEF Command
  <2>3. \A j \in Kind : j # k => SameAsk(j)
    BY <1>0, <2>2 DEF SameAsk
  <2> QED BY <2>1, <2>3 DEF Carries, PipeMove
<1>2. CASE UNCHANGED <<handler, pipe>>
  BY <1>2 DEF NobodyAsks, SameAsk, PipeMove
<1>3. CASE \E r \in Request : RowExpires(r) \/ Revoked(r)
  BY <1>2, <1>3 DEF RowExpires, Revoked
<1>4. CASE GateExpires \/ Timer \/ LocalStop \/ UNCHANGED vars
  BY <1>2, <1>4 DEF GateExpires, Timer, LocalStop, Close, vars, daemonVars
<1> QED BY <1>1, <1>3, <1>4, PhonePipe, DaemonPipe DEF Next

(* The commands of the next pipe: those that were there, and one more.       *)
LEMMA OldCommands ==
    ASSUME PipeTyped, NEW k \in Kind, pipe' = pipe \/ pipe' = Orphan(k)
    PROVE  /\ PipeTyped' /\ Len(pipe') = Len(pipe)
           /\ \A i \in 1..Len(pipe) :
                 /\ pipe'[i].op = pipe[i].op /\ pipe'[i].req = pipe[i].req
                 /\ pipe'[i].seq = pipe[i].seq
                 /\ pipe'[i].by = pipe[i].by \/ pipe'[i].by = "nobody"
<1>1. CASE pipe' = pipe
  BY <1>1 DEF PipeTyped
<1>2. CASE pipe' = Orphan(k)
  <2>1. pipe \in Seq(PipeRow) /\ DOMAIN pipe = 1..Len(pipe) /\ Len(pipe) \in Nat
    BY DEF PipeTyped
  <2>2. \A i \in 1..Len(pipe) :
           pipe'[i] = IF pipe[i].by = k THEN [pipe[i] EXCEPT !.by = "nobody"] ELSE pipe[i]
    BY <1>2, <2>1 DEF Orphan
  <2>3. \A i \in 1..Len(pipe) : pipe[i] \in PipeRow
    BY <2>1
  <2>4. \A i \in 1..Len(pipe) :
           /\ pipe'[i] \in PipeRow
           /\ pipe'[i].op = pipe[i].op /\ pipe'[i].req = pipe[i].req
           /\ pipe'[i].seq = pipe[i].seq
           /\ pipe'[i].by = pipe[i].by \/ pipe'[i].by = "nobody"
    BY <2>2, <2>3 DEF PipeRow
  <2>5. pipe' \in Seq(PipeRow) /\ Len(pipe') = Len(pipe)
    BY <1>2, <2>1, <2>4 DEF Orphan
  <2> QED BY <2>4, <2>5 DEF PipeTyped
<1> QED BY <1>1, <1>2

LEMMA TailCommands ==
    ASSUME PipeTyped, pipe # <<>>, pipe' = Tail(pipe)
    PROVE  /\ PipeTyped' /\ Len(pipe) >= 1 /\ Len(pipe') = Len(pipe) - 1 /\ 1 \in 1..Len(pipe)
           /\ \A i \in 1..Len(pipe') : i + 1 \in 1..Len(pipe) /\ pipe'[i] = pipe[i + 1]
BY DEF PipeTyped

LEMMA NewCommand ==
    ASSUME PipeTyped, NEW c \in PipeRow, pipe' = Append(pipe, c)
    PROVE  /\ PipeTyped' /\ Len(pipe) \in Nat /\ Len(pipe') = Len(pipe) + 1
           /\ pipe'[Len(pipe')] = c
           /\ \A i \in 1..Len(pipe) : i \in 1..Len(pipe') /\ pipe'[i] = pipe[i]
           /\ \A i \in 1..Len(pipe') : i # Len(pipe') => i \in 1..Len(pipe)
BY DEF PipeTyped

LEMMA OwnedStep ==
    ASSUME Shape, PipeMove
    PROVE  PipeTyped' /\ Owned'
<1>0. PipeTyped
  BY Types DEF Shape
<1>1. \A i \in 1..Len(pipe) : pipe[i].by \in Kind => handler[pipe[i].by].at \in Awaits
  BY AskersWait
<1> USE DEF Shape
<1>2. CASE NobodyAsks
  BY <1>0, <1>1, <1>2 DEF NobodyAsks, SameAsk, Owned, PipeTyped
<1>3. ASSUME NEW k \in Kind, GivesUp(k) PROVE PipeTyped' /\ Owned'
  <2>0. "nobody" \notin Kind
    BY DEF Kind
  <2>1. /\ PipeTyped' /\ Len(pipe') = Len(pipe)
        /\ \A i \in 1..Len(pipe) :
              /\ pipe'[i].op = pipe[i].op /\ pipe'[i].req = pipe[i].req
              /\ pipe'[i].seq = pipe[i].seq
              /\ pipe'[i].by = pipe[i].by \/ pipe'[i].by = "nobody"
    BY <1>0, <1>3, OldCommands DEF GivesUp
  <2>2. \A i \in 1..Len(pipe) : pipe[i].by = k => pipe'[i].by = "nobody"
    BY <1>0, <1>3 DEF GivesUp, Orphan, PipeTyped, PipeRow
  <2> QED BY <1>3, <2>0, <2>1, <2>2 DEF GivesUp, SameAsk, Owned
<1>4. CASE Carries
  <2>1. /\ PipeTyped' /\ Len(pipe) >= 1 /\ Len(pipe') = Len(pipe) - 1 /\ 1 \in 1..Len(pipe)
        /\ \A i \in 1..Len(pipe') : i + 1 \in 1..Len(pipe) /\ pipe'[i] = pipe[i + 1]
    BY <1>0, <1>4, TailCommands DEF Carries
  <2>2. ASSUME NEW i \in 1..Len(pipe'), pipe'[i].by \in Kind
        PROVE  pipe'[i].by # pipe[1].by
    BY <2>1, <2>2 DEF Owned
  <2>3. ASSUME NEW i \in 1..Len(pipe'), NEW j \in 1..Len(pipe'), pipe'[i].by \in Kind,
               pipe'[j].by = pipe'[i].by
        PROVE  i = j
    <3>1. i + 1 = j + 1
      BY <2>1, <2>3 DEF Owned
    <3> QED BY <3>1
  <2>4. ASSUME NEW i \in 1..Len(pipe'), pipe'[i].by \in Kind
        PROVE  /\ handler'[pipe'[i].by].at \in AwaitedAt(pipe'[i].op)
               /\ handler'[pipe'[i].by].req = pipe'[i].req
               /\ handler'[pipe'[i].by].seq = pipe'[i].seq \/ pipe'[i].op = "heartbeat"
    <3>1. i + 1 \in 1..Len(pipe) /\ pipe'[i] = pipe[i + 1] /\ SameAsk(pipe'[i].by)
      BY <1>4, <2>1, <2>2, <2>4 DEF Carries
    <3> QED BY <2>4, <3>1 DEF Owned, SameAsk
  <2> QED BY <2>1, <2>3, <2>4 DEF Owned
<1>5. ASSUME NEW k \in Kind, Asks(k) PROVE PipeTyped' /\ Owned'
  <2>1. PICK c \in PipeRow :
           /\ pipe' = Append(pipe, c) /\ c.by = k /\ handler[k].at \notin Awaits
           /\ \A j \in Kind \ {k} : SameAsk(j)
           /\ handler'[k].at \in AwaitedAt(c.op) /\ handler'[k].req = c.req
           /\ handler'[k].seq = c.seq \/ c.op = "heartbeat"
    BY <1>5 DEF Asks
  <2>2. /\ PipeTyped' /\ Len(pipe) \in Nat /\ Len(pipe') = Len(pipe) + 1
        /\ pipe'[Len(pipe')] = c
        /\ \A i \in 1..Len(pipe) : i \in 1..Len(pipe') /\ pipe'[i] = pipe[i]
        /\ \A i \in 1..Len(pipe') : i # Len(pipe') => i \in 1..Len(pipe)
    BY <1>0, <2>1, NewCommand
  <2>3. \A i \in 1..Len(pipe) : pipe[i].by # k
    BY <1>1, <2>1
  <2>4. ASSUME NEW i \in 1..Len(pipe'), pipe'[i].by \in Kind
        PROVE  /\ handler'[pipe'[i].by].at \in AwaitedAt(pipe'[i].op)
               /\ handler'[pipe'[i].by].req = pipe'[i].req
               /\ handler'[pipe'[i].by].seq = pipe'[i].seq \/ pipe'[i].op = "heartbeat"
               /\ \A j \in 1..Len(pipe') : pipe'[j].by = pipe'[i].by => j = i
    <3>1. CASE i = Len(pipe')
      BY <2>1, <2>2, <2>3, <3>1
    <3>2. CASE i # Len(pipe')
      <4>1. i \in 1..Len(pipe) /\ pipe'[i] = pipe[i] /\ pipe[i].by # k
        BY <2>2, <2>3, <3>2
      <4>2. SameAsk(pipe[i].by)
        BY <2>1, <2>4, <4>1
      <4>3. \A j \in 1..Len(pipe') : pipe'[j].by = pipe'[i].by => j = i
        <5>1. \A j \in 1..Len(pipe) : pipe[j].by = pipe[i].by => j = i
          BY <2>4, <4>1 DEF Owned
        <5> QED BY <2>1, <2>2, <4>1, <5>1
      <4> QED BY <2>4, <4>1, <4>2, <4>3 DEF Owned, SameAsk
    <3> QED BY <3>1, <3>2
  <2> QED BY <2>2, <2>4 DEF Owned
<1> QED BY <1>2, <1>3, <1>4, <1>5 DEF PipeMove

-----------------------------------------------------------------------------
(* The rows, the helper and the phone keep their types.                      *)
LEMMA RowsStep ==
    ASSUME Bounds, Shape, [Next]_vars
    PROVE  RowsTyped'
<1>0. /\ lease \in [Request -> LeaseRow] /\ losses \in 0..MaxLosses /\ MaxLosses \in Nat
      /\ \A k \in Kind : handler[k].at # "idle" => handler[k].req \in Request
      /\ handler["input"].seq \in 0..MaxSeq
  BY Types DEF Shape, HandlersOK, HandlersTyped, HandlerRow, RowsTyped, Bounds, Kind
<1>1. \A r \in Request : Released(r) \in [Request -> LeaseRow]
  BY <1>0 DEF Released, LeaseRow
<1>2. Expired \in [Request -> LeaseRow]
  BY <1>0 DEF Expired, LeaseRow
<1>3. \A L \in [Request -> LeaseRow] : \A r \in Request :
         [L EXCEPT ![r].status = "active"] \in [Request -> LeaseRow]
  BY DEF LeaseRow
<1>4. lease' \in [Request -> LeaseRow]
  <2>1. CASE UNCHANGED lease
    BY <1>0, <2>1
  <2>2. CASE Lookup
    <3> DEFINE r == handler["acquire"].req
    <3>1. r \in Request
      BY <1>0, <2>2 DEF Lookup, Kind
    <3>2. \E L \in {lease, Expired} : lease' = L \/ lease' = [L EXCEPT ![r].status = "active"]
      BY <2>2 DEF Lookup
    <3> QED BY <1>0, <1>2, <1>3, <3>1, <3>2
  <2>3. CASE \E k \in Kind : Undo(k)
    BY <1>0, <1>1, <2>3 DEF Undo
  <2>4. CASE BeatWrite \/ BeatRefused
    <3> DEFINE r == handler["heartbeat"].req
    <3>1. r \in Request
      BY <1>0, <2>4 DEF BeatWrite, BeatRefused, Kind
    <3>2. lease' \in {lease, Released(r), [lease EXCEPT ![r].late = FALSE]}
      BY <2>4 DEF BeatWrite, BeatRefused
    <3>3. [lease EXCEPT ![r].late = FALSE] \in [Request -> LeaseRow]
      BY <1>0, <3>1 DEF LeaseRow
    <3> QED BY <1>0, <1>1, <3>1, <3>2, <3>3
  <2>5. CASE Advance \/ ReleaseRow
    <3>1. CASE Advance
      <4>1. /\ handler["input"].req \in Request
            /\ lease' \in {lease, [lease EXCEPT ![handler["input"].req].seq = handler["input"].seq]}
        BY <1>0, <3>1 DEF Advance, Kind
      <4>2. [lease EXCEPT ![handler["input"].req].seq = handler["input"].seq] \in [Request -> LeaseRow]
        BY <1>0, <4>1 DEF LeaseRow
      <4> QED BY <1>0, <4>1, <4>2
    <3>2. CASE ReleaseRow
      BY <1>0, <1>1, <3>2 DEF ReleaseRow, Kind
    <3> QED BY <2>5, <3>1, <3>2
  <2>6. CASE \E r \in Request : RowExpires(r) \/ Revoked(r)
    <3>1. PICK r \in Request : lease' \in {Released(r), [lease EXCEPT ![r].late = TRUE]}
      BY <2>6 DEF RowExpires, Revoked
    <3>2. [lease EXCEPT ![r].late = TRUE] \in [Request -> LeaseRow]
      BY <1>0 DEF LeaseRow
    <3> QED BY <1>1, <3>1, <3>2
  <2>7. CASE Renew \/ BeatRead \/ Prepare \/ AskRelease
    BY <2>1, <2>7 DEF Renew, BeatRead, Prepare, AskRelease
  <2>8. CASE \/ TakeControl \/ SendInput \/ SendHeartbeat \/ Done \/ GiveUp
             \/ AcquireAnswered \/ TooLateForControl \/ ReleaseAnswered
             \/ \E k \in Kind : BeatAnswered(k) \/ Lose(k) \/ Drop(k) \/ Unanswered(k)
    BY <2>1, <2>8 DEF TakeControl, SendInput, SendHeartbeat, Done, GiveUp, AcquireAnswered,
       TooLateForControl, ReleaseAnswered, BeatAnswered, Lose, Drop, Unanswered
  <2>9. CASE Command \/ GateExpires \/ Timer \/ LocalStop \/ UNCHANGED vars
    BY <2>1, <2>9 DEF Command, GateExpires, Timer, LocalStop, Close, vars, daemonVars
  <2> QED BY <2>2, <2>3, <2>4, <2>5, <2>6, <2>7, <2>8, <2>9 DEF Next, Daemon
<1>5. losses' \in 0..MaxLosses
  <2>1. CASE Loss
    BY <1>0, <2>1 DEF Loss
  <2>2. CASE UNCHANGED losses
    BY <1>0, <2>2
  <2>3. CASE \/ TakeControl \/ SendInput \/ SendHeartbeat \/ Done \/ GiveUp
             \/ AcquireAnswered \/ TooLateForControl \/ ReleaseAnswered
             \/ \E k \in Kind : BeatAnswered(k) \/ Lose(k) \/ Drop(k) \/ Unanswered(k)
    BY <2>1, <2>2, <2>3 DEF TakeControl, SendInput, SendHeartbeat, Done, GiveUp, AcquireAnswered,
       TooLateForControl, ReleaseAnswered, BeatAnswered, Lose, Drop, Unanswered
  <2>4. CASE Daemon \/ \E r \in Request : RowExpires(r) \/ Revoked(r)
    BY <2>1, <2>2, <2>4 DEF Daemon, Lookup, Renew, Undo, BeatRead, BeatWrite, BeatRefused,
       Prepare, Advance, AskRelease, ReleaseRow, RowExpires, Revoked
  <2>5. CASE Command \/ GateExpires \/ Timer \/ LocalStop \/ UNCHANGED vars
    BY <2>1, <2>2, <2>5 DEF Command, GateExpires, Timer, LocalStop, vars
  <2> QED BY <2>3, <2>4, <2>5 DEF Next
<1> QED BY <1>4, <1>5 DEF RowsTyped

(* Only the helper, its clock and its timer change what the helper knows.    *)

LEMMA OthersLeaveTheHelper ==
    ASSUME [Next]_vars
    PROVE  \/ UNCHANGED <<gate, executed>>
           \/ Command
           \/ GateExpires
           \/ gate' = Closed /\ executed' = executed
<1> USE DEF helperVars
<1>1. CASE \/ TakeControl \/ SendInput \/ SendHeartbeat \/ Done \/ GiveUp
           \/ AcquireAnswered \/ TooLateForControl \/ ReleaseAnswered
           \/ \E k \in Kind : BeatAnswered(k) \/ Lose(k) \/ Drop(k) \/ Unanswered(k)
  BY <1>1 DEF TakeControl, SendInput, SendHeartbeat, Done, GiveUp, AcquireAnswered,
     TooLateForControl, ReleaseAnswered, BeatAnswered, Lose, Drop, Unanswered
<1>2. CASE Daemon \/ \E r \in Request : RowExpires(r) \/ Revoked(r)
  BY <1>2 DEF Daemon, Lookup, Renew, Undo, BeatRead, BeatWrite, BeatRefused,
     Prepare, Advance, AskRelease, ReleaseRow, RowExpires, Revoked
<1>3. CASE Timer \/ LocalStop \/ UNCHANGED vars
  BY <1>3 DEF Timer, LocalStop, Close, vars
<1> QED BY <1>1, <1>2, <1>3 DEF Next

LEMMA FirstCommand ==
    ASSUME PipeTyped, pipe # <<>>
    PROVE  /\ 1 \in 1..Len(pipe) /\ Head(pipe) = pipe[1] /\ pipe[1] \in PipeRow
           /\ pipe[1].req \in Request
<1>1. 1 \in 1..Len(pipe) /\ Head(pipe) = pipe[1] /\ pipe[1] \in PipeRow
  BY DEF PipeTyped
<1> QED BY <1>1 DEF PipeRow

(* What becomes of the gate, and what is carried out.                        *)
Opens == /\ pipe # <<>> /\ pipe[1].op = "activate" /\ executed' = executed
         /\ gate' = [Closed EXCEPT !.req = pipe[1].req]
Executes == /\ pipe # <<>> /\ pipe[1].op = "input"
            /\ gate.req = pipe[1].req /\ pipe[1].seq = gate.last + 1
            /\ gate' = [gate EXCEPT !.last = gate.last + 1]
            /\ executed' = [executed EXCEPT ![gate.req][gate.last + 1] = @ + 1]
HelperMove == \/ executed' = executed /\ gate' \in {gate, Closed, [gate EXCEPT !.late = TRUE]}
              \/ Opens
              \/ Executes

LEMMA HelperMoves ==
    ASSUME Shape, [Next]_vars
    PROVE  HelperMove
<1>1. CASE Command
  <2>0. Head(pipe) = pipe[1] /\ pipe # <<>>
    BY <1>1, Types DEF Command, Shape, PipeTyped
  <2> DEFINE c == pipe[1]
  <2>1. PICK yes \in BOOLEAN :
          \/ Consent(c.req, yes)
          \/ c.op = "activate" /\ Activate(c.req, yes)
          \/ Heartbeat(c.req, yes)
          \/ c.op = "input" /\ Deliver(c.req, c.seq, yes)
          \/ ReleaseGate(c.req, yes)
    BY <1>1, <2>0 DEF Command
  <2>2. CASE Consent(c.req, yes) \/ Heartbeat(c.req, yes) \/ ReleaseGate(c.req, yes)
    BY <2>2 DEF Consent, Heartbeat, ReleaseGate, HelperMove
  <2>3. CASE c.op = "activate" /\ Activate(c.req, yes)
    BY <2>0, <2>3 DEF Activate, HelperMove, Opens
  <2>4. CASE c.op = "input" /\ Deliver(c.req, c.seq, yes)
    BY <2>0, <2>4 DEF Deliver, HelperMove, Executes
  <2> QED BY <2>1, <2>2, <2>3, <2>4
<1>2. CASE GateExpires
  BY <1>2 DEF GateExpires, HelperMove
<1> QED BY <1>1, <1>2, OthersLeaveTheHelper DEF HelperMove

(* A batch that is carried out was not before, and all before it were.       *)
LEMMA ExecutesOnce ==
    ASSUME Bounds, Shape, InOrder, GateKnows, Executes
    PROVE  /\ gate.req \in Request /\ gate.last + 1 \in 1..MaxSeq
           /\ executed[gate.req][gate.last + 1] = 0
           /\ executed' \in [Request -> [1..MaxSeq -> 0..2]]
           /\ \A r \in Request : \A s \in 1..MaxSeq :
                 executed'[r][s] = IF r = gate.req /\ s = gate.last + 1 THEN 1 ELSE executed[r][s]
<1>0. /\ gate \in GateRow /\ executed \in [Request -> [1..MaxSeq -> 0..2]]
      /\ pipe[1] \in PipeRow
  BY Types DEF Shape, HelperTyped, PipeTyped, Executes
<1>1. gate.req \in Request /\ gate.last \in Nat /\ gate.last + 1 \in 1..MaxSeq
  BY <1>0 DEF Executes, PipeRow, GateRow, Bounds
<1>2. executed[gate.req][gate.last + 1] = 0
  <2>1. executed[gate.req][gate.last + 1] # 1
    BY <1>1 DEF GateKnows
  <2> QED BY <1>1, <2>1 DEF InOrder
<1>3. [executed[gate.req] EXCEPT ![gate.last + 1] = 1] \in [1..MaxSeq -> 0..2]
  BY <1>0, <1>1
<1>4. executed' = [executed EXCEPT ![gate.req] = [executed[gate.req] EXCEPT ![gate.last + 1] = 1]]
  BY <1>0, <1>1, <1>2 DEF Executes
<1> QED BY <1>0, <1>1, <1>2, <1>3, <1>4

LEMMA ExecutedGrows ==
    ASSUME Bounds, Shape, InOrder, GateKnows, HelperMove
    PROVE  \A r \in Request : \A s \in 1..MaxSeq : executed[r][s] = 1 => executed'[r][s] = 1
BY ExecutesOnce DEF HelperMove, Opens

LEMMA CarriedStays ==
    ASSUME Bounds, Shape, InOrder, GateKnows, HelperMove, NEW r \in Request,
           NEW n \in 0..MaxSeq, Carried(r, n)
    PROVE  Carried(r, n)'
<1>1. \A b \in 1..n : b \in 1..MaxSeq
  BY DEF Bounds
<1> QED BY <1>1, ExecutedGrows DEF Carried

LEMMA HelperStep ==
    ASSUME Bounds, Shape, InOrder, GateKnows, [Next]_vars
    PROVE  HelperTyped'
<1>0. /\ consent \in [Request -> {"unasked", "allowed", "denied"}]
      /\ gate \in GateRow /\ revoked \subseteq Request
      /\ executed \in [Request -> [1..MaxSeq -> 0..2]]
      /\ 0 \in 0..MaxSeq /\ pipe \in Seq(PipeRow)
  BY Types DEF Shape, HelperTyped, PipeTyped, Bounds
<1>1. Closed \in GateRow /\ \A r \in Request : [Closed EXCEPT !.req = r] \in GateRow
  BY <1>0 DEF Closed, GateRow
<1>2. gate' \in GateRow /\ executed' \in [Request -> [1..MaxSeq -> 0..2]]
  <2>1. CASE Opens
    <3>1. pipe[1].req \in Request
      BY <1>0, <2>1, FirstCommand DEF Opens, PipeTyped
    <3> QED BY <1>0, <1>1, <2>1, <3>1 DEF Opens
  <2>2. CASE Executes
    <3>1. gate.last + 1 \in 0..MaxSeq
      BY <2>2, ExecutesOnce
    <3> QED BY <1>0, <2>2, <3>1, ExecutesOnce DEF Executes, GateRow
  <2>3. [gate EXCEPT !.late = TRUE] \in GateRow
    BY <1>0 DEF GateRow
  <2> QED BY <1>0, <1>1, <2>1, <2>2, <2>3, HelperMoves DEF HelperMove
<1> USE DEF helperVars
<1>3. consent' \in [Request -> {"unasked", "allowed", "denied"}] /\ revoked' \subseteq Request
  <2>1. CASE Command
    <3>1. revoked' = revoked
      BY <2>1 DEF Command
    <3>2. consent' = consent \/ \E r \in Request, s \in {"allowed", "denied"} :
                                    consent' = [consent EXCEPT ![r] = s]
      <4>1. Head(pipe).req \in Request
        BY <1>0, <2>1, FirstCommand DEF Command, PipeTyped
      <4> QED BY <2>1, <4>1 DEF Command, Consent, Activate, Heartbeat, Deliver, ReleaseGate
    <3> QED BY <1>0, <3>1, <3>2
  <2>2. CASE UNCHANGED <<consent, revoked>>
    BY <1>0, <2>2
  <2>3. CASE \/ TakeControl \/ SendInput \/ SendHeartbeat \/ Done \/ GiveUp
             \/ AcquireAnswered \/ TooLateForControl \/ ReleaseAnswered
             \/ \E k \in Kind : BeatAnswered(k) \/ Lose(k) \/ Drop(k) \/ Unanswered(k)
    BY <2>2, <2>3 DEF TakeControl, SendInput, SendHeartbeat, Done, GiveUp, AcquireAnswered,
       TooLateForControl, ReleaseAnswered, BeatAnswered, Lose, Drop, Unanswered
  <2>4. CASE Daemon \/ \E r \in Request : RowExpires(r) \/ Revoked(r)
    BY <1>0, <2>2, <2>4 DEF Daemon, Lookup, Renew, Undo, BeatRead, BeatWrite, BeatRefused,
       Prepare, Advance, AskRelease, ReleaseRow, RowExpires, Revoked
  <2>5. CASE Timer \/ LocalStop
    <3>1. gate.req \in Request /\ Closed.req = None
      BY <1>0, <2>5 DEF Timer, LocalStop, GateRow, Closed
    <3> QED BY <1>0, <2>5, <3>1 DEF Timer, LocalStop, Close
  <2>6. CASE GateExpires \/ UNCHANGED vars
    BY <2>2, <2>6 DEF GateExpires, vars
  <2> QED BY <2>1, <2>3, <2>4, <2>5, <2>6 DEF Next
<1> QED BY <1>2, <1>3 DEF HelperTyped

(* A gate that is open knows what was carried out under it.                  *)
LEMMA AccountStep ==
    ASSUME Bounds, Shape, Fresh, InOrder, GateKnows, HelperMove
    PROVE  InOrder' /\ GateKnows'
<1>0. /\ gate \in GateRow /\ executed \in [Request -> [1..MaxSeq -> 0..2]]
      /\ pipe \in Seq(PipeRow)
  BY Types DEF Shape, HelperTyped, PipeTyped
<1>1. CASE Executes
  <2>1. /\ gate.req \in Request /\ gate.last + 1 \in 1..MaxSeq /\ gate.last \in Nat
        /\ \A r \in Request : \A s \in 1..MaxSeq :
              executed'[r][s] = IF r = gate.req /\ s = gate.last + 1 THEN 1 ELSE executed[r][s]
    BY <1>0, <1>1, ExecutesOnce DEF GateRow
  <2>2. gate'.req = gate.req /\ gate'.last = gate.last + 1
    BY <1>0, <1>1 DEF Executes, GateRow
  <2>3. GateKnows'
    BY <2>1, <2>2 DEF GateKnows
  <2>4. \A s \in 1..MaxSeq : executed'[gate.req][s] = 1 <=> s <= gate.last + 1
    BY <2>2, <2>3, <2>1 DEF GateKnows
  <2>5. ASSUME NEW r \in Request, NEW s \in 1..MaxSeq
        PROVE  executed'[r][s] \in {0, 1} /\ (executed'[r][s] = 1 => Carried(r, s)')
    <3>1. CASE r = gate.req
      <4>1. executed'[r][s] \in {0, 1}
        BY <2>1, <3>1 DEF InOrder
      <4>2. ASSUME executed'[r][s] = 1, NEW b \in 1..s PROVE executed'[r][b] = 1
        BY <2>1, <2>4, <3>1, <4>2 DEF Bounds
      <4> QED BY <4>1, <4>2 DEF Carried
    <3>2. CASE r # gate.req
      <4>1. \A b \in 1..MaxSeq : executed'[r][b] = executed[r][b]
        BY <2>1, <3>2
      <4>2. ASSUME executed'[r][s] = 1, NEW b \in 1..s PROVE executed'[r][b] = 1
        BY <4>1, <4>2 DEF InOrder, Carried, Bounds
      <4> QED BY <4>1, <4>2 DEF Carried, InOrder
    <3> QED BY <3>1, <3>2
  <2> QED BY <2>3, <2>5 DEF InOrder
<1>2. CASE Opens
  <2>1. pipe[1].req \in Request /\ Activating(1)
    BY <1>0, <1>2, FirstCommand DEF Opens, PipeTyped, Activating
  <2>2. Untouched(pipe[1].req)
    BY <2>1 DEF Fresh, Contested, Activating
  <2>3. gate'.req = pipe[1].req /\ gate'.last = 0 /\ executed' = executed
    BY <1>2 DEF Opens, Closed
  <2> QED BY <1>2, <2>2, <2>3 DEF Untouched, GateKnows, InOrder, Carried
<1>3. CASE executed' = executed /\ gate' \in {gate, Closed, [gate EXCEPT !.late = TRUE]}
  <2>1. gate'.req = None \/ (gate'.req = gate.req /\ gate'.last = gate.last)
    BY <1>0, <1>3 DEF Closed, GateRow
  <2> QED BY <1>3, <2>1 DEF GateKnows, InOrder, Carried, None, Request
<1> QED BY <1>1, <1>2, <1>3 DEF HelperMove

-----------------------------------------------------------------------------
(* What the daemon and the helper do to the calls of the phone: they answer  *)
(* them, or end those that nobody listens to.                                *)
Keeps(k) == /\ handler'[k].heard => handler[k].heard
            /\ handler'[k].req = handler[k].req \/ handler'[k] = Idle
            /\ handler[k].at = "idle" => handler'[k] = Idle
PhoneKeeps == UNCHANGED <<phone, next>> /\ \A k \in Kind : Keeps(k)

LEMMA KeepsOne ==
    ASSUME HandlersTyped, HandlersOK, NEW k \in Kind, handler[k].at # "idle", NEW h,
           handler' = [handler EXCEPT ![k] = h], UNCHANGED <<phone, next>>,
           \/ h = Idle
           \/ h.req = handler[k].req /\ (h.heard => handler[k].heard)
    PROVE  PhoneKeeps
<1>1. handler'[k] = h /\ \A j \in Kind \ {k} : handler'[j] = handler[j]
  BY DEF HandlersTyped
<1>2. Keeps(k)
  <2>1. CASE h = Idle
    <3>1. Idle.heard = FALSE
      BY DEF Idle
    <3> QED BY <1>1, <2>1, <3>1 DEF Keeps
  <2>2. CASE h.req = handler[k].req /\ (h.heard => handler[k].heard)
    BY <1>1, <2>2 DEF Keeps
  <2> QED BY <2>1, <2>2
<1>3. \A j \in Kind \ {k} : Keeps(j)
  BY <1>1 DEF Keeps, HandlersOK
<1> QED BY <1>2, <1>3 DEF PhoneKeeps

(* An answer goes to the same call; so does a step of its handler.           *)
LEMMA SameCall ==
    ASSUME HandlersTyped, NEW k \in Kind
    PROVE  /\ \A at : /\ [handler[k] EXCEPT !.at = at].req = handler[k].req
                      /\ [handler[k] EXCEPT !.at = at].heard = handler[k].heard
           /\ \A ok, seq : LET h == Answer(handler[k], ok, seq) IN
                  \/ h = Idle
                  \/ h.req = handler[k].req /\ (h.heard => handler[k].heard)
BY DEF HandlersTyped, HandlerRow, Answer

LEMMA GoOnSame ==
    ASSUME HandlersTyped, NEW k \in Kind, NEW yes \in BOOLEAN
    PROVE  LET h == GoOn(k, yes) IN
           \/ h = Idle
           \/ h.req = handler[k].req /\ (h.heard => handler[k].heard)
<1> DEFINE h == handler[k]
<1>1. \/ \E at : GoOn(k, yes) = [h EXCEPT !.at = at]
      \/ \E ok, seq : GoOn(k, yes) = Answer(h, ok, seq)
  <2>1. CASE h.at = "consent"
    BY <2>1 DEF GoOn
  <2>2. CASE h.at = "activate"
    BY <2>2 DEF GoOn
  <2>3. CASE h.at = "undone"
    BY <2>3 DEF GoOn
  <2>4. CASE h.at = "renewing"
    BY <2>4 DEF GoOn
  <2>5. CASE h.at = "input"
    BY <2>5 DEF GoOn, InputAnswered
  <2>6. CASE h.at \notin {"consent", "activate", "undone", "renewing", "input"}
    BY <2>6 DEF GoOn
  <2> QED BY <2>1, <2>2, <2>3, <2>4, <2>5, <2>6
<1>2. CASE \E at : GoOn(k, yes) = [h EXCEPT !.at = at]
  BY <1>2 DEF HandlersTyped, HandlerRow
<1>3. CASE \E ok, seq : GoOn(k, yes) = Answer(h, ok, seq)
  <2>1. PICK ok, seq : GoOn(k, yes) = Answer(h, ok, seq)
    BY <1>3
  <2> QED BY <2>1, SameCall
<1> QED BY <1>1, <1>2, <1>3

LEMMA DaemonKeeps ==
    ASSUME Shape, Daemon
    PROVE  PhoneKeeps
<1>0. HandlersTyped /\ HandlersOK
  BY Types DEF Shape
<1> USE DEF Kind, phoneVars
<1>1. ASSUME NEW k \in Kind, handler[k].at # "idle", UNCHANGED phoneVars,
             (\E at : Step(k, at)) \/ (\E ok, seq : Reply(k, ok, seq))
      PROVE  PhoneKeeps
  <2>1. CASE \E at : Step(k, at)
    <3>1. PICK at : handler' = [handler EXCEPT ![k] = [handler[k] EXCEPT !.at = at]]
      BY <2>1 DEF Step
    <3> DEFINE h == [handler[k] EXCEPT !.at = at]
    <3>2. h.req = handler[k].req /\ h.heard = handler[k].heard
      BY <1>0, SameCall
    <3> HIDE DEF h
    <3> QED BY <1>0, <1>1, <3>1, <3>2, KeepsOne DEF h
  <2>2. CASE \E ok, seq : Reply(k, ok, seq)
    <3>1. PICK ok, seq : handler' = [handler EXCEPT ![k] = Answer(handler[k], ok, seq)]
      BY <2>2 DEF Reply
    <3> DEFINE h == Answer(handler[k], ok, seq)
    <3>2. h = Idle \/ (h.req = handler[k].req /\ (h.heard => handler[k].heard))
      BY <1>0, SameCall
    <3>3. handler' = [handler EXCEPT ![k] = h]
      BY <3>1
    <3> HIDE DEF h
    <3> QED BY <1>0, <1>1, <3>2, <3>3, KeepsOne
  <2> QED BY <1>1, <2>1, <2>2
<1>2. CASE Lookup
  <2>1. UNCHANGED phoneVars /\ handler["acquire"].at # "idle"
        /\ ((\E at : Step("acquire", at)) \/ (\E ok, seq : Reply("acquire", ok, seq)))
    BY <1>2 DEF Lookup, Ask
  <2> QED BY <1>1, <2>1
<1>3. CASE Renew
  <2>1. UNCHANGED phoneVars /\ handler["acquire"].at # "idle" /\ \E at : Step("acquire", at)
    BY <1>3 DEF Renew, Ask
  <2> QED BY <1>1, <2>1
<1>4. ASSUME NEW k \in Kind, Undo(k) PROVE PhoneKeeps
  <2>1. UNCHANGED phoneVars /\ handler[k].at # "idle" /\ \E at : Step(k, at)
    BY <1>4 DEF Undo, Ask
  <2> QED BY <1>1, <2>1
<1>5. CASE BeatRead
  <2>1. UNCHANGED <<phone, next>> /\ handler["heartbeat"].at # "idle"
        /\ \/ handler' = [handler EXCEPT !["heartbeat"] = [@ EXCEPT !.at = "beat", !.ok = TRUE]]
           \/ Reply("heartbeat", FALSE, 0)
    BY <1>0, <1>5 DEF BeatRead, HandlersTyped
  <2>2. LET h == [handler["heartbeat"] EXCEPT !.at = "beat", !.ok = TRUE]
        IN  h.req = handler["heartbeat"].req /\ h.heard = handler["heartbeat"].heard
    BY <1>0 DEF HandlersTyped, HandlerRow
  <2>3. CASE Reply("heartbeat", FALSE, 0)
    BY <1>1, <1>5, <2>1, <2>3 DEF BeatRead
  <2> QED BY <1>0, <2>1, <2>2, <2>3, KeepsOne
<1>6. CASE BeatWrite
  <2> DEFINE h == [handler["heartbeat"] EXCEPT !.at = "renewing",
                                    !.seq = lease[handler["heartbeat"].req].seq]
  <2>1. UNCHANGED <<phone, next>> /\ handler["heartbeat"].at # "idle"
        /\ (handler' = [handler EXCEPT !["heartbeat"] = h] \/ Reply("heartbeat", FALSE, 0))
    BY <1>0, <1>6 DEF BeatWrite, HandlersTyped
  <2>2. h.req = handler["heartbeat"].req /\ h.heard = handler["heartbeat"].heard
    BY <1>0 DEF HandlersTyped, HandlerRow
  <2>3. CASE Reply("heartbeat", FALSE, 0)
    BY <1>1, <1>6, <2>1, <2>3 DEF BeatWrite
  <2> HIDE DEF h
  <2> QED BY <1>0, <2>1, <2>2, <2>3, KeepsOne
<1>7. CASE BeatRefused
  <2>1. UNCHANGED phoneVars /\ handler["heartbeat"].at # "idle"
        /\ \E ok, seq : Reply("heartbeat", ok, seq)
    BY <1>7 DEF BeatRefused
  <2> QED BY <1>1, <2>1
<1>8. CASE Prepare
  <2>1. UNCHANGED phoneVars /\ handler["input"].at # "idle"
        /\ ((\E at : Step("input", at)) \/ (\E ok, seq : Reply("input", ok, seq)))
    BY <1>8 DEF Prepare, Ask
  <2> QED BY <1>1, <2>1
<1>9. CASE Advance
  <2> DEFINE in == handler["input"]  o == Overtaken(in.req, in.seq)
  <2>1. UNCHANGED <<phone, next>> /\ handler["input"].at # "idle"
    BY <1>9 DEF Advance
  <2>2. CASE Step("input", "undo")
    BY <1>1, <1>9, <2>1, <2>2 DEF Advance
  <2>3. CASE handler' = [o EXCEPT !["input"] = Answer(@, TRUE, in.seq)]
    <3>1. o \in [Kind -> HandlerRow] /\ \A k \in Kind \ {"heartbeat"} : o[k] = handler[k]
      BY <1>0 DEF Overtaken, HandlersTyped, HandlerRow
    <3>2. o["heartbeat"].req = handler["heartbeat"].req
          /\ o["heartbeat"].heard = handler["heartbeat"].heard
          /\ (handler["heartbeat"].at = "idle" => o["heartbeat"] = handler["heartbeat"])
      BY <1>0 DEF Overtaken, HandlersTyped, HandlerRow
    <3>3. /\ handler'["input"] = Answer(handler["input"], TRUE, in.seq)
          /\ \A k \in Kind \ {"input"} : handler'[k] = o[k]
      BY <2>3, <3>1
    <3>4. Keeps("input")
      <4>1. LET h == Answer(handler["input"], TRUE, in.seq) IN
               h = Idle \/ (h.req = handler["input"].req /\ (h.heard => handler["input"].heard))
        BY <1>0, SameCall
      <4>2. Idle.heard = FALSE
        BY DEF Idle
      <4> QED BY <2>1, <3>3, <4>1, <4>2 DEF Keeps
    <3>5. \A k \in Kind \ {"input"} : Keeps(k)
      BY <1>0, <3>1, <3>2, <3>3 DEF Keeps, HandlersOK
    <3> QED BY <2>1, <3>4, <3>5 DEF PhoneKeeps
  <2> QED BY <1>9, <2>2, <2>3 DEF Advance
<1>10. CASE AskRelease
  <2>1. UNCHANGED phoneVars /\ handler["release"].at # "idle" /\ \E at : Step("release", at)
    BY <1>10 DEF AskRelease, Ask
  <2> QED BY <1>1, <2>1
<1>11. CASE ReleaseRow
  <2>1. UNCHANGED phoneVars /\ handler["release"].at # "idle"
        /\ \E ok, seq : Reply("release", ok, seq)
    BY <1>11 DEF ReleaseRow
  <2> QED BY <1>1, <2>1
<1> QED BY <1>2, <1>3, <1>4, <1>5, <1>6, <1>7, <1>8, <1>9, <1>10, <1>11 DEF Daemon

Phoning == \/ TakeControl \/ SendInput \/ SendHeartbeat \/ Done \/ GiveUp
           \/ AcquireAnswered \/ TooLateForControl
           \/ \E k \in Kind : BeatAnswered(k) \/ Lose(k)

LEMMA OthersKeep ==
    ASSUME Shape, [Next]_vars, ~Phoning
    PROVE  PhoneKeeps
<1>0. HandlersTyped /\ HandlersOK /\ PipeTyped
  BY Types DEF Shape
<1>1. CASE UNCHANGED <<handler, phone, next>>
  BY <1>0, <1>1 DEF PhoneKeeps, Keeps, HandlersOK
<1>2. CASE ReleaseAnswered
  <2>1. handler["release"].at # "idle" /\ handler' = [handler EXCEPT !["release"] = Idle]
        /\ UNCHANGED <<phone, next>>
    BY <1>2 DEF ReleaseAnswered, Answered, Taken, phoneVars
  <2> QED BY <1>0, <2>1, KeepsOne DEF Kind
<1>3. ASSUME NEW k \in Kind, Drop(k) PROVE PhoneKeeps
  <2>1. handler[k].at # "idle" /\ handler' = [handler EXCEPT ![k] = Idle]
        /\ UNCHANGED <<phone, next>>
    BY <1>0, <1>3 DEF Drop, HandlersOK, phoneVars
  <2> QED BY <1>0, <2>1, KeepsOne
<1>4. ASSUME NEW k \in Kind, Unanswered(k) PROVE PhoneKeeps
  <2>1. handler[k].at # "idle" /\ handler' = [handler EXCEPT ![k] = GoOn(k, FALSE)]
        /\ UNCHANGED <<phone, next>>
    BY <1>4 DEF Unanswered, Waiting, phoneVars
  <2> QED BY <1>0, <2>1, KeepsOne, GoOnSame
<1>5. CASE Command
  <2>0. pipe # <<>> /\ Head(pipe) = pipe[1] /\ 1 \in 1..Len(pipe)
    BY <1>0, <1>5, FirstCommand DEF Command
  <2> DEFINE k == pipe[1].by
  <2>1. PICK yes \in BOOLEAN :
           handler' = IF k \in Kind THEN [handler EXCEPT ![k] = GoOn(k, yes)] ELSE handler
    BY <1>5, <2>0 DEF Command
  <2>2. UNCHANGED <<phone, next>>
    BY <1>5 DEF Command, phoneVars
  <2>3. CASE k \in Kind
    <3>1. handler[k].at # "idle"
      BY <2>0, <2>3, AskersWait DEF Awaits
    <3> QED BY <1>0, <2>1, <2>2, <2>3, <3>1, KeepsOne, GoOnSame
  <2> QED BY <1>1, <2>1, <2>2, <2>3
<1>6. CASE \E r \in Request : RowExpires(r) \/ Revoked(r)
  BY <1>1, <1>6 DEF RowExpires, Revoked, phoneVars
<1>7. CASE GateExpires \/ Timer \/ LocalStop \/ UNCHANGED vars
  BY <1>1, <1>7 DEF GateExpires, Timer, LocalStop, Close, vars, daemonVars, phoneVars
<1> QED BY <1>2, <1>3, <1>4, <1>5, <1>6, <1>7, DaemonKeeps DEF Next, Phoning

(* The phone gives a lease back: nobody is listened to but the release.      *)
LEMMA LetGoSilences ==
    ASSUME HandlersTyped, NEW k \in Kind, NEW r \in Request, NEW H,
           H = handler \/ H = Taken(k), LetGo(H, r)
    PROVE  /\ phone' = Watching
           /\ \A j \in Kind \ {"release"} :
                 /\ handler'[j].heard = FALSE
                 /\ handler'[j].req = handler[j].req \/ handler'[j] = Idle
                 /\ handler[j] = Idle => handler'[j] = Idle
                 /\ \/ handler'[j] = Idle
                    \/ /\ handler'[j].at = handler[j].at /\ handler'[j].seq = handler[j].seq
                       /\ handler'[j].ok = handler[j].ok /\ handler'[j].req = handler[j].req
           /\ handler'["release"] = Called("ask", r, 0)
<1>1. /\ phone' = Watching
      /\ handler' = [HangUp(H) EXCEPT !["release"] = Called("ask", r, 0)]
  BY DEF LetGo
<1>2. handler'["release"] = Called("ask", r, 0)
  BY <1>1 DEF HangUp, Kind
<1>3. ASSUME NEW j \in Kind \ {"release"}
      PROVE  handler'[j] = Idle \/ handler'[j] = [handler[j] EXCEPT !.heard = FALSE]
  BY <1>1, <1>3 DEF HangUp, Taken, HandlersTyped
<1>4. ASSUME NEW j \in Kind \ {"release"}, handler[j] = Idle PROVE handler'[j] = Idle
  BY <1>1, <1>4 DEF HangUp, Taken, HandlersTyped
<1>5. Idle.heard = FALSE
  BY DEF Idle
<1>6. ASSUME NEW j \in Kind
      PROVE  LET h == [handler[j] EXCEPT !.heard = FALSE] IN
             /\ h.heard = FALSE /\ h.req = handler[j].req /\ h.at = handler[j].at
             /\ h.seq = handler[j].seq /\ h.ok = handler[j].ok
  BY DEF HandlersTyped, HandlerRow
<1> QED BY <1>1, <1>2, <1>3, <1>4, <1>5, <1>6

LEMMA ListenStep ==
    ASSUME Bounds, Shape, Listening, [Next]_vars
    PROVE  PhoneTyped' /\ Listening'
<1>0. /\ HandlersTyped /\ HandlersOK /\ phone \in PhoneRow /\ next \in 1..(MaxRequests + 1)
      /\ \A k \in Kind : handler[k] \in HandlerRow
      /\ MaxRequests \in Nat /\ 0 \in 0..MaxSeq
  BY Types DEF Shape, PhoneTyped, HandlersTyped, Bounds
<1>i. Idle.heard = FALSE /\ Idle.req = None /\ Idle.at = "idle" /\ None < next
  BY <1>0 DEF Idle, None
<1>w. Watching \in PhoneRow /\ Watching.at = "watching" /\ Watching.req = None
  BY <1>0 DEF Watching, PhoneRow
<1> USE DEF Kind
<1>1. CASE ~Phoning
  <2>1. PhoneKeeps
    BY <1>1, OthersKeep
  <2> QED BY <1>0, <1>i, <2>1 DEF PhoneKeeps, Keeps, Listening, PhoneTyped
<1>2. CASE TakeControl
  <2> DEFINE r == IF phone.req = None THEN next ELSE phone.req
  <2>1. /\ phone.at = "watching" /\ r \in Request
        /\ phone' = [at |-> "starting", req |-> r, seq |-> 0]
        /\ next' = IF phone.req = None THEN next + 1 ELSE next
        /\ handler' = [handler EXCEPT !["acquire"] = Called("lookup", r, 0)]
    BY <1>2 DEF TakeControl
  <2>2. r < next' /\ next' \in 1..(MaxRequests + 1)
    BY <1>0, <2>1 DEF Listening, Request, None
  <2>3. phone' \in PhoneRow
    BY <1>0, <2>1 DEF PhoneRow
  <2>4. /\ handler'["acquire"].req = r
        /\ \A k \in {"heartbeat", "input"} : handler'[k] = handler[k] /\ ~handler[k].heard
    BY <1>0, <2>1 DEF HandlersTyped, Called, Listening, HandlerRow
  <2> HIDE DEF r
  <2> QED BY <2>1, <2>2, <2>3, <2>4 DEF Listening, PhoneTyped
<1>3. CASE SendInput \/ SendHeartbeat
  <2>1. /\ UNCHANGED <<phone, next>> /\ phone.at = "active" /\ handler'["acquire"] = handler["acquire"]
        /\ \A k \in {"heartbeat", "input"} : handler'[k] = handler[k] \/ handler'[k].req = phone.req
    BY <1>0, <1>3 DEF SendInput, SendHeartbeat, HandlersTyped, Called, phoneVars
  <2> QED BY <1>0, <2>1 DEF Listening, PhoneTyped
<1>4. CASE GiveUp
  <2>1. /\ phone' = [phone EXCEPT !.at = "watching"] /\ next' = next
        /\ \A k \in Kind \ {"release"} : handler'[k] = Idle \/ handler'[k] = [handler[k] EXCEPT !.heard = FALSE]
    BY <1>0, <1>4 DEF GiveUp, HangUp, HandlersTyped
  <2>2. phone' \in PhoneRow /\ phone'.at = "watching" /\ phone'.req = phone.req
    BY <1>0, <2>1 DEF PhoneRow
  <2>3. \A k \in Kind \ {"release"} : /\ handler'[k].heard = FALSE
                                      /\ handler'[k].req \in {handler[k].req, None}
    BY <1>0, <1>i, <2>1 DEF HandlerRow
  <2>4. handler'["acquire"].req < next'
    BY <1>0, <1>i, <2>1, <2>3 DEF Listening
  <2> QED BY <1>0, <2>1, <2>2, <2>3, <2>4 DEF Listening, PhoneTyped
<1>5. ASSUME NEW k \in Kind, NEW r \in Request, NEW H, H = handler \/ H = Taken(k),
             LetGo(H, r), next' = next
      PROVE  PhoneTyped' /\ Listening'
  <2>1. /\ phone' = Watching
        /\ \A j \in {"acquire", "heartbeat", "input"} :
              handler'[j].heard = FALSE /\ handler'[j].req \in {handler[j].req, None}
    BY <1>0, <1>i, <1>5, LetGoSilences
  <2>2. handler'["acquire"].req < next'
    BY <1>i, <1>5, <2>1 DEF Listening
  <2> QED BY <1>0, <1>i, <1>w, <1>5, <2>1, <2>2 DEF Listening, PhoneTyped
<1>6. CASE Done
  <2>1. phone.req \in Request
    BY <1>6 DEF Done, Listening
  <2> QED BY <1>5, <1>6, <2>1 DEF Done
<1>7. CASE AcquireAnswered
  <2>1. /\ handler["acquire"].heard /\ handler["acquire"].at = "reply" /\ next' = next
        /\ handler' = [handler EXCEPT !["acquire"] = Idle]
        /\ phone' = Watching \/ phone' = [at |-> "active", req |-> handler["acquire"].req,
                                          seq |-> handler["acquire"].seq]
    BY <1>7 DEF AcquireAnswered, Answered, Taken
  <2>2. /\ handler'["acquire"] = Idle
        /\ \A k \in {"heartbeat", "input"} : handler'[k] = handler[k] /\ ~handler[k].heard
    BY <1>0, <2>1 DEF HandlersTyped, Listening, HandlerRow
  <2>3. handler["acquire"].req \in Request /\ phone' \in PhoneRow
    BY <1>0, <1>w, <2>1 DEF HandlersOK, PhoneRow, HandlerRow
  <2> QED BY <1>0, <1>i, <1>w, <2>1, <2>2, <2>3 DEF Listening, PhoneTyped
<1>8. CASE TooLateForControl
  <2>1. /\ handler["acquire"].heard /\ next' = next /\ phone' = [phone EXCEPT !.at = "watching"]
        /\ handler' = [handler EXCEPT !["acquire"] = Idle,
                                      !["release"] = Called("ask", handler["acquire"].req, 0)]
    BY <1>8 DEF TooLateForControl, Answered, Taken
  <2>2. /\ handler'["acquire"] = Idle
        /\ \A k \in {"heartbeat", "input"} : handler'[k] = handler[k] /\ ~handler[k].heard
    BY <1>0, <2>1 DEF HandlersTyped, Listening, HandlerRow
  <2>3. phone' \in PhoneRow /\ phone'.at = "watching" /\ phone'.req = phone.req
    BY <1>0, <2>1 DEF PhoneRow
  <2> QED BY <1>0, <1>i, <2>1, <2>2, <2>3 DEF Listening, PhoneTyped
<1>9. ASSUME NEW k \in Kind, BeatAnswered(k) PROVE PhoneTyped' /\ Listening'
  <2>1. /\ k \in {"heartbeat", "input"} /\ handler[k].heard /\ handler[k].at = "reply" /\ next' = next
        /\ handler[k].req \in Request
    BY <1>0, <1>9 DEF BeatAnswered, Answered, HandlersOK
  <2>2. CASE handler[k].ok
    <3>1. /\ phone' = [phone EXCEPT !.seq = Larger(@, handler[k].seq)]
          /\ handler' = [handler EXCEPT ![k] = Idle]
      BY <1>9, <2>2 DEF BeatAnswered, Taken
    <3>2. Larger(phone.seq, handler[k].seq) \in 0..MaxSeq
      BY <1>0 DEF Larger, PhoneRow, HandlerRow
    <3>3. phone' \in PhoneRow /\ phone'.at = phone.at /\ phone'.req = phone.req
      BY <1>0, <3>1, <3>2 DEF PhoneRow
    <3>4. \A j \in Kind : handler'[j] = handler[j] \/ handler'[j] = Idle
      BY <1>0, <3>1 DEF HandlersTyped
    <3> QED BY <1>0, <1>i, <2>1, <3>3, <3>4 DEF Listening, PhoneTyped
  <2>3. CASE ~handler[k].ok
    BY <1>5, <1>9, <2>1, <2>3 DEF BeatAnswered
  <2> QED BY <2>2, <2>3
<1>10. ASSUME NEW k \in Kind, Lose(k) PROVE PhoneTyped' /\ Listening'
  <2>1. handler[k].heard /\ next' = next /\ handler[k].req \in Request
    BY <1>0, <1>i, <1>10 DEF Lose, HandlersOK
  <2>2. CASE k \notin {"acquire", "release"}
    BY <1>5, <1>10, <2>1, <2>2 DEF Lose
  <2>3. CASE k \in {"acquire", "release"}
    <3>1. /\ handler' = [handler EXCEPT ![k].heard = FALSE]
          /\ phone' = phone \/ (k = "acquire" /\ phone' = [phone EXCEPT !.at = "watching"])
      BY <1>10, <2>3 DEF Lose
    <3>2. /\ handler'["acquire"].req = handler["acquire"].req
          /\ handler'["acquire"].heard => handler["acquire"].heard /\ k # "acquire"
          /\ k # "acquire" => handler'["acquire"] = handler["acquire"]
          /\ \A j \in {"heartbeat", "input"} : handler'[j] = handler[j]
      BY <1>0, <2>3, <3>1 DEF HandlersTyped, HandlerRow
    <3>3. CASE k = "acquire" /\ phone' = [phone EXCEPT !.at = "watching"]
      <4>1. phone' \in PhoneRow /\ phone'.at = "watching" /\ phone'.req = phone.req
        BY <1>0, <3>3 DEF PhoneRow
      <4>2. \A j \in {"heartbeat", "input"} : ~handler[j].heard
        BY <2>1, <3>3 DEF Listening
      <4> QED BY <1>0, <2>1, <3>2, <3>3, <4>1, <4>2 DEF Listening, PhoneTyped
    <3>4. CASE phone' = phone
      <4>1. k = "acquire" => phone.at = "starting"
        BY <2>1 DEF Listening
      <4> QED BY <1>0, <2>1, <3>2, <3>4, <4>1 DEF Listening, PhoneTyped
    <3> QED BY <3>1, <3>3, <3>4
  <2> QED BY <2>2, <2>3
<1> QED BY <1>1, <1>2, <1>3, <1>4, <1>6, <1>7, <1>8, <1>9, <1>10 DEF Phoning

-----------------------------------------------------------------------------
(* What a handler may report: a batch the helper acknowledged, or the row.   *)
Reports(h) == h.at \in {"advance", "renewing"} \/ (h.at = "reply" /\ h.ok)
Confirmed(k) == /\ pipe # <<>> /\ pipe' = Tail(pipe) /\ pipe[1].by = k
                /\ handler[k].at = pipe[1].op
                /\ pipe[1].op = "input" => Deliver(pipe[1].req, pipe[1].seq, TRUE)
ReportMove(k) == Reports(handler'[k]) =>
    /\ handler[k].at # "idle" /\ handler'[k].req = handler[k].req
    /\ \/ Reports(handler[k]) /\ handler'[k].seq = handler[k].seq
       \/ k = "release" /\ handler'[k].seq = 0
       \/ k = "heartbeat" /\ handler'[k].seq = lease[handler[k].req].seq
       \/ k = "acquire" /\ Confirmed(k) /\ handler[k].at = "activate"
                        /\ handler'[k].seq = lease[handler[k].req].seq
       \/ k = "input" /\ Confirmed(k) /\ handler[k].at = "input"
                      /\ handler'[k].seq = handler[k].seq
AllReports == \A k \in Kind : ReportMove(k)

LEMMA ReportSame ==
    ASSUME NEW k \in Kind, handler'[k].at = handler[k].at, handler'[k].ok = handler[k].ok,
           handler'[k].req = handler[k].req, handler'[k].seq = handler[k].seq
    PROVE  ReportMove(k)
BY DEF ReportMove, Reports

LEMMA ReportNothing ==
    ASSUME NEW k \in Kind, ~Reports(handler'[k])
    PROVE  ReportMove(k)
BY DEF ReportMove

LEMMA ReportOne ==
    ASSUME HandlersTyped, NEW k \in Kind, NEW h, handler' = [handler EXCEPT ![k] = h], ReportMove(k)
    PROVE  AllReports
<1>1. \A j \in Kind \ {k} : handler'[j] = handler[j]
  BY DEF HandlersTyped
<1> QED BY <1>1, ReportSame DEF AllReports

LEMMA ReportRefusal ==
    ASSUME HandlersTyped, NEW k \in Kind, NEW s,
           handler' = [handler EXCEPT ![k] = Answer(@, FALSE, s)]
    PROVE  AllReports
<1>1. handler'[k] = Idle \/ handler'[k] = [handler[k] EXCEPT !.at = "reply", !.ok = FALSE, !.seq = s]
  BY DEF HandlersTyped, Answer
<1>2. Idle.at = "idle"
  BY DEF Idle
<1>3. [handler[k] EXCEPT !.at = "reply", !.ok = FALSE, !.seq = s].ok = FALSE
      /\ [handler[k] EXCEPT !.at = "reply", !.ok = FALSE, !.seq = s].at = "reply"
  BY DEF HandlersTyped, HandlerRow
<1>4. ReportMove(k)
  <2>1. ~Reports(handler'[k])
    BY <1>1, <1>2, <1>3 DEF Reports
  <2> QED BY <2>1, ReportNothing
<1> QED BY <1>4, ReportOne

LEMMA ReportStep ==
    ASSUME HandlersTyped, NEW k \in Kind, NEW at, at \notin {"advance", "renewing", "reply"},
           handler' = [handler EXCEPT ![k].at = at]
    PROVE  AllReports
<1>1. handler'[k].at = at
  BY DEF HandlersTyped, HandlerRow
<1>2. ~Reports(handler'[k])
  BY <1>1 DEF Reports
<1> QED BY <1>2, ReportNothing, ReportOne

LEMMA StepReports ==
    ASSUME HandlersTyped, NEW k \in Kind, NEW at, at \notin {"advance", "renewing", "reply"},
           Step(k, at) \/ \E op : Ask(k, op, at)
    PROVE  AllReports
<1>1. Step(k, at)
  BY DEF Ask
<1> QED BY <1>1, ReportStep DEF Step

(* Somebody is answered, or hung up on.                                      *)
LEMMA ReportEnds ==
    ASSUME HandlersTyped, NEW k \in Kind,
           handler' = [handler EXCEPT ![k] = Idle]
    PROVE  AllReports
<1>1. handler'[k].at = "idle"
  BY DEF HandlersTyped, Idle
<1>2. ~Reports(handler'[k])
  BY <1>1 DEF Reports
<1> QED BY <1>2, ReportNothing, ReportOne

LEMMA PhoneReports ==
    ASSUME Shape, Phoning
    PROVE  AllReports
<1>0. HandlersTyped /\ HandlersOK
  BY Types DEF Shape
<1>i. Idle.at = "idle"
  BY DEF Idle
<1> USE DEF Kind
<1>1. ASSUME NEW k \in Kind, NEW r, NEW s, NEW at \in {"lookup", "prepare", "read", "ask"},
             handler' = [handler EXCEPT ![k] = Called(at, r, s)]
      PROVE  AllReports
  <2>1. handler'[k].at = at
    BY <1>0, <1>1 DEF HandlersTyped, Called
  <2>2. ~Reports(handler'[k])
    BY <2>1 DEF Reports
  <2> QED BY <1>0, <1>1, <2>2, ReportNothing, ReportOne
<1>2. CASE TakeControl
  BY <1>1, <1>2 DEF TakeControl
<1>3. CASE SendInput \/ SendHeartbeat
  BY <1>1, <1>3 DEF SendInput, SendHeartbeat
<1>4. ASSUME NEW k \in Kind, NEW r \in Request, NEW H, H = handler \/ H = Taken(k), LetGo(H, r)
      PROVE  AllReports
  <2>1. /\ \A j \in Kind \ {"release"} : handler'[j] = Idle
              \/ /\ handler'[j].at = handler[j].at /\ handler'[j].seq = handler[j].seq
                 /\ handler'[j].ok = handler[j].ok /\ handler'[j].req = handler[j].req
        /\ handler'["release"] = Called("ask", r, 0)
    BY <1>0, <1>4, LetGoSilences
  <2>2. handler'["release"].at = "ask"
    BY <2>1 DEF Called
  <2>3. ~Reports(handler'["release"]) /\ ~Reports(Idle)
    BY <1>i, <2>2 DEF Reports
  <2> QED BY <2>1, <2>3, ReportSame, ReportNothing DEF AllReports
<1>5. ASSUME NEW k \in Kind, BeatAnswered(k) PROVE AllReports
  <2>1. handler[k].req \in Request
    BY <1>0, <1>5 DEF BeatAnswered, Answered, HandlersOK
  <2>2. CASE handler[k].ok
    BY <1>0, <1>5, <2>2, ReportEnds DEF BeatAnswered, Taken
  <2>3. CASE ~handler[k].ok
    BY <1>4, <1>5, <2>1, <2>3 DEF BeatAnswered
  <2> QED BY <2>2, <2>3
<1>6. ASSUME NEW k \in Kind, Lose(k) PROVE AllReports
  <2>1. handler[k].req \in Request
    BY <1>0, <1>6 DEF Lose, HandlersOK, Idle
  <2>2. CASE k \notin {"acquire", "release"}
    BY <1>4, <1>6, <2>1, <2>2 DEF Lose
  <2>3. CASE k \in {"acquire", "release"}
    <3>1. handler' = [handler EXCEPT ![k].heard = FALSE]
      BY <1>6, <2>3 DEF Lose
    <3>2. \A j \in Kind : /\ handler'[j].at = handler[j].at /\ handler'[j].seq = handler[j].seq
                          /\ handler'[j].ok = handler[j].ok /\ handler'[j].req = handler[j].req
      BY <1>0, <3>1 DEF HandlersTyped, HandlerRow
    <3> QED BY <3>2, ReportSame DEF AllReports
  <2> QED BY <2>2, <2>3
<1>7. CASE Done
  <2>1. handler' = [HangUp(handler) EXCEPT !["release"] = Called("ask", phone.req, 0)]
    BY <1>7 DEF Done, LetGo
  <2>2. handler'["release"].at = "ask"
    BY <2>1 DEF Called, HangUp
  <2>3. \A j \in Kind \ {"release"} :
           handler'[j] = handler[j] \/ handler'[j] = [handler[j] EXCEPT !.heard = FALSE]
    BY <2>1 DEF HangUp
  <2>4. ASSUME NEW j \in Kind \ {"release"} PROVE ReportMove(j)
    <3>1. /\ handler'[j].at = handler[j].at /\ handler'[j].seq = handler[j].seq
          /\ handler'[j].ok = handler[j].ok /\ handler'[j].req = handler[j].req
      BY <1>0, <2>3, <2>4 DEF HandlersTyped, HandlerRow
    <3> QED BY <3>1, ReportSame
  <2>5. ~Reports(handler'["release"])
    BY <2>2 DEF Reports
  <2> QED BY <2>4, <2>5, ReportNothing DEF AllReports
<1>8. CASE GiveUp
  <2>1. \A j \in Kind : handler'[j] = handler[j] \/ handler'[j] = [handler[j] EXCEPT !.heard = FALSE]
    BY <1>8 DEF GiveUp, HangUp
  <2>2. \A j \in Kind : /\ handler'[j].at = handler[j].at /\ handler'[j].seq = handler[j].seq
                        /\ handler'[j].ok = handler[j].ok /\ handler'[j].req = handler[j].req
    BY <1>0, <2>1 DEF HandlersTyped, HandlerRow
  <2> QED BY <2>2, ReportSame DEF AllReports
<1>9. CASE AcquireAnswered
  BY <1>0, <1>9, ReportEnds DEF AcquireAnswered, Taken
<1>10. CASE TooLateForControl
  <2>1. \A j \in Kind \ {"acquire", "release"} : handler'[j] = handler[j]
    BY <1>0, <1>10 DEF TooLateForControl, Taken, HandlersTyped
  <2>2. handler'["acquire"].at = "idle" /\ handler'["release"].at = "ask"
    BY <1>0, <1>i, <1>10 DEF TooLateForControl, Taken, HandlersTyped, Called
  <2>3. ~Reports(handler'["acquire"]) /\ ~Reports(handler'["release"])
    BY <2>2 DEF Reports
  <2> QED BY <2>1, <2>3, ReportSame, ReportNothing DEF AllReports
<1> QED BY <1>2, <1>3, <1>5, <1>6, <1>7, <1>8, <1>9, <1>10 DEF Phoning

LEMMA DaemonReports ==
    ASSUME Shape, Daemon
    PROVE  AllReports
<1>0. /\ HandlersTyped /\ HandlersOK /\ handler \in [Kind -> HandlerRow]
      /\ \A k \in Kind : handler[k] \in HandlerRow
  BY Types DEF Shape, HandlersTyped
<1> USE DEF Kind
<1>1. CASE Lookup
  <2>1. \/ Ask("acquire", "consent", "consent")
        \/ Step("acquire", "renew")
        \/ Reply("acquire", FALSE, 0)
    BY <1>1 DEF Lookup
  <2>2. CASE Ask("acquire", "consent", "consent") \/ Step("acquire", "renew")
    BY <1>0, <2>2, StepReports
  <2> QED BY <1>0, <2>1, <2>2, ReportRefusal DEF Reply
<1>2. CASE Renew
  BY <1>0, <1>2, ReportStep DEF Renew, Ask, Step
<1>3. ASSUME NEW k \in Kind, Undo(k) PROVE AllReports
  <2>1. Ask(k, "release", "undone")
    BY <1>3 DEF Undo
  <2> QED BY <1>0, <2>1, StepReports
<1>4. CASE BeatRead
  <2>1. CASE handler' = [handler EXCEPT !["heartbeat"].at = "beat", !["heartbeat"].ok = TRUE]
    <3>1. /\ handler' = [handler EXCEPT !["heartbeat"] = [@ EXCEPT !.at = "beat", !.ok = TRUE]]
          /\ handler'["heartbeat"].at = "beat"
      BY <1>0, <2>1 DEF HandlerRow
    <3>2. ~Reports(handler'["heartbeat"])
      BY <3>1 DEF Reports
    <3> QED BY <1>0, <3>1, <3>2, ReportNothing, ReportOne
  <2>2. CASE Reply("heartbeat", FALSE, 0)
    BY <1>0, <2>2, ReportRefusal DEF Reply
  <2> QED BY <1>4, <2>1, <2>2 DEF BeatRead
<1>5. CASE BeatWrite
  <2>0. handler["heartbeat"].at = "beat"
    BY <1>5 DEF BeatWrite
  <2>1. CASE handler' = [handler EXCEPT !["heartbeat"].at = "renewing",
                             !["heartbeat"].seq = lease[handler["heartbeat"].req].seq]
    <3>1. /\ handler'["heartbeat"].seq = lease[handler["heartbeat"].req].seq
          /\ handler'["heartbeat"].req = handler["heartbeat"].req
          /\ \A j \in Kind \ {"heartbeat"} : handler'[j] = handler[j]
      BY <1>0, <2>1 DEF HandlerRow
    <3> QED BY <2>0, <3>1, ReportSame DEF AllReports, ReportMove
  <2>2. CASE Reply("heartbeat", FALSE, 0)
    BY <1>0, <2>2, ReportRefusal DEF Reply
  <2> QED BY <1>5, <2>1, <2>2 DEF BeatWrite
<1>6. CASE BeatRefused
  BY <1>0, <1>6, ReportRefusal DEF BeatRefused, Reply
<1>7. CASE Prepare
  BY <1>0, <1>7, ReportStep, ReportRefusal DEF Prepare, Ask, Step, Reply
<1>8. CASE Advance
  <2> DEFINE in == handler["input"]  o == Overtaken(in.req, in.seq)
  <2>1. in.at = "advance"
    BY <1>8 DEF Advance
  <2>2. CASE Step("input", "undo")
    BY <1>0, <2>2, StepReports
  <2>3. CASE handler' = [o EXCEPT !["input"] = Answer(@, TRUE, in.seq)]
    <3>1. /\ o \in [Kind -> HandlerRow] /\ \A k \in Kind \ {"heartbeat"} : o[k] = handler[k]
          /\ o["heartbeat"] = handler["heartbeat"]
             \/ (handler["heartbeat"].at = "beat" /\ o["heartbeat"].at = "beat")
      BY <1>0 DEF Overtaken, HandlerRow
    <3>2. /\ handler'["input"] = Answer(in, TRUE, in.seq)
          /\ \A k \in Kind \ {"input"} : handler'[k] = o[k]
      BY <2>3, <3>1
    <3>3. handler'["input"] = Idle \/ (handler'["input"].req = in.req /\ handler'["input"].seq = in.seq)
      BY <1>0, <3>2 DEF Answer, HandlerRow
    <3>4. ReportMove("input")
      <4>1. ~Reports(Idle) /\ Reports(in)
        BY <2>1 DEF Reports, Idle
      <4> QED BY <2>1, <3>3, <4>1 DEF ReportMove
    <3>5. ReportMove("heartbeat")
      <4>1. handler'["heartbeat"] = handler["heartbeat"] \/ ~Reports(handler'["heartbeat"])
        BY <3>1, <3>2 DEF Reports
      <4> QED BY <4>1, ReportSame, ReportNothing
    <3>6. ReportMove("acquire") /\ ReportMove("release")
      BY <3>1, <3>2, ReportSame
    <3> QED BY <3>4, <3>5, <3>6 DEF AllReports
  <2> QED BY <1>8, <2>2, <2>3 DEF Advance
<1>9. CASE AskRelease
  <2>1. Ask("release", "release", "releasing")
    BY <1>9 DEF AskRelease
  <2> QED BY <1>0, <2>1, StepReports
<1>10. CASE ReleaseRow
  <2>1. /\ handler["release"].at = "row"
        /\ handler' = [handler EXCEPT !["release"] = Answer(@, TRUE, 0)]
    BY <1>10 DEF ReleaseRow, Reply
  <2>2. handler'["release"] = Idle \/ (handler'["release"].req = handler["release"].req
                                       /\ handler'["release"].seq = 0)
    BY <1>0, <2>1 DEF Answer, HandlerRow
  <2>3. ~Reports(Idle)
    BY DEF Reports, Idle
  <2>4. ReportMove("release")
    BY <2>1, <2>2, <2>3 DEF ReportMove
  <2> QED BY <1>0, <2>1, <2>4, ReportOne
<1> QED BY <1>1, <1>2, <1>3, <1>4, <1>5, <1>6, <1>7, <1>8, <1>9, <1>10 DEF Daemon

(* The helper's answer, or none.                                             *)
LEMMA HeardReports ==
    ASSUME Shape, NEW k \in Kind, handler[k].at \in Awaits, NEW yes \in BOOLEAN,
           handler' = [handler EXCEPT ![k] = GoOn(k, yes)],
           yes => Confirmed(k)
    PROVE  AllReports
<1> DEFINE h == handler[k]
<1>0. /\ HandlersTyped /\ HandlersOK /\ h \in HandlerRow /\ h.at \in Steps[k]
      /\ handler'[k] = GoOn(k, yes) /\ h.at # "idle"
  BY Types DEF Shape, HandlersTyped, HandlersOK, Awaits
<1>1. ~Reports(Idle)
  BY DEF Reports, Idle
<1>2. ASSUME NEW at, at \notin {"advance", "renewing", "reply"} PROVE ~Reports([h EXCEPT !.at = at])
  BY <1>0, <1>2 DEF Reports, HandlerRow
<1>3. ASSUME NEW s PROVE ~Reports(Answer(h, FALSE, s))
  BY <1>0, <1>1 DEF Reports, Answer, HandlerRow
<1>4. \A s : \/ Answer(h, TRUE, s) = Idle
             \/ Answer(h, TRUE, s).req = h.req /\ Answer(h, TRUE, s).seq = s
  BY <1>0 DEF Answer, HandlerRow
<1>5. ReportMove(k)
  <2>1. CASE h.at = "consent" \/ h.at = "undone"
    <3>1. ~Reports(GoOn(k, yes))
      BY <1>2, <1>3, <2>1 DEF GoOn
    <3> QED BY <1>0, <3>1, ReportNothing
  <2>2. CASE h.at = "releasing"
    <3>1. ~Reports(GoOn(k, yes))
      BY <1>2, <2>2 DEF GoOn
    <3> QED BY <1>0, <3>1, ReportNothing
  <2>3. CASE h.at = "activate"
    <3>1. k = "acquire"
      BY <1>0, <2>3 DEF Steps, Kind
    <3>2. CASE ~yes
      <4>1. ~Reports(GoOn(k, yes))
        BY <1>2, <2>3, <3>2 DEF GoOn
      <4> QED BY <1>0, <4>1, ReportNothing
    <3>3. CASE yes
      <4>1. handler'[k] = Answer(h, TRUE, lease[h.req].seq)
        BY <1>0, <2>3, <3>3 DEF GoOn
      <4>2. \/ handler'[k] = Idle
            \/ handler'[k].req = h.req /\ handler'[k].seq = lease[h.req].seq
        BY <1>4, <4>1
      <4>3. Confirmed(k)
        BY <3>3
      <4> QED BY <1>0, <1>1, <2>3, <3>1, <4>2, <4>3 DEF ReportMove
    <3> QED BY <3>2, <3>3
  <2>4. CASE h.at = "renewing"
    <3>1. CASE ~yes
      <4>1. ~Reports(GoOn(k, yes))
        BY <1>2, <2>4, <3>1 DEF GoOn
      <4> QED BY <1>0, <4>1, ReportNothing
    <3>2. CASE yes
      <4>1. handler'[k] = Answer(h, TRUE, h.seq)
        BY <1>0, <2>4, <3>2 DEF GoOn
      <4>2. Reports(h)
        BY <2>4 DEF Reports
      <4>3. handler'[k] = Idle \/ (handler'[k].req = h.req /\ handler'[k].seq = h.seq)
        BY <1>4, <4>1
      <4> QED BY <1>0, <1>1, <4>2, <4>3 DEF ReportMove
    <3> QED BY <3>1, <3>2
  <2>5. CASE h.at = "input"
    <3>1. k = "input"
      BY <1>0, <2>5 DEF Steps, Kind
    <3>2. CASE ~yes
      <4>1. ~Reports(GoOn(k, yes))
        BY <1>3, <2>5, <3>2 DEF GoOn, InputAnswered
      <4> QED BY <1>0, <4>1, ReportNothing
    <3>3. CASE yes
      <4>1. handler'[k] = [h EXCEPT !.at = "advance"]
        BY <1>0, <2>5, <3>3 DEF GoOn, InputAnswered
      <4>2. handler'[k].req = h.req /\ handler'[k].seq = h.seq
        BY <1>0, <4>1 DEF HandlerRow
      <4> QED BY <1>0, <2>5, <3>1, <3>3, <4>2 DEF ReportMove
    <3> QED BY <3>2, <3>3
  <2> QED BY <2>1, <2>2, <2>3, <2>4, <2>5 DEF Awaits
<1> QED BY <1>0, <1>5, ReportOne

LEMMA ReportsStep ==
    ASSUME Shape, [Next]_vars
    PROVE  AllReports
<1>0. HandlersTyped /\ HandlersOK /\ PipeTyped
  BY Types DEF Shape
<1>1. CASE UNCHANGED handler
  BY <1>1, ReportSame DEF AllReports
<1>2. CASE Command
  <2>0. pipe # <<>> /\ Head(pipe) = pipe[1] /\ 1 \in 1..Len(pipe) /\ pipe' = Tail(pipe)
    BY <1>0, <1>2, FirstCommand DEF Command
  <2> DEFINE k == pipe[1].by
  <2>1. PICK yes \in BOOLEAN :
           /\ handler' = IF k \in Kind THEN [handler EXCEPT ![k] = GoOn(k, yes)] ELSE handler
           /\ pipe[1].op = "input" => Deliver(pipe[1].req, pipe[1].seq, yes)
    BY <1>2, <2>0 DEF Command
  <2>2. CASE k \in Kind
    <3>1. handler[k].at \in Awaits
      BY <2>0, <2>2, AskersWait
    <3>2. handler[k].at \in AwaitedAt(pipe[1].op) /\ pipe[1] \in PipeRow
      BY <1>0, <2>0, <2>2, FirstCommand DEF Shape, Owned
    <3>3. CASE handler[k].at = pipe[1].op
      <4>1. yes => Confirmed(k)
        BY <2>0, <2>1, <3>3 DEF Confirmed
      <4> QED BY <2>1, <2>2, <3>1, <4>1, HeardReports
    <3>4. CASE handler[k].at # pipe[1].op
      <4>1. handler[k].at \in {"renewing", "undone", "releasing"}
        BY <3>2, <3>4 DEF AwaitedAt
      <4>2. ReportMove(k)
        <5>0. handler[k] \in HandlerRow /\ handler'[k] = GoOn(k, yes)
          BY <1>0, <2>1, <2>2 DEF HandlersTyped
        <5>i. ~Reports(Idle)
          BY DEF Reports, Idle
        <5>1. CASE handler[k].at = "renewing"
          <6>1. \/ handler'[k] = Idle
                \/ handler'[k].at = "refused"
                \/ handler'[k].req = handler[k].req /\ handler'[k].seq = handler[k].seq
            BY <5>0, <5>1 DEF GoOn, Answer, HandlerRow
          <6>2. Reports(handler[k]) /\ handler[k].at # "idle"
            BY <5>1 DEF Reports
          <6>3. handler'[k].at = "refused" => ~Reports(handler'[k])
            BY DEF Reports
          <6> QED BY <5>i, <6>1, <6>2, <6>3 DEF ReportMove
        <5>2. CASE handler[k].at = "undone"
          <6>1. handler'[k] = Idle \/ (handler'[k].at = "reply" /\ handler'[k].ok = FALSE)
            BY <5>0, <5>2 DEF GoOn, Answer, HandlerRow
          <6> QED BY <5>i, <6>1 DEF ReportMove, Reports
        <5>3. CASE handler[k].at = "releasing"
          <6>1. handler'[k].at = "row"
            BY <5>0, <5>3 DEF GoOn, HandlerRow
          <6> QED BY <6>1 DEF ReportMove, Reports
        <5> QED BY <4>1, <5>1, <5>2, <5>3
      <4> QED BY <1>0, <2>1, <2>2, <4>2, ReportOne
    <3> QED BY <3>3, <3>4
  <2> QED BY <1>1, <2>1, <2>2
<1>3. ASSUME NEW k \in Kind, Unanswered(k) PROVE AllReports
  BY <1>3, HeardReports DEF Unanswered, Waiting, Awaits
<1>4. ASSUME NEW k \in Kind, Drop(k) PROVE AllReports
  BY <1>0, <1>4, ReportEnds DEF Drop
<1>5. CASE ReleaseAnswered
  BY <1>0, <1>5, ReportEnds DEF ReleaseAnswered, Taken, Kind
<1>6. CASE \E r \in Request : RowExpires(r) \/ Revoked(r)
  BY <1>1, <1>6 DEF RowExpires, Revoked
<1>7. CASE GateExpires \/ Timer \/ LocalStop \/ UNCHANGED vars
  BY <1>1, <1>7 DEF GateExpires, Timer, LocalStop, Close, vars, daemonVars
<1> QED BY <1>2, <1>3, <1>4, <1>5, <1>6, <1>7, PhoneReports, DaemonReports DEF Next, Phoning

-----------------------------------------------------------------------------
(* One step of the phone, by what it believes and whom it calls.             *)
PhoneSame == /\ phone'.req = phone.req /\ phone'.seq = phone.seq
             /\ phone'.at = "active" <=> phone.at = "active"
PhoneHears(k) == /\ Reports(handler[k]) /\ handler[k].req = phone.req
                 /\ phone' = [phone EXCEPT !.seq = Larger(@, handler[k].seq)]
PhoneGains == /\ Given /\ phone'.at = "active"
              /\ phone'.req = handler["acquire"].req /\ phone'.seq = handler["acquire"].seq
              /\ handler'["acquire"] = Idle
PhoneMove ==
    /\ next <= next'
    /\ handler'["acquire"].req \in {handler["acquire"].req, None} \/ TakeControl
    /\ handler'["input"].req \in {handler["input"].req, None} \/ SendInput
    /\ \/ PhoneSame
       \/ phone' = Watching
       \/ TakeControl
       \/ PhoneGains
       \/ \E k \in {"heartbeat", "input"} : PhoneHears(k)

LEMMA PhoneStep ==
    ASSUME Bounds, Shape, Listening, [Next]_vars
    PROVE  PhoneMove
<1>0. /\ HandlersTyped /\ HandlersOK /\ phone \in PhoneRow /\ next \in 1..(MaxRequests + 1)
      /\ \A k \in Kind : handler[k] \in HandlerRow
      /\ next <= next /\ next <= next + 1
  BY Types DEF Shape, PhoneTyped, HandlersTyped, Bounds
<1>i. Idle.heard = FALSE /\ Idle.req = None /\ Idle.at = "idle"
  BY DEF Idle
<1> USE DEF Kind
<1>1. CASE ~Phoning
  <2>1. PhoneKeeps
    BY <1>1, OthersKeep
  <2>2. PhoneSame /\ next' = next
    BY <2>1 DEF PhoneKeeps, PhoneSame
  <2>3. \A k \in Kind : handler'[k].req \in {handler[k].req, None}
    BY <1>i, <2>1 DEF PhoneKeeps, Keeps
  <2> QED BY <1>0, <2>2, <2>3 DEF PhoneMove
<1>2. CASE TakeControl
  <2>1. next' \in {next, next + 1} /\ handler'["input"] = handler["input"]
    BY <1>0, <1>2 DEF TakeControl, HandlersTyped
  <2> QED BY <1>0, <1>2, <2>1 DEF PhoneMove
<1>3. CASE SendInput \/ SendHeartbeat
  <2>1. /\ UNCHANGED <<phone, next>> /\ handler'["acquire"] = handler["acquire"]
        /\ handler'["input"] = handler["input"] \/ SendInput
    BY <1>0, <1>3 DEF SendInput, SendHeartbeat, HandlersTyped, phoneVars
  <2> QED BY <1>0, <2>1 DEF PhoneMove, PhoneSame
<1>4. CASE GiveUp
  <2>1. /\ phone' = [phone EXCEPT !.at = "watching"] /\ next' = next /\ phone.at = "starting"
        /\ \A k \in Kind \ {"release"} : handler'[k] = Idle \/ handler'[k] = [handler[k] EXCEPT !.heard = FALSE]
    BY <1>0, <1>4 DEF GiveUp, HangUp, HandlersTyped
  <2>2. PhoneSame
    BY <1>0, <2>1 DEF PhoneRow, PhoneSame
  <2>3. \A k \in Kind \ {"release"} : handler'[k].req \in {handler[k].req, None}
    BY <1>0, <1>i, <2>1 DEF HandlerRow
  <2> QED BY <1>0, <2>1, <2>2, <2>3 DEF PhoneMove
<1>5. ASSUME NEW k \in Kind, NEW r \in Request, NEW H, H = handler \/ H = Taken(k),
             LetGo(H, r), next' = next
      PROVE  PhoneMove
  <2>1. /\ phone' = Watching
        /\ \A j \in {"acquire", "heartbeat", "input"} : handler'[j].req \in {handler[j].req, None}
    BY <1>0, <1>i, <1>5, LetGoSilences
  <2> QED BY <1>0, <1>5, <2>1 DEF PhoneMove
<1>6. CASE Done
  <2>1. phone.req \in Request
    BY <1>6 DEF Done, Listening
  <2> QED BY <1>5, <1>6, <2>1 DEF Done
<1>7. CASE AcquireAnswered
  <2>1. /\ handler["acquire"].at = "reply" /\ next' = next
        /\ handler' = [handler EXCEPT !["acquire"] = Idle]
        /\ phone' = Watching
           \/ (handler["acquire"].ok /\ phone' = [at |-> "active", req |-> handler["acquire"].req,
                                                  seq |-> handler["acquire"].seq])
    BY <1>7 DEF AcquireAnswered, Answered, Taken
  <2>2. handler'["acquire"] = Idle /\ handler'["input"] = handler["input"]
    BY <1>0, <2>1 DEF HandlersTyped
  <2>3. phone' = Watching \/ PhoneGains
    BY <2>1, <2>2 DEF PhoneGains, Given
  <2> QED BY <1>0, <1>i, <2>1, <2>2, <2>3 DEF PhoneMove
<1>8. CASE TooLateForControl
  <2>1. /\ handler["acquire"].heard /\ next' = next /\ phone' = [phone EXCEPT !.at = "watching"]
        /\ handler' = [handler EXCEPT !["acquire"] = Idle,
                                      !["release"] = Called("ask", handler["acquire"].req, 0)]
    BY <1>8 DEF TooLateForControl, Answered, Taken
  <2>2. handler'["acquire"] = Idle /\ handler'["input"] = handler["input"]
    BY <1>0, <2>1 DEF HandlersTyped
  <2>3. PhoneSame
    BY <1>0, <2>1 DEF PhoneRow, PhoneSame, Listening
  <2> QED BY <1>0, <1>i, <2>1, <2>2, <2>3 DEF PhoneMove
<1>9. ASSUME NEW k \in Kind, BeatAnswered(k) PROVE PhoneMove
  <2>1. /\ k \in {"heartbeat", "input"} /\ handler[k].heard /\ handler[k].at = "reply" /\ next' = next
        /\ handler[k].req \in Request
    BY <1>0, <1>9 DEF BeatAnswered, Answered, HandlersOK
  <2>2. CASE handler[k].ok
    <3>1. /\ phone' = [phone EXCEPT !.seq = Larger(@, handler[k].seq)]
          /\ handler' = [handler EXCEPT ![k] = Idle]
      BY <1>9, <2>2 DEF BeatAnswered, Taken
    <3>2. PhoneHears(k)
      BY <2>1, <2>2, <3>1 DEF PhoneHears, Reports, Listening
    <3>3. \A j \in Kind : handler'[j].req \in {handler[j].req, None}
      BY <1>0, <1>i, <3>1 DEF HandlersTyped
    <3> QED BY <1>0, <2>1, <3>2, <3>3 DEF PhoneMove
  <2>3. CASE ~handler[k].ok
    BY <1>5, <1>9, <2>1, <2>3 DEF BeatAnswered
  <2> QED BY <2>2, <2>3
<1>10. ASSUME NEW k \in Kind, Lose(k) PROVE PhoneMove
  <2>1. handler[k].heard /\ next' = next /\ handler[k].req \in Request
    BY <1>0, <1>i, <1>10 DEF Lose, HandlersOK
  <2>2. CASE k \notin {"acquire", "release"}
    BY <1>5, <1>10, <2>1, <2>2 DEF Lose
  <2>3. CASE k \in {"acquire", "release"}
    <3>1. /\ handler' = [handler EXCEPT ![k].heard = FALSE]
          /\ phone' = phone \/ (k = "acquire" /\ phone' = [phone EXCEPT !.at = "watching"])
      BY <1>10, <2>3 DEF Lose
    <3>2. \A j \in Kind : handler'[j].req = handler[j].req
      BY <1>0, <3>1 DEF HandlersTyped, HandlerRow
    <3>3. PhoneSame
      BY <1>0, <2>1, <3>1 DEF PhoneRow, PhoneSame, Listening
    <3> QED BY <1>0, <2>1, <3>2, <3>3 DEF PhoneMove
  <2> QED BY <2>2, <2>3
<1> QED BY <1>1, <1>2, <1>3, <1>4, <1>6, <1>7, <1>8, <1>9, <1>10 DEF Phoning

(* ------------------------- attempts in the pipe ------------------------- *)

LEMMA LastOneStep ==
    ASSUME Shape, LastOne, PipeMove
    PROVE  LastOne'
<1>0. PipeTyped /\ Len(pipe) \in Nat
  BY Types DEF Shape, PipeTyped
<1>1. CASE NobodyAsks
  BY <1>1 DEF NobodyAsks, LastOne, Activating
<1>2. CASE Carries
  <2>1. /\ Len(pipe') = Len(pipe) - 1
        /\ \A i \in 1..Len(pipe') : i + 1 \in 1..Len(pipe) /\ pipe'[i] = pipe[i + 1]
    BY <1>0, <1>2, TailCommands DEF Carries
  <2>2. ASSUME NEW i \in 1..Len(pipe'), Activating(i)', pipe'[i].by = "acquire",
               NEW j \in 1..Len(pipe'), Activating(j)'
        PROVE  j <= i
    <3>1. Activating(i + 1) /\ pipe[i + 1].by = "acquire" /\ Activating(j + 1)
      BY <2>1, <2>2 DEF Activating
    <3>2. j + 1 <= i + 1
      BY <2>1, <3>1 DEF LastOne
    <3> QED BY <1>0, <2>1, <3>2
  <2> QED BY <2>2 DEF LastOne
<1>3. ASSUME NEW k \in Kind, GivesUp(k) PROVE LastOne'
  <2>1. /\ Len(pipe') = Len(pipe)
        /\ \A i \in 1..Len(pipe) : /\ pipe'[i].op = pipe[i].op
                                   /\ pipe'[i].by = pipe[i].by \/ pipe'[i].by = "nobody"
    BY <1>0, <1>3, OldCommands DEF GivesUp
  <2> QED BY <2>1 DEF LastOne, Activating
<1>4. ASSUME NEW k \in Kind, Asks(k) PROVE LastOne'
  <2>1. PICK c \in PipeRow : /\ pipe' = Append(pipe, c) /\ handler[k].at \notin Awaits
                             /\ c.op = "activate" => k = "acquire"
    BY <1>4 DEF Asks
  <2>2. /\ Len(pipe') = Len(pipe) + 1 /\ pipe'[Len(pipe')] = c
        /\ \A i \in 1..Len(pipe) : i \in 1..Len(pipe') /\ pipe'[i] = pipe[i]
        /\ \A i \in 1..Len(pipe') : i # Len(pipe') => i \in 1..Len(pipe)
    BY <1>0, <2>1, NewCommand
  <2>3. ASSUME NEW i \in 1..Len(pipe'), Activating(i)', pipe'[i].by = "acquire",
               NEW j \in 1..Len(pipe'), Activating(j)'
        PROVE  j <= i
    <3>1. CASE i = Len(pipe')
      BY <1>0, <2>2, <2>3, <3>1
    <3>2. CASE i # Len(pipe')
      <4>1. i \in 1..Len(pipe) /\ Activating(i) /\ pipe[i].by = "acquire"
        BY <2>2, <2>3, <3>2 DEF Activating
      <4>2. handler["acquire"].at \in Awaits
        BY <4>1, AskersWait DEF Kind
      <4>3. j # Len(pipe')
        BY <2>1, <2>2, <2>3, <4>2 DEF Activating
      <4>4. Activating(j)
        BY <2>2, <2>3, <4>3 DEF Activating
      <4> QED BY <4>1, <4>4, <2>2, <4>3 DEF LastOne
    <3> QED BY <3>1, <3>2
  <2> QED BY <2>3 DEF LastOne
<1> QED BY <1>1, <1>2, <1>3, <1>4 DEF PipeMove

(* A command to open the gate is an old one, or the attempt going on sends it. *)
LEMMA AttemptsStep ==
    ASSUME Shape, PipeMove, NEW i \in 1..Len(pipe'), Activating(i)'
    PROVE  \/ \E j \in 1..Len(pipe) : Activating(j) /\ pipe[j].req = pipe'[i].req
                                      /\ (Carries => j = i + 1)
           \/ handler["acquire"].at = "renew" /\ pipe'[i].req = handler["acquire"].req
<1>0. PipeTyped /\ Len(pipe) \in Nat
  BY Types DEF Shape, PipeTyped
<1>1. CASE NobodyAsks /\ ~Carries
  BY <1>1 DEF NobodyAsks, Activating
<1>2. CASE Carries
  <2>1. i + 1 \in 1..Len(pipe) /\ pipe'[i] = pipe[i + 1]
    BY <1>0, <1>2, TailCommands DEF Carries
  <2> QED BY <2>1 DEF Activating
<1>3. ASSUME NEW k \in Kind, GivesUp(k), ~Carries
      PROVE  \E j \in 1..Len(pipe) : Activating(j) /\ pipe[j].req = pipe'[i].req
  <2>1. i \in 1..Len(pipe) /\ pipe'[i].op = pipe[i].op /\ pipe'[i].req = pipe[i].req
    BY <1>0, <1>3, OldCommands DEF GivesUp
  <2> QED BY <2>1 DEF Activating
<1>4. ASSUME NEW k \in Kind, Asks(k), ~Carries
      PROVE  \/ \E j \in 1..Len(pipe) : Activating(j) /\ pipe[j].req = pipe'[i].req
             \/ handler["acquire"].at = "renew" /\ pipe'[i].req = handler["acquire"].req
  <2>1. PICK c \in PipeRow : /\ pipe' = Append(pipe, c)
                             /\ c.op = "activate" => /\ k = "acquire" /\ handler[k].at = "renew"
                                                     /\ c.req = handler[k].req
    BY <1>4 DEF Asks
  <2>2. /\ pipe'[Len(pipe')] = c
        /\ \A j \in 1..Len(pipe) : pipe'[j] = pipe[j]
        /\ \A j \in 1..Len(pipe') : j # Len(pipe') => j \in 1..Len(pipe)
    BY <1>0, <2>1, NewCommand
  <2>3. CASE i = Len(pipe')
    BY <2>1, <2>2, <2>3 DEF Activating
  <2>4. CASE i # Len(pipe')
    BY <2>2, <2>4 DEF Activating
  <2> QED BY <2>3, <2>4
<1> QED BY <1>1, <1>2, <1>3, <1>4 DEF PipeMove

LEMMA NoneLeftStep ==
    ASSUME Bounds, Shape, Talk, PipeMove, PhoneMove, AllReports
    PROVE  NoneLeft'
<1>0. /\ PipeTyped /\ Len(pipe) \in Nat /\ HandlersOK
      /\ handler["acquire"].at \in Steps["acquire"]
  BY Types DEF Shape, PipeTyped, HandlersOK, Kind
<1>1. ASSUME Given \/ phone.at = "active", NEW i \in 1..Len(pipe'), Activating(i)'
      PROVE  FALSE
  <2>1. handler["acquire"].at # "renew"
    BY <1>1 DEF Given, Talk, Listening, Idle
  <2> QED BY <1>1, <2>1, AttemptsStep DEF Talk, NoneLeft
<1>2. ASSUME Confirmed("acquire"), handler["acquire"].at = "activate",
             NEW i \in 1..Len(pipe'), Activating(i)'
      PROVE  FALSE
  <2>1. /\ 1 \in 1..Len(pipe) /\ Activating(1) /\ pipe[1].by = "acquire"
        /\ pipe' = Tail(pipe) /\ pipe # <<>>
    BY <1>0, <1>2, FirstCommand DEF Confirmed, Activating
  <2>2. i + 1 \in 1..Len(pipe) /\ pipe'[i] = pipe[i + 1]
    BY <1>0, <2>1, TailCommands
  <2>3. i + 1 <= 1
    BY <1>2, <2>1, <2>2 DEF Talk, LastOne, Activating
  <2> QED BY <2>2, <2>3
<1>3. ASSUME Given' PROVE Given \/ (Confirmed("acquire") /\ handler["acquire"].at = "activate")
  <2>1. Reports(handler'["acquire"])
    BY <1>3 DEF Given, Reports
  <2>2. Reports(handler["acquire"]) => Given
    BY <1>0 DEF Reports, Given, Steps
  <2> QED BY <2>1, <2>2 DEF AllReports, ReportMove, Kind
<1>4. ASSUME phone'.at = "active" PROVE Given \/ phone.at = "active"
  <2>1. CASE TakeControl
    BY <1>4, <2>1 DEF TakeControl
  <2>2. phone \in PhoneRow
    BY Types DEF Shape, PhoneTyped
  <2> QED BY <1>4, <2>1, <2>2 DEF PhoneMove, PhoneSame, PhoneGains, PhoneHears, Watching, PhoneRow
<1> QED BY <1>1, <1>2, <1>3, <1>4 DEF NoneLeft

(* A request that may still be made could be made before this step too.      *)
LEMMA ContestedBefore ==
    ASSUME Bounds, Shape, Talk, PipeMove, PhoneMove, [Next]_vars,
           NEW r \in Request, Contested(r)'
    PROVE  Contested(r)
<1>0. /\ HandlersTyped /\ PipeTyped /\ phone \in PhoneRow /\ next \in 1..(MaxRequests + 1)
      /\ next' \in 1..(MaxRequests + 1) /\ r # None /\ r \in Nat
  BY Types, ListenStep DEF Shape, Talk, PhoneTyped, Bounds, Request, None
<1>1. CASE TakeControl
  <2> DEFINE q == IF phone.req = None THEN next ELSE phone.req
  <2>1. /\ phone.at = "watching" /\ phone' = [at |-> "starting", req |-> q, seq |-> 0]
        /\ next' = IF phone.req = None THEN next + 1 ELSE next
        /\ handler' = [handler EXCEPT !["acquire"] = Called("lookup", q, 0)]
        /\ pipe' = pipe
    BY <1>1 DEF TakeControl
  <2>2. phone'.req = q /\ handler'["acquire"].req = q
    BY <1>0, <2>1 DEF HandlersTyped, Called, Kind
  <2>3. r >= next' => r >= next
    BY <1>0, <2>1
  <2>4. r = q => Contested(r)
    BY <1>0, <2>1 DEF Contested
  <2> HIDE DEF q
  <2> QED BY <2>1, <2>2, <2>3, <2>4 DEF Contested, Activating
<1>2. CASE ~TakeControl
  <2>1. CASE r >= next'
    <3>1. r >= next
      BY <1>0, <2>1 DEF PhoneMove
    <3> QED BY <3>1 DEF Contested
  <2>2. CASE phone'.req = r /\ phone'.at # "active"
    <3>1. phone' # Watching
      BY <1>0, <2>2 DEF Watching
    <3>2. phone.req = r /\ phone.at # "active"
      BY <1>0, <1>2, <2>2, <3>1 DEF PhoneMove, PhoneSame, PhoneGains, PhoneHears, PhoneRow
    <3> QED BY <3>2 DEF Contested
  <2>3. CASE handler'["acquire"].req = r
    BY <1>0, <1>2, <2>3 DEF PhoneMove, Contested
  <2>4. ASSUME NEW i \in 1..Len(pipe'), Activating(i)', pipe'[i].req = r PROVE Contested(r)
    BY <2>4, AttemptsStep DEF Contested
  <2> QED BY <2>1, <2>2, <2>3, <2>4 DEF Contested
<1> QED BY <1>1, <1>2

(* A batch in the pipe is an old one, or the handler of input sends it.      *)
LEMMA BatchesStep ==
    ASSUME Shape, PipeMove, NEW i \in 1..Len(pipe'), pipe'[i].op = "input"
    PROVE  \/ \E j \in 1..Len(pipe) : pipe[j].op = "input" /\ pipe[j].req = pipe'[i].req
           \/ pipe'[i].req = handler["input"].req
<1>0. PipeTyped /\ Len(pipe) \in Nat
  BY Types DEF Shape, PipeTyped
<1>1. CASE NobodyAsks
  BY <1>1 DEF NobodyAsks
<1>2. CASE Carries
  BY <1>0, <1>2, TailCommands DEF Carries
<1>3. ASSUME NEW k \in Kind, GivesUp(k)
      PROVE  \E j \in 1..Len(pipe) : pipe[j].op = "input" /\ pipe[j].req = pipe'[i].req
  <2>1. i \in 1..Len(pipe) /\ pipe'[i].op = pipe[i].op /\ pipe'[i].req = pipe[i].req
    BY <1>0, <1>3, OldCommands DEF GivesUp
  <2> QED BY <2>1
<1>4. ASSUME NEW k \in Kind, Asks(k)
      PROVE  \/ \E j \in 1..Len(pipe) : pipe[j].op = "input" /\ pipe[j].req = pipe'[i].req
             \/ pipe'[i].req = handler["input"].req
  <2>1. PICK c \in PipeRow : /\ pipe' = Append(pipe, c)
                             /\ c.op = "input" => k = "input" /\ c.req = handler[k].req
    BY <1>4 DEF Asks
  <2>2. /\ pipe'[Len(pipe')] = c
        /\ \A j \in 1..Len(pipe) : pipe'[j] = pipe[j]
        /\ \A j \in 1..Len(pipe') : j # Len(pipe') => j \in 1..Len(pipe)
    BY <1>0, <2>1, NewCommand
  <2>3. CASE i = Len(pipe')
    BY <2>1, <2>2, <2>3
  <2>4. CASE i # Len(pipe')
    BY <2>2, <2>4
  <2> QED BY <2>3, <2>4
<1> QED BY <1>1, <1>2, <1>3, <1>4 DEF PipeMove

LEMMA FreshStep ==
    ASSUME Bounds, Shape, Talk, Account, PipeMove, PhoneMove, HelperMove, [Next]_vars
    PROVE  Fresh'
<1> SUFFICES ASSUME NEW r \in Request, Contested(r)' PROVE Untouched(r)'
  BY DEF Fresh
<1>0. /\ HandlersTyped /\ PipeTyped /\ phone \in PhoneRow /\ next \in 1..(MaxRequests + 1)
      /\ r # None /\ r \in Nat
  BY Types DEF Shape, PhoneTyped, Request, None
<1>1. Untouched(r)
  BY ContestedBefore DEF Account, Fresh
<1>2. ASSUME NEW s \in 1..MaxSeq PROVE executed'[r][s] = 0
  <2>1. CASE executed' = executed
    BY <1>1, <2>1 DEF Untouched
  <2>2. CASE Executes
    <3>1. pipe[1].op = "input" /\ gate.req = pipe[1].req /\ 1 \in 1..Len(pipe)
      BY <1>0, <2>2, FirstCommand DEF Executes
    <3>2. r # gate.req
      BY <1>1, <3>1 DEF Untouched
    <3>3. executed'[r][s] = executed[r][s]
      BY <2>2, <3>2, ExecutesOnce DEF Account
    <3> QED BY <1>1, <3>3 DEF Untouched
  <2> QED BY <2>1, <2>2 DEF HelperMove, Opens
<1>3. handler'["input"].req # r
  <2>1. CASE handler'["input"].req \in {handler["input"].req, None}
    BY <1>0, <1>1, <2>1 DEF Untouched
  <2>2. CASE SendInput
    <3>1. /\ phone.at = "active" /\ UNCHANGED <<phone, next, pipe>>
          /\ handler' = [handler EXCEPT !["input"] = Called("prepare", phone.req, phone.seq + 1)]
      BY <2>2 DEF SendInput, phoneVars
    <3>2. /\ handler'["input"].req = phone.req /\ handler'["acquire"] = Idle
          /\ phone.req < next /\ \A i \in 1..Len(pipe) : ~Activating(i)
      BY <1>0, <3>1 DEF HandlersTyped, Called, Kind, Talk, Listening, NoneLeft
    <3>3. Idle.req = None
      BY DEF Idle
    <3>4. r # phone.req
      BY <1>0, <3>1, <3>2, <3>3 DEF Contested, Activating, PhoneRow
    <3> QED BY <3>2, <3>4
  <2> QED BY <2>1, <2>2 DEF PhoneMove
<1>4. ASSUME NEW i \in 1..Len(pipe'), pipe'[i].op = "input" PROVE pipe'[i].req # r
  BY <1>1, <1>4, BatchesStep DEF Untouched
<1> QED BY <1>2, <1>3, <1>4 DEF Untouched

-----------------------------------------------------------------------------
(* What the helper has carried out after the step.                           *)
CarriedNext(r, n) == \A b \in 1..n : executed'[r][b] = 1

LEMMA StaysCarried ==
    ASSUME Bounds, Shape, InOrder, GateKnows, HelperMove, NEW r \in Request,
           NEW n \in 0..MaxSeq, Carried(r, n)
    PROVE  CarriedNext(r, n)
BY ExecutedGrows DEF Carried, CarriedNext, Bounds

(* What the helper says of a batch it was given is so.                       *)
LEMMA DeliverSays ==
    ASSUME Bounds, Shape, InOrder, GateKnows, HelperMove, NEW r \in Request, NEW n \in 0..MaxSeq,
           Deliver(r, n, TRUE)
    PROVE  CarriedNext(r, n)
<1>0. gate \in GateRow /\ executed \in [Request -> [1..MaxSeq -> 0..2]]
  BY Types DEF Shape, HelperTyped
<1>1. gate.req = r /\ (n \in 1..gate.last \/ n = gate.last + 1)
  BY DEF Deliver
<1>2. gate.last \in 0..MaxSeq /\ \A s \in 1..MaxSeq : executed[r][s] = 1 <=> s <= gate.last
  BY <1>0, <1>1 DEF GateRow, GateKnows
<1>3. CASE n \in 1..gate.last
  <2>1. Carried(r, n)
    BY <1>2, <1>3 DEF Carried, Bounds
  <2> QED BY <2>1, StaysCarried
<1>4. CASE n = gate.last + 1 /\ ~(n \in 1..gate.last)
  <2>1. executed' = [executed EXCEPT ![r][n] = @ + 1]
    BY <1>1, <1>4 DEF Deliver
  <2>2. executed[r][n] = 0 /\ n \in 1..MaxSeq
    <3>1. n \in 1..MaxSeq /\ executed[r][n] # 1
      BY <1>2, <1>4 DEF Bounds
    <3> QED BY <3>1 DEF InOrder
  <2>3. executed'[r][n] = 1
    <3>1. executed[r] \in [1..MaxSeq -> 0..2]
      BY <1>0
    <3>2. executed'[r] = [executed[r] EXCEPT ![n] = executed[r][n] + 1]
      BY <1>0, <2>1
    <3>3. executed'[r][n] = executed[r][n] + 1
      BY <2>2, <3>1, <3>2
    <3> QED BY <2>2, <3>3
  <2>4. ASSUME NEW b \in 1..n, b # n PROVE executed'[r][b] = 1
    <3>1. b \in 1..MaxSeq /\ b <= gate.last
      BY <1>2, <1>4, <2>2, <2>4 DEF Bounds
    <3> QED BY <1>2, <3>1, ExecutedGrows
  <2> QED BY <2>3, <2>4 DEF CarriedNext
<1> QED BY <1>1, <1>3, <1>4

(* The row advances to a batch that was acknowledged, and never otherwise.   *)
LEMMA LeaseStep ==
    ASSUME Bounds, Shape, Behind, [Next]_vars, NEW r \in Request
    PROVE  Carried(r, lease'[r].seq)
<1>0. /\ lease \in [Request -> LeaseRow] /\ HandlersTyped /\ HandlersOK
      /\ \A q \in Request : lease[q] \in LeaseRow
  BY Types DEF Shape, RowsTyped
<1>1. CASE lease' = lease
  BY <1>1 DEF Behind
<1>2. ASSUME NEW q \in Request, lease' = Released(q) PROVE lease'[r].seq = lease[r].seq
  BY <1>0, <1>2 DEF Released, LeaseRow
<1>3. CASE Lookup
  <2>1. \A q \in Request : Expired[q] \in LeaseRow /\ Expired[q].seq = lease[q].seq
    BY <1>0 DEF Expired, LeaseRow
  <2>2. PICK now \in {lease, Expired} :
           lease' = now \/ lease' = [now EXCEPT ![handler["acquire"].req].status = "active"]
    BY <1>3 DEF Lookup
  <2>3. now[r] \in LeaseRow /\ now[r].seq = lease[r].seq /\ DOMAIN now = Request
    BY <1>0, <2>1 DEF Expired
  <2>4. lease'[r].seq = lease[r].seq
    BY <2>2, <2>3 DEF LeaseRow
  <2> QED BY <2>4 DEF Behind
<1>4. ASSUME NEW k \in Kind, Undo(k) PROVE lease'[r].seq = lease[r].seq
  <2>1. handler[k].req \in Request
    BY <1>0, <1>4 DEF Undo, HandlersOK
  <2> QED BY <1>2, <1>4, <2>1 DEF Undo
<1>5. CASE BeatWrite
  <2>1. lease' = lease \/ lease' = [lease EXCEPT ![handler["heartbeat"].req].late = FALSE]
    BY <1>5 DEF BeatWrite
  <2>2. lease'[r].seq = lease[r].seq
    BY <1>0, <2>1 DEF LeaseRow
  <2> QED BY <2>2 DEF Behind
<1>6. CASE BeatRefused \/ ReleaseRow
  <2>1. /\ handler["heartbeat"].at = "refused" => handler["heartbeat"].req \in Request
        /\ handler["release"].at = "row" => handler["release"].req \in Request
    BY <1>0 DEF HandlersOK, Kind
  <2>2. lease'[r].seq = lease[r].seq
    BY <1>2, <1>6, <2>1 DEF BeatRefused, ReleaseRow
  <2> QED BY <2>2 DEF Behind
<1>7. CASE Advance
  <2> DEFINE h == handler["input"]
  <2>1. h.at = "advance" /\ (lease' = lease \/ lease' = [lease EXCEPT ![h.req].seq = h.seq])
    BY <1>7 DEF Advance
  <2>2. Carried(h.req, h.seq) /\ h.req \in Request
    BY <1>0, <2>1 DEF Behind, HandlersOK, Kind
  <2>3. \/ lease'[r].seq = lease[r].seq
        \/ r = h.req /\ lease'[r].seq = h.seq
    BY <1>0, <2>1 DEF LeaseRow
  <2> QED BY <2>2, <2>3 DEF Behind
<1>8. ASSUME NEW q \in Request, RowExpires(q) \/ Revoked(q) PROVE lease'[r].seq = lease[r].seq
  <2>1. CASE RowExpires(q)
    BY <1>0, <2>1 DEF RowExpires, LeaseRow
  <2>2. CASE Revoked(q)
    BY <1>2, <2>2 DEF Revoked
  <2> QED BY <1>8, <2>1, <2>2
<1>9. CASE \/ TakeControl \/ SendInput \/ SendHeartbeat \/ Done \/ GiveUp
           \/ AcquireAnswered \/ TooLateForControl \/ ReleaseAnswered
           \/ \E k \in Kind : BeatAnswered(k) \/ Lose(k) \/ Drop(k) \/ Unanswered(k)
  BY <1>1, <1>9 DEF TakeControl, SendInput, SendHeartbeat, Done, GiveUp, AcquireAnswered,
     TooLateForControl, ReleaseAnswered, BeatAnswered, Lose, Drop, Unanswered
<1>10. CASE Renew \/ BeatRead \/ Prepare \/ AskRelease
  BY <1>1, <1>10 DEF Renew, BeatRead, Prepare, AskRelease
<1>11. CASE Command \/ GateExpires \/ Timer \/ LocalStop \/ UNCHANGED vars
  BY <1>1, <1>11 DEF Command, GateExpires, Timer, LocalStop, Close, vars, daemonVars
<1> QED BY <1>3, <1>4, <1>5, <1>6, <1>7, <1>8, <1>9, <1>10, <1>11 DEF Next, Daemon, Behind

LEMMA BehindStep ==
    ASSUME Bounds, Shape, Talk, Account, PhoneMove, HelperMove, AllReports, [Next]_vars,
           TypeOK', HandlersOK'
    PROVE  Behind'
<1>0. /\ HandlersTyped /\ HandlersOK /\ phone \in PhoneRow /\ InOrder /\ GateKnows /\ Behind
      /\ lease \in [Request -> LeaseRow]
      /\ \A k \in Kind : handler[k] \in HandlerRow
      /\ 0 \in 0..MaxSeq
  BY Types DEF Shape, PhoneTyped, RowsTyped, HandlersTyped, Account, Bounds
<1>1. /\ \A r \in Request : lease[r].seq \in 0..MaxSeq
      /\ \A k \in Kind : handler[k].seq \in 0..MaxSeq
      /\ phone.seq \in 0..MaxSeq
  BY <1>0 DEF LeaseRow, HandlerRow, PhoneRow
<1>2. ASSUME NEW r \in Request, NEW n \in 0..MaxSeq, Carried(r, n) PROVE CarriedNext(r, n)
  BY <1>0, <1>2, StaysCarried
<1>3. \A r : Carried(r, 0)
  BY DEF Carried
<1>4. ASSUME NEW k \in Kind, Reports(handler[k]) PROVE Carried(handler[k].req, handler[k].seq)
  BY <1>0, <1>4 DEF Reports, Behind
<1>5. ASSUME NEW r \in Request PROVE CarriedNext(r, lease'[r].seq)
  <2>1. lease'[r].seq \in 0..MaxSeq
    BY DEF TypeOK
  <2>2. Carried(r, lease'[r].seq)
    BY <1>0, LeaseStep
  <2> QED BY <1>2, <2>1, <2>2
<1>6. ASSUME phone'.req \in Request PROVE CarriedNext(phone'.req, phone'.seq)
  <2>1. phone'.seq \in 0..MaxSeq
    BY DEF TypeOK
  <2>2. Carried(phone'.req, phone'.seq)
    <3>1. CASE PhoneSame
      BY <1>0, <1>6, <3>1 DEF PhoneSame, Behind
    <3>2. CASE phone' = Watching \/ TakeControl
      <4>1. phone'.seq = 0
        BY <3>2 DEF Watching, TakeControl
      <4> QED BY <1>3, <4>1
    <3>3. CASE PhoneGains
      BY <1>4, <3>3 DEF PhoneGains, Given, Reports, Kind
    <3>4. ASSUME NEW k \in {"heartbeat", "input"}, PhoneHears(k)
          PROVE  Carried(phone'.req, phone'.seq)
      <4>1. /\ k \in Kind /\ Reports(handler[k]) /\ handler[k].req = phone.req
            /\ phone' = [phone EXCEPT !.seq = Larger(@, handler[k].seq)]
        BY <3>4 DEF PhoneHears, Kind
      <4>2. phone'.req = phone.req /\ phone'.seq \in {phone.seq, handler[k].seq}
        BY <1>0, <4>1 DEF PhoneRow, Larger
      <4> QED BY <1>0, <1>4, <1>6, <4>1, <4>2 DEF Behind
    <3> QED BY <3>1, <3>2, <3>3, <3>4 DEF PhoneMove
  <2> QED BY <1>2, <1>6, <2>1, <2>2
<1>7. ASSUME NEW k \in Kind, Reports(handler'[k]) PROVE CarriedNext(handler'[k].req, handler'[k].seq)
  <2>1. /\ handler[k].req \in Request /\ handler'[k].req = handler[k].req
        /\ handler'[k].seq \in 0..MaxSeq
    BY <1>0, <1>7 DEF AllReports, ReportMove, HandlersOK, TypeOK
  <2> DEFINE r == handler[k].req  n == handler'[k].seq
  <2>2. CASE Carried(r, n)
    <3>1. CarriedNext(r, n)
      BY <1>2, <2>1, <2>2
    <3> QED BY <2>1, <3>1
  <2>3. CASE k = "input" /\ Confirmed(k) /\ handler[k].at = "input" /\ n = handler[k].seq
    <3>1. /\ pipe[1].op = "input" /\ pipe[1].by = k /\ 1 \in 1..Len(pipe)
          /\ Deliver(pipe[1].req, pipe[1].seq, TRUE)
      BY <1>0, <2>3, FirstCommand, Types DEF Confirmed, Shape
    <3>2. pipe[1].req = r /\ pipe[1].seq = n
      BY <2>3, <3>1 DEF Shape, Owned
    <3>3. Deliver(r, n, TRUE) /\ n \in 0..MaxSeq
      BY <2>1, <3>1, <3>2
    <3>4. CarriedNext(r, n)
      BY <1>0, <2>1, <3>3, DeliverSays
    <3> QED BY <2>1, <3>4
  <2>4. Carried(r, n) \/ (k = "input" /\ Confirmed(k) /\ handler[k].at = "input" /\ n = handler[k].seq)
    BY <1>0, <1>3, <1>4, <1>7, <2>1 DEF AllReports, ReportMove, Behind
  <2> QED BY <2>2, <2>3, <2>4
<1>8. ASSUME NEW k \in Kind, \/ handler'[k].at \in {"advance", "renewing"}
                             \/ handler'[k].at = "reply" /\ handler'[k].ok
      PROVE  CarriedNext(handler'[k].req, handler'[k].seq)
  BY <1>7, <1>8 DEF Reports
<1> QED BY <1>5, <1>6, <1>8 DEF Behind, Carried, CarriedNext

-----------------------------------------------------------------------------
LEMMA Start == ASSUME Bounds, Init PROVE IInv
<1>1. 0 \in 0..MaxSeq /\ 0 \in 0..MaxLosses /\ 1 \in 1..(MaxRequests + 1) /\ None \notin Request
  BY DEF Bounds, None, Request
<1>2. TypeOK
  <2>1. RowsTyped
    BY <1>1 DEF Init, RowsTyped, LeaseRow
  <2>2. HandlersTyped
    BY <1>1 DEF Init, HandlersTyped, HandlerRow, Idle
  <2>3. PipeTyped
    BY DEF Init, PipeTyped
  <2>4. HelperTyped
    BY <1>1 DEF Init, HelperTyped, GateRow, Closed
  <2>5. PhoneTyped
    BY <1>1 DEF Init, PhoneTyped, PhoneRow, Watching
  <2> QED BY <2>1, <2>2, <2>3, <2>4, <2>5, Types
<1>3. /\ pipe = <<>> /\ Len(pipe) = 0 /\ phone = Watching /\ gate.req = None /\ next = 1
      /\ \A k \in Kind : handler[k] = Idle
      /\ \A r \in Request : lease[r].seq = 0 /\ \A s \in 1..MaxSeq : executed[r][s] = 0
  BY DEF Init, Closed
<1>4. HandlersOK /\ Owned
  <2>1. \A k \in Kind : "idle" \in Steps[k]
    BY DEF Steps, Kind
  <2>2. HandlersOK
    <3>1. Idle.at = "idle"
      BY DEF Idle
    <3> QED BY <1>3, <2>1, <3>1 DEF HandlersOK
  <2>3. Owned
    BY <1>3 DEF Owned
  <2> QED BY <2>2, <2>3
<1>5. Talk
  BY <1>1, <1>3 DEF Talk, LastOne, NoneLeft, Listening, Given, Idle, Watching, Kind, None
<1>6. Fresh
  BY <1>1, <1>3 DEF Fresh, Untouched, Idle, Kind
<1>7. InOrder /\ GateKnows /\ Behind
  BY <1>1, <1>3 DEF InOrder, GateKnows, Behind, Carried, Watching, Idle
<1> QED BY <1>2, <1>4, <1>5, <1>6, <1>7 DEF IInv, Shape, Account

LEMMA StepKeeps == ASSUME Bounds, IInv, [Next]_vars PROVE IInv'
<1>1. Shape /\ Talk /\ Account
  BY DEF IInv
<1>2. HandlersTyped' /\ HandlersOK' /\ PipeMove /\ PhoneMove /\ HelperMove /\ AllReports
  BY <1>1, HandlersStep, PipeStep, PhoneStep, HelperMoves, ReportsStep DEF Talk
<1>3. PipeTyped' /\ Owned' /\ RowsTyped' /\ HelperTyped' /\ PhoneTyped' /\ Listening'
  BY <1>1, <1>2, OwnedStep, RowsStep, HelperStep, ListenStep DEF Talk, Account
<1>4. TypeOK'
  BY <1>2, <1>3, Types DEF TypeOK, RowsTyped, HandlersTyped, PipeTyped, HelperTyped, PhoneTyped,
     LeaseRow, HandlerRow, PipeRow, GateRow, PhoneRow
<1>5. LastOne' /\ NoneLeft'
  BY <1>1, <1>2, LastOneStep, NoneLeftStep DEF Talk
<1>6. Fresh' /\ InOrder' /\ GateKnows' /\ Behind'
  BY <1>1, <1>2, <1>4, FreshStep, AccountStep, BehindStep DEF Account
<1> QED BY <1>2, <1>3, <1>4, <1>5, <1>6 DEF IInv, Shape, Talk, Account

LEMMA Says == ASSUME Bounds, IInv PROVE EachInputOnce
<1> SUFFICES ASSUME NEW r \in Request, NEW s \in 1..MaxSeq
             PROVE  /\ executed[r][s] <= 1
                    /\ executed[r][s] = 1 => \A b \in 1..s : executed[r][b] = 1
                    /\ s <= lease[r].seq \/ (phone.req = r /\ s <= phone.seq) => executed[r][s] = 1
  BY DEF EachInputOnce
<1>1. executed[r][s] \in {0, 1} /\ (executed[r][s] = 1 => Carried(r, s))
  BY DEF IInv, Account, InOrder
<1>2. /\ lease[r].seq \in Nat /\ Carried(r, lease[r].seq)
      /\ phone.req = r => phone.seq \in Nat /\ Carried(r, phone.seq)
  BY DEF IInv, Account, Behind, Shape, TypeOK, Bounds
<1> QED BY <1>1, <1>2 DEF Carried, Bounds

(* Every state is well-formed, whatever was lost, dropped or hung up on.     *)
THEOREM TypeCorrect == ASSUME Bounds PROVE Spec => []TypeOK
<1>1. Init => IInv
  BY Start
<1>2. IInv /\ [Next]_vars => IInv'
  BY StepKeeps
<1>3. IInv => TypeOK
  BY DEF IInv, Shape
<1> QED BY <1>1, <1>2, <1>3, PTL DEF Spec

(* The helper carries out every batch of input at most once, in order, and   *)
(* neither the row of the daemon nor the phone is ever ahead of it, for any  *)
(* number of requests, batches, attempts and losses.                         *)
THEOREM InputOnce == ASSUME Bounds PROVE Spec => []EachInputOnce
<1>1. Init => IInv
  BY Start
<1>2. IInv /\ [Next]_vars => IInv'
  BY StepKeeps
<1>3. IInv => EachInputOnce
  BY Says
<1> QED BY <1>1, <1>2, <1>3, PTL DEF Spec
=============================================================================
