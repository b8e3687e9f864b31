--------------------------- MODULE CommittedSync ---------------------------
(* How a phone stays current with what the daemon has committed.             *)
(*                                                                           *)
(* Every transaction that changes what a conversation shows appends a row to *)
(* the sync journal, by trigger. A phone streams the rows after its cursor;  *)
(* a row carries no content, it marks the conversation stale, and reading a  *)
(* page replaces what the phone holds of it. Retention prunes the oldest     *)
(* rows, a restart of the daemon begins a new epoch, HTTP answers arrive in  *)
(* any order, and a read acknowledgement may arrive long after it was sent.  *)
EXTENDS Naturals, Sequences, FiniteSets

CONSTANTS
    Chat,        \* the conversations of Bots, whose pages the phone reads one by one
    Batch,       \* rows the stream sends at a time
    MaxHead,     \* bound: rows ever journaled
    MaxFaults,   \* bound: prunings, restarts, lost sockets, trips to the background
    MaxOpens,    \* bound: times the owner opens a conversation or the app
    MaxAcks      \* bound: read acknowledgements on their way

ASSUME SyncAssumption ==
    /\ "none" \notin Chat
    /\ Batch \in Nat \ {0}
    /\ MaxHead \in Nat \ {0} /\ MaxFaults \in Nat /\ MaxOpens \in Nat /\ MaxAcks \in Nat

None == "none"           \* no conversation on screen, or a row that names none
Gone == 0                \* no mark, nothing cached

(* The tasks of the phone that read from the daemon, each one request at a   *)
(* time: the resnapshot of the replay loop, the coalesced refresh after an   *)
(* event, and the read that opening a conversation makes.                    *)
Reader == {"resnapshot", "refresh", "open"}

VARIABLES
    epoch, start, floor,   \* sync_state and the rows retention has deleted
    journal,               \* the conversation each row names, from the first row ever
    unread,                \* the conversations with has_unread set
    stream,                \* the socket: is it up, for which epoch, sent up to where
    wire,                  \* the frames on it
    cursor,                \* the phone's hostEpoch and lastSequence
    cached,                \* the snapshot it holds of each conversation
    dirty, marks,          \* the stale conversations and their invalidatedThrough
    reader,                \* what each reader is doing
    visible,               \* the conversation on screen
    opens, faults,         \* conversations opened, faults so far
    acks,                  \* read acknowledgements on their way
    shown,                 \* history: the newest version of each conversation displayed
    base                   \* history: the cursor when every cached scope was last marked

hostVars == <<epoch, start, floor, journal, unread>>
cacheVars == <<cursor, cached, dirty, marks, base>>
ownerVars == <<visible, opens, acks, shown>>
vars == <<hostVars, stream, wire, cacheVars, reader, ownerVars, faults>>

Fault == /\ faults < MaxFaults
         /\ faults' = faults + 1

Newest == Len(journal)
Down == [up |-> FALSE, epoch |-> 0, sent |-> 0]
Resync == 0              \* the resync_required frame; event frames carry their sequence
Idle == [at |-> "idle", conv |-> None, epoch |-> 0, seq |-> 0, before |-> 0]
NoPage == [epoch |-> 0, seq |-> Gone]

Larger(a, b) == IF a >= b THEN a ELSE b

(* ------------------------------ the daemon ------------------------------- *)

(* A committed change of what conversation c shows: the trigger appends the  *)
(* row in the same transaction.                                              *)
Journal(c) == /\ Newest < MaxHead
              /\ journal' = Append(journal, c)

Change(c) == /\ Journal(c)
             /\ UNCHANGED <<epoch, start, floor, unread, stream, wire, cacheVars, reader, ownerVars, faults>>

(* A row that names no conversation: every scope may have changed.           *)
HostWide == /\ Fault
            /\ Journal(None)
            /\ UNCHANGED <<epoch, start, floor, unread, stream, wire, cacheVars, reader, ownerVars>>

(* An answer of a Bot: has_unread is set and the metadata row journaled.     *)
Reply(c) == /\ Journal(c)
            /\ unread' = unread \cup {c}
            /\ UNCHANGED <<epoch, start, floor, stream, wire, cacheVars, reader, ownerVars, faults>>

(* Retention deletes a prefix of the rows, by age or by budget.              *)
Prune == /\ Fault
         /\ floor < Newest
         /\ floor' \in (floor + 1)..Newest
         /\ UNCHANGED <<epoch, start, journal, unread, stream, wire, cacheVars, reader, ownerVars>>

(* The daemon starts again: a fresh epoch that begins at the last row, the   *)
(* sockets are gone and with them the frames on the way.                     *)
Restart == /\ Fault
           /\ epoch' = epoch + 1
           /\ start' = Newest
           /\ stream' = Down
           /\ wire' = <<>>
           /\ UNCHANGED <<floor, journal, unread, cacheVars, reader, ownerVars>>

(* What replay_batch answers for a window: rows of this epoch without a gap, *)
(* or that the phone has to start over.                                      *)
Retained == (floor + 1)..Newest
Expired(e, after) == \/ e # epoch
                     \/ after < start \/ after > Newest
                     \/ Cardinality({i \in Retained : i > after}) # Newest - after

(* acknowledge_conversation_read: clear only the version that was displayed. *)
(* The row it changes is journaled like any other.                           *)
ReadFenceIgnoresPruning(a) == \A i \in Retained : journal[i] = a.conv => i <= a.through
ReadFence(a) == /\ a.through >= floor
                /\ \A i \in Retained : journal[i] = a.conv => i <= a.through

Acknowledge(a) ==
    /\ a \in acks /\ Newest < MaxHead
    /\ acks' = acks \ {a}
    /\ IF /\ a.epoch = epoch /\ a.conv \in unread
          /\ a.through \in start..Newest /\ ReadFence(a)
       THEN /\ unread' = unread \ {a.conv}
            /\ Journal(a.conv)
       ELSE UNCHANGED <<unread, journal>>
    /\ UNCHANGED <<epoch, start, floor, stream, wire, cacheVars, reader, visible, opens, shown, faults>>

(* ------------------------------ the stream ------------------------------- *)

(* The replay loop of the phone connects with its cursor, unless it has none *)
(* or is resnapshotting.                                                     *)
Connect == /\ ~stream.up /\ wire = <<>>
           /\ cursor.epoch # 0 /\ reader["resnapshot"] = Idle
           /\ stream' = [up |-> TRUE, epoch |-> cursor.epoch, sent |-> cursor.seq]
           /\ UNCHANGED <<hostVars, wire, cacheVars, reader, ownerVars, faults>>

LastOfBatch == IF stream.sent + Batch <= Newest THEN stream.sent + Batch ELSE Newest

(* The daemon polls the journal, or is woken: a batch, or a resync frame     *)
(* after which it closes the socket.                                         *)
Send == /\ stream.up
        /\ LET last == LastOfBatch
           IN IF Expired(stream.epoch, stream.sent)
              THEN /\ wire' = Append(wire, Resync)
                   /\ stream' = Down
              ELSE /\ stream.sent < last
                   /\ wire' = wire \o [i \in 1..(last - stream.sent) |-> stream.sent + i]
                   /\ stream' = [stream EXCEPT !.sent = last]
        /\ UNCHANGED <<hostVars, cacheVars, reader, ownerVars, faults>>

(* The network loses the socket and whatever is on it.                       *)
Drop == /\ Fault
        /\ stream.up \/ wire # <<>>
        /\ stream' = Down
        /\ wire' = <<>>
        /\ UNCHANGED <<hostVars, cacheVars, reader, ownerVars>>

(* ------------------------------- the phone ------------------------------- *)

Held == {c \in Chat : cached[c].seq # Gone}

(* invalidateAll: every cached conversation is stale as of the cursor.       *)
Invalidated(c, seq, old) == IF c \in Held THEN Larger(old, seq) ELSE old

(* covers: a read at seq is as new as what invalidated the conversation.     *)
CoversAnything(c, seq, mark, last) == TRUE
Covers(c, seq, mark, last) == seq >= (IF mark = Gone THEN last ELSE mark)

(* consume, then scheduleRefresh unless a refresh runs. It sleeps first.     *)
Asleep == [Idle EXCEPT !.at = "sleep"]
Scheduled == IF reader["refresh"] = Idle THEN [reader EXCEPT !["refresh"] = Asleep] ELSE reader

StartOver == [reader EXCEPT !["resnapshot"] = [Idle EXCEPT !.at = "askHead"]]

Consume(seq) ==
    LET c == journal[seq] IN
    /\ cursor' = [cursor EXCEPT !.seq = seq]
    /\ IF c = None
       THEN /\ dirty' = dirty \cup Held
            /\ marks' = [d \in Chat |-> Invalidated(d, seq, marks[d])]
            /\ base' = seq
       ELSE /\ dirty' = dirty \cup {c}
            /\ marks' = [marks EXCEPT ![c] = seq]
            /\ UNCHANGED base
    /\ UNCHANGED cached

Receive ==
    /\ wire # <<>>
    /\ LET seq == wire[1]
           torn == seq = Resync \/ seq > cursor.seq + 1
       IN /\ IF torn
             THEN /\ reader' = StartOver
                  /\ wire' = <<>>
                  /\ stream' = Down
                  /\ UNCHANGED cacheVars
             ELSE /\ wire' = Tail(wire)
                  /\ UNCHANGED stream
                  /\ IF seq <= cursor.seq THEN UNCHANGED cacheVars ELSE Consume(seq)
                  /\ reader' = Scheduled
    /\ UNCHANGED <<hostVars, ownerVars, faults>>

(* The replay loop of a phone that has no epoch yet.                         *)
Bootstrap == /\ cursor.epoch = 0 /\ reader["resnapshot"] = Idle
             /\ reader' = StartOver
             /\ UNCHANGED <<hostVars, stream, wire, cacheVars, ownerVars, faults>>

(* The refresh remembers the cursor it reads for.                            *)
Wake == /\ reader["refresh"] = Asleep
        /\ reader' = [reader EXCEPT !["refresh"] =
              [Idle EXCEPT !.at = "askList", !.before = cursor.seq]]
        /\ UNCHANGED <<hostVars, stream, wire, cacheVars, ownerVars, faults>>

(* The daemon answers a request of reader r: the checkpoint, the list, or a  *)
(* page, each from one view of the database.                                 *)
Answer(r) ==
    /\ reader[r].at \in {"askHead", "askList", "askPage"}
    /\ reader' = [reader EXCEPT
          ![r].at = CASE @ = "askHead" -> "head" [] @ = "askList" -> "list" [] OTHER -> "page",
          ![r].epoch = epoch, ![r].seq = Newest]
    /\ UNCHANGED <<hostVars, stream, wire, cacheVars, ownerVars, faults>>

(* resnapshot: the new cursor and the marks of every cached scope, together. *)
HeadArrives ==
    LET got == reader["resnapshot"] IN
    /\ got.at = "head"
    /\ cursor' = [epoch |-> got.epoch, seq |-> got.seq]
    /\ dirty' = dirty \cup Held
    /\ marks' = [c \in Chat |-> Invalidated(c, got.seq, Gone)]
    /\ base' = got.seq
    /\ reader' = [reader EXCEPT !["resnapshot"] = [Idle EXCEPT !.at = "askList"]]
    /\ UNCHANGED <<hostVars, stream, wire, cached, ownerVars, faults>>

(* What reader r does after the list, and when it has read its page: only    *)
(* the refresh leaves a clean page alone and goes round again.               *)
NeedsPage(r) == /\ visible # None
                /\ r = "refresh" => visible \in dirty' \/ visible \notin Held
FinishedAtOnce(r) == Idle
Finished(r) == IF r = "refresh" /\ reader[r].before # cursor'.seq
               THEN Asleep
               ELSE Idle

(* refreshList, after which the chat on screen is read. An opened chat is    *)
(* read without the list.                                                    *)
ListArrives(r) ==
    LET got == reader[r] IN
    /\ got.at = "list"
    /\ UNCHANGED cacheVars
    /\ reader' = [reader EXCEPT ![r] =
          IF NeedsPage(r)
          THEN [Idle EXCEPT !.at = "askPage", !.conv = visible, !.before = got.before]
          ELSE Finished(r)]
    /\ UNCHANGED <<hostVars, stream, wire, ownerVars, faults>>

(* refreshConversation and install. A page of an older version is dropped; a *)
(* page of another epoch is refused, except that the first epoch a phone     *)
(* sees is adopted.                                                          *)
Older(got) == /\ cached[got.conv].seq # Gone
              /\ cached[got.conv].epoch = got.epoch
              /\ cached[got.conv].seq > got.seq

PageArrives(r) ==
    LET got == reader[r]
        first == cursor.epoch = 0
        last == IF first THEN got.seq ELSE cursor.seq
        mark == IF first THEN Invalidated(got.conv, got.seq, Gone) ELSE marks[got.conv]
        clean == Covers(got.conv, got.seq, mark, last)
    IN
    /\ got.at = "page"
    /\ IF Older(got) \/ (~first /\ got.epoch # cursor.epoch)
       THEN UNCHANGED cacheVars
       ELSE /\ cursor' = IF first THEN [epoch |-> got.epoch, seq |-> got.seq] ELSE cursor
            /\ base' = IF first THEN got.seq ELSE base
            /\ cached' = [cached EXCEPT ![got.conv] = [epoch |-> got.epoch, seq |-> got.seq]]
            /\ dirty' = (IF first THEN dirty \cup Held ELSE dirty)
                            \ (IF clean THEN {got.conv} ELSE {})
            /\ marks' = [c \in Chat |-> IF c = got.conv /\ clean THEN Gone
                                        ELSE IF first THEN Invalidated(c, got.seq, Gone)
                                        ELSE marks[c]]
    /\ reader' = [reader EXCEPT ![r] = Finished(r)]
    /\ UNCHANGED <<hostVars, stream, wire, ownerVars, faults>>

(* The owner opens a conversation: what is cached shows at once, and is read *)
(* again.                                                                    *)
Open(c) == /\ opens < MaxOpens /\ reader["open"] = Idle
           /\ visible' = c
           /\ opens' = opens + 1
           /\ reader' = [reader EXCEPT !["open"] =
                 [Idle EXCEPT !.at = "askPage", !.conv = c]]
           /\ UNCHANGED <<hostVars, stream, wire, cacheVars, acks, shown, faults>>

Leave == /\ visible # None
         /\ visible' = None
         /\ UNCHANGED <<hostVars, stream, wire, cacheVars, reader, opens, acks, shown, faults>>

(* The app leaves the foreground and returns: reading stops, everything it   *)
(* holds is unverified, and loadChats reads the list and the chat on screen. *)
Foreground ==
    /\ Fault
    /\ dirty' = dirty \cup Held
    /\ marks' = [c \in Chat |-> Invalidated(c, cursor.seq, marks[c])]
    /\ base' = cursor.seq
    /\ reader' = [r \in Reader |-> IF r = "open" THEN [Idle EXCEPT !.at = "askList"] ELSE Idle]
    /\ stream' = Down
    /\ wire' = <<>>
    /\ UNCHANGED <<hostVars, cursor, cached, ownerVars>>

(* The end of the conversation on screen was displayed, and the phone says   *)
(* which version that was.                                                   *)
AcknowledgeVisible(c) ==
    /\ visible = c /\ c \in Held /\ c \notin dirty /\ Cardinality(acks) < MaxAcks
    /\ shown' = [shown EXCEPT ![c] = Larger(@, cached[c].seq)]
    /\ acks' = acks \cup {[conv |-> c, epoch |-> cached[c].epoch, through |-> cached[c].seq]}
    /\ UNCHANGED <<hostVars, stream, wire, cacheVars, reader, visible, opens, faults>>

Init ==
    /\ epoch = 1 /\ start = 1 /\ floor = 0 /\ journal = <<None>> /\ unread = {}
    /\ stream = Down
    /\ wire = <<>>
    /\ cursor = [epoch |-> 0, seq |-> 0]
    /\ cached = [c \in Chat |-> NoPage]
    /\ dirty = {} /\ marks = [c \in Chat |-> Gone] /\ base = 0
    /\ reader = [r \in Reader |-> IF r = "open" THEN [Idle EXCEPT !.at = "askList"] ELSE Idle]
    /\ visible = None /\ opens = 0 /\ faults = 0 /\ acks = {}
    /\ shown = [c \in Chat |-> 0]

Next ==
    \/ \E c \in Chat : Change(c) \/ Reply(c) \/ Open(c) \/ AcknowledgeVisible(c)
    \/ \E a \in acks : Acknowledge(a)
    \/ \E r \in Reader : Answer(r) \/ ListArrives(r) \/ PageArrives(r)
    \/ HostWide \/ Prune \/ Restart \/ Connect \/ Send \/ Drop \/ Receive
    \/ Bootstrap \/ HeadArrives \/ Wake \/ Leave \/ Foreground

(* The daemon and the phone's tasks run; the network delivers what is not    *)
(* lost; nobody has to answer, prune, restart, open or acknowledge anything. *)
Read(r) == \/ Answer(r) \/ ListArrives(r) \/ PageArrives(r)
           \/ r = "resnapshot" /\ (Bootstrap \/ HeadArrives)
           \/ r = "refresh" /\ Wake
Fairness == /\ WF_vars(Connect \/ Send \/ Receive)
            /\ \A r \in Reader : WF_vars(Read(r))

Spec == Init /\ [][Next]_vars
LiveSpec == Spec /\ Fairness

(* ------------------------------ properties ------------------------------- *)

TypeOK ==
    /\ epoch \in 1..(MaxFaults + 1) /\ floor \in 0..Newest /\ start \in 0..Newest
    /\ journal \in Seq(Chat \cup {None}) /\ Newest <= MaxHead /\ unread \subseteq Chat
    /\ stream \in [up : BOOLEAN, epoch : 0..(MaxFaults + 1), sent : 0..MaxHead]
    /\ wire \in Seq(0..MaxHead)
    /\ cursor \in [epoch : 0..epoch, seq : 0..Newest]
    /\ cached \in [Chat -> [epoch : 0..epoch, seq : 0..Newest]]
    /\ dirty \subseteq Chat /\ marks \in [Chat -> 0..Newest] /\ base \in 0..Newest
    /\ reader \in [Reader -> [at : {"idle", "sleep", "askHead", "head", "askList", "list", "askPage", "page"},
                             conv : Chat \cup {None}, epoch : 0..epoch, seq : 0..Newest,
                             before : 0..Newest]]
    /\ visible \in Chat \cup {None} /\ opens \in 0..MaxOpens /\ faults \in 0..MaxFaults
    /\ acks \subseteq [conv : Chat, epoch : 0..epoch, through : 0..Newest]
    /\ shown \in [Chat -> 0..Newest]

(* A row the phone has consumed names the conversation and is newer than     *)
(* what the phone holds of it.                                               *)
Stale(c) == \E i \in (cached[c].seq + 1)..cursor.seq : journal[i] = c

(* No silently skipped event: a page that a consumed event has made stale is *)
(* marked, whatever was read, pruned, torn or restarted in between, so that  *)
(* the phone reads it again and never takes it for current. A page older     *)
(* than the last time everything was marked may have been read since.        *)
MarkedWhenStale ==
    \A c \in Chat : c \in Held /\ cached[c].seq >= base /\ Stale(c) => c \in dirty

(* An unread mark is cleared only when every version of the conversation up  *)
(* to that moment has been on the screen of the phone: an acknowledgement    *)
(* that comes late, from before a restart or across a pruning, leaves the    *)
(* mark of a reply that nobody saw.                                          *)
ReadsAreSeen ==
    [][\A c \in unread \ unread' : \A i \in 1..Newest : journal[i] = c => i <= shown[c]]_vars

(* What is on screen catches up with what the daemon has committed, unless   *)
(* the owner leaves it: after a gap, a lost socket, a restart of the daemon  *)
(* or answers that overtook each other.                                      *)
Behind(c) == \E i \in (cached[c].seq + 1)..Newest : journal[i] = c
VisibleCatchesUp ==
    \A c \in Chat : (visible = c /\ Behind(c)) ~> (visible # c \/ ~Behind(c))
=============================================================================
