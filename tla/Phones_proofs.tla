--------------------------- MODULE Phones_proofs ---------------------------
(***************************************************************************)
(* What holds of Phones for any number of conversations, rows, faults,     *)
(* acknowledgements, phones, registrations and alerts: first of            *)
(* CommittedSync, and then of both parts side by side, with the theorems   *)
(* of PushOutbox_proofs.                                                   *)
(***************************************************************************)
EXTENDS Phones, SequenceTheorems, TLAPS

(***************************************************************************)
(* CommittedSync. That a stale page is marked follows from Covered: every  *)
(* row consumed since everything was last marked has left its mark, or a   *)
(* page of this epoch that is as new has been installed since and no older *)
(* one can replace it.  That a cleared unread mark was seen follows from   *)
(* Displayed: what an acknowledgement claims was on the screen.            *)
(***************************************************************************)
Version == [epoch : 0..epoch, seq : 0..Newest]
ReadState == [at : {"idle", "sleep", "askHead", "head", "askList", "list", "askPage", "page"},
              conv : Chat \cup {None}, epoch : 0..epoch, seq : 0..Newest, before : 0..Newest]
Reading == {got \in ReadState : got.at \in {"askPage", "page"} => got.conv \in Chat}

HostOK ==
    /\ faults \in 0..MaxFaults /\ epoch \in 1..(faults + 1)
    /\ journal \in Seq(Chat \cup {None}) /\ Newest <= MaxHead
    /\ floor \in 0..Newest /\ start \in 0..Newest /\ unread \subseteq Chat

StreamOK == /\ stream \in [up : BOOLEAN, epoch : 0..epoch, sent : 0..Newest]
            /\ wire \in Seq(0..Newest)

CacheOK == /\ cursor \in Version /\ cached \in [Chat -> Version]
           /\ dirty \subseteq Chat /\ marks \in [Chat -> 0..Newest] /\ base \in 0..Newest

ReaderOK == reader \in [Reader -> Reading]

OwnerOK == /\ visible \in Chat \cup {None} /\ opens \in 0..MaxOpens
           /\ acks \subseteq [conv : Chat, epoch : 0..epoch, through : 0..Newest]
           /\ shown \in [Chat -> 0..Newest]

Marked == \A c \in Chat : marks[c] # Gone => c \in dirty

ReadSince(c, i) == marks[c] = Gone /\ cached[c].seq >= i /\ cached[c].epoch = cursor.epoch
Covered == \A c \in Chat : \A i \in (base + 1)..cursor.seq :
               journal[i] = c => marks[c] >= i \/ ReadSince(c, i)

Displayed == \A a \in acks : a.through <= shown[a.conv]

CacheInv == CacheOK /\ Marked /\ Covered
OwnerInv == OwnerOK /\ Displayed
IInv == HostOK /\ StreamOK /\ CacheInv /\ ReaderOK /\ OwnerInv

LEMMA JournalLength == ASSUME HostOK PROVE Newest \in Nat /\ epoch \in Nat
  BY LenProperties, SyncAssumption DEF HostOK, Newest

LEMMA Types == IInv => TypeOK
<1> SUFFICES ASSUME IInv PROVE TypeOK
  OBVIOUS
<1>1. Newest \in Nat /\ Newest <= MaxHead /\ epoch \in 1..(MaxFaults + 1) /\ epoch <= MaxFaults + 1
  BY JournalLength, SyncAssumption DEF IInv, HostOK
<1>2. 0..Newest \subseteq 0..MaxHead /\ 0..epoch \subseteq 0..(MaxFaults + 1)
  BY <1>1, SyncAssumption
<1>3. wire \in Seq(0..MaxHead)
  BY <1>2, SeqMonotonic DEF IInv, StreamOK
<1>4. stream \in [up : BOOLEAN, epoch : 0..(MaxFaults + 1), sent : 0..MaxHead]
  BY <1>2 DEF IInv, StreamOK
<1>5. epoch \in 1..(MaxFaults + 1) /\ floor \in 0..Newest /\ start \in 0..Newest
      /\ journal \in Seq(Chat \cup {None}) /\ Newest <= MaxHead /\ unread \subseteq Chat
      /\ faults \in 0..MaxFaults
  BY <1>1 DEF IInv, HostOK
<1>6. reader \in [Reader -> Reading]
  BY DEF IInv, ReaderOK
<1>7. CacheOK /\ OwnerOK
  BY DEF IInv, CacheInv, OwnerInv
<1>8. reader \in [Reader -> ReadState]
  BY <1>6 DEF Reading
<1> QED
  BY <1>3, <1>4, <1>5, <1>7, <1>8 DEF TypeOK, CacheOK, OwnerOK, Version, ReadState

-----------------------------------------------------------------------------
(* The journal only grows, and the epoch only rises: what the phone holds   *)
(* and what is on its way keeps its type and its meaning.                   *)

Grows == /\ Newest' \in Nat /\ Newest' >= Newest /\ epoch' \in Nat /\ epoch' >= epoch
         /\ \A i \in 1..Newest : journal'[i] = journal[i]

LEMMA Ranges ==
    ASSUME HostOK, Grows
    PROVE  0..Newest \subseteq 0..Newest' /\ 0..epoch \subseteq 0..epoch'
BY JournalLength DEF Grows

LEMMA SameHost == ASSUME HostOK, UNCHANGED <<epoch, journal>> PROVE Grows
BY JournalLength DEF Grows, Newest

LEMMA StreamKept ==
    ASSUME HostOK, Grows, StreamOK, UNCHANGED <<stream, wire>> PROVE StreamOK'
<1>1. wire' \in Seq(0..Newest')
  BY Ranges, SeqMonotonic DEF StreamOK
<1>2. stream' \in [up : BOOLEAN, epoch : 0..epoch', sent : 0..Newest']
  BY Ranges DEF StreamOK
<1> QED
  BY <1>1, <1>2 DEF StreamOK

LEMMA CacheKept ==
    ASSUME HostOK, Grows, CacheInv, UNCHANGED cacheVars PROVE CacheInv'
<1>1. Version \subseteq Version'
  BY Ranges DEF Version
<1>2. UNCHANGED <<cursor, cached, dirty, marks, base>>
  BY DEF cacheVars
<1>3. CacheOK'
  BY <1>1, <1>2, Ranges DEF CacheInv, CacheOK
<1>4. Marked'
  BY <1>2 DEF CacheInv, Marked
<1>5. \A i \in (base + 1)..cursor.seq : journal'[i] = journal[i]
  <2>1. base \in Nat /\ cursor.seq \in 0..Newest
    BY JournalLength DEF CacheInv, CacheOK, Version
  <2> QED
    BY <2>1, JournalLength DEF Grows
<1>6. Covered'
  BY <1>2, <1>5 DEF CacheInv, Covered, ReadSince
<1> QED
  BY <1>3, <1>4, <1>6 DEF CacheInv

LEMMA ReaderKept ==
    ASSUME HostOK, Grows, ReaderOK, UNCHANGED reader PROVE ReaderOK'
<1>1. Reading \subseteq Reading'
  BY Ranges DEF Reading, ReadState
<1> QED
  BY <1>1 DEF ReaderOK

LEMMA OwnerKept ==
    ASSUME HostOK, Grows, OwnerInv, UNCHANGED <<visible, opens, shown>>, acks' \subseteq acks
    PROVE  OwnerInv'
<1>1. acks' \subseteq [conv : Chat, epoch : 0..epoch', through : 0..Newest']
  BY Ranges DEF OwnerInv, OwnerOK
<1>2. OwnerOK'
  BY <1>1, Ranges DEF OwnerInv, OwnerOK
<1> QED
  BY <1>2 DEF OwnerInv, Displayed

-----------------------------------------------------------------------------
(* The daemon.                                                              *)

LEMMA FunctionIsSeq == ASSUME NEW S, NEW n \in Nat, NEW f \in [1..n -> S] PROVE f \in Seq(S)
  BY SeqDef

LEMMA Appended ==
    ASSUME HostOK, NEW c \in Chat \cup {None}, Journal(c)
    PROVE  /\ journal' \in Seq(Chat \cup {None}) /\ Newest' = Newest + 1
           /\ Newest' <= MaxHead
           /\ \A i \in 1..Newest : journal'[i] = journal[i]
<1>1. journal' = Append(journal, c) /\ Newest < MaxHead
  BY DEF Journal
<1>2. Newest' = Newest + 1 /\ journal' \in Seq(Chat \cup {None})
  BY <1>1, AppendProperties DEF HostOK, Newest
<1>3. \A i \in 1..Newest : journal'[i] = journal[i]
  BY <1>1, AppendProperties DEF HostOK, Newest
<1>4. Newest \in Nat /\ MaxHead \in Nat
  BY JournalLength, SyncAssumption
<1>5. Newest' <= MaxHead
  BY <1>1, <1>2, <1>4
<1> QED
  BY <1>2, <1>3, <1>5

LEMMA EpochBound == \A e, m, n \in Nat : e \in 1..(m + 1) /\ n >= m => e \in 1..(n + 1)
  OBVIOUS

LEMMA JournalStep ==
    ASSUME IInv, NEW c \in Chat \cup {None}, Journal(c), unread' \subseteq Chat,
           faults' \in 0..MaxFaults, faults' >= faults,
           UNCHANGED <<epoch, start, floor, stream, wire, cacheVars, reader, visible, opens, shown>>,
           acks' \subseteq acks
    PROVE  IInv'
<1>1. Newest \in Nat /\ Newest' = Newest + 1
  BY Appended, JournalLength DEF IInv
<1>2. HostOK'
  <2>1. /\ faults \in 0..MaxFaults /\ epoch \in 1..(faults + 1) /\ MaxFaults \in Nat
        /\ floor \in 0..Newest /\ start \in 0..Newest
    BY SyncAssumption DEF IInv, HostOK
  <2>2. journal' \in Seq(Chat \cup {None}) /\ Newest' <= MaxHead
    BY Appended DEF IInv
  <2>3. epoch' = epoch /\ floor' = floor /\ start' = start /\ unread' \subseteq Chat
    OBVIOUS
  <2>4. epoch \in 1..(faults' + 1)
    <3>1. faults \in Nat /\ faults' \in Nat /\ epoch \in Nat /\ epoch \in 1..(faults + 1)
      BY <2>1
    <3> QED
      BY <3>1, EpochBound
  <2>5. floor \in 0..Newest' /\ start \in 0..Newest'
    BY <1>1, <2>1
  <2> QED
    BY <2>2, <2>3, <2>4, <2>5 DEF HostOK
<1>3. Grows
  BY <1>1, Appended, JournalLength DEF IInv, Grows
<1>4. StreamOK' /\ CacheInv' /\ ReaderOK' /\ OwnerInv'
  BY <1>3, StreamKept, CacheKept, ReaderKept, OwnerKept DEF IInv
<1> QED
  BY <1>2, <1>4 DEF IInv

LEMMA ChangeStep == ASSUME IInv, NEW c \in Chat, Change(c) \/ Reply(c) PROVE IInv'
<1>1. unread' \subseteq Chat /\ faults' \in 0..MaxFaults /\ faults' >= faults
  BY SyncAssumption DEF Change, Reply, IInv, HostOK
<1> QED
  BY <1>1, JournalStep DEF Change, Reply, ownerVars

LEMMA HostWideStep == ASSUME IInv, HostWide PROVE IInv'
<1>1. unread' \subseteq Chat /\ faults' \in 0..MaxFaults /\ faults' >= faults
  BY SyncAssumption DEF HostWide, Fault, IInv, HostOK
<1> QED
  BY <1>1, JournalStep DEF HostWide, ownerVars

LEMMA AcknowledgeStep == ASSUME IInv, NEW a \in acks, Acknowledge(a) PROVE IInv'
<1>1. a.conv \in Chat
  BY DEF IInv, OwnerInv, OwnerOK
<1>2. /\ UNCHANGED <<epoch, start, floor, stream, wire, cacheVars, reader, visible, opens, shown, faults>>
      /\ acks' \subseteq acks
  BY DEF Acknowledge
<1>3. unread' \subseteq Chat /\ faults' \in 0..MaxFaults /\ faults' >= faults
  BY <1>2, SyncAssumption DEF Acknowledge, IInv, HostOK
<1>4. CASE Journal(a.conv)
  BY <1>1, <1>2, <1>3, <1>4, JournalStep
<1>5. CASE UNCHANGED <<unread, journal>>
  <2>1. Grows
    BY <1>2, <1>5, SameHost DEF IInv
  <2>2. HostOK'
    BY <1>2, <1>5 DEF IInv, HostOK, Newest
  <2>3. StreamOK' /\ CacheInv' /\ ReaderOK' /\ OwnerInv'
    BY <1>2, <2>1, StreamKept, CacheKept, ReaderKept, OwnerKept DEF IInv
  <2> QED
    BY <2>2, <2>3 DEF IInv
<1> QED
  BY <1>4, <1>5 DEF Acknowledge

LEMMA PruneStep == ASSUME IInv, Prune PROVE IInv'
<1>1. Grows
  BY SameHost DEF IInv, Prune
<1>2. Newest' = Newest
  BY DEF Prune, Newest
<1>3. HostOK'
  BY <1>2, SyncAssumption, JournalLength DEF IInv, HostOK, Prune, Fault
<1>4. StreamOK' /\ CacheInv' /\ ReaderOK' /\ OwnerInv'
  BY <1>1, StreamKept, CacheKept, ReaderKept, OwnerKept DEF IInv, Prune, ownerVars
<1> QED
  BY <1>3, <1>4 DEF IInv

LEMMA DownOK == ASSUME HostOK PROVE Down \in [up : BOOLEAN, epoch : 0..epoch, sent : 0..Newest]
BY JournalLength DEF Down

LEMMA RestartStep == ASSUME IInv, Restart PROVE IInv'
<1>1. Newest' = Newest /\ Newest \in Nat /\ epoch \in Nat
  BY JournalLength DEF IInv, Restart, Newest
<1>2. Grows
  BY <1>1 DEF Grows, Restart
<1>3. HostOK'
  BY <1>1, SyncAssumption DEF IInv, HostOK, Restart, Fault
<1>4. StreamOK'
  <2>1. 0 \in 0..Newest' /\ 0 \in 0..epoch'
    BY <1>1 DEF Restart
  <2>2. stream' \in [up : BOOLEAN, epoch : 0..epoch', sent : 0..Newest']
    BY <2>1 DEF Restart, Down
  <2> QED
    BY <2>2, EmptySeq DEF StreamOK, Restart
<1>5. CacheInv' /\ ReaderOK' /\ OwnerInv'
  BY <1>2, CacheKept, ReaderKept, OwnerKept DEF IInv, Restart, ownerVars
<1> QED
  BY <1>3, <1>4, <1>5 DEF IInv

-----------------------------------------------------------------------------
(* The stream.  The daemon and its journal do not change.                   *)

LEMMA StillBounded ==
    ASSUME NEW e \in Nat, NEW f \in Nat, NEW g \in Nat, e \in 1..(f + 1), g >= f
    PROVE  e \in 1..(g + 1)
OBVIOUS

LEMMA HostKept ==
    ASSUME IInv, UNCHANGED hostVars, faults' \in 0..MaxFaults, faults' >= faults
    PROVE  HostOK' /\ Grows /\ Newest' = Newest /\ epoch' = epoch
<1>1. UNCHANGED <<epoch, start, floor, journal, unread>> /\ Newest' = Newest
  BY DEF hostVars, Newest
<1>2. epoch' \in 1..(faults' + 1)
  <2>1. faults \in Nat /\ epoch \in Nat /\ epoch \in 1..(faults + 1)
    BY SyncAssumption DEF IInv, HostOK
  <2>2. faults' \in Nat
    BY SyncAssumption
  <2>3. epoch \in 1..(faults' + 1)
    BY <2>1, <2>2, StillBounded
  <2> QED
    BY <1>1, <2>3
<1>3. HostOK'
  BY <1>1, <1>2 DEF IInv, HostOK
<1> QED
  BY <1>1, <1>3, SameHost DEF IInv

LEMMA FaultCounted == ASSUME HostOK, Fault \/ UNCHANGED faults PROVE faults' \in 0..MaxFaults /\ faults' >= faults
BY SyncAssumption DEF Fault, HostOK

LEMMA StreamStep ==
    ASSUME IInv, UNCHANGED <<hostVars, cacheVars, ownerVars>>, Fault \/ UNCHANGED faults,
           stream' \in [up : BOOLEAN, epoch : 0..epoch, sent : 0..Newest], wire' \in Seq(0..Newest),
           ReaderOK'
    PROVE  IInv'
<1>1. HostOK' /\ Grows /\ Newest' = Newest /\ epoch' = epoch
  BY HostKept, FaultCounted DEF IInv
<1>2. StreamOK'
  BY <1>1 DEF StreamOK
<1>3. CacheInv' /\ OwnerInv'
  BY <1>1, CacheKept, OwnerKept DEF IInv, ownerVars
<1> QED
  BY <1>1, <1>2, <1>3 DEF IInv

LEMMA ReaderSame == ASSUME IInv, UNCHANGED <<hostVars, reader>> PROVE ReaderOK'
BY SameHost, ReaderKept DEF IInv, hostVars

LEMMA ConnectStep == ASSUME IInv, Connect PROVE IInv'
<1>1. stream' \in [up : BOOLEAN, epoch : 0..epoch, sent : 0..Newest]
  BY DEF Connect, IInv, CacheInv, CacheOK, Version
<1> QED
  BY <1>1, ReaderSame, StreamStep DEF Connect, IInv, StreamOK

LEMMA SendStep == ASSUME IInv, Send PROVE IInv'
<1> DEFINE last == LastOfBatch
           frames == [i \in 1..(last - stream.sent) |-> stream.sent + i]
<1>1. /\ Newest \in Nat /\ stream.sent \in 0..Newest /\ wire \in Seq(0..Newest)
      /\ stream \in [up : BOOLEAN, epoch : 0..epoch, sent : 0..Newest]
  BY JournalLength DEF IInv, StreamOK
<1>2. CASE Expired(stream.epoch, stream.sent)
  <2>1. wire' = Append(wire, Resync) /\ stream' = Down
    BY <1>2 DEF Send
  <2>2. Resync \in 0..Newest
    BY <1>1 DEF Resync
  <2>3. wire' \in Seq(0..Newest)
    BY <1>1, <2>1, <2>2, AppendProperties
  <2> QED
    BY <2>1, <2>3, DownOK, ReaderSame, StreamStep DEF Send, IInv
<1>3. CASE ~Expired(stream.epoch, stream.sent)
  <2>1. wire' = wire \o frames /\ stream' = [stream EXCEPT !.sent = last] /\ stream.sent < last
    BY <1>3 DEF Send
  <2>2. last \in 0..Newest
    BY <1>1, <2>1, SyncAssumption DEF LastOfBatch
  <2>3. last - stream.sent \in Nat /\ \A i \in 1..(last - stream.sent) : stream.sent + i \in 0..Newest
    BY <1>1, <2>1, <2>2
  <2>4. frames \in Seq(0..Newest)
    <3>1. frames \in [1..(last - stream.sent) -> 0..Newest]
      BY <2>3
    <3>2. last - stream.sent \in Nat
      BY <2>3
    <3> QED
      BY <3>1, <3>2, FunctionIsSeq
  <2>5. wire' \in Seq(0..Newest)
    BY <1>1, <2>1, <2>4, ConcatProperties
  <2>6. stream' \in [up : BOOLEAN, epoch : 0..epoch, sent : 0..Newest]
    BY <1>1, <2>1, <2>2
  <2> QED
    BY <2>5, <2>6, ReaderSame, StreamStep DEF Send
<1> QED
  BY <1>2, <1>3

LEMMA DropStep == ASSUME IInv, Drop PROVE IInv'
<1>1. wire' \in Seq(0..Newest) /\ stream' \in [up : BOOLEAN, epoch : 0..epoch, sent : 0..Newest]
  BY DownOK, EmptySeq DEF Drop, IInv
<1> QED
  BY <1>1, ReaderSame, StreamStep DEF Drop

-----------------------------------------------------------------------------
(* The readers of the phone.                                                *)

LEMMA ReadingOK ==
    ASSUME ReaderOK, HostOK, NEW r \in Reader
    PROVE  /\ reader[r] \in Reading /\ Idle \in Reading /\ Asleep \in Reading
           /\ Newest \in Nat /\ epoch \in Nat
<1>1. Newest \in Nat /\ epoch \in Nat /\ reader[r] \in Reading
  BY JournalLength DEF ReaderOK
<1>2. Idle \in ReadState /\ Idle.at = "idle"
  BY <1>1 DEF ReadState, Idle
<1>3. Asleep \in ReadState /\ Asleep.at = "sleep"
  BY <1>2 DEF Asleep, ReadState
<1> QED
  BY <1>1, <1>2, <1>3 DEF Reading

LEMMA ReaderStep ==
    ASSUME IInv, reader' \in [Reader -> Reading], UNCHANGED <<hostVars, cacheVars, ownerVars, faults>>,
           stream' = stream, wire' = wire
    PROVE  IInv'
<1>1. HostOK' /\ Grows /\ Newest' = Newest /\ epoch' = epoch
  BY HostKept, FaultCounted DEF IInv
<1>2. ReaderOK'
  BY <1>1 DEF ReaderOK, Reading, ReadState
<1>3. StreamOK' /\ CacheInv' /\ OwnerInv'
  BY <1>1, StreamKept, CacheKept, OwnerKept DEF IInv, ownerVars
<1> QED
  BY <1>1, <1>2, <1>3 DEF IInv

(* A reader that starts asks for the head, for the list or for the page of  *)
(* a conversation, and may remember a version.                              *)
LEMMA AsksNow ==
    ASSUME HostOK, NEW before \in 0..Newest
    PROVE  /\ [Idle EXCEPT !.at = "askHead"] \in Reading
           /\ [Idle EXCEPT !.at = "askList"] \in Reading
           /\ [Idle EXCEPT !.at = "askList", !.before = before] \in Reading
<1>1. Idle \in ReadState
  BY JournalLength DEF ReadState, Idle
<1> QED
  BY <1>1 DEF Reading, ReadState

LEMMA AskingPage ==
    ASSUME HostOK, NEW conv \in Chat, NEW before \in 0..Newest
    PROVE  /\ [Idle EXCEPT !.at = "askPage", !.conv = conv] \in Reading
           /\ [Idle EXCEPT !.at = "askPage", !.conv = conv, !.before = before] \in Reading
<1>1. Idle \in ReadState
  BY JournalLength DEF ReadState, Idle
<1> QED
  BY <1>1 DEF Reading, ReadState

LEMMA BootstrapStep == ASSUME IInv, Bootstrap PROVE IInv'
<1>1. [Idle EXCEPT !.at = "askHead"] \in Reading
  <2>1. 0 \in 0..Newest
    BY JournalLength DEF IInv
  <2> QED
    BY <2>1, AsksNow DEF IInv
<1>2. reader' \in [Reader -> Reading]
  BY <1>1 DEF Bootstrap, StartOver, IInv, ReaderOK
<1> QED
  BY <1>2, ReaderStep DEF Bootstrap

LEMMA WakeStep == ASSUME IInv, Wake PROVE IInv'
<1>1. cursor.seq \in 0..Newest
  BY DEF IInv, CacheInv, CacheOK, Version
<1>2. [Idle EXCEPT !.at = "askList", !.before = cursor.seq] \in Reading
  BY <1>1, AsksNow DEF IInv
<1>3. reader' \in [Reader -> Reading]
  BY <1>2 DEF Wake, IInv, ReaderOK
<1> QED
  BY <1>3, ReaderStep DEF Wake

LEMMA AnswerStep == ASSUME IInv, NEW r \in Reader, Answer(r) PROVE IInv'
<1> DEFINE next(at) == CASE at = "askHead" -> "head" [] at = "askList" -> "list" [] OTHER -> "page"
           new == [reader[r] EXCEPT !.at = next(reader[r].at), !.epoch = epoch, !.seq = Newest]
<1>1. reader[r] \in Reading /\ Newest \in 0..Newest /\ epoch \in 0..epoch
  BY ReadingOK DEF IInv
<1>2. next(reader[r].at) \in {"head", "list", "page"}
  OBVIOUS
<1>3. new \in Reading
  <2>1. new \in ReadState /\ new.at = next(reader[r].at) /\ new.conv = reader[r].conv
    BY <1>1, <1>2 DEF Reading, ReadState
  <2>2. next(reader[r].at) = "page" => reader[r].at = "askPage"
    BY DEF Answer
  <2> QED
    BY <1>1, <1>2, <2>1, <2>2 DEF Reading
<1>4. reader' = [reader EXCEPT ![r] = new]
  BY DEF Answer
<1>5. reader' \in [Reader -> Reading]
  BY <1>3, <1>4 DEF IInv, ReaderOK
<1> QED
  BY <1>5, ReaderStep DEF Answer

LEMMA ListStep == ASSUME IInv, NEW r \in Reader, ListArrives(r) PROVE IInv'
<1> DEFINE got == reader[r]
           page == [Idle EXCEPT !.at = "askPage", !.conv = visible, !.before = got.before]
<1>1. /\ reader[r] \in Reading /\ Idle \in Reading /\ Asleep \in Reading
      /\ Newest \in Nat /\ epoch \in Nat
  BY ReadingOK DEF IInv
<1>2. visible \in Chat \cup {None}
  BY DEF IInv, OwnerInv, OwnerOK
<1>3. visible # None => page \in Reading
  <2>1. got.before \in 0..Newest
    BY <1>1 DEF Reading, ReadState
  <2> QED
    BY <1>2, <2>1, AskingPage DEF IInv
<1>4. \/ visible # None /\ reader' = [reader EXCEPT ![r] = page]
      \/ \E next \in {Idle, Asleep} : reader' = [reader EXCEPT ![r] = next]
  BY DEF ListArrives, Finished, NeedsPage
<1>5. reader' \in [Reader -> Reading]
  BY <1>1, <1>3, <1>4 DEF IInv, ReaderOK
<1> QED
  BY <1>5, ReaderStep DEF ListArrives

-----------------------------------------------------------------------------
(* What the phone marks and installs.                                       *)

LEMMA PhoneStep ==
    ASSUME IInv, UNCHANGED hostVars, Fault \/ UNCHANGED faults, CacheInv', OwnerInv',
           reader' \in [Reader -> Reading], wire' \in Seq(0..Newest),
           stream' \in [up : BOOLEAN, epoch : 0..epoch, sent : 0..Newest]
    PROVE  IInv'
<1>1. HostOK' /\ Grows /\ Newest' = Newest /\ epoch' = epoch
  BY HostKept, FaultCounted DEF IInv
<1>2. ReaderOK' /\ StreamOK'
  BY <1>1 DEF ReaderOK, Reading, ReadState, StreamOK
<1> QED
  BY <1>1, <1>2 DEF IInv

LEMMA OwnerSame == ASSUME IInv, UNCHANGED <<hostVars, ownerVars>> PROVE OwnerInv'
BY SameHost, OwnerKept DEF IInv, hostVars, ownerVars

LEMMA CacheSame == ASSUME IInv, UNCHANGED <<hostVars, cacheVars>> PROVE CacheInv'
BY SameHost, CacheKept DEF IInv, hostVars

LEMMA SameVersions ==
    ASSUME UNCHANGED hostVars
    PROVE  Version' = Version /\ Newest' = Newest /\ epoch' = epoch /\ journal' = journal
BY DEF Version, Newest, hostVars

(* Everything is marked as of the cursor. *)
LEMMA EverythingMarked ==
    ASSUME IInv, UNCHANGED hostVars, NEW seq \in 0..Newest, NEW prior \in [Chat -> 0..Newest],
           \A c \in Chat : prior[c] # Gone => c \in dirty,
           cursor' \in Version, cursor'.seq = seq, base' = seq, cached' = cached,
           dirty' = dirty \cup Held,
           marks' = [c \in Chat |-> Invalidated(c, seq, prior[c])]
    PROVE  CacheInv'
<1>1. Newest \in Nat
  BY JournalLength DEF IInv
<1>2. /\ marks' \in [Chat -> 0..Newest]
      /\ \A c \in Chat : c \notin Held => marks'[c] = prior[c]
  BY <1>1 DEF Invalidated, Larger
<1>3. CacheOK'
  <2>1. marks' \in [Chat -> 0..Newest] /\ dirty' \subseteq Chat /\ cached' \in [Chat -> Version]
    BY <1>2 DEF IInv, CacheInv, CacheOK, Held
  <2>2. base' \in 0..Newest /\ cursor' \in Version
    OBVIOUS
  <2> QED
    BY <2>1, <2>2, SameVersions DEF CacheOK
<1>4. Marked'
  <2> SUFFICES ASSUME NEW c \in Chat, marks'[c] # Gone PROVE c \in dirty'
    BY DEF Marked
  <2>1. CASE c \in Held
    BY <2>1
  <2>2. CASE c \notin Held
    BY <1>2, <2>2
  <2> QED
    BY <2>1, <2>2
<1>5. (base' + 1)..cursor'.seq = {}
  BY <1>1
<1>6. Covered'
  BY <1>5 DEF Covered
<1> QED
  BY <1>3, <1>4, <1>6 DEF CacheInv

LEMMA ConsumeMarks ==
    ASSUME IInv, UNCHANGED hostVars, NEW seq \in 1..Newest, seq = cursor.seq + 1, Consume(seq)
    PROVE  CacheInv'
<1>1. /\ Newest \in Nat /\ journal[seq] \in Chat \cup {None}
      /\ cursor \in Version /\ marks \in [Chat -> 0..Newest] /\ cached \in [Chat -> Version]
      /\ dirty \subseteq Chat /\ base \in 0..Newest
  BY JournalLength, ElementOfSeq DEF IInv, HostOK, CacheInv, CacheOK, Newest
<1>2. cursor' = [cursor EXCEPT !.seq = seq] /\ cached' = cached
  BY DEF Consume
<1>3. cursor' \in Version /\ cursor'.seq = seq /\ cursor'.epoch = cursor.epoch
  BY <1>1, <1>2 DEF Version
<1>4. CASE journal[seq] = None
  <2>1. /\ dirty' = dirty \cup Held /\ base' = seq
        /\ marks' = [c \in Chat |-> Invalidated(c, seq, marks[c])]
    BY <1>4 DEF Consume
  <2>2. \A c \in Chat : marks[c] # Gone => c \in dirty
    BY DEF IInv, CacheInv, Marked
  <2> QED
    BY <1>1, <1>2, <1>3, <2>1, <2>2, EverythingMarked
<1>5. CASE journal[seq] # None
  <2> DEFINE d == journal[seq]
  <2>1. /\ dirty' = dirty \cup {d} /\ base' = base /\ d \in Chat
        /\ marks' = [marks EXCEPT ![d] = seq]
    BY <1>1, <1>5 DEF Consume
  <2>2. CacheOK'
    BY <1>1, <1>2, <1>3, <2>1, SameVersions DEF CacheOK
  <2>3. Marked'
    BY <1>1, <2>1 DEF IInv, CacheInv, Marked
  <2>4. Covered'
    <3> SUFFICES ASSUME NEW c \in Chat, NEW i \in (base + 1)..seq, journal[i] = c
                 PROVE  marks'[c] >= i \/ ReadSince(c, i)'
      BY <1>3, <2>1, SameVersions DEF Covered
    <3>1. CASE c = d
      <4>1. marks'[c] = seq /\ seq >= i
        BY <1>1, <2>1, <3>1
      <4> QED
        BY <4>1
    <3>2. CASE c # d
      <4>1. i # seq /\ i \in (base + 1)..cursor.seq
        BY <1>1, <3>2 DEF Version
      <4>2. marks[c] >= i \/ ReadSince(c, i)
        BY <4>1 DEF IInv, CacheInv, Covered
      <4>3. marks'[c] = marks[c]
        BY <1>1, <2>1, <3>2
      <4> QED
        BY <1>2, <1>3, <4>2, <4>3 DEF ReadSince
    <3> QED
      BY <3>1, <3>2
  <2> QED
    BY <2>2, <2>3, <2>4 DEF CacheInv
<1> QED
  BY <1>4, <1>5

LEMMA ReceiveStep == ASSUME IInv, Receive PROVE IInv'
<1> DEFINE seq == wire[1]
           torn == seq = Resync \/ seq > cursor.seq + 1
<1>1. /\ Newest \in Nat /\ wire \in Seq(0..Newest) /\ wire # <<>> /\ cursor.seq \in 0..Newest
      /\ UNCHANGED <<hostVars, ownerVars, faults>> /\ Asleep \in Reading
      /\ stream \in [up : BOOLEAN, epoch : 0..epoch, sent : 0..Newest] /\ reader \in [Reader -> Reading]
  BY JournalLength, ReadingOK DEF Receive, IInv, StreamOK, CacheInv, CacheOK, Version, ReaderOK, Reader
<1>2. seq \in 0..Newest
  BY <1>1, ElementOfSeq, EmptySeq
<1>3. OwnerInv'
  BY <1>1, OwnerSame
<1>4. CASE torn
  <2>1. reader' = StartOver /\ wire' = <<>> /\ stream' = Down /\ UNCHANGED cacheVars
    BY <1>4 DEF Receive
  <2>2. [Idle EXCEPT !.at = "askHead"] \in Reading
    <3>1. 0 \in 0..Newest
      BY <1>1
    <3> QED
      BY <3>1, AsksNow DEF IInv
  <2>3. reader' \in [Reader -> Reading]
    BY <1>1, <2>1, <2>2 DEF StartOver
  <2> QED
    BY <1>1, <1>3, <2>1, <2>3, CacheSame, DownOK, EmptySeq, PhoneStep DEF IInv
<1>5. CASE ~torn
  <2>1. /\ wire' = Tail(wire) /\ UNCHANGED stream /\ reader' = Scheduled
        /\ IF seq <= cursor.seq THEN UNCHANGED cacheVars ELSE Consume(seq)
    BY <1>5 DEF Receive
  <2>2. wire' \in Seq(0..Newest)
    BY <1>1, <2>1, HeadTailProperties
  <2>3. reader' \in [Reader -> Reading]
    BY <1>1, <2>1 DEF Scheduled
  <2>4. CacheInv'
    <3>1. CASE seq <= cursor.seq
      BY <1>1, <2>1, <3>1, CacheSame
    <3>2. CASE ~(seq <= cursor.seq)
      <4>1. seq \in 1..Newest /\ seq = cursor.seq + 1
        BY <1>1, <1>2, <1>5, <3>2
      <4> QED
        BY <1>1, <2>1, <3>2, <4>1, ConsumeMarks
    <3> QED
      BY <3>1, <3>2
  <2> QED
    BY <1>1, <1>3, <2>1, <2>2, <2>3, <2>4, PhoneStep
<1> QED
  BY <1>4, <1>5

LEMMA HeadStep == ASSUME IInv, HeadArrives PROVE IInv'
<1> DEFINE got == reader["resnapshot"]
           prior == [c \in Chat |-> Gone]
<1>1. /\ got \in Reading /\ Newest \in Nat /\ reader \in [Reader -> Reading]
      /\ stream \in [up : BOOLEAN, epoch : 0..epoch, sent : 0..Newest] /\ wire \in Seq(0..Newest)
  BY ReadingOK DEF IInv, StreamOK, ReaderOK, Reader
<1>2. got.seq \in 0..Newest /\ cursor' = [epoch |-> got.epoch, seq |-> got.seq] /\ cursor' \in Version
  BY <1>1 DEF HeadArrives, Reading, ReadState, Version
<1>3. CacheInv'
  <2>1. prior \in [Chat -> 0..Newest] /\ \A c \in Chat : prior[c] # Gone => c \in dirty
    BY <1>1 DEF Gone
  <2>2. /\ UNCHANGED hostVars /\ base' = got.seq /\ cached' = cached /\ dirty' = dirty \cup Held
        /\ marks' = [c \in Chat |-> Invalidated(c, got.seq, prior[c])]
    BY DEF HeadArrives
  <2>3. cursor'.seq = got.seq
    BY <1>2
  <2> HIDE DEF prior, got
  <2> QED
    BY <1>2, <2>1, <2>2, <2>3, EverythingMarked
<1>4. [Idle EXCEPT !.at = "askList"] \in Reading
  <2>1. 0 \in 0..Newest
    BY <1>1
  <2> QED
    BY <2>1, AsksNow DEF IInv
<1>5. reader' \in [Reader -> Reading]
  BY <1>1, <1>4 DEF HeadArrives
<1> QED
  BY <1>1, <1>3, <1>5, OwnerSame, PhoneStep DEF HeadArrives

(* A page is installed: of the first epoch the phone sees, or of its own.   *)
LEMMA FirstPage ==
    ASSUME IInv, UNCHANGED hostVars, NEW c \in Chat, NEW got \in Version,
           cursor' = got, base' = got.seq, cached' = [cached EXCEPT ![c] = got],
           NEW clean \in BOOLEAN,
           clean = Covers(c, got.seq, Invalidated(c, got.seq, Gone), got.seq),
           dirty' = (dirty \cup Held) \ (IF clean THEN {c} ELSE {}),
           marks' = [d \in Chat |-> IF d = c /\ clean THEN Gone
                                    ELSE Invalidated(d, got.seq, Gone)]
    PROVE  CacheInv'
<1>1. Newest \in Nat /\ got.seq \in 0..Newest /\ Gone \in 0..Newest
  BY JournalLength DEF IInv, Version, Gone
<1>2. /\ marks' \in [Chat -> 0..Newest]
      /\ \A d \in Chat : d \notin Held => marks'[d] = Gone
  BY <1>1 DEF Invalidated, Larger
<1>3. CacheOK'
  <2>1. dirty' \subseteq Chat /\ cached' \in [Chat -> Version] /\ base' \in 0..Newest
    BY <1>1 DEF IInv, CacheInv, CacheOK, Held
  <2> QED
    BY <1>2, <2>1, SameVersions DEF CacheOK
<1>4. Marked'
  <2> SUFFICES ASSUME NEW d \in Chat, marks'[d] # Gone PROVE d \in dirty'
    BY DEF Marked
  <2>1. ~(d = c /\ clean)
    OBVIOUS
  <2>2. d \in Held
    BY <1>2
  <2> QED
    BY <2>1, <2>2
<1>5. Covered'
  <2>1. (base' + 1)..cursor'.seq = {}
    BY <1>1
  <2> QED
    BY <2>1 DEF Covered
<1> QED
  BY <1>3, <1>4, <1>5 DEF CacheInv

LEMMA NextPage ==
    ASSUME IInv, UNCHANGED hostVars, NEW c \in Chat, NEW got \in Version,
           UNCHANGED <<cursor, base>>, cached' = [cached EXCEPT ![c] = got],
           got.epoch = cursor.epoch,
           cached[c].seq = Gone \/ cached[c].epoch # got.epoch \/ cached[c].seq <= got.seq,
           NEW clean \in BOOLEAN,
           clean = Covers(c, got.seq, marks[c], cursor.seq),
           dirty' = dirty \ (IF clean THEN {c} ELSE {}),
           marks' = [d \in Chat |-> IF d = c /\ clean THEN Gone ELSE marks[d]]
    PROVE  CacheInv'
<1>1. /\ Newest \in Nat /\ got.seq \in 0..Newest /\ Gone \in 0..Newest
      /\ cursor \in Version /\ marks \in [Chat -> 0..Newest] /\ cached \in [Chat -> Version]
      /\ dirty \subseteq Chat /\ base \in 0..Newest
  BY JournalLength DEF IInv, Version, Gone, CacheInv, CacheOK
<1>2. CacheOK'
  <2>1. marks' \in [Chat -> 0..Newest] /\ cached' \in [Chat -> Version] /\ dirty' \subseteq Chat
    BY <1>1
  <2> QED
    BY <1>1, <2>1, SameVersions DEF CacheOK
<1>3. Marked'
  BY DEF IInv, CacheInv, Marked
<1>4. Covered'
  <2> SUFFICES ASSUME NEW d \in Chat, NEW i \in (base + 1)..cursor.seq, journal[i] = d
               PROVE  marks'[d] >= i \/ ReadSince(d, i)'
    BY SameVersions DEF Covered
  <2>1. marks[d] >= i \/ ReadSince(d, i)
    BY DEF IInv, CacheInv, Covered
  <2>2. i \in Nat /\ i >= 1 /\ i <= cursor.seq /\ cursor.seq \in Nat
    BY <1>1 DEF Version
  <2>3. CASE d # c
    BY <1>1, <2>1, <2>3 DEF ReadSince
  <2>4. CASE d = c
    <3>1. cached'[d] = got
      BY <1>1, <2>4
    <3>2. CASE marks[d] # Gone
      <4>1. marks[d] >= i
        BY <2>1, <3>2 DEF ReadSince
      <4>2. CASE clean
        <5>1. got.seq >= marks[d]
          BY <2>4, <3>2, <4>2 DEF Covers
        <5>2. got.seq >= i
          BY <1>1, <2>2, <4>1, <5>1
        <5>3. marks'[d] = Gone
          BY <2>4, <4>2
        <5> QED
          BY <3>1, <5>2, <5>3 DEF ReadSince
      <4>3. CASE ~clean
        BY <4>1, <4>3
      <4> QED
        BY <4>2, <4>3
    <3>3. CASE marks[d] = Gone
      <4>1. marks'[d] = Gone
        BY <3>3
      <4>2. got.seq >= i
        <5>1. ReadSince(d, i)
          BY <2>1, <2>2, <3>3 DEF Gone
        <5>2. cached[d].seq >= i /\ cached[d].epoch = got.epoch /\ cached[d].seq \in Nat
          BY <1>1, <5>1 DEF ReadSince, Version
        <5>3. cached[d].seq # Gone
          BY <2>2, <5>2 DEF Gone
        <5> QED
          BY <1>1, <2>2, <2>4, <5>2, <5>3
      <4> QED
        BY <3>1, <4>1, <4>2 DEF ReadSince
    <3> QED
      BY <3>2, <3>3
  <2> QED
    BY <2>3, <2>4
<1> QED
  BY <1>2, <1>3, <1>4 DEF CacheInv

LEMMA PageStep == ASSUME IInv, NEW r \in Reader, PageArrives(r) PROVE IInv'
<1> DEFINE got == reader[r]
           c == got.conv
           page == [epoch |-> got.epoch, seq |-> got.seq]
           first == cursor.epoch = 0
           last == IF first THEN got.seq ELSE cursor.seq
           mark == IF first THEN Invalidated(c, got.seq, Gone) ELSE marks[c]
           clean == Covers(c, got.seq, mark, last)
<1>1. /\ got \in Reading /\ Idle \in Reading /\ Asleep \in Reading
      /\ reader \in [Reader -> Reading]
      /\ stream \in [up : BOOLEAN, epoch : 0..epoch, sent : 0..Newest] /\ wire \in Seq(0..Newest)
      /\ UNCHANGED <<hostVars, stream, wire, ownerVars, faults>>
  BY ReadingOK DEF IInv, StreamOK, ReaderOK, PageArrives
<1>2. c \in Chat /\ page \in Version
  BY <1>1 DEF PageArrives, Reading, ReadState, Version
<1>3. \E next \in {Idle, Asleep} : reader' = [reader EXCEPT ![r] = next]
  BY DEF PageArrives, Finished
<1>4. reader' \in [Reader -> Reading]
  BY <1>1, <1>3
<1>5. clean \in BOOLEAN
  BY DEF Covers
<1>6. CacheInv'
  <2>1. CASE Older(got) \/ (~first /\ got.epoch # cursor.epoch)
    <3>1. UNCHANGED cacheVars
      BY <2>1 DEF PageArrives
    <3> QED
      BY <1>1, <3>1, CacheSame
  <2>2. CASE first /\ ~Older(got)
    <3>1. /\ cursor' = page /\ base' = page.seq /\ cached' = [cached EXCEPT ![c] = page]
          /\ dirty' = (dirty \cup Held) \ (IF clean THEN {c} ELSE {})
          /\ marks' = [d \in Chat |-> IF d = c /\ clean THEN Gone
                                      ELSE Invalidated(d, page.seq, Gone)]
      BY <2>2 DEF PageArrives
    <3>2. clean = Covers(c, page.seq, Invalidated(c, page.seq, Gone), page.seq)
      BY <2>2
    <3> HIDE DEF c, page, clean
    <3> QED
      BY <1>1, <1>2, <1>5, <3>1, <3>2, FirstPage
  <2>3. CASE ~first /\ got.epoch = cursor.epoch /\ ~Older(got)
    <3>1. /\ UNCHANGED <<cursor, base>> /\ cached' = [cached EXCEPT ![c] = page]
          /\ dirty' = dirty \ (IF clean THEN {c} ELSE {})
          /\ marks' = [d \in Chat |-> IF d = c /\ clean THEN Gone ELSE marks[d]]
      BY <2>3 DEF PageArrives
    <3>2. clean = Covers(c, page.seq, marks[c], cursor.seq) /\ page.epoch = cursor.epoch
      BY <2>3
    <3>3. cached[c].seq = Gone \/ cached[c].epoch # page.epoch \/ cached[c].seq <= page.seq
      <4>1. cached[c].seq \in Nat /\ page.seq \in Nat
        BY <1>2, JournalLength DEF IInv, CacheInv, CacheOK, Version
      <4> QED
        BY <2>3, <4>1 DEF Older
    <3> HIDE DEF c, page, clean
    <3> QED
      BY <1>1, <1>2, <1>5, <3>1, <3>2, <3>3, NextPage
  <2> QED
    BY <2>1, <2>2, <2>3
<1> QED
  BY <1>1, <1>4, <1>6, OwnerSame, PhoneStep

-----------------------------------------------------------------------------
(* The owner.                                                               *)

LEMMA OpenStep == ASSUME IInv, NEW c \in Chat, Open(c) PROVE IInv'
<1>1. /\ UNCHANGED <<hostVars, stream, wire, cacheVars, acks, shown, faults>>
      /\ visible' = c /\ opens' = opens + 1 /\ opens < MaxOpens
  BY DEF Open
<1>2. [Idle EXCEPT !.at = "askPage", !.conv = c] \in Reading
  <2>1. 0 \in 0..Newest
    BY JournalLength DEF IInv
  <2> QED
    BY <2>1, AskingPage DEF IInv
<1>3. reader' \in [Reader -> Reading]
  BY <1>2 DEF Open, IInv, ReaderOK
<1>4. opens' \in 0..MaxOpens
  BY <1>1, SyncAssumption DEF IInv, OwnerInv, OwnerOK
<1>5. OwnerInv'
  BY <1>1, <1>4, SameVersions DEF IInv, OwnerInv, OwnerOK, Displayed
<1> QED
  BY <1>1, <1>3, <1>5, CacheSame, PhoneStep DEF IInv, StreamOK

LEMMA LeaveStep == ASSUME IInv, Leave PROVE IInv'
<1>1. /\ UNCHANGED <<hostVars, stream, wire, cacheVars, reader, opens, acks, shown, faults>>
      /\ visible' = None
  BY DEF Leave
<1>2. OwnerInv'
  BY <1>1, SameVersions DEF IInv, OwnerInv, OwnerOK, Displayed
<1> QED
  BY <1>1, <1>2, CacheSame, PhoneStep DEF IInv, StreamOK, ReaderOK

LEMMA ForegroundStep == ASSUME IInv, Foreground PROVE IInv'
<1>1. /\ UNCHANGED <<hostVars, cursor, cached, ownerVars>> /\ Fault
      /\ dirty' = dirty \cup Held /\ base' = cursor.seq
      /\ marks' = [c \in Chat |-> Invalidated(c, cursor.seq, marks[c])]
      /\ stream' = Down /\ wire' = <<>>
  BY DEF Foreground
<1>2. /\ cursor \in Version /\ cursor.seq \in 0..Newest /\ marks \in [Chat -> 0..Newest]
      /\ \A c \in Chat : marks[c] # Gone => c \in dirty
  BY DEF IInv, CacheInv, CacheOK, Marked, Version
<1>3. CacheInv'
  BY <1>1, <1>2, EverythingMarked
<1>4. [Idle EXCEPT !.at = "askList"] \in Reading /\ Idle \in Reading
  <2>1. 0 \in 0..Newest
    BY JournalLength DEF IInv
  <2>2. "open" \in Reader
    BY DEF Reader
  <2> QED
    BY <2>1, <2>2, AsksNow, ReadingOK DEF IInv
<1>5. reader' \in [Reader -> Reading]
  BY <1>4 DEF Foreground
<1>6. stream' \in [up : BOOLEAN, epoch : 0..epoch, sent : 0..Newest] /\ wire' \in Seq(0..Newest)
  BY <1>1, DownOK, EmptySeq DEF IInv
<1> QED
  BY <1>1, <1>3, <1>5, <1>6, OwnerSame, PhoneStep

LEMMA DisplayStep == ASSUME IInv, NEW c \in Chat, AcknowledgeVisible(c) PROVE IInv'
<1> DEFINE new == [conv |-> c, epoch |-> cached[c].epoch, through |-> cached[c].seq]
<1>1. /\ UNCHANGED <<hostVars, stream, wire, cacheVars, reader, visible, opens, faults>>
      /\ shown' = [shown EXCEPT ![c] = Larger(shown[c], cached[c].seq)]
      /\ acks' = acks \cup {new}
  BY DEF AcknowledgeVisible
<1>2. /\ Newest \in Nat /\ cached[c] \in Version /\ shown \in [Chat -> 0..Newest]
      /\ acks \subseteq [conv : Chat, epoch : 0..epoch, through : 0..Newest]
  BY JournalLength DEF IInv, CacheInv, CacheOK, OwnerInv, OwnerOK
<1>3. Larger(shown[c], cached[c].seq) \in 0..Newest
  BY <1>2 DEF Larger, Version
<1>4. shown' \in [Chat -> 0..Newest]
  BY <1>1, <1>2, <1>3
<1>5. new \in [conv : Chat, epoch : 0..epoch, through : 0..Newest]
  BY <1>2 DEF Version
<1>6. OwnerOK'
  BY <1>1, <1>2, <1>4, <1>5, SameVersions DEF IInv, OwnerInv, OwnerOK
<1>7. \A d \in Chat : shown'[d] >= shown[d]
  BY <1>1, <1>2 DEF Larger, Version
<1>8. Displayed'
  <2> SUFFICES ASSUME NEW a \in acks' PROVE a.through <= shown'[a.conv]
    BY DEF Displayed
  <2>1. CASE a \in acks
    <3>1. a.through <= shown[a.conv] /\ a.conv \in Chat /\ a.through \in Nat
      BY <1>2, <2>1 DEF IInv, OwnerInv, Displayed
    <3>2. shown[a.conv] \in Nat /\ shown'[a.conv] \in Nat /\ shown'[a.conv] >= shown[a.conv]
      BY <1>2, <1>4, <1>7, <3>1
    <3> QED
      BY <3>1, <3>2
  <2>2. CASE a = new
    BY <1>1, <1>2, <2>2 DEF Larger, Version
  <2> QED
    BY <1>1, <2>1, <2>2
<1> QED
  BY <1>1, <1>6, <1>8, CacheSame, PhoneStep DEF IInv, StreamOK, ReaderOK, OwnerInv

-----------------------------------------------------------------------------
LEMMA InitInv == Init => IInv
<1> SUFFICES ASSUME Init PROVE IInv
  OBVIOUS
<1>1. Newest = 1 /\ epoch = 1 /\ journal \in Seq(Chat \cup {None})
  BY DEF Init, Newest
<1>2. HostOK
  BY <1>1, SyncAssumption DEF Init, HostOK
<1>3. StreamOK
  BY <1>1 DEF Init, StreamOK, Down
<1>4. CacheInv
  BY <1>1 DEF Init, CacheInv, CacheOK, Marked, Covered, Version, NoPage, Gone
<1>5. ReaderOK
  <2>1. [Idle EXCEPT !.at = "askList"] \in Reading /\ Idle \in Reading
    <3>1. 0 \in 0..Newest
      BY <1>1
    <3>2. Idle \in ReadState /\ Idle.at = "idle"
      BY <1>1 DEF ReadState, Idle
    <3> QED
      BY <1>2, <3>1, <3>2, AsksNow DEF Reading
  <2> QED
    BY <2>1 DEF Init, ReaderOK
<1>6. OwnerInv
  BY <1>1, SyncAssumption DEF Init, OwnerInv, OwnerOK, Displayed
<1> QED
  BY <1>2, <1>3, <1>4, <1>5, <1>6 DEF IInv

LEMMA NextStep == ASSUME IInv, [Next]_vars PROVE IInv'
<1>1. CASE \E c \in Chat : Change(c) \/ Reply(c) \/ Open(c) \/ AcknowledgeVisible(c)
  BY <1>1, ChangeStep, OpenStep, DisplayStep
<1>2. CASE \E a \in acks : Acknowledge(a)
  BY <1>2, AcknowledgeStep
<1>3. CASE \E r \in Reader : Answer(r) \/ ListArrives(r) \/ PageArrives(r)
  BY <1>3, AnswerStep, ListStep, PageStep
<1>4. CASE HostWide \/ Prune \/ Restart \/ Connect \/ Send \/ Drop \/ Receive
  BY <1>4, HostWideStep, PruneStep, RestartStep, ConnectStep, SendStep, DropStep, ReceiveStep
<1>5. CASE Bootstrap \/ HeadArrives \/ Wake \/ Leave \/ Foreground
  BY <1>5, BootstrapStep, HeadStep, WakeStep, LeaveStep, ForegroundStep
<1>6. CASE UNCHANGED vars
  <2>1. UNCHANGED <<hostVars, stream, wire, cacheVars, reader, ownerVars, faults>>
    BY <1>6 DEF vars
  <2> QED
    BY <2>1, CacheSame, OwnerSame, PhoneStep DEF IInv, StreamOK, ReaderOK
<1> QED
  BY <1>1, <1>2, <1>3, <1>4, <1>5, <1>6 DEF Next

LEMMA Invariance == Spec => []IInv
<1>1. IInv /\ [Next]_vars => IInv'
  BY NextStep
<1> QED
  BY <1>1, InitInv, PTL DEF Spec

(* Every variable keeps its type: no cursor, page or frame is ahead of the  *)
(* journal, and no epoch ahead of the daemon's.                             *)
THEOREM TypeCorrect == Spec => []TypeOK
  BY Types, Invariance, PTL

(* No silently skipped event: a page that a consumed row has made stale is  *)
(* marked (ReadCache install and invalidate, EventCursor consume).          *)
THEOREM StaleIsMarked == Spec => []MarkedWhenStale
<1>1. IInv => MarkedWhenStale
  <2> SUFFICES ASSUME IInv, NEW c \in Chat, c \in Held, cached[c].seq >= base,
                      NEW i \in (cached[c].seq + 1)..cursor.seq, journal[i] = c
               PROVE  c \in dirty
    BY DEF MarkedWhenStale, Stale
  <2>1. cached[c].seq \in Nat /\ base \in Nat /\ cursor.seq \in Nat
    BY JournalLength DEF IInv, CacheInv, CacheOK, Version
  <2>2. i \in (base + 1)..cursor.seq /\ i >= 1 /\ ~(cached[c].seq >= i)
    BY <2>1
  <2>3. marks[c] >= i
    BY <2>2 DEF IInv, CacheInv, Covered, ReadSince
  <2>4. marks[c] # Gone
    BY <2>2, <2>3 DEF Gone
  <2> QED
    BY <2>4 DEF IInv, CacheInv, Marked
<1> QED
  BY <1>1, Invariance, PTL

(* An unread mark is cleared only when every version up to then was on the  *)
(* screen (acknowledge_conversation_read), whatever was pruned.             *)
THEOREM ClearedIsSeen == Spec => ReadsAreSeen
<1> DEFINE Seen == \A c \in unread \ unread' : \A i \in 1..Newest : journal[i] = c => i <= shown[c]
<1>1. IInv /\ [Next]_vars => [Seen]_vars
  <2> SUFFICES ASSUME IInv, Next, NEW c \in unread \ unread', NEW i \in 1..Newest, journal[i] = c
               PROVE  i <= shown[c]
    BY DEF Seen
  <2>1. PICK a \in acks : Acknowledge(a)
    <3>1. c \in unread /\ c \notin unread'
      OBVIOUS
    <3> QED
      BY <3>1 DEF Next, Change, Reply, Open, AcknowledgeVisible, Answer, ListArrives, PageArrives,
         HostWide, Prune, Restart, Connect, Send, Drop, Receive, Bootstrap, HeadArrives, Wake,
         Leave, Foreground, hostVars
  <2>2. c = a.conv /\ ReadFence(a)
    BY <2>1 DEF Acknowledge
  <2>3. /\ a.through <= shown[c] /\ a.through \in Nat /\ shown[c] \in Nat
        /\ floor \in Nat /\ Newest \in Nat
    BY <2>2, JournalLength DEF IInv, HostOK, OwnerInv, OwnerOK, Displayed
  <2>4. i <= a.through
    <3>1. CASE i <= floor
      BY <2>2, <2>3, <3>1 DEF ReadFence
    <3>2. CASE ~(i <= floor)
      <4>1. i \in Retained
        BY <2>3, <3>2 DEF Retained
      <4> QED
        BY <2>2, <4>1 DEF ReadFence
    <3> QED
      BY <3>1, <3>2
  <2> QED
    BY <2>3, <2>4
<1> QED
  BY <1>1, Invariance, PTL DEF Spec, ReadsAreSeen

(***************************************************************************)
(* Both parts. What is proved of PushOutbox is stated in a module of its   *)
(* own, whose definitions are those of Alerts.                             *)
(***************************************************************************)
AlertsProved == INSTANCE PushOutbox_proofs

LEMMA AlertsInit == Alerts!Init <=> AlertsProved!Init
BY DEF Alerts!Init, Alerts!Registration, Alerts!Alert, Alerts!Idle,
       AlertsProved!Init, AlertsProved!Registration, AlertsProved!Alert,
       AlertsProved!Idle

LEMMA AlertsNext == Alerts!Next <=> AlertsProved!Next
BY DEF Alerts!Next, Alerts!Remember, Alerts!Step, Alerts!Registration,
       Alerts!Alert, Alerts!Report, Alerts!hostVars, Alerts!workerVars,
       Alerts!worldVars, Alerts!Presence, Alerts!OfDevice, Alerts!DeviceOf,
       Alerts!Withdraw, Alerts!Counts, Alerts!LeaseEnds, Alerts!Enroll,
       Alerts!Older, Alerts!presenceVars, Alerts!Register, Alerts!Revoked,
       Alerts!RevokePush, Alerts!Change, Alerts!RevokeDevice, Alerts!Record,
       Alerts!Settle, Alerts!DayPasses, Alerts!Restart, Alerts!Idle,
       Alerts!Fault, Alerts!Loop, Alerts!NextRevocation, Alerts!Retired,
       Alerts!NoRevocation, Alerts!Goto, Alerts!Revoke, Alerts!RevokeLost,
       Alerts!Forget, Alerts!Distribute, Alerts!Wanted, Alerts!Recipient,
       Alerts!Live, Alerts!NextPush, Alerts!Ready, Alerts!Sendable,
       Alerts!NoPush, Alerts!Check, Alerts!Finished, Alerts!GiveUp,
       Alerts!FinishPush, Alerts!Serve, Alerts!UnknownRegistration,
       Alerts!Answer, Alerts!Duplicate, Alerts!Known, Alerts!Claim,
       Alerts!Claimable, Alerts!AppleAccepts, Alerts!Delivered, Alerts!Noted,
       Alerts!NotReceipted, Alerts!AppleFails, Alerts!TokenGone,
       Alerts!WorkerDies, AlertsProved!Next, AlertsProved!Remember,
       AlertsProved!Step, AlertsProved!Registration, AlertsProved!Alert,
       AlertsProved!Report, AlertsProved!hostVars, AlertsProved!workerVars,
       AlertsProved!worldVars, AlertsProved!Presence, AlertsProved!OfDevice,
       AlertsProved!DeviceOf, AlertsProved!Withdraw, AlertsProved!Counts,
       AlertsProved!LeaseEnds, AlertsProved!Enroll, AlertsProved!Older,
       AlertsProved!presenceVars, AlertsProved!Register,
       AlertsProved!Revoked, AlertsProved!RevokePush, AlertsProved!Change,
       AlertsProved!RevokeDevice, AlertsProved!Record, AlertsProved!Settle,
       AlertsProved!DayPasses, AlertsProved!Restart, AlertsProved!Idle,
       AlertsProved!Fault, AlertsProved!Loop, AlertsProved!NextRevocation,
       AlertsProved!Retired, AlertsProved!NoRevocation, AlertsProved!Goto,
       AlertsProved!Revoke, AlertsProved!RevokeLost, AlertsProved!Forget,
       AlertsProved!Distribute, AlertsProved!Wanted, AlertsProved!Recipient,
       AlertsProved!Live, AlertsProved!NextPush, AlertsProved!Ready,
       AlertsProved!Sendable, AlertsProved!NoPush, AlertsProved!Check,
       AlertsProved!Finished, AlertsProved!GiveUp, AlertsProved!FinishPush,
       AlertsProved!Serve, AlertsProved!UnknownRegistration,
       AlertsProved!Answer, AlertsProved!Duplicate, AlertsProved!Known,
       AlertsProved!Claim, AlertsProved!Claimable, AlertsProved!AppleAccepts,
       AlertsProved!Delivered, AlertsProved!Noted, AlertsProved!NotReceipted,
       AlertsProved!AppleFails, AlertsProved!TokenGone,
       AlertsProved!WorkerDies

LEMMA AlertsVars == UNCHANGED Alerts!vars <=> UNCHANGED AlertsProved!vars
BY DEF Alerts!vars, Alerts!hostVars, Alerts!presenceVars, Alerts!workerVars,
       Alerts!worldVars, AlertsProved!vars, AlertsProved!hostVars,
       AlertsProved!presenceVars, AlertsProved!workerVars,
       AlertsProved!worldVars

LEMMA AlertsAlertOnce == Alerts!AlertOnce <=> AlertsProved!AlertOnce
BY DEF Alerts!AlertOnce, Alerts!DeviceOf, Alerts!Alert, Alerts!Registration,
       AlertsProved!AlertOnce, AlertsProved!DeviceOf, AlertsProved!Alert,
       AlertsProved!Registration

LEMMA PartStep ==
  ASSUME [PhonesNext]_phonesVars
  PROVE  [Next]_vars /\ [Alerts!Next]_(Alerts!vars)
<1>1. UNCHANGED alertVars => UNCHANGED Alerts!vars
  BY DEF alertVars, Alerts!vars, Alerts!hostVars, Alerts!presenceVars, Alerts!workerVars,
         Alerts!worldVars
<1> QED
  BY <1>1 DEF PhonesNext, phonesVars

(* Every behaviour of the run is one of CommittedSync and one of PushOutbox. *)
THEOREM PartsImplemented == PhonesSpec => Spec /\ Alerts!Spec
<1>1. PhonesInit => Init /\ Alerts!Init
  BY DEF PhonesInit
<1> QED
  BY <1>1, PartStep, PTL DEF PhonesSpec, Spec, Alerts!Spec

LEMMA AlertsImplemented == PhonesSpec => AlertsProved!Spec
<1>1. Alerts!Init => AlertsProved!Init
  BY AlertsInit
<1>2. [Alerts!Next]_(Alerts!vars) => [AlertsProved!Next]_(AlertsProved!vars)
  BY AlertsNext, AlertsVars
<1> QED
  BY <1>1, <1>2, PartsImplemented, PTL DEF Alerts!Spec, AlertsProved!Spec

(* Of one event a phone is alerted through one registration, and again only  *)
(* when the Worker has no receipt of the last time (distribute, claim and    *)
(* receipt of services/push).                                                *)
THEOREM AlertedOnce == PhonesSpec => []AlertOnce
<1>1. AlertsProved!AlertOnce => AlertOnce
  BY AlertsAlertOnce DEF AlertOnce
<1> QED
  BY <1>1, AlertsImplemented, AlertsProved!AlertedOnce, PTL

(* No attempt begins for what the phone in use has shown, however late the   *)
(* report of it came.                                                        *)
THEOREM QuietWhenSeen == PhonesSpec => QuietOnceSeen
<1> DEFINE Alerting == \A a \in Alerts!Alert : request[a] = "none" /\ request'[a] # "none"
                           => a[1] \notin looked[Alerts!DeviceOf(a[2])]
           AlertingProved == \A a \in AlertsProved!Alert : request[a] = "none" /\ request'[a] # "none"
                           => a[1] \notin looked[AlertsProved!DeviceOf(a[2])]
<1>1. AlertsProved!Spec => [][AlertingProved]_(AlertsProved!vars)
  BY AlertsProved!QuietWhenSeen DEF AlertsProved!QuietOnceSeen
<1>2. [AlertingProved]_(AlertsProved!vars) => [Alerting]_(Alerts!vars)
  BY AlertsVars DEF Alerts!Alert, Alerts!Registration, Alerts!DeviceOf, AlertsProved!Alert,
         AlertsProved!Registration, AlertsProved!DeviceOf
<1> QED
  BY <1>1, <1>2, AlertsImplemented, PTL DEF QuietOnceSeen, Alerts!QuietOnceSeen

(* What is proved of CommittedSync holds of the run, too.                    *)
THEOREM PagesStayTrue == PhonesSpec => []MarkedWhenStale /\ ReadsAreSeen
BY PartsImplemented, StaleIsMarked, ClearedIsSeen, PTL
=============================================================================
