--------------------------- MODULE OutboundProofs ---------------------------
(***************************************************************************)
(* Theorems about OutboundTransfer for any files, sizes, chunk sizes,      *)
(* batches and number of chunk uploads at a time.                          *)
(***************************************************************************)
EXTENDS OutboundTransfer, SequenceTheorems, TLAPS

(* Where the state can be, part by part. *)

Step == {"idle", "parts", "put_write", "put_find", "put_row", "put_started", "announce",
         "write", "cleanup", "files_done", "drop_files", "drop_row"}
PutStep == {"put_write", "put_find", "put_row", "put_started"}
Purpose == {"none", "preparing", "cancelled", "failed", "completed", "delete", "local",
            "clear"}
ReqRecord == [step : Step, to : Purpose, file : Files \cup {"none"}, chunk : Nat]

\* Nothing ever waits for an acceptance, and so nothing is rejected.
RowsOK ==
    /\ status \in {"absent", "created", "preparing", "transferring", "cancelled", "failed",
                   "completed"}
    /\ started \in BOOLEAN
    /\ listed \in BOOLEAN
    /\ fileDone \subseteq batch

DiskOK ==
    /\ part \subseteq batch
    /\ staged \in [Files -> SUBSET Nat]
    /\ \A f \in Files : staged[f] \subseteq Chunks(f)
    /\ making \subseteq batch
    /\ early \in BOOLEAN

\* What a request carries fits its party and the step it has come to.
Fits(p, k) ==
    /\ k.step \in PutStep => p \in Puts /\ k.file \in batch /\ k.chunk \in Chunks(k.file)
    /\ k.step = "write" => k.to \in {"preparing", "cancelled", "failed", "completed"}
    /\ k.step \in {"drop_files", "drop_row"} =>
         p = "history" /\ k.to \in {"delete", "local", "clear"}
    /\ k.step \in {"parts", "announce"} => p = "sender"
    /\ k.step = "files_done" => k.to = "completed"
    /\ k.to \in {"delete", "local", "clear"} => p = "history"
    /\ k.to = "completed" => p = "socket"

ReqOK ==
    /\ req \in [Parties -> ReqRecord]
    /\ \A p \in Parties : Fits(p, req[p])

\* The page waits for the answer to a request of its own.
SenderOK ==
    /\ batch \in Batches
    /\ page \in {"new", "creating", "staging", "announcing", "waiting", "cancelling", "over"}
    /\ acked \in [Files -> SUBSET Nat]
    /\ \A f \in Files : acked[f] \subseteq Chunks(f)
    /\ heard \in BOOLEAN
    /\ req["sender"].step = "announce" => page = "announcing"
    /\ (req["sender"].step = "parts") <=> (page = "creating")

PhoneRecord == [at : {"idle", "loading", "over"}, todo : SUBSET Files,
                file : Files \cup {"none"}, next : Nat, holes : BOOLEAN, failed : BOOLEAN,
                cancelled : BOOLEAN]
Message == {"accept", "reject", "completed", "failed", "cancel"}

PeerOK ==
    /\ offer \subseteq batch \/ offer = NotOffered
    /\ phone \in PhoneRecord
    /\ phone.todo \subseteq batch /\ phone.file \in batch \cup {"none"}
    /\ kept \subseteq batch
    /\ wire \in Seq(Message)
    /\ lost \in BOOLEAN

TypeInv == RowsOK /\ DiskOK /\ ReqOK /\ SenderOK /\ PeerOK

-----------------------------------------------------------------------------
(* How a request moves. *)

LEMMA PartiesApart ==
    /\ Puts \subseteq Parties
    /\ {"sender", "phone", "history", "socket", "grace"} \subseteq Parties
    /\ \A r \in Puts : r \notin {"sender", "phone", "history", "socket", "grace"}
<1>1. Puts \cap {"sender", "phone", "history", "socket", "grace"} = {}
  BY OutboundAssumption
<1> QED BY <1>1, Zenon DEF Parties

LEMMA BatchOfFiles ==
  ASSUME batch \in Batches
  PROVE  batch \subseteq Files /\ "none" \notin batch /\ batch # {}
<1>1. batch \in (SUBSET Files) \ {{}} BY OutboundAssumption
<1>2. "none" \notin Files BY OutboundAssumption
<1> QED BY <1>1, <1>2

LEMMA IdleRecord == Idle \in ReqRecord
BY DEF Idle, ReqRecord, Step, Purpose

LEMMA DoingRecord ==
  ASSUME NEW step \in Step, NEW to \in Purpose
  PROVE  /\ Doing(step, to) \in ReqRecord
         /\ Doing(step, to).step = step
         /\ Doing(step, to).to = to
BY DEF Doing, Idle, ReqRecord, Step, Purpose

LEMMA BeginEffect ==
  ASSUME req \in [Parties -> ReqRecord], NEW p \in Parties, NEW rec \in ReqRecord,
         Begin(p, rec)
  PROVE  /\ req' \in [Parties -> ReqRecord]
         /\ req'[p] = rec
         /\ \A q \in Parties \ {p} : req'[q] = req[q]
         /\ req[p].step = "idle"
BY DEF Begin, Free, At

LEMMA FinishEffect ==
  ASSUME req \in [Parties -> ReqRecord], NEW p \in Parties, Finish(p)
  PROVE  /\ req' \in [Parties -> ReqRecord]
         /\ req'[p] = Idle
         /\ \A q \in Parties \ {p} : req'[q] = req[q]
BY IdleRecord DEF Finish

LEMMA GotoEffect ==
  ASSUME req \in [Parties -> ReqRecord], NEW p \in Parties, NEW step \in Step,
         Goto(p, step)
  PROVE  /\ req' \in [Parties -> ReqRecord]
         /\ req'[p].step = step
         /\ req'[p].to = req[p].to
         /\ req'[p].file = req[p].file
         /\ req'[p].chunk = req[p].chunk
         /\ \A q \in Parties \ {p} : req'[q] = req[q]
<1>1. req' = [req EXCEPT ![p] = [req[p] EXCEPT !.step = step]] BY DEF Goto
<1>2. [req[p] EXCEPT !.step = step] \in ReqRecord BY DEF ReqRecord
<1> QED BY <1>1, <1>2 DEF ReqRecord

-----------------------------------------------------------------------------
(* What each action leaves of TypeInv. *)

LEMMA InitTypes == Init => TypeInv
<1> SUFFICES ASSUME Init PROVE TypeInv OBVIOUS
<1> USE DEF Init
<1>1. RowsOK BY DEF RowsOK
<1>2. DiskOK BY DEF DiskOK
<1>3. ReqOK BY IdleRecord DEF ReqOK, Fits, Idle, PutStep
<1>4. SenderOK BY PartiesApart DEF SenderOK, Idle
<1>5. PeerOK
  <2>1. Asleep \in PhoneRecord BY DEF Asleep, PhoneRecord
  <2>2. <<>> \in Seq(Message) OBVIOUS
  <2> QED BY <2>1, <2>2 DEF PeerOK, Asleep
<1> QED BY <1>1, <1>2, <1>3, <1>4, <1>5 DEF TypeInv

\* No action changes the batch.
LEMMA BatchStays == [Next]_vars => UNCHANGED batch
BY Zenon DEF Next, vars, rows, disk, sender, peer, Page, CreateRows, CreateParts,
    OfferRead, OfferPush, GivesUp, HearsAccept, SenderCancels, Phone, NextFile,
    LeavesLoop, GetChunk, KeepFile, Report, OnMessage, Answer, OnFailed, OnCancel,
    OnCompleted, FilesDone, History, DropFiles, DropRow, Put, PutRead, PutWrite, PutFind,
    PutRow, PutStarted, Server, WriteStatus, Cleanup, PhoneAccepts, PhoneDeclines,
    PhoneCancels, GraceExpires, DeleteTransfer, DeleteLocal, ClearHistory, MoveDirectory,
    Terminated

LEMMA RowsKept == RowsOK /\ UNCHANGED <<rows, batch>> => RowsOK'
BY DEF RowsOK, rows

LEMMA DiskKept == DiskOK /\ UNCHANGED <<disk, batch>> => DiskOK'
BY DEF DiskOK, disk

LEMMA PeerKept == PeerOK /\ UNCHANGED <<peer, batch>> => PeerOK'
BY DEF PeerOK, peer

LEMMA ReqMoves ==
  ASSUME ReqOK, UNCHANGED batch, NEW p \in Parties, req' \in [Parties -> ReqRecord],
         \A q \in Parties \ {p} : req'[q] = req[q], Fits(p, req'[p])
  PROVE  ReqOK'
BY DEF ReqOK, Fits

LEMMA SenderMoves ==
  ASSUME SenderOK, UNCHANGED sender, NEW p \in Parties,
         \A q \in Parties \ {p} : req'[q] = req[q],
         p = "sender" => /\ req[p].step # "parts"
                         /\ req'[p].step \notin {"parts", "announce"}
  PROVE  SenderOK'
BY PartiesApart DEF SenderOK, sender

\* Who writes the rows, the disk and what the phone has.
LEMMA RowWriters ==
  [Next]_vars => \/ UNCHANGED rows
                 \/ CreateRows \/ FilesDone \/ DropFiles \/ DropRow
                 \/ \E r \in Puts : PutRow(r) \/ PutStarted(r)
                 \/ \E p \in Parties : WriteStatus(p)
BY Zenon DEF Next, vars, Page, CreateParts, OfferRead, OfferPush, GivesUp, HearsAccept,
    SenderCancels, Phone, NextFile, LeavesLoop, GetChunk, KeepFile, Report, OnMessage,
    Answer, OnFailed, OnCancel, OnCompleted, History, Put, PutRead, PutWrite, PutFind,
    Server, Cleanup, PhoneAccepts, PhoneDeclines, PhoneCancels, GraceExpires,
    DeleteTransfer, DeleteLocal, ClearHistory, MoveDirectory, Terminated

LEMMA DiskWriters ==
  [Next]_vars => \/ UNCHANGED disk
                 \/ CreateRows \/ CreateParts \/ MoveDirectory
                 \/ \E r \in Puts : PutWrite(r)
                 \/ \E p \in Parties : Cleanup(p)
BY Zenon DEF Next, vars, Page, OfferRead, OfferPush, GivesUp, HearsAccept,
    SenderCancels, Phone, NextFile, LeavesLoop, GetChunk, KeepFile, Report, OnMessage,
    Answer, OnFailed, OnCancel, OnCompleted, FilesDone, History, DropFiles, DropRow, Put,
    PutRead, PutFind, PutRow, PutStarted, Server, WriteStatus, PhoneAccepts,
    PhoneDeclines, PhoneCancels, GraceExpires, DeleteTransfer, DeleteLocal, ClearHistory,
    Terminated

LEMMA PeerWriters ==
  [Next]_vars => \/ UNCHANGED peer
                 \/ OfferPush \/ PhoneAccepts \/ PhoneDeclines \/ NextFile \/ LeavesLoop
                 \/ GetChunk \/ KeepFile \/ Report \/ PhoneCancels \/ OnMessage
BY Zenon DEF Next, vars, Page, CreateRows, CreateParts, OfferRead, GivesUp, HearsAccept,
    SenderCancels, Phone, FilesDone, History, DropFiles, DropRow, Put, PutRead, PutWrite,
    PutFind, PutRow, PutStarted, Server, WriteStatus, Cleanup, GraceExpires,
    DeleteTransfer, DeleteLocal, ClearHistory, MoveDirectory, Terminated

LEMMA RowsStep == TypeInv /\ [Next]_vars => RowsOK'
<1> SUFFICES ASSUME TypeInv, [Next]_vars PROVE RowsOK' OBVIOUS
<1> USE DEF TypeInv
<1>1. UNCHANGED batch BY BatchStays
<1>2. CASE UNCHANGED rows BY <1>1, <1>2, RowsKept
<1>3. CASE CreateRows BY <1>1, <1>3 DEF CreateRows, RowsOK
<1>4. CASE FilesDone BY <1>1, <1>4 DEF FilesDone, RowsOK
<1>5. CASE DropFiles BY <1>1, <1>5 DEF DropFiles, RowsOK
<1>6. CASE DropRow BY <1>1, <1>6 DEF DropRow, RowsOK
<1>7. ASSUME NEW r \in Puts, PutRow(r) PROVE RowsOK'
  BY <1>1, <1>7 DEF PutRow, RowsOK
<1>8. ASSUME NEW r \in Puts, PutStarted(r) PROVE RowsOK'
  BY <1>1, <1>8 DEF PutStarted, RowsOK
<1>9. ASSUME NEW p \in Parties, WriteStatus(p) PROVE RowsOK'
  <2>1. req[p].to \in {"preparing", "cancelled", "failed", "completed"}
    BY <1>9 DEF WriteStatus, At, ReqOK, Fits
  <2> QED BY <1>1, <1>9, <2>1 DEF WriteStatus, SetStatus, RowsOK
<1> QED BY <1>2, <1>3, <1>4, <1>5, <1>6, <1>7, <1>8, <1>9, RowWriters

LEMMA DiskStep == TypeInv /\ [Next]_vars => DiskOK'
<1> SUFFICES ASSUME TypeInv, [Next]_vars PROVE DiskOK' OBVIOUS
<1> USE DEF TypeInv
<1>1. UNCHANGED batch BY BatchStays
<1>2. CASE UNCHANGED disk BY <1>1, <1>2, DiskKept
<1>3. CASE CreateRows \/ CreateParts BY <1>1, <1>3 DEF CreateRows, CreateParts, DiskOK
<1>4. CASE MoveDirectory BY <1>1, <1>4 DEF MoveDirectory, DiskOK
<1>5. ASSUME NEW r \in Puts, PutWrite(r) PROVE DiskOK'
  <2>1. req[r].file \in Files /\ req[r].chunk \in Chunks(req[r].file)
    BY <1>5, PartiesApart, BatchOfFiles DEF PutWrite, At, ReqOK, Fits, PutStep, SenderOK
  <2>2. req[r].chunk \in Nat BY PartiesApart DEF ReqOK, ReqRecord
  <2> QED BY <1>1, <1>5, <2>1, <2>2 DEF PutWrite, DiskOK
<1>6. ASSUME NEW p \in Parties, Cleanup(p) PROVE DiskOK'
  BY <1>1, <1>6 DEF Cleanup, DropStaged, DiskOK
<1> QED BY <1>2, <1>3, <1>4, <1>5, <1>6, DiskWriters

LEMMA MessageTaken ==
  ASSUME wire \in Seq(Message), NEW m, Take(m)
  PROVE  wire' \in Seq(Message)
<1>1. wire # <<>> /\ wire' = Tail(wire) BY DEF Take
<1> QED BY <1>1, HeadTailProperties

LEMMA MessageSaid ==
  ASSUME wire \in Seq(Message), lost \in BOOLEAN, NEW m \in Message, Say(m)
  PROVE  wire' \in Seq(Message) /\ lost' \in BOOLEAN
<1>1. Append(wire, m) \in Seq(Message) BY AppendProperties
<1> QED BY <1>1, Zenon DEF Say

\* Where the phone is after a file it kept or gave up, and at the end.
LEMMA LeaveEffect ==
  ASSUME phone \in PhoneRecord, NEW failed \in BOOLEAN, Leave(failed)
  PROVE  /\ phone' \in PhoneRecord
         /\ phone'.at = phone.at /\ phone'.todo = phone.todo
         /\ phone'.file = "none" /\ phone'.holes = FALSE
         /\ phone'.failed = (phone.failed \/ failed)
BY DEF Leave, PhoneRecord

LEMMA DoneRecord ==
  /\ Done \in PhoneRecord
  /\ Done.at = "over" /\ Done.todo = {} /\ Done.file = "none" /\ Done.holes = FALSE
BY DEF Done, Asleep, PhoneRecord

\* A download makes headway, or the file is given up.
LEMMA GetChunkEffect ==
  ASSUME phone \in PhoneRecord, GetChunk
  PROVE  \/ \E h \in BOOLEAN : phone' = [phone EXCEPT !.next = phone.next + 1, !.holes = h]
         \/ Leave(TRUE)
<1> DEFINE asked == Asked(phone.file, phone.next)
           got == ParseRange("closed", asked.first, asked.last, Size[phone.file])
           whole == \A b \in asked.first .. asked.last :
                       b \div ChunkSize \in staged[phone.file]
           holed == phone.holes \/ ~whole \/ got.first # asked.first
<1>1. \/ phone' = [phone EXCEPT !.next = phone.next + 1, !.holes = holed]
      \/ Leave(TRUE)
  BY Zenon DEF GetChunk
<1>2. holed \in BOOLEAN OBVIOUS
<1> HIDE DEF holed
<1> QED BY <1>1, <1>2, Zenon

LEMMA PeerStep == TypeInv /\ [Next]_vars => PeerOK'
<1> SUFFICES ASSUME TypeInv, [Next]_vars PROVE PeerOK' OBVIOUS
<1> USE DEF TypeInv
<1>1. UNCHANGED batch /\ batch \subseteq Files /\ "none" \notin batch
  BY BatchStays, BatchOfFiles DEF SenderOK
<1>2. CASE UNCHANGED peer BY <1>1, <1>2, PeerKept
<1>3. CASE OfferPush BY <1>1, <1>3 DEF OfferPush, PeerOK
<1>4. CASE PhoneAccepts
  <2>1. offer \subseteq batch BY <1>4 DEF PhoneAccepts, PeerOK
  <2>2. phone' = [[phone EXCEPT !.at = "loading"] EXCEPT !.todo = offer]
    BY <1>4 DEF PhoneAccepts
  <2>3. phone' \in PhoneRecord /\ phone'.todo = offer /\ phone'.file = phone.file
    BY <1>1, <2>1, <2>2 DEF PeerOK, PhoneRecord
  <2>4. wire' \in Seq(Message) BY <1>4 DEF PhoneAccepts, PeerOK, Message
  <2> QED BY <1>1, <1>4, <2>1, <2>3, <2>4 DEF PhoneAccepts, PeerOK
<1>5. CASE PhoneDeclines
  <2>1. phone' \in PhoneRecord /\ phone'.todo = {} /\ phone'.file = "none"
    BY <1>5, DoneRecord DEF PhoneDeclines
  <2>2. wire' \in Seq(Message) /\ lost' \in BOOLEAN
    BY <1>5, MessageSaid DEF PhoneDeclines, PeerOK, Message
  <2> QED BY <1>1, <1>5, <2>1, <2>2 DEF PhoneDeclines, PeerOK
<1>6. CASE NextFile
  <2>1. PICK f \in phone.todo :
          phone' = [phone EXCEPT !.todo = @ \ {f}, !.file = f]
    BY <1>6 DEF NextFile
  <2>2. phone' \in PhoneRecord /\ phone'.todo = phone.todo \ {f} /\ phone'.file = f
    BY <2>1 DEF PeerOK, PhoneRecord
  <2> QED BY <1>1, <1>6, <2>2 DEF NextFile, PeerOK
<1>7. CASE GetChunk
  <2>1. /\ phone' \in PhoneRecord
        /\ phone'.todo = phone.todo
        /\ phone'.file \in {phone.file, "none"}
    <3>1. ASSUME NEW h \in BOOLEAN,
                 phone' = [phone EXCEPT !.next = phone.next + 1, !.holes = h]
          PROVE  phone' \in PhoneRecord /\ phone'.todo = phone.todo /\ phone'.file = phone.file
      <4>1. phone.next + 1 \in Nat BY DEF PeerOK, PhoneRecord
      <4>2. ASSUME NEW n \in Nat
            PROVE  [phone EXCEPT !.next = n, !.holes = h] \in PhoneRecord
        BY DEF PeerOK, PhoneRecord
      <4> QED BY <3>1, <4>1, <4>2 DEF PeerOK, PhoneRecord
    <3>2. CASE Leave(TRUE) BY <3>2, LeaveEffect DEF PeerOK
    <3> QED BY <1>7, <3>1, <3>2, GetChunkEffect DEF PeerOK
  <2> QED BY <1>1, <1>7, <2>1 DEF GetChunk, PeerOK
<1>8. CASE KeepFile
  <2>1. /\ phone' \in PhoneRecord
        /\ phone'.todo = phone.todo
        /\ phone'.file = "none"
    BY <1>8, LeaveEffect DEF KeepFile, PeerOK
  <2> QED BY <1>1, <1>8, <2>1 DEF KeepFile, PeerOK
<1>9. CASE Report
  <2>1. phone' \in PhoneRecord /\ phone'.todo = {} /\ phone'.file = "none"
    BY <1>9, DoneRecord DEF Report
  <2>2. wire' \in Seq(Message) /\ lost' \in BOOLEAN
    BY <1>9, MessageSaid DEF Report, PeerOK, Message
  <2> QED BY <1>1, <1>9, <2>1, <2>2 DEF Report, PeerOK
<1>10. CASE PhoneCancels
  <2>1. /\ phone' \in PhoneRecord
        /\ phone'.todo = phone.todo
        /\ phone'.file = phone.file
    BY <1>10 DEF PhoneCancels, PeerOK, PhoneRecord
  <2>2. wire' \in Seq(Message) /\ lost' \in BOOLEAN
    BY <1>10, MessageSaid DEF PhoneCancels, PeerOK, Message
  <2> QED BY <1>1, <1>10, <2>1, <2>2 DEF PhoneCancels, PeerOK
<1>11. CASE OnMessage
  <2>1. wire' \in Seq(Message)
    BY <1>11, MessageTaken DEF OnMessage, Answer, OnFailed, OnCancel, OnCompleted, PeerOK
  <2>2. UNCHANGED <<offer, phone, kept, lost>>
    BY <1>11, Zenon DEF OnMessage, Answer, OnFailed, OnCancel, OnCompleted
  <2> QED BY <1>1, <2>1, <2>2 DEF PeerOK
<1>12. CASE LeavesLoop BY <1>1, <1>12, DoneRecord DEF LeavesLoop, PeerOK
<1> QED BY <1>2, <1>3, <1>4, <1>5, <1>6, <1>7, <1>8, <1>9, <1>10, <1>11, <1>12, PeerWriters

-----------------------------------------------------------------------------
(* The requests. *)

LEMMA Begun ==
  ASSUME ReqOK, UNCHANGED batch, NEW p \in Parties, NEW step \in Step, NEW to \in Purpose,
         Begin(p, Doing(step, to)), Fits(p, Doing(step, to))
  PROVE  /\ ReqOK'
         /\ req'[p].step = step /\ req'[p].to = to
         /\ \A q \in Parties \ {p} : req'[q] = req[q]
         /\ req[p].step = "idle"
BY DoingRecord, BeginEffect, ReqMoves DEF ReqOK

LEMMA Finished ==
  ASSUME ReqOK, UNCHANGED batch, NEW p \in Parties, Finish(p)
  PROVE  /\ ReqOK'
         /\ req'[p] = Idle
         /\ \A q \in Parties \ {p} : req'[q] = req[q]
<1>1. Fits(p, Idle) BY DEF Fits, Idle, PutStep
<1> QED BY <1>1, FinishEffect, ReqMoves DEF ReqOK

LEMMA Went ==
  ASSUME ReqOK, UNCHANGED batch, NEW p \in Parties, NEW step \in Step, Goto(p, step),
         step \in PutStep => req[p].step \in PutStep,
         step = "write" => req[p].step = "files_done",
         step \in {"drop_files", "drop_row"} =>
            p = "history" /\ req[p].to \in {"delete", "local", "clear"},
         step \notin {"parts", "announce", "files_done"}
  PROVE  /\ ReqOK'
         /\ req'[p].step = step /\ req'[p].to = req[p].to
         /\ req'[p].file = req[p].file /\ req'[p].chunk = req[p].chunk
         /\ \A q \in Parties \ {p} : req'[q] = req[q]
<1>1. /\ req' \in [Parties -> ReqRecord]
      /\ req'[p].step = step /\ req'[p].to = req[p].to
      /\ req'[p].file = req[p].file /\ req'[p].chunk = req[p].chunk
      /\ \A q \in Parties \ {p} : req'[q] = req[q]
  BY GotoEffect DEF ReqOK
<1>2. Fits(p, req'[p])
  <2>1. Fits(p, req[p]) BY DEF ReqOK
  <2> QED BY <1>1, <2>1 DEF Fits
<1> QED BY <1>1, <1>2, ReqMoves

LEMMA CancelReadBegins ==
  ASSUME ReqOK, UNCHANGED batch, NEW p \in Parties, CancelRead(p)
  PROVE  /\ ReqOK'
         /\ \A q \in Parties \ {p} : req'[q] = req[q]
         /\ req'[p] = req[p] \/ (req'[p].step = "write" /\ req'[p].to = "cancelled")
         /\ req[p].step = "idle"
<1>1. CASE Live
  <2>1. Begin(p, Doing("write", "cancelled")) BY <1>1 DEF CancelRead
  <2>2. Fits(p, Doing("write", "cancelled")) BY DEF Fits, Doing, Idle, PutStep
  <2> QED BY <2>1, <2>2, Begun DEF Step, Purpose
<1>2. CASE ~Live BY <1>2 DEF CancelRead, Free, At, ReqOK, Fits
<1> QED BY <1>1, <1>2

\* The reader of the socket takes one message and may begin a request.
LEMMA OnMessageBegins ==
  ASSUME TypeInv, OnMessage, UNCHANGED batch
  PROVE  /\ ReqOK'
         /\ wire # <<>> /\ wire' = Tail(wire)
         /\ \A q \in Parties \ {"socket"} : req'[q] = req[q]
         /\ req["socket"].step = "idle"
         /\ \/ req'["socket"] = req["socket"]
            \/ /\ req'["socket"].step = "write"
               /\ req'["socket"].to \in {"preparing", "failed", "cancelled"}
            \/ /\ req'["socket"].step = "files_done"
               /\ req'["socket"].to = "completed"
               /\ Head(wire) = "completed"
<1> USE DEF TypeInv
<1> DEFINE Same == ReqOK /\ Free("socket") /\ UNCHANGED req
<1>1. "socket" \in Parties BY PartiesApart
<1>2. Same => /\ ReqOK'
              /\ \A q \in Parties \ {"socket"} : req'[q] = req[q]
              /\ req["socket"].step = "idle"
              /\ req'["socket"] = req["socket"]
  BY DEF ReqOK, Free, At, Fits
<1>3. ASSUME NEW to \in {"preparing", "failed", "cancelled"},
             Begin("socket", Doing("write", to))
      PROVE  /\ ReqOK'
             /\ \A q \in Parties \ {"socket"} : req'[q] = req[q]
             /\ req["socket"].step = "idle"
             /\ req'["socket"].step = "write" /\ req'["socket"].to = to
  <2>1. Fits("socket", Doing("write", to)) BY DEF Fits, Doing, Idle, PutStep
  <2> QED BY <1>1, <1>3, <2>1, Begun DEF Step, Purpose
<1>4. CASE Answer("accept", "preparing")
  <2>1. wire # <<>> /\ wire' = Tail(wire) BY <1>4 DEF Answer, Take
  <2>2. Same \/ Begin("socket", Doing("write", "preparing"))
    BY <1>4 DEF Answer
  <2> QED BY <1>2, <1>3, <2>1, <2>2
<1>5. CASE Answer("reject", "rejected")
  <2>1. wire # <<>> /\ wire' = Tail(wire) BY <1>5 DEF Answer, Take
  <2>2. Same BY <1>5 DEF Answer, RowsOK, CanTransition, ValidTransitions, Exists
  <2> QED BY <1>2, <2>1, <2>2
<1>6. CASE OnFailed
  <2>1. wire # <<>> /\ wire' = Tail(wire) BY <1>6 DEF OnFailed, Take
  <2>2. Same \/ Begin("socket", Doing("write", "failed")) BY <1>6 DEF OnFailed
  <2> QED BY <1>2, <1>3, <2>1, <2>2
<1>7. CASE OnCancel
  <2>1. wire # <<>> /\ wire' = Tail(wire) BY <1>7 DEF OnCancel, Take
  <2>2. Same \/ Begin("socket", Doing("write", "cancelled"))
    BY <1>7 DEF OnCancel, CancelRead
  <2> QED BY <1>2, <1>3, <2>1, <2>2
<1>8. CASE OnCompleted
  <2>1. wire # <<>> /\ wire' = Tail(wire) /\ Head(wire) = "completed"
    BY <1>8 DEF OnCompleted, Take
  <2>2. Same \/ Begin("socket", Doing("files_done", "completed"))
    BY <1>8 DEF OnCompleted
  <2>3. Fits("socket", Doing("files_done", "completed"))
    BY DEF Fits, Doing, Idle, PutStep
  <2>4. CASE Begin("socket", Doing("files_done", "completed"))
    BY <1>1, <2>1, <2>3, <2>4, Begun DEF Step, Purpose
  <2> QED BY <1>2, <2>1, <2>2, <2>4
<1> QED BY <1>4, <1>5, <1>6, <1>7, <1>8 DEF OnMessage

\* The requests after any step.
LEMMA ReqStep == TypeInv /\ [Next]_vars => ReqOK'
<1> SUFFICES ASSUME TypeInv, [Next]_vars PROVE ReqOK' OBVIOUS
<1> USE DEF TypeInv
<1>1. UNCHANGED batch BY BatchStays
<1>2. UNCHANGED req => ReqOK' BY <1>1 DEF ReqOK, Fits
<1>3. ASSUME NEW p \in Parties, NEW step \in Step, NEW to \in Purpose,
             Begin(p, Doing(step, to)), Fits(p, Doing(step, to))
      PROVE  ReqOK'
  BY <1>1, <1>3, Begun
<1>4. ASSUME NEW p \in Parties, CancelRead(p) PROVE ReqOK'
  BY <1>1, <1>4, CancelReadBegins
<1>5. ASSUME NEW p \in Parties, Finish(p) PROVE ReqOK'
  BY <1>1, <1>5, Finished
<1>6. CASE Page
  <2>1. CASE CreateRows
    <3>1. Fits("sender", Doing("parts", "none")) BY DEF Fits, Doing, Idle, PutStep
    <3> QED BY <2>1, <3>1, <1>3, PartiesApart DEF CreateRows, Step, Purpose
  <2>2. CASE CreateParts BY <2>2, <1>2, <1>5, PartiesApart DEF CreateParts
  <2>3. CASE OfferRead
    <3>1. Fits("sender", Doing("announce", "none")) BY DEF Fits, Doing, Idle, PutStep
    <3> QED BY <2>3, <3>1, <1>2, <1>3, PartiesApart DEF OfferRead, Step, Purpose
  <2>4. CASE OfferPush BY <2>4, <1>5, PartiesApart DEF OfferPush
  <2>5. CASE GivesUp BY <2>5, <1>2 DEF GivesUp
  <2>6. CASE HearsAccept BY <2>6, <1>2 DEF HearsAccept
  <2>7. CASE SenderCancels BY <2>7, <1>4, PartiesApart DEF SenderCancels
  <2> QED BY <1>6, <2>1, <2>2, <2>3, <2>4, <2>5, <2>6, <2>7 DEF Page
<1>7. CASE Phone BY <1>7, <1>2 DEF Phone, NextFile, LeavesLoop, GetChunk, KeepFile, Report
<1>8. CASE OnMessage BY <1>8, <1>1, OnMessageBegins
<1>9. CASE FilesDone
  BY <1>9, <1>1, Went, PartiesApart DEF FilesDone, At, Step, PutStep
<1>10. CASE History
  <2>1. CASE DropFiles
    <3>1. req["history"].to \in {"delete", "local", "clear"}
      BY <2>1, PartiesApart DEF DropFiles, At, ReqOK, Fits
    <3> QED BY <2>1, <3>1, <1>1, Went, PartiesApart DEF DropFiles, At, Step, PutStep
  <2>2. CASE DropRow BY <2>2, <1>5, PartiesApart DEF DropRow
  <2> QED BY <1>10, <2>1, <2>2 DEF History
<1>11. ASSUME NEW r \in Puts, Put(r) PROVE ReqOK'
  <2>1. CASE PutRead(r)
    <3>1. PICK f \in batch : \E c \in Chunks(f) \ acked[f] :
            Begin(r, [Idle EXCEPT !.step = "put_write", !.file = f, !.chunk = c])
      BY <2>1 DEF PutRead
    <3>2. PICK c \in Chunks(f) :
            Begin(r, [Idle EXCEPT !.step = "put_write", !.file = f, !.chunk = c])
      BY <3>1
    <3> DEFINE rec == [Idle EXCEPT !.step = "put_write", !.file = f, !.chunk = c]
    <3>3. f \in Files /\ c \in Nat BY BatchOfFiles DEF Chunks, SenderOK
    <3>4. /\ rec \in ReqRecord
          /\ rec.step = "put_write" /\ rec.to = "none" /\ rec.file = f /\ rec.chunk = c
      BY <3>3 DEF Idle, ReqRecord, Step, Purpose
    <3>5. Begin(r, rec) BY <3>2
    <3> HIDE DEF rec
    <3>6. Fits(r, rec) BY <3>4 DEF Fits
    <3> QED BY <1>1, <3>4, <3>5, <3>6, BeginEffect, ReqMoves, PartiesApart DEF ReqOK
  <2>2. CASE PutWrite(r)
    BY <2>2, <1>1, <1>5, Went, PartiesApart DEF PutWrite, At, Step, PutStep
  <2>3. CASE PutFind(r)
    BY <2>3, <1>1, <1>5, Went, PartiesApart DEF PutFind, At, Step, PutStep
  <2>4. CASE PutRow(r)
    BY <2>4, <1>1, Went, PartiesApart DEF PutRow, At, Step, PutStep
  <2>5. CASE PutStarted(r) BY <2>5, <1>5, PartiesApart DEF PutStarted
  <2> QED BY <1>11, <2>1, <2>2, <2>3, <2>4, <2>5 DEF Put
<1>12. ASSUME NEW p \in Parties, Server(p) PROVE ReqOK'
  <2>1. CASE WriteStatus(p)
    BY <2>1, <1>1, <1>5, Went DEF WriteStatus, At, Step, PutStep
  <2>2. CASE Cleanup(p)
    <3>1. req[p].to = "delete" => p = "history" BY DEF ReqOK, Fits
    <3> QED BY <2>2, <3>1, <1>1, <1>5, Went DEF Cleanup, At, Step, PutStep
  <2> QED BY <1>12, <2>1, <2>2 DEF Server
<1>13. CASE PhoneAccepts BY <1>13, <1>2 DEF PhoneAccepts
<1>14. CASE PhoneDeclines BY <1>14, <1>2 DEF PhoneDeclines
<1>15. CASE PhoneCancels BY <1>15, <1>2, <1>4, PartiesApart DEF PhoneCancels
<1>16. CASE GraceExpires
  <2>1. Fits("grace", Doing("write", "failed")) BY DEF Fits, Doing, Idle, PutStep
  <2> QED BY <1>16, <2>1, <1>3, PartiesApart DEF GraceExpires, Step, Purpose
<1>17. CASE DeleteTransfer
  <2>1. Fits("history", Doing("cleanup", "delete")) BY DEF Fits, Doing, Idle, PutStep
  <2> QED BY <1>17, <2>1, <1>3, PartiesApart DEF DeleteTransfer, Step, Purpose
<1>18. CASE DeleteLocal
  <2>1. Fits("history", Doing("drop_files", "local")) BY DEF Fits, Doing, Idle, PutStep
  <2> QED BY <1>18, <2>1, <1>3, PartiesApart DEF DeleteLocal, Step, Purpose
<1>19. CASE ClearHistory
  <2>1. Fits("history", Doing("drop_files", "clear")) BY DEF Fits, Doing, Idle, PutStep
  <2> QED BY <1>19, <2>1, <1>3, PartiesApart DEF ClearHistory, Step, Purpose
<1>20. CASE MoveDirectory BY <1>20, <1>2 DEF MoveDirectory
<1>21. CASE UNCHANGED vars BY <1>21, <1>2 DEF vars
<1> QED
  BY <1>6, <1>7, <1>8, <1>9, <1>10, <1>11, <1>12, <1>13, <1>14, <1>15, <1>16, <1>17,
     <1>18, <1>19, <1>20, <1>21 DEF Next, Terminated

\* What the page knows after any step.
LEMMA SenderStep == TypeInv /\ [Next]_vars => SenderOK'
<1> SUFFICES ASSUME TypeInv, [Next]_vars PROVE SenderOK' OBVIOUS
<1> USE DEF TypeInv
<1>1. UNCHANGED batch BY BatchStays
<1>2. "sender" \in Parties BY PartiesApart
<1>3. UNCHANGED <<sender, req>> => SenderOK' BY DEF SenderOK, sender
<1>4. ASSUME NEW p \in Parties \ {"sender"}, UNCHANGED sender,
             \A q \in Parties \ {p} : req'[q] = req[q]
      PROVE  SenderOK'
  BY <1>4, SenderMoves
<1>5. CASE Page
  <2>1. CASE CreateRows
    <3>1. req'["sender"].step = "parts"
      BY <2>1, <1>2, BeginEffect, DoingRecord DEF CreateRows, ReqOK, Step, Purpose
    <3> QED BY <2>1, <3>1 DEF CreateRows, SenderOK
  <2>2. CASE CreateParts
    <3>1. CASE Finish("sender") /\ page' = "staging"
      <4>1. req'["sender"].step = "idle" BY <3>1, <1>2, FinishEffect DEF ReqOK, Idle
      <4> QED BY <2>2, <3>1, <4>1 DEF CreateParts, SenderOK
    <3>2. CASE UNCHANGED <<req, page>> BY <2>2, <3>2 DEF CreateParts, SenderOK
    <3> QED BY <2>2, <3>1, <3>2 DEF CreateParts
  <2>3. CASE OfferRead
    <3>1. CASE Exists
      <4>1. req'["sender"].step = "announce"
        BY <2>3, <3>1, <1>2, BeginEffect, DoingRecord DEF OfferRead, ReqOK, Step, Purpose
      <4> QED BY <2>3, <3>1, <4>1 DEF OfferRead, SenderOK
    <3>2. CASE ~Exists BY <2>3, <3>2 DEF OfferRead, SenderOK
    <3> QED BY <3>1, <3>2
  <2>4. CASE OfferPush
    <3>1. req'["sender"].step = "idle"
      BY <2>4, <1>2, FinishEffect DEF OfferPush, ReqOK, Idle
    <3>2. page = "announcing" BY <2>4 DEF OfferPush, At, SenderOK
    <3> QED BY <2>4, <3>1, <3>2 DEF OfferPush, SenderOK
  <2>5. CASE GivesUp BY <2>5 DEF GivesUp, SenderOK
  <2>6. CASE HearsAccept BY <2>6 DEF HearsAccept, SenderOK
  <2>7. CASE SenderCancels
    <3>1. req'["sender"].step \notin {"parts", "announce"}
      BY <2>7, <1>1, <1>2, CancelReadBegins DEF SenderCancels
    <3> QED BY <2>7, <3>1 DEF SenderCancels, SenderOK
  <2> QED BY <1>5, <2>1, <2>2, <2>3, <2>4, <2>5, <2>6, <2>7 DEF Page
<1>6. CASE Phone BY <1>6, <1>3 DEF Phone, NextFile, LeavesLoop, GetChunk, KeepFile, Report
<1>7. CASE OnMessage
  <2>1. UNCHANGED sender
    BY <1>7, Zenon DEF OnMessage, Answer, OnFailed, OnCancel, OnCompleted
  <2> QED BY <1>7, <2>1, <1>1, <1>4, OnMessageBegins, PartiesApart
<1>8. CASE FilesDone
  BY <1>8, <1>4, GotoEffect, PartiesApart DEF FilesDone, ReqOK, Step
<1>9. CASE History
  BY <1>9, <1>4, GotoEffect, FinishEffect, PartiesApart
  DEF History, DropFiles, DropRow, ReqOK, Step
<1>10. ASSUME NEW r \in Puts, Put(r) PROVE SenderOK'
  <2>1. r \in Parties \ {"sender"} BY PartiesApart
  <2>2. CASE PutRead(r)
    <3>1. UNCHANGED sender /\ \A q \in Parties \ {r} : req'[q] = req[q]
      BY <2>1, <2>2 DEF PutRead, Begin, ReqOK
    <3> QED BY <2>1, <3>1, <1>4
  <2>3. CASE PutWrite(r)
    BY <2>1, <2>3, <1>4, GotoEffect, FinishEffect DEF PutWrite, ReqOK, Step
  <2>4. CASE PutFind(r)
    BY <2>1, <2>4, <1>4, GotoEffect, FinishEffect DEF PutFind, ReqOK, Step
  <2>5. CASE PutRow(r) BY <2>1, <2>5, <1>4, GotoEffect DEF PutRow, ReqOK, Step
  <2>6. CASE PutStarted(r)
    <3>1. req'["sender"] = req["sender"]
      BY <2>1, <2>6, <1>2, FinishEffect DEF PutStarted, ReqOK
    <3>2. req[r].file \in Files /\ req[r].chunk \in Chunks(req[r].file)
      BY <2>6, PartiesApart, BatchOfFiles DEF PutStarted, At, ReqOK, Fits, PutStep, SenderOK
    <3>3. req[r].chunk \in Nat BY PartiesApart DEF ReqOK, ReqRecord
    <3>4. /\ acked' \in [Files -> SUBSET Nat]
          /\ \A f \in Files : acked'[f] \subseteq Chunks(f)
      BY <2>6, <3>2, <3>3 DEF PutStarted, SenderOK
    <3> QED BY <2>6, <3>1, <3>4 DEF PutStarted, SenderOK
  <2> QED BY <1>10, <2>2, <2>3, <2>4, <2>5, <2>6 DEF Put
<1>11. ASSUME NEW p \in Parties, Server(p) PROVE SenderOK'
  <2>1. CASE WriteStatus(p)
    <3>1. /\ \A q \in Parties \ {p} : req'[q] = req[q]
          /\ req'[p].step \in {"idle", "cleanup"}
      BY <2>1, GotoEffect, FinishEffect DEF WriteStatus, ReqOK, Step, Idle
    <3> QED BY <2>1, <3>1, <1>2 DEF WriteStatus, At, SenderOK
  <2>2. CASE Cleanup(p)
    <3>1. /\ \A q \in Parties \ {p} : req'[q] = req[q]
          /\ req'[p].step \in {"idle", "drop_files"}
      BY <2>2, GotoEffect, FinishEffect DEF Cleanup, ReqOK, Step, Idle
    <3> QED BY <2>2, <3>1, SenderMoves DEF Cleanup, At
  <2> QED BY <1>11, <2>1, <2>2 DEF Server
<1>12. CASE PhoneAccepts BY <1>12, <1>3 DEF PhoneAccepts
<1>13. CASE PhoneDeclines BY <1>13, <1>3 DEF PhoneDeclines
<1>14. CASE PhoneCancels
  BY <1>14, <1>1, <1>3, <1>4, CancelReadBegins, PartiesApart DEF PhoneCancels
<1>15. CASE GraceExpires
  BY <1>15, <1>4, BeginEffect, DoingRecord, PartiesApart
  DEF GraceExpires, ReqOK, Step, Purpose
<1>16. CASE DeleteTransfer \/ DeleteLocal \/ ClearHistory
  BY <1>16, <1>4, BeginEffect, DoingRecord, PartiesApart
  DEF DeleteTransfer, DeleteLocal, ClearHistory, ReqOK, Step, Purpose
<1>17. CASE MoveDirectory BY <1>17, <1>3 DEF MoveDirectory
<1>18. CASE UNCHANGED vars BY <1>18, <1>3 DEF vars
<1> QED
  BY <1>5, <1>6, <1>7, <1>8, <1>9, <1>10, <1>11, <1>12, <1>13, <1>14, <1>15, <1>16, <1>17,
     <1>18 DEF Next, Terminated

LEMMA TypesStay == TypeInv /\ [Next]_vars => TypeInv'
BY RowsStep, DiskStep, ReqStep, SenderStep, PeerStep DEF TypeInv

\* The answer to POST /transfers comes with the last .part.
LEMMA PartsFacts ==
  ASSUME TypeInv, CreateParts
  PROVE  /\ page = "creating" /\ page' \in {"creating", "staging"}
         /\ UNCHANGED <<acked, batch, rows>>
         /\ req' = req \/ Finish("sender")
BY DEF CreateParts, At, TypeInv, SenderOK

LEMMA TypesHold == Spec => []TypeInv
BY InitTypes, TypesStay, PTL DEF Spec

\* Type correctness, for any batch, sizes and number of chunk uploads: no chunk lies
\* outside its file, and every request, disk file and download is one of the batch.
THEOREM OutboundTypes == Spec => []TypeOK
<1>1. TypeInv => TypeOK
  BY DEF TypeInv, TypeOK, RowsOK, DiskOK, ReqOK, SenderOK, PeerOK, Status, ReqRecord, Step,
         Purpose, PhoneRecord, Message
<1> QED BY <1>1, TypesHold, PTL

-----------------------------------------------------------------------------
(* What was sent is what was delivered. *)

\* A request is moved by its own party, and by the server for it.
MovedBy(p) ==
    \/ Server(p)
    \/ p \in Puts /\ Put(p)
    \/ p = "sender" /\ Page
    \/ p = "phone" /\ PhoneCancels
    \/ p = "socket" /\ (OnMessage \/ FilesDone)
    \/ p = "grace" /\ GraceExpires
    \/ p = "history" /\ (DeleteTransfer \/ DeleteLocal \/ ClearHistory \/ History)

LEMMA OwnMoves ==
  ASSUME TypeInv, [Next]_vars, NEW p \in Parties
  PROVE  req'[p] = req[p] \/ MovedBy(p)
<1> USE DEF TypeInv
<1>1. SUFFICES ASSUME ~MovedBy(p) PROVE req'[p] = req[p] OBVIOUS
<1>2. req \in [Parties -> ReqRecord] BY DEF ReqOK
<1>3. ASSUME NEW q \in Parties \ {p}, NEW rec \in ReqRecord, Begin(q, rec)
      PROVE  req'[p] = req[p]
  BY <1>2, <1>3, BeginEffect
<1>4. ASSUME NEW q \in Parties \ {p}, NEW step \in Step, Goto(q, step)
      PROVE  req'[p] = req[p]
  BY <1>2, <1>4, GotoEffect
<1>5. ASSUME NEW q \in Parties \ {p}, Finish(q) PROVE req'[p] = req[p]
  BY <1>2, <1>5, FinishEffect
<1>6. ASSUME NEW q \in Parties \ {p}, CancelRead(q) PROVE req'[p] = req[p]
  BY <1>3, <1>6, DoingRecord DEF CancelRead, Step, Purpose
<1>7. CASE Page
  BY <1>1, <1>3, <1>5, <1>6, <1>7, DoingRecord, PartiesApart
  DEF MovedBy, Page, CreateRows, CreateParts, OfferRead, OfferPush, GivesUp, HearsAccept,
      SenderCancels, Step, Purpose
<1>8. CASE Phone BY <1>8 DEF Phone, NextFile, LeavesLoop, GetChunk, KeepFile, Report
<1>9. CASE OnMessage
  BY <1>1, <1>9, OnMessageBegins, BatchStays, PartiesApart DEF MovedBy
<1>10. CASE FilesDone BY <1>1, <1>4, <1>10, PartiesApart DEF MovedBy, FilesDone, Step
<1>11. CASE History
  BY <1>1, <1>4, <1>5, <1>11, PartiesApart DEF MovedBy, History, DropFiles, DropRow, Step
<1>12. ASSUME NEW r \in Puts, Put(r) PROVE req'[p] = req[p]
  <2>1. r \in Parties \ {p} BY <1>1, <1>12, PartiesApart DEF MovedBy
  <2>2. CASE PutRead(r) BY <1>2, <2>1, <2>2 DEF PutRead, Begin
  <2>3. CASE PutWrite(r) BY <1>4, <1>5, <2>1, <2>3 DEF PutWrite, Step
  <2>4. CASE PutFind(r) BY <1>4, <1>5, <2>1, <2>4 DEF PutFind, Step
  <2>5. CASE PutRow(r) BY <1>4, <2>1, <2>5 DEF PutRow, Step
  <2>6. CASE PutStarted(r) BY <1>5, <2>1, <2>6 DEF PutStarted
  <2> QED BY <1>12, <2>2, <2>3, <2>4, <2>5, <2>6 DEF Put
<1>13. ASSUME NEW q \in Parties, Server(q) PROVE req'[p] = req[p]
  <2>1. q \in Parties \ {p} BY <1>1, <1>13 DEF MovedBy
  <2> QED BY <1>4, <1>5, <1>13, <2>1 DEF Server, WriteStatus, Cleanup, Step
<1>14. CASE PhoneAccepts BY <1>14 DEF PhoneAccepts
<1>15. CASE PhoneDeclines BY <1>15 DEF PhoneDeclines
<1>16. CASE PhoneCancels BY <1>1, <1>6, <1>16, PartiesApart DEF MovedBy, PhoneCancels
<1>17. CASE GraceExpires
  BY <1>1, <1>3, <1>17, DoingRecord, PartiesApart DEF MovedBy, GraceExpires, Step, Purpose
<1>18. CASE DeleteTransfer \/ DeleteLocal \/ ClearHistory
  BY <1>1, <1>3, <1>18, DoingRecord, PartiesApart
  DEF MovedBy, DeleteTransfer, DeleteLocal, ClearHistory, Step, Purpose
<1>19. CASE MoveDirectory BY <1>19 DEF MoveDirectory
<1>20. CASE UNCHANGED vars BY <1>20 DEF vars
<1> QED
  BY <1>7, <1>8, <1>9, <1>10, <1>11, <1>12, <1>13, <1>14, <1>15, <1>16, <1>17, <1>18,
     <1>19, <1>20 DEF Next, Terminated

\* A completion begins with a report that is taken.
LEMMA CompletionBegins ==
  ASSUME TypeInv, [Next]_vars, NEW p \in Parties, req'[p].to = "completed"
  PROVE  \/ req[p].to = "completed"
         \/ wire # <<>> /\ Head(wire) = "completed" /\ req'[p].step = "files_done"
<1> USE DEF TypeInv
<1>1. p = "socket" BY ReqStep DEF ReqOK, Fits
<1>2. req'[p] = req[p] \/ Server(p) \/ OnMessage \/ FilesDone
  BY <1>1, OwnMoves, PartiesApart DEF MovedBy
<1>3. CASE OnMessage BY <1>1, <1>3, OnMessageBegins, BatchStays, PartiesApart
<1>4. CASE FilesDone BY <1>1, <1>4, GotoEffect, PartiesApart DEF FilesDone, ReqOK, Step
<1>5. CASE Server(p)
  BY <1>5, GotoEffect, FinishEffect
  DEF Server, WriteStatus, Cleanup, ReqOK, Step, Idle
<1> QED BY <1>2, <1>3, <1>4, <1>5

LEMMA PageOnce == [Next]_vars => (page # "new" => page' # "new")
BY Zenon DEF Next, vars, rows, disk, sender, peer, Page, CreateRows, CreateParts,
    OfferRead, OfferPush, GivesUp, HearsAccept, SenderCancels, Phone, NextFile,
    LeavesLoop, GetChunk, KeepFile, Report, OnMessage, Answer, OnFailed, OnCancel,
    OnCompleted, FilesDone, History, DropFiles, DropRow, Put, PutRead, PutWrite, PutFind,
    PutRow, PutStarted, Server, WriteStatus, Cleanup, PhoneAccepts, PhoneDeclines,
    PhoneCancels, GraceExpires, DeleteTransfer, DeleteLocal, ClearHistory, MoveDirectory,
    Terminated

\* The files' rows are deleted for good.
Unlisted == ~listed /\ page # "new"

LEMMA UnlistedStays == [Next]_vars /\ Unlisted => Unlisted'
BY RowWriters, PageOnce
DEF Unlisted, rows, CreateRows, FilesDone, DropFiles, DropRow, PutRow, PutStarted, WriteStatus

LEMMA KeptGrows == [Next]_vars => kept \subseteq kept'
BY PeerWriters
DEF peer, OfferPush, PhoneAccepts, PhoneDeclines, NextFile, LeavesLoop, GetChunk,
    KeepFile, Report, PhoneCancels, OnMessage, Answer, OnFailed, OnCancel, OnCompleted

\* The phone has what it was sent, or there are no rows that say so.
Delivered == kept = batch \/ Unlisted

LEMMA DeliveredStays == TypeInv /\ [Next]_vars /\ Delivered => Delivered'
<1> SUFFICES ASSUME TypeInv, [Next]_vars, Delivered PROVE Delivered' OBVIOUS
<1>1. kept' \subseteq batch' BY PeerStep, BatchStays, BatchOfFiles
      DEF TypeInv, PeerOK, SenderOK
<1> QED BY <1>1, BatchStays, UnlistedStays, KeptGrows DEF Delivered

OfferWhole == offer \in {NotOffered, batch} \/ Unlisted

\* Whatever the phone is not to fetch any more it has kept, unless it saw a failure.
FetchedIsKept ==
    phone.at = "loading" /\ ~phone.failed =>
        Unlisted \/ batch \ (phone.todo \cup {phone.file}) \subseteq kept

ReportTrue == \A i \in DOMAIN wire : wire[i] = "completed" => Delivered

CompletionTrue == \A p \in Parties : req[p].to = "completed" => Delivered

DeliveryInv ==
    /\ OfferWhole
    /\ FetchedIsKept
    /\ ReportTrue
    /\ CompletionTrue
    /\ status = "completed" => Delivered

LEMMA InitDelivery == Init => DeliveryInv
BY PartiesApart
DEF Init, DeliveryInv, OfferWhole, FetchedIsKept, ReportTrue, CompletionTrue, Asleep, Idle

LEMMA OfferStays == TypeInv /\ DeliveryInv /\ [Next]_vars => OfferWhole'
<1> SUFFICES ASSUME TypeInv, DeliveryInv, [Next]_vars PROVE OfferWhole' OBVIOUS
<1>1. CASE UNCHANGED offer
  BY <1>1, BatchStays, UnlistedStays DEF DeliveryInv, OfferWhole
<1>2. CASE OfferPush
  <2>1. page' = "waiting" /\ UNCHANGED listed BY <1>2 DEF OfferPush, rows
  <2> QED BY <1>2, <2>1, BatchStays DEF OfferPush, OfferWhole, Unlisted
<1>3. UNCHANGED offer \/ OfferPush
  BY PeerWriters
  DEF peer, PhoneAccepts, PhoneDeclines, NextFile, LeavesLoop, GetChunk, KeepFile,
      Report, PhoneCancels, OnMessage, Answer, OnFailed, OnCancel, OnCompleted
<1> QED BY <1>1, <1>2, <1>3

LEMMA FetchedStays == TypeInv /\ DeliveryInv /\ [Next]_vars => FetchedIsKept'
<1> SUFFICES ASSUME TypeInv, DeliveryInv, [Next]_vars,
                    phone'.at = "loading", ~phone'.failed
             PROVE  Unlisted' \/ batch' \ (phone'.todo \cup {phone'.file}) \subseteq kept'
  BY DEF FetchedIsKept
<1> USE DEF TypeInv, DeliveryInv
<1>1. phone \in PhoneRecord BY DEF PeerOK
<1>2. UNCHANGED batch BY BatchStays
<1>3. CASE UNCHANGED phone
  BY <1>2, <1>3, KeptGrows, UnlistedStays DEF FetchedIsKept
<1>4. CASE PhoneAccepts
  <2>1. phone'.todo = offer /\ offer # NotOffered BY <1>1, <1>4 DEF PhoneAccepts, PhoneRecord
  <2> QED BY <1>2, <2>1, UnlistedStays DEF OfferWhole
<1>5. CASE PhoneDeclines \/ LeavesLoop \/ Report
  BY <1>5, DoneRecord DEF PhoneDeclines, LeavesLoop, Report
<1>6. CASE NextFile
  <2>1. PICK f \in phone.todo :
          phone' = [phone EXCEPT !.todo = @ \ {f}, !.file = f]
    BY <1>6 DEF NextFile
  <2>2. /\ phone'.at = phone.at /\ phone'.failed = phone.failed
        /\ phone'.todo = phone.todo \ {f} /\ phone'.file = f
    BY <1>1, <2>1 DEF PhoneRecord
  <2>3. phone.file = "none" BY <1>6 DEF NextFile
  <2>4. "none" \notin batch BY BatchOfFiles DEF SenderOK
  <2> QED BY <1>2, <2>2, <2>3, <2>4, KeptGrows, UnlistedStays DEF FetchedIsKept
<1>7. CASE GetChunk
  <2>1. ASSUME NEW h \in BOOLEAN,
               phone' = [phone EXCEPT !.next = phone.next + 1, !.holes = h]
        PROVE  /\ phone'.at = phone.at /\ phone'.failed = phone.failed
               /\ phone'.todo = phone.todo /\ phone'.file = phone.file
    BY <1>1, <2>1 DEF PhoneRecord
  <2>2. ~Leave(TRUE) BY <1>1, LeaveEffect
  <2> QED BY <1>1, <1>2, <1>7, <2>1, <2>2, GetChunkEffect, KeptGrows, UnlistedStays
          DEF FetchedIsKept
<1>8. CASE KeepFile
  <2>1. Leave(FALSE) /\ kept' = kept \cup {phone.file}
    BY <1>1, <1>8, LeaveEffect DEF KeepFile
  <2>2. /\ phone'.at = phone.at /\ phone'.failed = phone.failed
        /\ phone'.todo = phone.todo /\ phone'.file = "none"
    BY <1>1, <2>1, LeaveEffect DEF PhoneRecord
  <2> QED BY <1>2, <2>1, <2>2, UnlistedStays DEF FetchedIsKept
<1>9. CASE PhoneCancels
  <2>1. /\ phone'.at = phone.at /\ phone'.failed = phone.failed
        /\ phone'.todo = phone.todo /\ phone'.file = phone.file
    BY <1>1, <1>9 DEF PhoneCancels, PhoneRecord
  <2> QED BY <1>2, <2>1, KeptGrows, UnlistedStays DEF FetchedIsKept
<1>10. UNCHANGED phone \/ PhoneAccepts \/ PhoneDeclines \/ NextFile \/ LeavesLoop
       \/ GetChunk \/ KeepFile \/ Report \/ PhoneCancels
  BY PeerWriters
  DEF peer, OfferPush, OnMessage, Answer, OnFailed, OnCancel, OnCompleted
<1> QED BY <1>3, <1>4, <1>5, <1>6, <1>7, <1>8, <1>9, <1>10

\* What is said on the wire after a step was said before it, or is said now.
LEMMA Heard ==
  ASSUME wire \in Seq(Message), NEW m \in Message, Say(m) \/ wire' = Append(wire, m)
  PROVE  \A i \in DOMAIN wire' : wire'[i] = m \/ (i \in DOMAIN wire /\ wire'[i] = wire[i])
BY AppendProperties DEF Say

LEMMA ReportsStayTrue == TypeInv /\ DeliveryInv /\ [Next]_vars => ReportTrue'
<1> SUFFICES ASSUME TypeInv, DeliveryInv, [Next]_vars PROVE ReportTrue' OBVIOUS
<1> USE DEF TypeInv, DeliveryInv
<1>1. wire \in Seq(Message) BY DEF PeerOK
<1>2. Delivered => Delivered' BY DeliveredStays
<1>3. CASE UNCHANGED wire BY <1>2, <1>3 DEF ReportTrue
<1>4. ASSUME NEW m \in Message \ {"completed"}, Say(m) \/ wire' = Append(wire, m)
      PROVE  ReportTrue'
  BY <1>1, <1>2, <1>4, Heard DEF ReportTrue
<1>5. CASE PhoneAccepts BY <1>3, <1>4, <1>5 DEF PhoneAccepts, Message
<1>6. CASE PhoneDeclines BY <1>4, <1>6 DEF PhoneDeclines, Message
<1>7. CASE Report
  <2>1. CASE phone.failed BY <1>4, <1>7, <2>1 DEF Report, Message
  <2>2. CASE ~phone.failed
    <3>1. batch \subseteq kept \/ Unlisted
      BY <1>7, <2>2, BatchOfFiles DEF Report, FetchedIsKept, SenderOK
    <3>2. Delivered BY <3>1 DEF Delivered, PeerOK
    <3> QED BY <1>2, <3>2 DEF ReportTrue
  <2> QED BY <2>1, <2>2
<1>8. CASE PhoneCancels BY <1>4, <1>8 DEF PhoneCancels, Message
<1>9. CASE OnMessage
  <2>1. wire # <<>> /\ wire' = Tail(wire) BY <1>9, OnMessageBegins, BatchStays
  <2>2. \A i \in DOMAIN wire' : i + 1 \in DOMAIN wire /\ wire'[i] = wire[i + 1]
    BY <1>1, <2>1, HeadTailProperties, LenProperties
  <2> QED BY <1>2, <2>2 DEF ReportTrue
<1> QED BY <1>3, <1>5, <1>6, <1>7, <1>8, <1>9, PeerWriters
        DEF peer, OfferPush, NextFile, LeavesLoop, GetChunk, KeepFile

LEMMA CompletionsStayTrue ==
  TypeInv /\ DeliveryInv /\ [Next]_vars =>
     CompletionTrue' /\ (status' = "completed" => Delivered')
<1> SUFFICES ASSUME TypeInv, DeliveryInv, [Next]_vars
             PROVE  CompletionTrue' /\ (status' = "completed" => Delivered')
  OBVIOUS
<1>1. Delivered => Delivered' BY DeliveredStays
<1>2. CompletionTrue'
  <2> SUFFICES ASSUME NEW p \in Parties, req'[p].to = "completed" PROVE Delivered'
    BY DEF CompletionTrue
  <2>1. CASE req[p].to = "completed" BY <1>1, <2>1 DEF DeliveryInv, CompletionTrue
  <2>2. CASE wire # <<>> /\ Head(wire) = "completed"
    <3>1. 1 \in DOMAIN wire /\ wire[1] = "completed"
      BY <2>2, EmptySeq, LenProperties DEF TypeInv, PeerOK
    <3> QED BY <1>1, <3>1 DEF DeliveryInv, ReportTrue
  <2> QED BY <2>1, <2>2, CompletionBegins
<1>3. ASSUME status' = "completed" PROVE Delivered'
  <2>1. status = "completed" \/ \E p \in Parties : WriteStatus(p) /\ req[p].to = "completed"
    BY <1>3, RowWriters
    DEF rows, CreateRows, FilesDone, DropFiles, DropRow, PutRow, PutStarted, WriteStatus,
        SetStatus
  <2> QED BY <1>1, <2>1 DEF DeliveryInv, CompletionTrue
<1> QED BY <1>2, <1>3

LEMMA DeliveryHolds == Spec => []DeliveryInv
<1>1. TypeInv /\ DeliveryInv /\ [Next]_vars => DeliveryInv'
  BY OfferStays, FetchedStays, ReportsStayTrue, CompletionsStayTrue DEF DeliveryInv
<1> QED BY <1>1, InitDelivery, TypesHold, PTL DEF Spec

\* A transfer is recorded as completed, with its files, only when the phone has kept
\* every one of them, whatever is cancelled, deleted, moved or dropped meanwhile
\* (Router.handleTransferCompleted believes the report of the phone).
THEOREM CompletedMeansKept == Spec => []DeliveredWhole
<1>1. DeliveryInv => DeliveredWhole BY DEF DeliveryInv, DeliveredWhole, Delivered, Unlisted
<1> QED BY <1>1, DeliveryHolds, PTL

\* A step that gives the phone a file leaves the record alone.
LEMMA KeptOrRecorded ==
  [Next]_vars => UNCHANGED kept \/ (kept' = kept \cup {phone.file} /\ UNCHANGED rows)
BY PeerWriters
DEF peer, OfferPush, PhoneAccepts, PhoneDeclines, NextFile, LeavesLoop, GetChunk,
    KeepFile, Report, PhoneCancels, OnMessage, Answer, OnFailed, OnCancel, OnCompleted

LEMMA SendingStep ==
  TypeInv /\ TypeInv' /\ DeliveredWhole' /\ [Next]_vars => [Sending!Next]_(Sending!vars)
<1> SUFFICES ASSUME TypeInv, TypeInv', DeliveredWhole', [Next]_vars
             PROVE  [Sending!Next]_(Sending!vars)
  OBVIOUS
<1> DEFINE said == status = "completed" /\ listed
<1>1. UNCHANGED batch BY BatchStays
<1>2. CASE UNCHANGED kept
  <2>1. said' => kept = batch BY <1>1, <1>2 DEF DeliveredWhole
  <2>2. CASE said' <=> said BY <1>1, <1>2, <2>2 DEF Sending!vars
  <2>3. CASE said' /\ ~said BY <1>1, <1>2, <2>1, <2>3 DEF Sending!Next, Sending!Report
  <2>4. CASE ~said' /\ said BY <1>1, <1>2, <2>4 DEF Sending!Next, Sending!Withdraw
  <2> QED BY <2>2, <2>3, <2>4
<1>3. CASE kept' = kept \cup {phone.file} /\ phone.file \notin kept /\ UNCHANGED rows
  <2>1. said' <=> said BY <1>3 DEF rows
  <2>2. phone.file \in batch BY <1>1, <1>3 DEF TypeInv, PeerOK
  <2>3. Sending!Deliver(phone.file) BY <1>1, <1>3, <2>1 DEF Sending!Deliver
  <2> QED BY <2>2, <2>3 DEF Sending!Next
<1>4. kept' = kept \cup {phone.file} /\ phone.file \in kept => UNCHANGED kept OBVIOUS
<1> QED BY <1>2, <1>3, <1>4, KeptOrRecorded

\* The outbound side implements FileDelivery: the phone's files stand for good, and
\* the record of the server, stale and overwritten as it may be, runs behind them.
THEOREM ImplementsSending == Spec => SendsBatch
<1>1. Init => Sending!Init BY DEF Init, Sending!Init
<1>2. Spec => [][Sending!Next]_(Sending!vars)
  BY SendingStep, TypesHold, CompletedMeansKept, PTL DEF Spec
<1> QED BY <1>1, <1>2, PTL DEF SendsBatch, Sending!Spec, Spec

-----------------------------------------------------------------------------
(* Nothing is announced before all is staged, and nobody answers before that. *)

\* Two uploads are never at the same chunk, nor one at a chunk that was answered.
PutsApart ==
    /\ \A p \in Parties : req[p].step \in PutStep => req[p].chunk \notin acked[req[p].file]
    /\ \A p, q \in Parties :
         p # q /\ req[p].step \in PutStep /\ req[q].step \in PutStep =>
            req[p].file # req[q].file \/ req[p].chunk # req[q].chunk

OfferStaged ==
    /\ page \in {"announcing", "waiting"} => AllStaged
    /\ offer # NotOffered => AllStaged

AnswersFollow ==
    /\ page \in {"new", "creating", "staging"} => offer = NotOffered
    /\ phone.at # "idle" => offer # NotOffered
    /\ wire # <<>> => offer # NotOffered
    /\ req["socket"].step # "idle" => offer # NotOffered
    /\ status = "completed" => offer # NotOffered

StagingInv == PutsApart /\ OfferStaged /\ AnswersFollow

LEMMA InitStaging == Init => StagingInv
BY PartiesApart
DEF Init, StagingInv, PutsApart, OfferStaged, AnswersFollow, Asleep, Idle, PutStep

LEMMA AckWriters == [Next]_vars => UNCHANGED acked \/ \E r \in Puts : PutStarted(r)
BY Zenon DEF Next, vars, sender, Page, CreateRows, CreateParts, OfferRead, OfferPush,
    GivesUp, HearsAccept, SenderCancels, Phone, NextFile, LeavesLoop, GetChunk, KeepFile,
    Report, OnMessage, Answer, OnFailed, OnCancel, OnCompleted, FilesDone, History,
    DropFiles, DropRow, Put, PutRead, PutWrite, PutFind, PutRow, Server, WriteStatus,
    Cleanup, PhoneAccepts, PhoneDeclines, PhoneCancels, GraceExpires, DeleteTransfer,
    DeleteLocal, ClearHistory, MoveDirectory, Terminated

LEMMA AllStagedStays == TypeInv /\ [Next]_vars /\ AllStaged => AllStaged'
<1> SUFFICES ASSUME TypeInv, [Next]_vars, AllStaged PROVE AllStaged' OBVIOUS
<1>1. UNCHANGED batch /\ batch \subseteq Files
  BY BatchStays, BatchOfFiles DEF TypeInv, SenderOK
<1>2. \A f \in Files : acked[f] \subseteq acked'[f]
  BY AckWriters DEF PutStarted, TypeInv, SenderOK
<1>3. \A f \in Files : acked'[f] \subseteq Chunks(f) BY SenderStep DEF SenderOK
<1> QED BY <1>1, <1>2, <1>3 DEF AllStaged

LEMMA PutMoves ==
  ASSUME TypeInv, [Next]_vars, NEW p \in Parties, req'[p].step \in PutStep
  PROVE  /\ p \in Puts
         /\ \/ PutRead(p)
            \/ /\ req[p].step \in PutStep
               /\ req'[p].file = req[p].file /\ req'[p].chunk = req[p].chunk
<1> USE DEF TypeInv
<1>1. p \in Puts BY ReqStep DEF ReqOK, Fits
<1>2. req'[p] = req[p] \/ Server(p) \/ Put(p)
  BY <1>1, OwnMoves, PartiesApart DEF MovedBy
<1>3. ~Server(p)
  BY GotoEffect, FinishEffect
  DEF Server, WriteStatus, Cleanup, ReqOK, Step, Idle, PutStep
<1>4. ~PutStarted(p) BY FinishEffect DEF PutStarted, ReqOK, Idle, PutStep
<1>5. CASE PutWrite(p) \/ PutFind(p) \/ PutRow(p)
  BY <1>1, <1>5, GotoEffect, FinishEffect
  DEF PutWrite, PutFind, PutRow, At, ReqOK, Step, Idle, PutStep
<1> QED BY <1>1, <1>2, <1>3, <1>4, <1>5 DEF Put

\* A chunk that begins is neither answered nor under way.
LEMMA PutBegins ==
  ASSUME TypeInv, NEW p \in Puts, PutRead(p)
  PROVE  /\ \A q \in Parties \ {p} : req'[q] = req[q]
         /\ UNCHANGED acked
         /\ req'[p].chunk \notin acked[req'[p].file]
         /\ \A q \in Puts : req[q].step # "idle" =>
               req[q].file # req'[p].file \/ req[q].chunk # req'[p].chunk
<1>1. PICK f \in batch : \E c \in Chunks(f) \ acked[f] :
        /\ ~\E q \in Puts : ~Free(q) /\ req[q].file = f /\ req[q].chunk = c
        /\ Begin(p, [Idle EXCEPT !.step = "put_write", !.file = f, !.chunk = c])
  BY DEF PutRead
<1>2. PICK c \in Chunks(f) \ acked[f] :
        /\ ~\E q \in Puts : ~Free(q) /\ req[q].file = f /\ req[q].chunk = c
        /\ Begin(p, [Idle EXCEPT !.step = "put_write", !.file = f, !.chunk = c])
  BY <1>1
<1> DEFINE rec == [Idle EXCEPT !.step = "put_write", !.file = f, !.chunk = c]
<1>3. rec.file = f /\ rec.chunk = c BY DEF Idle
<1>4. Begin(p, rec) BY <1>2
<1> HIDE DEF rec
<1>5. req'[p] = rec /\ \A q \in Parties \ {p} : req'[q] = req[q]
  BY <1>4, PartiesApart DEF Begin, TypeInv, ReqOK
<1>6. UNCHANGED acked BY DEF PutRead, sender
<1> QED BY <1>2, <1>3, <1>5, <1>6 DEF Free, At

LEMMA PutsStayApart == TypeInv /\ PutsApart /\ [Next]_vars => PutsApart'
<1> SUFFICES ASSUME TypeInv, PutsApart, [Next]_vars PROVE PutsApart' OBVIOUS
<1>1. ASSUME NEW p \in Parties, req'[p].step \in PutStep
      PROVE  req'[p].chunk \notin acked'[req'[p].file]
  <2>1. CASE PutRead(p) BY <1>1, <2>1, PutMoves, PutBegins
  <2>2. CASE /\ req[p].step \in PutStep
             /\ req'[p].file = req[p].file /\ req'[p].chunk = req[p].chunk
    <3>1. CASE UNCHANGED acked BY <2>2, <3>1 DEF PutsApart
    <3>2. ASSUME NEW r \in Puts, PutStarted(r)
          PROVE  req'[p].chunk \notin acked'[req'[p].file]
      <4>1. r # p
        BY <1>1, <3>2, FinishEffect, PartiesApart
        DEF PutStarted, TypeInv, ReqOK, Idle, PutStep
      <4>2. req[r].file # req[p].file \/ req[r].chunk # req[p].chunk
        BY <2>2, <3>2, <4>1, PartiesApart DEF PutsApart, PutStarted, At, PutStep
      <4>3. req[p].file \in Files
        BY <2>2, BatchOfFiles DEF TypeInv, ReqOK, Fits, SenderOK
      <4>4. acked' = [acked EXCEPT ![req[r].file] = @ \cup {req[r].chunk}]
        BY <3>2 DEF PutStarted
      <4>5. req[p].chunk \notin acked[req[p].file] BY <2>2 DEF PutsApart
      <4> QED BY <2>2, <4>2, <4>3, <4>4, <4>5 DEF TypeInv, SenderOK
    <3> QED BY <3>1, <3>2, AckWriters
  <2> QED BY <1>1, <2>1, <2>2, PutMoves
<1>2. ASSUME NEW p \in Parties, NEW q \in Parties \ {p},
             req'[p].step \in PutStep, req'[q].step \in PutStep, PutRead(p)
      PROVE  req'[p].file # req'[q].file \/ req'[p].chunk # req'[q].chunk
  <2>1. p \in Puts /\ q \in Puts BY <1>2, PutMoves
  <2> QED BY <1>2, <2>1, PutBegins DEF PutStep
<1>3. ASSUME NEW p \in Parties, NEW q \in Parties, p # q,
             req'[p].step \in PutStep, req'[q].step \in PutStep
      PROVE  req'[p].file # req'[q].file \/ req'[p].chunk # req'[q].chunk
  <2>1. CASE PutRead(p) BY <1>2, <1>3, <2>1
  <2>2. CASE PutRead(q) BY <1>2, <1>3, <2>2
  <2>3. CASE ~PutRead(p) /\ ~PutRead(q)
    BY <1>3, <2>3, PutMoves DEF PutsApart
  <2> QED BY <2>1, <2>2, <2>3
<1> QED BY <1>1, <1>3 DEF PutsApart

\* The page announces once, and only what is staged.
LEMMA PageWriters ==
  [Next]_vars => \/ UNCHANGED page
                 \/ CreateRows \/ CreateParts \/ OfferRead \/ OfferPush
                 \/ /\ page \in {"staging", "waiting", "cancelling"}
                    /\ page' \in {"cancelling", "over"}
BY Zenon DEF Next, vars, sender, Page, GivesUp, HearsAccept, SenderCancels, Phone,
    NextFile, LeavesLoop, GetChunk, KeepFile, Report, OnMessage, Answer, OnFailed,
    OnCancel, OnCompleted, FilesDone, History, DropFiles, DropRow, Put, PutRead,
    PutWrite, PutFind, PutRow, PutStarted, Server, WriteStatus, Cleanup, PhoneAccepts,
    PhoneDeclines, PhoneCancels, GraceExpires, DeleteTransfer, DeleteLocal, ClearHistory,
    MoveDirectory, Terminated

LEMMA OfferWriters ==
  [Next]_vars => UNCHANGED offer \/ OfferPush
BY PeerWriters
DEF peer, PhoneAccepts, PhoneDeclines, NextFile, LeavesLoop, GetChunk, KeepFile, Report,
    PhoneCancels, OnMessage, Answer, OnFailed, OnCancel, OnCompleted

LEMMA PushFacts ==
  ASSUME TypeInv, OfferPush
  PROVE  /\ page = "announcing" /\ page' = "waiting"
         /\ offer' # NotOffered
<1>1. page = "announcing" BY DEF OfferPush, At, TypeInv, SenderOK
<1>2. "none" \notin batch BY BatchOfFiles DEF TypeInv, SenderOK
<1> QED BY <1>1, <1>2 DEF OfferPush, NotOffered

LEMMA OfferStaysOut == TypeInv /\ [Next]_vars /\ offer # NotOffered => offer' # NotOffered
BY OfferWriters, PushFacts

LEMMA OffersStayStaged == TypeInv /\ OfferStaged /\ [Next]_vars => OfferStaged'
<1> SUFFICES ASSUME TypeInv, OfferStaged, [Next]_vars PROVE OfferStaged' OBVIOUS
<1>1. AllStaged => AllStaged' BY AllStagedStays
<1>2. ASSUME page' \in {"announcing", "waiting"} PROVE AllStaged
  BY <1>2, PageWriters, PushFacts, PartsFacts DEF OfferStaged, CreateRows, OfferRead
<1>3. ASSUME offer' # NotOffered PROVE AllStaged
  BY <1>3, OfferWriters, PushFacts DEF OfferStaged
<1> QED BY <1>1, <1>2, <1>3 DEF OfferStaged

LEMMA AnswersStayBehind == TypeInv /\ AnswersFollow /\ [Next]_vars => AnswersFollow'
<1> SUFFICES ASSUME TypeInv, AnswersFollow, [Next]_vars PROVE AnswersFollow' OBVIOUS
<1> USE DEF TypeInv
<1>1. offer # NotOffered => offer' # NotOffered BY OfferStaysOut
<1>2. ASSUME page' \in {"new", "creating", "staging"} PROVE offer' = NotOffered
  <2>1. page \in {"new", "creating", "staging"}
    BY <1>2, PageWriters, PushFacts, PartsFacts DEF CreateRows, OfferRead
  <2> QED BY <1>2, <2>1, OfferWriters, PushFacts DEF AnswersFollow
<1>3. ASSUME phone'.at # "idle" PROVE offer # NotOffered \/ offer' # NotOffered
  <2>1. UNCHANGED phone \/ PhoneAccepts \/ PhoneDeclines \/ phone.at = "loading"
    BY PeerWriters
    DEF peer, OfferPush, NextFile, LeavesLoop, GetChunk, KeepFile, Report, PhoneCancels,
        OnMessage, Answer, OnFailed, OnCancel, OnCompleted
  <2> QED BY <1>3, <2>1 DEF PhoneAccepts, PhoneDeclines, AnswersFollow
<1>4. ASSUME wire' # <<>> PROVE offer # NotOffered \/ offer' # NotOffered
  <2>1. \/ UNCHANGED wire \/ OnMessage
        \/ PhoneAccepts \/ PhoneDeclines \/ phone.at = "loading"
    BY PeerWriters
    DEF peer, OfferPush, NextFile, LeavesLoop, GetChunk, KeepFile, Report, PhoneCancels
  <2>2. OnMessage => wire # <<>> BY OnMessageBegins, BatchStays
  <2> QED BY <1>4, <2>1, <2>2 DEF PhoneAccepts, PhoneDeclines, AnswersFollow
<1>5. ASSUME req'["socket"].step # "idle" PROVE offer # NotOffered
  <2>1. \/ req'["socket"] = req["socket"] \/ Server("socket") \/ FilesDone \/ OnMessage
    BY OwnMoves, PartiesApart DEF MovedBy
  <2>2. OnMessage => wire # <<>> BY OnMessageBegins, BatchStays
  <2> QED BY <1>5, <2>1, <2>2 DEF AnswersFollow, Server, WriteStatus, Cleanup, FilesDone, At
<1>6. ASSUME status' = "completed" PROVE offer # NotOffered
  <2>1. status = "completed" \/ \E p \in Parties : WriteStatus(p) /\ req[p].to = "completed"
    BY <1>6, RowWriters
    DEF rows, CreateRows, FilesDone, DropFiles, DropRow, PutRow, PutStarted, WriteStatus,
        SetStatus
  <2>2. ASSUME NEW p \in Parties, WriteStatus(p), req[p].to = "completed"
        PROVE  req["socket"].step # "idle"
    BY <2>2 DEF WriteStatus, At, ReqOK, Fits
  <2> QED BY <2>1, <2>2 DEF AnswersFollow
<1> QED BY <1>1, <1>2, <1>3, <1>4, <1>5, <1>6 DEF AnswersFollow

LEMMA StagingHolds == Spec => []StagingInv
<1>1. TypeInv /\ StagingInv /\ [Next]_vars => StagingInv'
  BY PutsStayApart, OffersStayStaged, AnswersStayBehind DEF StagingInv
<1> QED BY <1>1, InitStaging, TypesHold, PTL DEF Spec

-----------------------------------------------------------------------------
(* Chunks and byte ranges, for any sizes. *)

LEMMA Division ==
  ASSUME NEW a \in Nat, NEW c \in Nat \ {0}
  PROVE  /\ a \div c \in Nat
         /\ (a \div c) * c <= a
         /\ a < (a \div c) * c + c
OBVIOUS

LEMMA Products ==
  ASSUME NEW p \in Int, NEW q \in Int, NEW c \in Nat
  PROVE  /\ p * c \in Int
         /\ p <= q => p * c <= q * c
         /\ (p + 1) * c = p * c + c
OBVIOUS

\* The chunks cover the file, and the last one reaches into it.
LEMMA ChunksCover ==
  ASSUME NEW size \in Nat, NEW chunk \in Nat \ {0}
  PROVE  /\ TotalChunks(size, chunk) \in Nat
         /\ size <= TotalChunks(size, chunk) * chunk
         /\ TotalChunks(size, chunk) * chunk < size + chunk
<1> DEFINE a == size + chunk - 1
<1>1. a \in Nat OBVIOUS
<1>2. TotalChunks(size, chunk) = a \div chunk BY DEF TotalChunks
<1> HIDE DEF a
<1>3. /\ a \div chunk \in Nat
      /\ (a \div chunk) * chunk <= a
      /\ a < (a \div chunk) * chunk + chunk
  BY <1>1, Division
<1>4. a = size + chunk - 1 BY DEF a
<1>5. (a \div chunk) * chunk \in Int BY <1>3, Products
<1> QED BY <1>2, <1>3, <1>4, <1>5

\* A byte of the file is in one of them.
LEMMA ByteHasChunk ==
  ASSUME NEW size \in Nat, NEW chunk \in Nat \ {0}, NEW b \in 0 .. size - 1
  PROVE  b \div chunk \in 0 .. TotalChunks(size, chunk) - 1
<1> DEFINE q == b \div chunk
           n == TotalChunks(size, chunk)
<1>1. q \in Nat /\ q * chunk <= b BY Division
<1>2. n \in Nat /\ size <= n * chunk BY ChunksCover
<1> HIDE DEF q, n
<1>3. q * chunk \in Int /\ n * chunk \in Int BY <1>1, <1>2, Products
<1>4. ~(n <= q)
  <2> SUFFICES ASSUME n <= q PROVE FALSE OBVIOUS
  <2>1. n * chunk <= q * chunk BY <1>1, <1>2, Products
  <2> QED BY <1>1, <1>2, <1>3, <2>1
<1>5. q \in 0 .. n - 1 BY <1>1, <1>2, <1>4
<1> QED BY <1>5 DEF q, n

\* The ranges the phone asks for, one after the other, are the whole file, and the
\* server takes every one of them as it was meant, whatever the size of the file and of
\* the chunks of either side: the last one is cut at the end, none is empty.
THEOREM RangesAreTheFile ==
  ASSUME NEW f \in Files, NEW i \in 0 .. TotalChunks(Size[f], PhoneChunk) - 1
  PROVE  /\ ParseRange("closed", Asked(f, i).first, Asked(f, i).last, Size[f])
              = [ok |-> TRUE, first |-> Asked(f, i).first, last |-> Asked(f, i).last]
         /\ Asked(f, 0).first = 0
         /\ Asked(f, i).first \in Nat
         /\ Asked(f, i).last \in Asked(f, i).first .. Size[f] - 1
         /\ IF i = TotalChunks(Size[f], PhoneChunk) - 1
            THEN Asked(f, i).last = Size[f] - 1
            ELSE Asked(f, i + 1).first = Asked(f, i).last + 1
<1> DEFINE size == Size[f]
           c == PhoneChunk
           n == TotalChunks(size, c)
<1>1. size \in Nat /\ c \in Nat \ {0} BY OutboundAssumption
<1>2. /\ n \in Nat /\ i \in Nat /\ i <= n - 1
      /\ size <= n * c /\ n * c < size + c
  <2>1. i \in 0 .. n - 1 OBVIOUS
  <2>2. n = TotalChunks(size, c) OBVIOUS
  <2> HIDE DEF size, c, n
  <2>3. n \in Nat /\ size <= n * c /\ n * c < size + c BY <1>1, <2>2, ChunksCover
  <2> QED BY <2>1, <2>3
<1> HIDE DEF size, c, n
<1>3. i * c \in Nat /\ (i + 1) * c = i * c + c /\ n * c \in Int BY <1>1, <1>2, Products
<1>4. (i + 1) * c <= n * c BY <1>1, <1>2, Products
<1>5. i * c < size BY <1>1, <1>2, <1>3, <1>4
<1>6. /\ Asked(f, i).first = i * c
      /\ Asked(f, i).last = IF i * c + c - 1 < size - 1 THEN i * c + c - 1 ELSE size - 1
      /\ Asked(f, i + 1).first = (i + 1) * c
      /\ Asked(f, 0).first = 0 * c
  BY DEF Asked, Least, size, c
<1>7. Asked(f, 0).first = 0 BY <1>1, <1>6
<1>8. Asked(f, i).last \in Asked(f, i).first .. size - 1 BY <1>1, <1>3, <1>5, <1>6
<1>9. ASSUME i = n - 1 PROVE Asked(f, i).last = size - 1
  <2>1. n * c = i * c + c BY <1>2, <1>3, <1>9
  <2> QED BY <1>1, <1>2, <1>3, <1>6, <2>1
<1>10. ASSUME i # n - 1 PROVE Asked(f, i + 1).first = Asked(f, i).last + 1
  <2>1. i + 2 <= n BY <1>2, <1>10
  <2>2. (i + 2) * c <= n * c BY <1>1, <1>2, <2>1, Products
  <2>3. (i + 2) * c = (i + 1) * c + c
    <3>1. ((i + 1) + 1) * c = (i + 1) * c + c BY <1>1, <1>2, Products
    <3>2. i + 2 = (i + 1) + 1 BY <1>2
    <3> QED BY <3>1, <3>2
  <2>4. i * c + c + c < size + c BY <1>1, <1>2, <1>3, <2>2, <2>3
  <2> QED BY <1>1, <1>3, <1>6, <2>4
<1>11. ParseRange("closed", Asked(f, i).first, Asked(f, i).last, size)
         = [ok |-> TRUE, first |-> Asked(f, i).first, last |-> Asked(f, i).last]
  <2> DEFINE x == Asked(f, i).first
             y == Asked(f, i).last
  <2>1. x \in Nat /\ y \in x .. size - 1 BY <1>3, <1>6, <1>8
  <2> HIDE DEF x, y
  <2>2. 0 <= x /\ x < size /\ x <= y /\ y < size BY <1>1, <2>1
  <2>3. ParseRange("closed", x, y, size) = [ok |-> TRUE, first |-> x, last |-> y]
    BY <2>2 DEF ParseRange
  <2> QED BY <2>3 DEF x, y
<1> QED BY <1>3, <1>6, <1>7, <1>8, <1>9, <1>10, <1>11 DEF size, c, n

-----------------------------------------------------------------------------
(* What the phone reads is what was staged. *)

\* The steps of a chunk upload after its write.
LateStep == {"put_find", "put_row", "put_started"}

\* A chunk that was answered, or will be, is in the .part, if that is still there.
StoredInv ==
    /\ \A f \in part : acked[f] \subseteq staged[f]
    /\ \A p \in Puts : req[p].step \in LateStep /\ req[p].file \in part =>
         req[p].chunk \in staged[req[p].file]
    /\ page \in {"new", "creating"} =>
         /\ \A f \in Files : acked[f] = {}
         /\ \A p \in Puts : req[p].step \notin PutStep

LEMMA InitStored == Init => StoredInv
BY PartiesApart DEF Init, StoredInv, Idle, PutStep

\* An upload comes past its write only with its chunk written.
LEMMA LateMoves ==
  ASSUME TypeInv, [Next]_vars, NEW p \in Puts, req'[p].step \in LateStep
  PROVE  /\ req'[p].file = req[p].file /\ req'[p].chunk = req[p].chunk
         /\ \/ req[p].step \in LateStep
            \/ /\ PutWrite(p) /\ req[p].file \in part
               /\ staged' = [staged EXCEPT ![req[p].file] = @ \cup {req[p].chunk}]
<1> USE DEF TypeInv
<1>1. p \in Parties BY PartiesApart
<1>2. req'[p].step \in PutStep BY DEF LateStep, PutStep
<1>3. ~PutRead(p)
  <2> SUFFICES ASSUME PutRead(p) PROVE FALSE OBVIOUS
  <2>1. PICK f \in batch : \E c \in Chunks(f) :
          Begin(p, [Idle EXCEPT !.step = "put_write", !.file = f, !.chunk = c])
    BY DEF PutRead
  <2>2. PICK c \in Chunks(f) :
          Begin(p, [Idle EXCEPT !.step = "put_write", !.file = f, !.chunk = c])
    BY <2>1
  <2> DEFINE rec == [Idle EXCEPT !.step = "put_write", !.file = f, !.chunk = c]
  <2>3. rec.step = "put_write" BY DEF Idle
  <2>4. Begin(p, rec) BY <2>2
  <2> HIDE DEF rec
  <2>5. req'[p] = rec BY <1>1, <2>4 DEF Begin, ReqOK
  <2> QED BY <2>3, <2>5 DEF LateStep
<1>4. /\ req[p].step \in PutStep
      /\ req'[p].file = req[p].file /\ req'[p].chunk = req[p].chunk
  BY <1>1, <1>2, <1>3, PutMoves
<1>5. ASSUME req[p].step \notin LateStep
      PROVE  /\ PutWrite(p) /\ req[p].file \in part
             /\ staged' = [staged EXCEPT ![req[p].file] = @ \cup {req[p].chunk}]
  <2>1. req[p].step = "put_write" BY <1>4, <1>5 DEF PutStep, LateStep
  <2>2. req'[p] # req[p] BY <2>1 DEF LateStep
  <2>3. Server(p) \/ Put(p) BY <1>1, <2>2, OwnMoves, PartiesApart DEF MovedBy
  <2>4. PutWrite(p)
    BY <1>3, <2>1, <2>3
    DEF Server, WriteStatus, Cleanup, Put, PutFind, PutRow, PutStarted, At
  <2>5. ~Finish(p) BY <1>1, FinishEffect DEF ReqOK, Idle, LateStep
  <2> QED BY <2>4, <2>5 DEF PutWrite
<1> QED BY <1>4, <1>5

LEMMA StoredStays == TypeInv /\ StoredInv /\ [Next]_vars => StoredInv'
<1> SUFFICES ASSUME TypeInv, StoredInv, [Next]_vars PROVE StoredInv' OBVIOUS
<1> USE DEF TypeInv
<1>1. part \subseteq Files /\ part' \subseteq Files
  BY DiskStep, BatchStays, BatchOfFiles DEF DiskOK, SenderOK
<1>2. page' \in {"new", "creating"} =>
        /\ \A f \in Files : acked'[f] = {}
        /\ \A p \in Puts : req'[p].step \notin PutStep
  <2> SUFFICES ASSUME page' \in {"new", "creating"}
               PROVE  /\ \A f \in Files : acked'[f] = {}
                      /\ \A p \in Puts : req'[p].step \notin PutStep
    OBVIOUS
  <2>1. page \in {"new", "creating"}
    BY PageWriters, PushFacts, PartsFacts DEF CreateRows, OfferRead
  <2>2. \A p \in Puts : req[p].step \notin PutStep BY <2>1 DEF StoredInv
  <2>3. UNCHANGED acked BY <2>2, AckWriters DEF PutStarted, At, PutStep
  <2>4. \A p \in Puts : ~PutRead(p) BY <2>1 DEF PutRead
  <2>5. \A p \in Puts : req'[p].step \notin PutStep
    BY <2>2, <2>4, PutMoves, PartiesApart
  <2> QED BY <2>1, <2>3, <2>5 DEF StoredInv
<1>3. CASE CreateParts
  <2>1. page = "creating" BY <1>3, PartsFacts
  <2>2. UNCHANGED acked BY <1>3, PartsFacts
  <2>3. \A f \in part' : acked'[f] = {} BY <1>1, <2>1, <2>2 DEF StoredInv
  <2>4. \A p \in Puts : req'[p].step \notin LateStep
    BY <2>1, LateMoves DEF StoredInv, LateStep, PutStep, PutWrite, At
  <2> QED BY <1>2, <2>3, <2>4 DEF StoredInv
<1>4. CASE part' = {} BY <1>2, <1>4 DEF StoredInv
<1>5. ASSUME UNCHANGED part, \A f \in Files : staged[f] \subseteq staged'[f]
      PROVE  StoredInv'
  <2>1. \A p \in Puts : req'[p].step \in LateStep /\ req'[p].file \in part' =>
          req'[p].chunk \in staged'[req'[p].file]
    <3> SUFFICES ASSUME NEW p \in Puts, req'[p].step \in LateStep, req'[p].file \in part'
                 PROVE  req'[p].chunk \in staged'[req'[p].file]
      OBVIOUS
    <3>1. req'[p].file = req[p].file /\ req'[p].chunk = req[p].chunk /\ req[p].file \in part
      BY <1>5, LateMoves
    <3>2. CASE req[p].step \in LateStep BY <1>1, <1>5, <3>1, <3>2 DEF StoredInv
    <3>3. CASE staged' = [staged EXCEPT ![req[p].file] = @ \cup {req[p].chunk}]
      BY <1>1, <3>1, <3>3 DEF DiskOK
    <3> QED BY <3>2, <3>3, LateMoves
  <2>2. \A f \in part' : acked'[f] \subseteq staged'[f]
    <3> SUFFICES ASSUME NEW f \in part PROVE acked'[f] \subseteq staged'[f] BY <1>5
    <3>1. acked[f] \subseteq staged'[f] BY <1>1, <1>5 DEF StoredInv
    <3>2. CASE UNCHANGED acked BY <3>1, <3>2
    <3>3. ASSUME NEW r \in Puts, PutStarted(r) PROVE acked'[f] \subseteq staged'[f]
      <4>1. /\ acked' = [acked EXCEPT ![req[r].file] = @ \cup {req[r].chunk}]
            /\ req[r].step \in LateStep
        BY <3>3 DEF PutStarted, At, LateStep
      <4>2. req[r].file = f => req[r].chunk \in staged'[f]
        BY <1>1, <1>5, <4>1 DEF StoredInv
      <4> QED BY <1>1, <3>1, <4>1, <4>2 DEF SenderOK
    <3> QED BY <3>2, <3>3, AckWriters
  <2> QED BY <1>2, <2>1, <2>2 DEF StoredInv
<1>6. CASE UNCHANGED disk BY <1>5, <1>6 DEF disk
<1>7. ASSUME NEW r \in Puts, PutWrite(r) PROVE StoredInv'
  BY <1>5, <1>7 DEF PutWrite, DiskOK
<1>8. ASSUME NEW p \in Parties, Cleanup(p) PROVE StoredInv'
  BY <1>4, <1>8 DEF Cleanup, DropStaged
<1>9. CASE MoveDirectory BY <1>4, <1>9 DEF MoveDirectory
<1>10. CASE CreateRows BY <1>5, <1>10 DEF CreateRows
<1> QED BY <1>3, <1>6, <1>7, <1>8, <1>9, <1>10, DiskWriters

\* What is left of an offer in the staging directory is all of it.
LEMMA OfferedIsStaged ==
  ASSUME TypeInv, StagingInv, StoredInv, offer # NotOffered, NEW f \in part
  PROVE  staged[f] = Chunks(f)
<1>1. f \in batch /\ f \in Files BY BatchOfFiles DEF TypeInv, DiskOK, SenderOK
<1>2. acked[f] = Chunks(f) BY <1>1 DEF StagingInv, OfferStaged, AllStaged
<1> QED BY <1>1, <1>2 DEF StoredInv, TypeInv, DiskOK

\* The phone never reads past what was staged: every range it is given holds the bytes
\* of the sender, and where the file is no longer there it is given none.
NoHoles == ~phone.holes

LEMMA NoHolesStays == TypeInv /\ StagingInv /\ StoredInv /\ NoHoles /\ [Next]_vars => NoHoles'
<1> SUFFICES ASSUME TypeInv, StagingInv, StoredInv, NoHoles, [Next]_vars PROVE NoHoles'
  OBVIOUS
<1> USE DEF TypeInv
<1>1. phone \in PhoneRecord BY DEF PeerOK
<1>2. CASE GetChunk
  <2> DEFINE f     == phone.file
             asked == Asked(f, phone.next)
             got   == ParseRange("closed", asked.first, asked.last, Size[f])
             whole == \A b \in asked.first .. asked.last : b \div ChunkSize \in staged[f]
  <2>1. CASE Leave(TRUE) BY <1>1, <2>1, LeaveEffect DEF NoHoles
  <2>2. CASE /\ Readable(f)
             /\ phone' = [phone EXCEPT !.next = @ + 1,
                             !.holes = @ \/ ~whole \/ got.first # asked.first]
    <3>1. f \in part /\ f \in Files
      BY <2>2, BatchOfFiles DEF Readable, DiskOK, SenderOK
    <3>2. phone.next \in 0 .. TotalChunks(Size[f], PhoneChunk) - 1
      <4>1. Size[f] \in Nat /\ PhoneChunk \in Nat \ {0} BY <3>1, OutboundAssumption
      <4>2. TotalChunks(Size[f], PhoneChunk) \in Nat BY <4>1, ChunksCover
      <4>3. phone.next \in Nat BY <1>1 DEF PhoneRecord
      <4> QED BY <1>2, <4>2, <4>3 DEF GetChunk
    <3>3. /\ got = [ok |-> TRUE, first |-> asked.first, last |-> asked.last]
          /\ asked.first \in Nat /\ asked.last \in asked.first .. Size[f] - 1
      BY <3>1, <3>2, RangesAreTheFile
    <3>4. got.first = asked.first BY <3>3
    <3>5. offer # NotOffered BY <1>2 DEF GetChunk, StagingInv, AnswersFollow
    <3>6. staged[f] = Chunks(f) BY <3>1, <3>5, OfferedIsStaged
    <3>7. whole
      <4>1. SUFFICES ASSUME NEW b \in asked.first .. asked.last
                     PROVE  b \div ChunkSize \in staged[f]
        OBVIOUS
      <4>2. Size[f] \in Nat /\ ChunkSize \in Nat \ {0} BY <3>1, OutboundAssumption
      <4>3. b \in 0 .. Size[f] - 1 BY <3>3, <4>2
      <4> QED BY <3>6, <4>2, <4>3, ByteHasChunk DEF Chunks
    <3> DEFINE h == phone.holes \/ ~whole \/ got.first # asked.first
    <3>8. phone' = [phone EXCEPT !.next = @ + 1, !.holes = h] BY <2>2
    <3>9. ~h BY <3>4, <3>7 DEF NoHoles
    <3> HIDE DEF h
    <3> QED BY <1>1, <3>8, <3>9 DEF NoHoles, PhoneRecord
  <2> QED BY <1>2, <2>1, <2>2 DEF GetChunk
<1>3. CASE ~GetChunk
  <2>1. phone'.holes \in {phone.holes, FALSE}
    BY <1>1, <1>3, PeerWriters, DoneRecord, LeaveEffect
    DEF peer, OfferPush, PhoneAccepts, PhoneDeclines, NextFile, LeavesLoop, KeepFile,
        Report, PhoneCancels, OnMessage, Answer, OnFailed, OnCancel, OnCompleted,
        PhoneRecord
  <2> QED BY <2>1 DEF NoHoles
<1> QED BY <1>2, <1>3

\* A file of an announced batch is, for the phone, whole or not there: no chunk upload,
\* cancellation, deletion or move of the directory leaves a .part that is announced and
\* has a hole, for any sizes and chunk sizes (handleDownloadFile looks at the .part
\* only, neither at the bitmap nor at the status).
THEOREM DownloadsAreWhole == Spec => []NoHoles
<1>1. Init => StoredInv /\ NoHoles BY InitStored DEF Init, NoHoles, Asleep
<1>2. TypeInv /\ StagingInv /\ StoredInv /\ NoHoles /\ [Next]_vars => StoredInv' /\ NoHoles'
  BY StoredStays, NoHolesStays
<1> QED BY <1>1, <1>2, TypesHold, StagingHolds, PTL DEF Spec

-----------------------------------------------------------------------------
(* The rows of the files are complete before the transfer's. *)

Recorded == fileDone = batch \/ Unlisted

RecordedInv ==
    /\ \A p \in Parties : req[p].step = "write" /\ req[p].to = "completed" => Recorded
    /\ status = "completed" => Recorded

\* What was staged stays so: an upload that would take it back is over by then.
LEMMA RecordedStays ==
  TypeInv /\ StagingInv /\ [Next]_vars /\ Recorded /\ offer # NotOffered => Recorded'
<1> SUFFICES ASSUME TypeInv, StagingInv, [Next]_vars, Recorded, offer # NotOffered
             PROVE  Recorded'
  OBVIOUS
<1>1. UNCHANGED batch BY BatchStays
<1>2. CASE Unlisted BY <1>2, UnlistedStays DEF Recorded
<1>3. CASE UNCHANGED fileDone /\ fileDone = batch BY <1>1, <1>3 DEF Recorded
<1>4. CASE FilesDone BY <1>1, <1>3, <1>2, <1>4 DEF FilesDone, Recorded
<1>5. CASE DropFiles
  <2>1. page # "new" BY DEF StagingInv, AnswersFollow
  <2>2. page' # "new" BY <2>1, PageOnce
  <2> QED BY <1>2, <1>3, <1>5, <2>2 DEF DropFiles, Recorded, Unlisted
<1>6. ASSUME NEW r \in Puts, PutRow(r) PROVE FALSE
  <2>1. /\ req[r].file \in batch
        /\ req[r].chunk \in Chunks(req[r].file)
        /\ req[r].chunk \notin acked[req[r].file]
    BY <1>6, PartiesApart
    DEF PutRow, At, TypeInv, ReqOK, Fits, StagingInv, PutsApart, PutStep
  <2>2. AllStaged BY DEF StagingInv, OfferStaged
  <2> QED BY <2>1, <2>2 DEF AllStaged
<1> QED
  BY <1>2, <1>3, <1>4, <1>5, <1>6, RowWriters
  DEF rows, CreateRows, DropRow, PutStarted, WriteStatus, Recorded

LEMMA RecordsStay == TypeInv /\ StagingInv /\ RecordedInv /\ [Next]_vars => RecordedInv'
<1> SUFFICES ASSUME TypeInv, StagingInv, RecordedInv, [Next]_vars PROVE RecordedInv'
  OBVIOUS
<1> USE DEF TypeInv
<1>1. ASSUME NEW p \in Parties, req'[p].step = "write", req'[p].to = "completed"
      PROVE  Recorded'
  <2>1. p = "socket" /\ req[p].to = "completed" /\ req[p].step # "idle"
    <3>1. p = "socket" BY <1>1, ReqStep DEF ReqOK, Fits
    <3>2. req[p].to = "completed" BY <1>1, CompletionBegins
    <3>3. CASE OnMessage
      BY <1>1, <3>1, <3>3, OnMessageBegins, BatchStays, PartiesApart
    <3>4. req'[p] = req[p] \/ Server(p) \/ OnMessage \/ FilesDone
      BY <3>1, OwnMoves, PartiesApart DEF MovedBy
    <3>5. req[p].step # "idle"
      BY <1>1, <3>1, <3>3, <3>4 DEF Server, WriteStatus, Cleanup, FilesDone, At
    <3> QED BY <3>1, <3>2, <3>5
  <2>2. offer # NotOffered BY <2>1 DEF StagingInv, AnswersFollow
  <2>3. CASE req'[p] = req[p]
    BY <1>1, <2>2, <2>3, RecordedStays DEF RecordedInv
  <2>4. CASE Server(p)
    BY <1>1, <2>1, <2>4, GotoEffect, FinishEffect
    DEF Server, WriteStatus, Cleanup, ReqOK, Step, Idle
  <2>5. CASE OnMessage BY <2>1, <2>5, OnMessageBegins, BatchStays
  <2>6. CASE FilesDone
    <3>1. page # "new" BY <2>2 DEF StagingInv, AnswersFollow
    <3>2. page' # "new" BY <3>1, PageOnce
    <3> QED BY <2>6, <3>2, BatchStays DEF FilesDone, Recorded, Unlisted
  <2> QED BY <2>1, <2>3, <2>4, <2>5, <2>6, OwnMoves, PartiesApart DEF MovedBy
<1>2. ASSUME status' = "completed" PROVE Recorded'
  <2>1. status = "completed" \/ \E p \in Parties : WriteStatus(p) /\ req[p].to = "completed"
    BY <1>2, RowWriters
    DEF rows, CreateRows, FilesDone, DropFiles, DropRow, PutRow, PutStarted, WriteStatus,
        SetStatus
  <2>2. CASE status = "completed"
    BY <2>2, RecordedStays DEF RecordedInv, StagingInv, AnswersFollow
  <2>3. ASSUME NEW p \in Parties, WriteStatus(p), req[p].to = "completed" PROVE Recorded'
    <3>1. p = "socket" /\ req[p].step = "write"
      BY <2>3 DEF WriteStatus, At, ReqOK, Fits
    <3>2. offer # NotOffered BY <3>1 DEF StagingInv, AnswersFollow
    <3> QED BY <2>3, <3>1, <3>2, RecordedStays DEF RecordedInv
  <2> QED BY <2>1, <2>2, <2>3
<1> QED BY <1>1, <1>2 DEF RecordedInv

\* The history never shows a completed transfer with an unfinished file
\* (Router.handleTransferCompleted writes the files first), whatever chunk uploads
\* were in progress and whatever else is asked of the transfer.
THEOREM CompletedMeansRecorded == Spec => []CompletedIsRecorded
<1>1. Init => RecordedInv BY PartiesApart DEF Init, RecordedInv, Idle
<1>2. RecordedInv => CompletedIsRecorded
  BY DEF RecordedInv, CompletedIsRecorded, Recorded, Unlisted
<1> QED BY <1>1, <1>2, RecordsStay, TypesHold, StagingHolds, PTL DEF Spec

-----------------------------------------------------------------------------
(* Whoever ends the transfer cleans up after it. *)

\* The .part files are gone for good, or somebody has yet to remove them; or somebody
\* removed them before POST /transfers had created them all.
CleanSoon ==
    \/ early
    \/ \E p \in Parties : req[p].step = "cleanup"
    \/ part = {} /\ making = {}

\* Before POST /transfers there is nothing to end.
EarlyQuiet ==
    page = "new" =>
        /\ part = {} /\ making = {}
        /\ status = "absent"
        /\ \A p \in Parties : req[p] = Idle

OverCleans ==
    /\ status \in Terminal => CleanSoon
    /\ page # "new" /\ status = "absent" => CleanSoon
    /\ req["history"].to \in {"delete", "local"} /\ req["history"].step # "cleanup" =>
         CleanSoon

CleanInv == EarlyQuiet /\ OverCleans

LEMMA InitClean == Init => CleanInv
BY PartiesApart DEF Init, CleanInv, EarlyQuiet, OverCleans, CleanSoon, Idle, Terminal

LEMMA CleanupComes ==
  ASSUME TypeInv, [Next]_vars, NEW p \in Parties, req[p].step = "cleanup"
  PROVE  req'[p] = req[p] \/ Cleanup(p)
<1>1. ~Free(p) BY DEF Free, At
<1>2. CASE Server(p) BY <1>2 DEF Server, WriteStatus, At
<1>3. CASE p \in Puts /\ Put(p)
  BY <1>1, <1>3 DEF Put, PutRead, PutWrite, PutFind, PutRow, PutStarted, Begin, At
<1>4. CASE p = "sender" /\ Page
  BY <1>1, <1>4
  DEF Page, CreateRows, CreateParts, OfferRead, OfferPush, GivesUp, HearsAccept,
      SenderCancels, CancelRead, Begin, At
<1>5. CASE p = "phone" /\ PhoneCancels BY <1>1, <1>5 DEF PhoneCancels, CancelRead, Begin
<1>6. CASE p = "socket" /\ OnMessage BY <1>6, OnMessageBegins, BatchStays
<1>7. CASE p = "socket" /\ FilesDone BY <1>7 DEF FilesDone, At
<1>8. CASE p = "grace" /\ GraceExpires BY <1>1, <1>8 DEF GraceExpires, Begin
<1>9. CASE p = "history" /\ (DeleteTransfer \/ DeleteLocal \/ ClearHistory \/ History)
  BY <1>1, <1>9
  DEF DeleteTransfer, DeleteLocal, ClearHistory, History, DropFiles, DropRow, Begin, At
<1> QED BY <1>2, <1>3, <1>4, <1>5, <1>6, <1>7, <1>8, <1>9, OwnMoves DEF MovedBy

\* Once created, the .part files are created once.
LEMMA CleanSoonStays ==
  TypeInv /\ [Next]_vars /\ CleanSoon /\ ~CreateRows => CleanSoon'
<1> SUFFICES ASSUME TypeInv, [Next]_vars, CleanSoon, ~CreateRows PROVE CleanSoon'
  OBVIOUS
<1>1. ASSUME NEW p \in Parties, Cleanup(p) PROVE CleanSoon'
  BY <1>1 DEF Cleanup, DropStaged, CleanSoon
<1>2. CASE early
  BY <1>1, <1>2, DiskWriters DEF disk, CreateParts, MoveDirectory, PutWrite, CleanSoon
<1>3. CASE part = {} /\ making = {}
  BY <1>1, <1>3, DiskWriters DEF disk, CreateParts, MoveDirectory, PutWrite, CleanSoon
<1>4. ASSUME NEW p \in Parties, req[p].step = "cleanup" PROVE CleanSoon'
  BY <1>1, <1>4, CleanupComes DEF CleanSoon
<1> QED BY <1>2, <1>3, <1>4 DEF CleanSoon

LEMMA EarlyStays == TypeInv /\ AnswersFollow /\ EarlyQuiet /\ [Next]_vars => EarlyQuiet'
<1> SUFFICES ASSUME TypeInv, AnswersFollow, EarlyQuiet, [Next]_vars, page' = "new"
             PROVE  /\ part' = {} /\ making' = {}
                    /\ status' = "absent"
                    /\ \A p \in Parties : req'[p] = Idle
  BY DEF EarlyQuiet
<1> USE DEF TypeInv
<1>1. page = "new" BY PageWriters, PushFacts, PartsFacts DEF CreateRows, OfferRead
<1>2. /\ part = {} /\ making = {} /\ status = "absent"
      /\ \A p \in Parties : req[p] = Idle /\ req[p].step = "idle"
  BY <1>1 DEF EarlyQuiet, Idle
<1>3. ~CreateRows /\ ~CreateParts BY <1>1, PartsFacts DEF CreateRows
<1>4. \A p \in Parties : ~WriteStatus(p) /\ ~Cleanup(p)
  BY <1>2 DEF WriteStatus, Cleanup, At
<1>5. \A r \in Puts : ~PutWrite(r) /\ ~PutFind(r) /\ ~PutRow(r) /\ ~PutStarted(r)
  BY <1>2, PartiesApart DEF PutWrite, PutFind, PutRow, PutStarted, At
<1>6. ~FilesDone /\ ~DropFiles /\ ~DropRow
  BY <1>2, PartiesApart DEF FilesDone, DropFiles, DropRow, At
<1>7. part' = {} /\ making' = {}
  BY <1>2, <1>3, <1>4, <1>5, DiskWriters DEF disk, MoveDirectory
<1>8. status' = "absent" BY <1>2, <1>3, <1>4, <1>5, <1>6, RowWriters DEF rows
<1>9. ASSUME NEW p \in Parties PROVE req'[p] = Idle
  <2>1. ~(p \in Puts /\ Put(p)) BY <1>1, <1>5 DEF Put, PutRead
  <2>2. ~Page
    BY <1>1, <1>2, <1>3, PartiesApart
    DEF Page, OfferRead, OfferPush, GivesUp, HearsAccept, SenderCancels, At
  <2>3. ~PhoneCancels BY <1>1 DEF PhoneCancels, AnswersFollow
  <2>4. ~OnMessage BY <1>1, OnMessageBegins, BatchStays DEF AnswersFollow
  <2>5. ~GraceExpires /\ ~DeleteTransfer /\ ~DeleteLocal /\ ~ClearHistory
    BY <1>2 DEF GraceExpires, DeleteTransfer, DeleteLocal, ClearHistory, Live, Exists
  <2> QED
    BY <1>2, <1>4, <1>6, <2>1, <2>2, <2>3, <2>4, <2>5, OwnMoves
    DEF MovedBy, Server, History
<1> QED BY <1>7, <1>8, <1>9

LEMMA OverStays == TypeInv /\ CleanInv /\ [Next]_vars => OverCleans'
<1> SUFFICES ASSUME TypeInv, CleanInv, [Next]_vars PROVE OverCleans' OBVIOUS
<1> USE DEF TypeInv, CleanInv
<1>1. CleanSoon /\ ~CreateRows => CleanSoon' BY CleanSoonStays
<1>2. ASSUME NEW p \in Parties, WriteStatus(p), req[p].to # "preparing" PROVE CleanSoon'
  BY <1>2, GotoEffect DEF WriteStatus, CleanSoon, ReqOK, Step
<1>3. ASSUME status' \in Terminal PROVE CleanSoon'
  <2>1. \/ UNCHANGED status
        \/ \E p \in Parties : WriteStatus(p) /\ req[p].to # "preparing"
    BY <1>3, RowWriters
    DEF rows, CreateRows, FilesDone, DropFiles, DropRow, PutRow, PutStarted, WriteStatus,
        SetStatus, Terminal
  <2>2. ~CreateRows BY <1>3 DEF CreateRows, Terminal
  <2> QED BY <1>1, <1>2, <1>3, <2>1, <2>2 DEF OverCleans
<1>4. ASSUME page' # "new", status' = "absent" PROVE CleanSoon'
  <2>1. ~CreateRows BY <1>4 DEF CreateRows
  <2>2. page # "new"
    BY <1>4, <2>1, PageWriters, PushFacts, PartsFacts DEF OfferRead
  <2>3. status = "absent" \/ DropRow
    <3>1. ASSUME NEW p \in Parties, WriteStatus(p) PROVE status = "absent"
      <4>1. req[p].to # "absent" BY <3>1 DEF WriteStatus, At, ReqOK, Fits
      <4> QED BY <1>4, <3>1, <4>1 DEF WriteStatus, SetStatus, Exists
    <3> QED
      BY <1>4, <2>1, <3>1, RowWriters
      DEF rows, FilesDone, DropFiles, PutRow, PutStarted, Exists
  <2>4. CASE DropRow /\ status # "absent"
    <3>1. req["history"].to \in {"delete", "local", "clear"} /\ At("history", "drop_row")
      BY <2>4, PartiesApart DEF DropRow, At, ReqOK, Fits
    <3>2. CASE req["history"].to = "clear"
      BY <1>1, <1>4, <2>1, <2>4, <3>2 DEF DropRow, Selected, OverCleans
    <3>3. CASE req["history"].to \in {"delete", "local"}
      BY <1>1, <2>1, <3>1, <3>3 DEF At, OverCleans
    <3> QED BY <3>1, <3>2, <3>3
  <2> QED BY <1>1, <2>1, <2>2, <2>3, <2>4 DEF OverCleans
<1>5. ASSUME req'["history"].to \in {"delete", "local"}, req'["history"].step # "cleanup"
      PROVE  CleanSoon'
  <2>1. "history" \in Parties \ Puts /\ "history" # "sender" BY PartiesApart
  <2>2. CASE req'["history"] = req["history"]
    <3>1. page # "new" BY <1>5, <2>1, <2>2 DEF EarlyQuiet, Idle
    <3>2. ~CreateRows BY <3>1 DEF CreateRows
    <3> QED BY <1>1, <1>5, <2>2, <3>2 DEF OverCleans
  <2>3. CASE WriteStatus("history")
    BY <1>5, <2>1, <2>3, GotoEffect, FinishEffect
    DEF WriteStatus, At, ReqOK, Fits, Step, Idle
  <2>4. CASE Cleanup("history") BY <2>4 DEF Cleanup, DropStaged, CleanSoon
  <2>5. CASE DeleteTransfer
    BY <1>5, <2>1, <2>5, BeginEffect, DoingRecord DEF DeleteTransfer, ReqOK, Step, Purpose
  <2>6. CASE DeleteLocal
    <3>1. page # "new" BY <2>6 DEF DeleteLocal, Exists, EarlyQuiet
    <3>2. ~CreateRows BY <3>1 DEF CreateRows
    <3> QED BY <1>1, <2>6, <3>2 DEF DeleteLocal, OverCleans
  <2>7. CASE ClearHistory
    BY <1>5, <2>1, <2>7, BeginEffect, DoingRecord DEF ClearHistory, ReqOK, Step, Purpose
  <2>8. CASE DropFiles
    <3>1. req["history"].to \in {"delete", "local"} /\ At("history", "drop_files")
      BY <1>5, <2>1, <2>8, GotoEffect DEF DropFiles, ReqOK, Step
    <3>2. page # "new" BY <2>1, <3>1 DEF EarlyQuiet, Idle, At
    <3>3. ~CreateRows BY <3>2 DEF CreateRows
    <3> QED BY <1>1, <3>1, <3>3 DEF At, OverCleans
  <2>9. CASE DropRow BY <1>5, <2>1, <2>9, FinishEffect DEF DropRow, ReqOK, Idle
  <2> QED
    BY <2>1, <2>2, <2>3, <2>4, <2>5, <2>6, <2>7, <2>8, <2>9, OwnMoves
    DEF MovedBy, Server, History
<1> QED BY <1>3, <1>4, <1>5 DEF OverCleans

\* Once nothing is in progress, a transfer that is over or deleted has no .part in the
\* staging directory: whoever writes a terminal status cleans up after it, and a late
\* chunk does not bring a file back (storage.Storage.WriteChunk creates none).  The only
\* exception, for any files and uploads, is a transfer that was cleaned up while
\* POST /transfers was still between Manager.Create and its last CreatePart.
THEOREM NothingLeft == Spec => []SettledLeavesNothing
<1>1. TypeInv /\ StagingInv /\ CleanInv /\ [Next]_vars => CleanInv'
  BY EarlyStays, OverStays DEF CleanInv, StagingInv
<1>2. CleanInv => SettledLeavesNothing
  BY DEF CleanInv, EarlyQuiet, OverCleans, CleanSoon, SettledLeavesNothing, Quiet, Settled,
         Live, Exists, Free, At
<1> QED BY <1>1, <1>2, InitClean, TypesHold, StagingHolds, PTL DEF Spec
=============================================================================
