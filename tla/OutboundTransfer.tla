--------------------------- MODULE OutboundTransfer ---------------------------
(***************************************************************************)
(* One transfer from the desktop to a phone (direction server_to_client):  *)
(* the page of the desktop stages the files on its own server, announces   *)
(* them, and waits 120 s for the phone to accept; the phone downloads      *)
(* every file and reports.  Meanwhile anybody may cancel the transfer,     *)
(* delete it, clear the history or move the download directory, and the    *)
(* server itself gives up on a session that stays disconnected.            *)
(*                                                                         *)
(* Every statement and every file operation is a step of its own.  Each    *)
(* party has a request of its own in progress at the server; the chunks    *)
(* that are staged share the requests in Puts.                             *)
(***************************************************************************)
EXTENDS TransferStates, Naturals, Sequences, FiniteSets

CONSTANTS
    Files,      \* the files there are
    Size,       \* the bytes of each
    ChunkSize,  \* the chunk size of the server, in bytes
    PhoneChunk, \* and that of the phone
    Batches,    \* the sets of files that may be sent together
    Puts        \* chunk uploads in progress at a time

ASSUME OutboundAssumption ==
    /\ Size \in [Files -> Nat]
    /\ ChunkSize \in Nat \ {0}
    /\ PhoneChunk \in Nat \ {0}
    /\ Batches \subseteq (SUBSET Files) \ {{}}
    /\ "none" \notin Files
    /\ Puts \cap {"sender", "phone", "history", "socket", "grace"} = {}

Parties == Puts \cup {"sender", "phone", "history", "socket", "grace"}

VARIABLES
    status, started,    \* the row in transfers; "absent" when there is none
    listed,             \* the transfer's rows in transfer_files are there
    fileDone,           \* those whose status is completed
    part,               \* files with a .part in the present staging directory
    staged,             \* the chunks written to it
    making,             \* files whose .part POST /transfers has yet to create
    early,              \* history: something was cleaned up before it had done so
    req,                \* what the server is doing for each party
    batch,              \* what the page sends
    page,               \* where sendBatch is
    acked,              \* chunks the server answered 200 for
    heard,              \* the page received file.offer.accept
    offer,              \* the files the phone was offered, or NotOffered
    phone,              \* where acceptOffer is
    kept,               \* files the phone has verified and kept
    wire,               \* messages from the phone the reader has not taken
    lost                \* a report was dropped, the socket being down

rows   == <<status, started, listed, fileDone>>
disk   == <<part, staged, making, early>>
sender == <<batch, page, acked, heard>>
peer   == <<offer, phone, kept, wire, lost>>
vars   == <<rows, disk, req, sender, peer>>

-----------------------------------------------------------------------------
(* Chunks and byte ranges. *)

TotalChunks(size, chunk) == (size + chunk - 1) \div chunk

Chunks(f) == 0 .. TotalChunks(Size[f], ChunkSize) - 1

\* parseRange of "bytes=first-last", "bytes=first-" (open) and "bytes=-last" (suffix).
ParseRange(form, first, last, size) ==
    LET from == IF form = "suffix" THEN size - last ELSE first
        to   == IF form = "closed" THEN last ELSE size - 1
    IN [ok |-> IF form = "suffix" THEN last > 0 /\ last <= size
               ELSE 0 <= from /\ from < size /\ from <= to /\ to < size,
        first |-> from, last |-> to]

\* The range the phone asks for next: _downloadFile never asks past the end.
Least(a, b) == IF a < b THEN a ELSE b
Asked(f, i) == [first |-> i * PhoneChunk,
                last  |-> Least(i * PhoneChunk + PhoneChunk - 1, Size[f] - 1)]

-----------------------------------------------------------------------------
NotOffered == {"none"}

Exists    == status # "absent"
Live      == Exists /\ status \notin Terminal
Settled   == ~Live

Idle   == [step |-> "idle", to |-> "none", file |-> "none", chunk |-> 0]
Asleep == [at |-> "idle", todo |-> {}, file |-> "none", next |-> 0,
           holes |-> FALSE, failed |-> FALSE, cancelled |-> FALSE]
Done   == [Asleep EXCEPT !.at = "over"]

TypeOK ==
    /\ status \in Status \cup {"absent"}
    /\ started \in BOOLEAN
    /\ listed \in BOOLEAN
    /\ fileDone \subseteq batch
    /\ part \subseteq batch
    /\ making \subseteq batch
    /\ early \in BOOLEAN
    /\ staged \in [Files -> SUBSET Nat]
    /\ \A f \in Files : staged[f] \subseteq Chunks(f)
    /\ req \in [Parties -> [step : {"idle", "parts", "put_write", "put_find", "put_row",
                                    "put_started", "announce", "write", "cleanup",
                                    "files_done", "drop_files", "drop_row"},
                            to : {"none", "preparing", "cancelled", "failed", "completed",
                                  "delete", "local", "clear"},
                            file : Files \cup {"none"}, chunk : Nat]]
    /\ batch \in Batches
    /\ page \in {"new", "creating", "staging", "announcing", "waiting",
                 "cancelling", "over"}
    /\ acked \in [Files -> SUBSET Nat]
    /\ \A f \in Files : acked[f] \subseteq Chunks(f)
    /\ heard \in BOOLEAN
    /\ offer \subseteq batch \/ offer = NotOffered
    /\ phone \in [at : {"idle", "loading", "over"}, todo : SUBSET Files,
                  file : Files \cup {"none"}, next : Nat, holes : BOOLEAN,
                  failed : BOOLEAN, cancelled : BOOLEAN]
    /\ kept \subseteq batch
    /\ wire \in Seq({"accept", "reject", "completed", "failed", "cancel"})
    /\ lost \in BOOLEAN

Init ==
    /\ status = "absent" /\ started = FALSE /\ listed = FALSE /\ fileDone = {}
    /\ part = {} /\ staged = [f \in Files |-> {}]
    /\ making = {} /\ early = FALSE
    /\ req = [p \in Parties |-> Idle]
    /\ batch \in Batches
    /\ page = "new" /\ heard = FALSE
    /\ acked = [f \in Files |-> {}]
    /\ offer = NotOffered /\ phone = Asleep /\ kept = {}
    /\ wire = <<>> /\ lost = FALSE

-----------------------------------------------------------------------------
(* How a request moves. *)

At(p, step)   == req[p].step = step
Free(p)       == At(p, "idle")
Begin(p, rec) == Free(p) /\ req' = [req EXCEPT ![p] = rec]
Goto(p, step) == req' = [req EXCEPT ![p].step = step]
Finish(p)     == req' = [req EXCEPT ![p] = Idle]
Doing(step, to) == [Idle EXCEPT !.step = step, !.to = to]

\* UPDATE transfers ... WHERE id = ? touches nothing when the row is gone.
SetStatus(to) == status' = IF Exists THEN to ELSE status

\* Storage.CleanupTransfer, in the directory configured now.
DropStaged ==
    /\ part' = {}
    /\ staged' = [f \in Files |-> {}]
    /\ early' = (early \/ making # {})
    /\ UNCHANGED making

-----------------------------------------------------------------------------
(* The page: sendBatch with a local session. *)

\* handleCreateTransfer and Manager.Create; an outbound batch needs no free space.
CreateRows ==
    /\ page = "new"
    /\ page' = "creating"
    /\ Begin("sender", Doing("parts", "none"))
    /\ status' = "created" /\ listed' = TRUE
    /\ making' = batch
    /\ UNCHANGED <<started, fileDone, part, staged, early, batch, acked, heard,
                   peer>>

\* CreatePart of one file, without another look at the rows; the answer after the last.
CreateParts ==
    /\ At("sender", "parts")
    /\ \E f \in making :
          /\ part' = part \cup {f}
          /\ making' = making \ {f}
          /\ IF making = {f} THEN Finish("sender") /\ page' = "staging"
                             ELSE UNCHANGED <<req, page>>
    /\ UNCHANGED <<rows, staged, early, batch, acked, heard, peer>>

PutRead_NoBoundCheck(r) ==
    /\ page = "staging" /\ Live /\ listed
    /\ \E f \in batch : \E c \in 0 .. TotalChunks(Size[f], ChunkSize) :
          Begin(r, [Idle EXCEPT !.step = "put_write", !.file = f, !.chunk = c])
    /\ UNCHANGED <<rows, disk, sender, peer>>

\* handlePutChunk of a chunk the page has no answer for.  A PUT that timed out at the
\* page while it still runs here is left out.
PutRead(r) ==
    /\ page = "staging" /\ Live /\ listed
    /\ \E f \in batch : \E c \in Chunks(f) \ acked[f] :
          /\ ~\E q \in Puts : ~Free(q) /\ req[q].file = f /\ req[q].chunk = c
          /\ Begin(r, [Idle EXCEPT !.step = "put_write", !.file = f, !.chunk = c])
    /\ UNCHANGED <<rows, disk, sender, peer>>

PutWrite_CreatesPart(r) ==
    /\ At(r, "put_write")
    /\ part' = part \cup {req[r].file}
    /\ staged' = [staged EXCEPT ![req[r].file] = @ \cup {req[r].chunk}]
    /\ Goto(r, "put_find")
    /\ UNCHANGED <<rows, making, early, sender, peer>>

\* WriteChunk opens the .part and does not create it.
PutWrite(r) ==
    /\ At(r, "put_write")
    /\ IF req[r].file \in part
       THEN /\ staged' = [staged EXCEPT ![req[r].file] = @ \cup {req[r].chunk}]
            /\ Goto(r, "put_find")
       ELSE Finish(r) /\ UNCHANGED staged
    /\ UNCHANGED <<rows, part, making, early, sender, peer>>

\* MarkChunkComplete reads the file again before it marks the chunk.
PutFind(r) ==
    /\ At(r, "put_find")
    /\ IF listed THEN Goto(r, "put_row") ELSE Finish(r)
    /\ UNCHANGED <<rows, disk, sender, peer>>

PutRow(r) ==
    /\ At(r, "put_row")
    /\ fileDone' = fileDone \ {req[r].file}
    /\ Goto(r, "put_started")
    /\ UNCHANGED <<status, started, listed, disk, sender, peer>>

\* The first chunk starts the transfer, whatever its status is by now.
PutStarted(r) ==
    /\ At(r, "put_started")
    /\ IF Exists /\ ~started
       THEN status' = "transferring" /\ started' = TRUE
       ELSE UNCHANGED <<status, started>>
    /\ acked' = [acked EXCEPT ![req[r].file] = @ \cup {req[r].chunk}]
    /\ Finish(r)
    /\ UNCHANGED <<listed, fileDone, disk, batch, page, heard, peer>>

Put(r) == PutRead(r) \/ PutWrite(r) \/ PutFind(r) \/ PutRow(r) \/ PutStarted(r)

AllStaged == \A f \in batch : acked[f] = Chunks(f)

\* handleOfferTransfer: an announcement that is refused ends sendBatch.
OfferRead ==
    /\ page = "staging" /\ AllStaged
    /\ IF Exists
       THEN page' = "announcing" /\ Begin("sender", Doing("announce", "none"))
       ELSE page' = "over" /\ UNCHANGED req
    /\ UNCHANGED <<rows, disk, batch, acked, heard, peer>>

\* The file rows are listed by a statement of their own, and the status stays.
OfferPush ==
    /\ At("sender", "announce")
    /\ offer' = IF listed THEN batch ELSE {}
    /\ Finish("sender")
    /\ page' = "waiting"
    /\ UNCHANGED <<rows, disk, batch, acked, heard, phone, kept, wire, lost>>

GivesUp_NoCancel ==
    /\ page = "staging" \/ (page = "waiting" /\ ~heard)
    /\ page' = IF page = "staging" THEN "cancelling" ELSE "over"
    /\ UNCHANGED <<rows, disk, req, batch, acked, heard, peer>>

\* A file that failed, the user, or 120 s without an answer: cancel the transfer.
GivesUp ==
    /\ \/ page = "staging"
       \/ page = "waiting" /\ ~heard
    /\ page' = "cancelling"
    /\ UNCHANGED <<rows, disk, req, batch, acked, heard, peer>>

HearsAccept ==
    /\ page = "waiting" /\ heard
    /\ page' = "over"
    /\ UNCHANGED <<rows, disk, req, batch, acked, heard, peer>>

-----------------------------------------------------------------------------
(* Cancelling: POST /cancel and transfer.cancel.  Manager.Cancel reads the   *)
(* status, then writes it; the staged files go after that.                   *)

CancelRead(p) == IF Live THEN Begin(p, Doing("write", "cancelled"))
                         ELSE Free(p) /\ UNCHANGED req

SenderCancels ==
    /\ page = "cancelling"
    /\ page' = "over"
    /\ CancelRead("sender")
    /\ UNCHANGED <<rows, disk, batch, acked, heard, peer>>

\* The status a handler read may be stale: it is written over whatever is there.
WriteStatus(p) ==
    /\ At(p, "write")
    /\ SetStatus(req[p].to)
    /\ IF req[p].to = "preparing"
       THEN Finish(p) /\ heard' = TRUE
       ELSE Goto(p, "cleanup") /\ UNCHANGED heard
    /\ UNCHANGED <<started, listed, fileDone, disk, batch, page, acked, peer>>

Cleanup(p) ==
    /\ At(p, "cleanup")
    /\ DropStaged
    /\ IF req[p].to = "delete" THEN Goto(p, "drop_files") ELSE Finish(p)
    /\ UNCHANGED <<rows, sender, peer>>

\* OnGraceExpired: the phone has had no socket for 60 s, whatever the page does.
GraceExpires ==
    /\ Live
    /\ Begin("grace", Doing("write", "failed"))
    /\ UNCHANGED <<rows, disk, sender, peer>>

-----------------------------------------------------------------------------
(* The phone: acceptOffer and downloadFile.  A message is dropped when the   *)
(* socket is down.                                                           *)

Say(m) == \/ wire' = Append(wire, m) /\ UNCHANGED lost
          \/ UNCHANGED wire /\ lost' = TRUE

\* Accepting; the answer of the server is not waited for.
PhoneAccepts ==
    /\ phone.at = "idle" /\ offer # NotOffered
    /\ phone' = [phone EXCEPT !.at = "loading", !.todo = offer]
    /\ wire' \in {wire, Append(wire, "accept")}
    /\ UNCHANGED <<rows, disk, req, sender, offer, kept, lost>>

\* Rejecting, or no room for the files.
PhoneDeclines ==
    /\ phone.at = "idle" /\ offer # NotOffered
    /\ phone' = Done
    /\ Say("reject") \/ Say("failed")
    /\ UNCHANGED <<rows, disk, req, sender, offer, kept>>

\* What is left of a file that was kept or given up.
Leave(failed) == phone' = [phone EXCEPT !.file = "none", !.next = 0, !.holes = FALSE,
                                        !.failed = @ \/ failed]

NextFile ==
    /\ phone.at = "loading" /\ phone.file = "none" /\ ~phone.cancelled
    /\ \E f \in phone.todo :
          phone' = [phone EXCEPT !.todo = @ \ {f}, !.file = f]
    /\ UNCHANGED <<rows, disk, req, sender, offer, kept, wire, lost>>

LeavesLoop_Breaks ==
    /\ phone.at = "loading" /\ phone.file = "none" /\ phone.cancelled /\ phone.todo # {}
    /\ phone' = [phone EXCEPT !.todo = {}]
    /\ UNCHANGED <<rows, disk, req, sender, offer, kept, wire, lost>>

\* acceptOffer returns without a report when it finds the transfer cancelled.
LeavesLoop ==
    /\ phone.at = "loading" /\ phone.file = "none" /\ phone.cancelled /\ phone.todo # {}
    /\ phone' = Done
    /\ UNCHANGED <<rows, disk, req, sender, offer, kept, wire, lost>>

\* handleDownloadFile looks at the rows and opens the .part; not at the status.
Readable(f) == Exists /\ listed /\ f \in part

\* One range.  The file is given up after five attempts, or when the transfer was
\* cancelled; the range that was asked for by then may be the last one.
GetChunk ==
    /\ phone.at = "loading" /\ phone.file # "none"
    /\ phone.next < TotalChunks(Size[phone.file], PhoneChunk)
    /\ LET f     == phone.file
           asked == Asked(f, phone.next)
           got   == ParseRange("closed", asked.first, asked.last, Size[f])
           whole == \A b \in asked.first .. asked.last : b \div ChunkSize \in staged[f]
       IN \/ /\ Readable(f) /\ got.ok
             /\ got.last - got.first = asked.last - asked.first
             /\ phone.cancelled => phone.next + 1 = TotalChunks(Size[f], PhoneChunk)
             /\ phone' = [phone EXCEPT !.next = @ + 1,
                             !.holes = @ \/ ~whole \/ got.first # asked.first]
          \/ Leave(TRUE)
    /\ UNCHANGED <<rows, disk, req, sender, offer, kept, wire, lost>>

\* The SHA-256 the page declared must be that of the file, and the file be moved: a
\* cancel removes the directory it was loaded to.
KeepFile ==
    /\ phone.at = "loading" /\ phone.file # "none"
    /\ phone.next = TotalChunks(Size[phone.file], PhoneChunk)
    /\ \/ Leave(TRUE) /\ UNCHANGED kept
       \/ ~phone.holes /\ Leave(FALSE) /\ kept' = kept \cup {phone.file}
    /\ UNCHANGED <<rows, disk, req, sender, offer, wire, lost>>

Report_IgnoresFailures ==
    /\ phone.at = "loading" /\ phone.file = "none" /\ phone.todo = {}
    /\ phone' = Done
    /\ Say("completed")
    /\ UNCHANGED <<rows, disk, req, sender, offer, kept>>

Report ==
    /\ phone.at = "loading" /\ phone.file = "none" /\ phone.todo = {}
    /\ phone' = Done
    /\ Say(IF phone.failed THEN "failed" ELSE "completed")
    /\ UNCHANGED <<rows, disk, req, sender, offer, kept>>

\* cancelDownload: POST /cancel, which may not get through, then transfer.cancel.
\* The download of a file goes on until it looks at its token.
PhoneCancels ==
    /\ phone.at = "loading" /\ ~phone.cancelled
    /\ phone.file # "none" \/ phone.todo # {}
    /\ phone' = [phone EXCEPT !.cancelled = TRUE]
    /\ CancelRead("phone") \/ UNCHANGED req
    /\ Say("cancel")
    /\ UNCHANGED <<rows, disk, sender, offer, kept>>

-----------------------------------------------------------------------------
(* The reader of the phone's socket: Router.OnMessage, one message at a time. *)

Take(m) == wire # <<>> /\ Head(wire) = m /\ wire' = Tail(wire)

\* An offer is accepted or rejected only in a status that leads there.
Answer(m, to) ==
    /\ Take(m)
    /\ IF Exists /\ CanTransition(status, to)
       THEN Begin("socket", Doing("write", to))
       ELSE Free("socket") /\ UNCHANGED req
    /\ UNCHANGED <<rows, disk, sender, offer, phone, kept, lost>>

OnFailed ==
    /\ Take("failed")
    /\ IF Live THEN Begin("socket", Doing("write", "failed"))
               ELSE Free("socket") /\ UNCHANGED req
    /\ UNCHANGED <<rows, disk, sender, offer, phone, kept, lost>>

OnCancel ==
    /\ Take("cancel")
    /\ CancelRead("socket")
    /\ UNCHANGED <<rows, disk, sender, offer, phone, kept, lost>>

OnCompleted_LeavesFiles ==
    /\ Take("completed")
    /\ IF Exists THEN Begin("socket", Doing("write", "completed"))
                 ELSE Free("socket") /\ UNCHANGED req
    /\ UNCHANGED <<rows, disk, sender, offer, phone, kept, lost>>

\* A completion is taken in every status.
OnCompleted ==
    /\ Take("completed")
    /\ IF Exists THEN Begin("socket", Doing("files_done", "completed"))
                 ELSE Free("socket") /\ UNCHANGED req
    /\ UNCHANGED <<rows, disk, sender, offer, phone, kept, lost>>

FilesDone ==
    /\ At("socket", "files_done")
    /\ fileDone' = IF listed THEN batch ELSE fileDone
    /\ Goto("socket", "write")
    /\ UNCHANGED <<status, started, listed, disk, sender, peer>>

OnMessage == \/ Answer("accept", "preparing") \/ Answer("reject", "rejected")
             \/ OnFailed \/ OnCancel \/ OnCompleted

-----------------------------------------------------------------------------
(* History: DELETE /transfers/{id} takes any transfer and ignores errors,    *)
(* DELETE /local/transfers/{id} looks at the status first, and clearing the  *)
(* history looks at it in every statement.                                   *)

DeleteTransfer ==
    /\ Exists
    /\ Begin("history", Doing("cleanup", "delete"))
    /\ UNCHANGED <<rows, disk, sender, peer>>

DeleteLocal ==
    /\ Exists /\ status \in Terminal
    /\ Begin("history", Doing("drop_files", "local"))
    /\ UNCHANGED <<rows, disk, sender, peer>>

ClearHistory ==
    /\ Exists
    /\ Begin("history", Doing("drop_files", "clear"))
    /\ UNCHANGED <<rows, disk, sender, peer>>

Selected == req["history"].to = "clear" => status \in Terminal

DropFiles ==
    /\ At("history", "drop_files")
    /\ IF Selected THEN listed' = FALSE /\ fileDone' = {} ELSE UNCHANGED <<listed, fileDone>>
    /\ Goto("history", "drop_row")
    /\ UNCHANGED <<status, started, disk, sender, peer>>

\* transfer_files refers to the row, which stays while there are any.
DropRow ==
    /\ At("history", "drop_row")
    /\ status' = IF Selected /\ ~listed THEN "absent" ELSE status
    /\ Finish("history")
    /\ UNCHANGED <<started, listed, fileDone, disk, sender, peer>>

\* SetDownloadDir: the .part files stay in the old staging directory, out of reach.
MoveDirectory ==
    /\ part # {}
    /\ part' = {}
    /\ staged' = [f \in Files |-> {}]
    /\ UNCHANGED <<rows, making, early, req, sender, peer>>

-----------------------------------------------------------------------------
Server(p) == WriteStatus(p) \/ Cleanup(p)

Page == \/ CreateRows \/ CreateParts \/ OfferRead \/ OfferPush
        \/ GivesUp \/ HearsAccept \/ SenderCancels

Phone == NextFile \/ LeavesLoop \/ GetChunk \/ KeepFile \/ Report

History == DropFiles \/ DropRow

Terminated ==
    /\ page = "over" /\ \A p \in Parties : Free(p)
    /\ wire = <<>> /\ phone.at # "loading"
    /\ UNCHANGED vars

Next ==
    \/ Page \/ Phone \/ OnMessage \/ FilesDone \/ History
    \/ \E r \in Puts : Put(r)
    \/ \E p \in Parties : Server(p)
    \/ PhoneAccepts \/ PhoneDeclines \/ PhoneCancels
    \/ GraceExpires \/ DeleteTransfer \/ DeleteLocal \/ ClearHistory
    \/ MoveDirectory
    \/ Terminated

Spec == Init /\ [][Next]_vars

\* The page with its requests, the phone once it has accepted, and the reader of its socket
\* go on; no upload, history window or grace timer need do so.
FairSpec ==
    /\ Spec
    /\ WF_vars(Page \/ Server("sender"))
    /\ WF_vars(Phone)
    /\ WF_vars(OnMessage \/ FilesDone \/ Server("socket"))

-----------------------------------------------------------------------------
(* Properties. *)

\* A transfer is recorded as completed, with its files, only when the phone has kept
\* every one of them: whatever is cancelled, deleted or moved meanwhile, the server
\* believes the phone's report (Router.handleTransferCompleted), and the phone reports
\* success only if no download failed.
DeliveredWhole ==
    status = "completed" /\ listed => kept = batch

\* The server with its stale writes and the phone with its lossy socket keep the
\* promise of a receiver: what the phone has kept it keeps, and the transfer is
\* recorded as completed only after everything of the batch has been kept, for as
\* long as anybody may overwrite or delete that record.
Sending == INSTANCE FileDelivery WITH
    delivered <- kept,
    reported  <- status = "completed" /\ listed
SendsBatch == Sending!Spec

\* The history never shows a completed transfer with an unfinished file: the rows of
\* the files are written before the transfer's, and no chunk upload comes after.
CompletedIsRecorded ==
    status = "completed" /\ listed => fileDone = batch

\* Once nothing is in progress, a transfer that is over or deleted has no .part in the
\* staging directory: every path into a terminal status cleans up after it, and a chunk
\* that comes late does not bring the file back.  Unless a cleanup came too early, of a
\* grace that expired or of a deletion, while POST /transfers had .part files to create:
\* those stay, and the code has nothing that removes them.
Quiet == \A p \in Parties : Free(p)

SettledLeavesNothing ==
    Quiet /\ Settled => part = {} \/ early

\* An announced transfer does not stay open for ever (sendBatch: "so a silent recipient
\* does not linger as waiting_accept"): the phone reports, or the page's timer cancels
\* it.  Only an accepted one whose report the phone could not send stays.
OfferSettles ==
    page = "waiting" ~> (Settled \/ (heard /\ lost))

\* What the answer to POST /offer says ("status": "waiting_accept") and what
\* handleFileOfferAccept expects: an announced transfer nobody has answered can be
\* accepted.
OffersCanBeAccepted ==
    page = "waiting" /\ Live /\ phone.at = "idle" => CanTransition(status, "preparing")
===============================================================================
