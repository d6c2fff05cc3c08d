-------------------------- MODULE InboundTransfer ---------------------------
(***************************************************************************)
(* One client-to-server transfer on the desktop server: its row, its file  *)
(* rows and chunk bitmaps in SQLite, its staged .part files, and the HTTP, *)
(* WebSocket and timer handlers that act on them.                          *)
(*                                                                         *)
(* The database runs each statement alone (one connection, no              *)
(* transactions) and the file system each call alone; nothing else         *)
(* serialises two handlers.  So a handler is a request that goes through   *)
(* one action per statement or file call, carrying what it has read, and   *)
(* the actions of different requests interleave freely.                    *)
(*                                                                         *)
(* A call that fails (Faults) ends the handler where the code returns its  *)
(* error, and is passed over where the code ignores it.                    *)
(***************************************************************************)
EXTENDS TransferStates, Naturals, FiniteSets

CONSTANTS
  Files,            \* the files of the transfer
  NumChunks,        \* their chunk counts, 0 for an empty file
  Requests,         \* the requests that may be in progress at once
  Handlers,         \* the handlers this instance lets run (names in HandlerNames)
  Hashed,           \* files created with an expected SHA-256
  MayMismatch,      \* files whose bytes may differ from the hash declared for them
  ConflictPolicy,   \* storage.conflictPolicy: "rename", "overwrite" or "skip"
  FreeClient,       \* TRUE: chunks and completions arrive in any order and number
  Timeouts,         \* TRUE: the client may give up on a request the server still runs
  Faults            \* TRUE: a file or database call of a request may fail, as its
                    \* database calls do once the client has hung up

HandlerNames == { "put", "complete", "cancel", "fail", "grace", "pause", "resume",
                  "retry", "accept", "reject", "offer", "crash" }

ASSUME FilesAssumption == Files # {} /\ IsFiniteSet(Files)
ASSUME ChunksAssumption == NumChunks \in [Files -> Nat]
ASSUME OptionsAssumption ==
  /\ Handlers \subseteq HandlerNames
  /\ Hashed \subseteq Files
  /\ MayMismatch \subseteq Files
  /\ ConflictPolicy \in {"rename", "overwrite", "skip"}
  /\ {FreeClient, Timeouts, Faults} \subseteq BOOLEAN

VARIABLES
  status,     \* transfers.status, "absent" before the row is inserted
  started,    \* transfers.started_at is set
  row,        \* transfer_files: status and completed_chunks of each file
  bitmap,     \* file_chunk_states: the chunks recorded as received
  stage,      \* where the bytes of a file are
  written,    \* the chunks those bytes hold
  req,        \* the requests in progress
  phase,      \* the server process: running, down, or sweeping at start-up
  matches,    \* the files whose bytes match the hash declared for them (fixed)
  acked,      \* the client's view: chunks answered with 200
  asked       \* the client's view: files whose completion it has requested

rows     == <<status, started, row, bitmap>>
disk     == <<stage, written>>
client   == <<acked, asked>>
vars     == <<status, started, row, bitmap, stage, written, req, phase, matches,
              acked, asked>>

Chunks(f) == 0 .. NumChunks[f] - 1

FileStatus == {"created", "transferring", "completed", "failed"}
Stage      == {"none", "part", "saved", "gone"}
Phase      == {"up", "down", "dropping", "recovered"}

Step == { "idle", "create_parts", "write", "cleanup",
          "put_rearm", "put_write", "put_bit", "put_row", "put_started",
          "list", "verifying", "hash", "rename", "mark", "mark_failed",
          "list_again", "all_verifying", "all_completed", "straggler" }

Request == [step : Step, file : Files, chunk : Nat, count : Nat, sha : BOOLEAN,
            to : Status]

Idle == [step |-> "idle", file |-> CHOOSE f \in Files : TRUE, chunk |-> 0,
         count |-> 0, sha |-> FALSE, to |-> "created"]

TypeOK ==
  /\ status \in Status \union {"absent"}
  /\ started \in BOOLEAN
  /\ row \in [Files -> [status : FileStatus, chunks : Nat]]
  /\ bitmap \in [Files -> SUBSET Nat]
  /\ \A f \in Files : bitmap[f] \subseteq Chunks(f)
  /\ stage \in [Files -> Stage]
  /\ written \in [Files -> SUBSET Nat]
  /\ \A f \in Files : written[f] \subseteq Chunks(f)
  /\ req \in [Requests -> Request]
  /\ phase \in Phase
  /\ matches \subseteq Files
  /\ acked \in [Files -> SUBSET Nat]
  /\ asked \subseteq Files

Init ==
  /\ status = "absent"
  /\ started = FALSE
  /\ row = [f \in Files |-> [status |-> "created", chunks |-> 0]]
  /\ bitmap = [f \in Files |-> {}]
  /\ stage = [f \in Files |-> "none"]
  /\ written = [f \in Files |-> {}]
  /\ req = [r \in Requests |-> Idle]
  /\ phase = "up"
  /\ \E bad \in SUBSET MayMismatch : matches = Files \ bad
  /\ acked = [f \in Files |-> {}]
  /\ asked = {}

-----------------------------------------------------------------------------
(* How a request moves through its steps. *)

At(r, step)    == phase = "up" /\ req[r].step = step
Goto(r, step)  == req' = [req EXCEPT ![r].step = step]
Finish(r)      == req' = [req EXCEPT ![r] = Idle]
Begin(r, name, record) ==
  /\ name \in Handlers
  /\ At(r, "idle")
  /\ req' = [req EXCEPT ![r] = record]

Exists == status \in Status
Live   == status \in Status \ Terminal

\* A status this handler will write over whatever the row then holds.
BeginWrite(r, name, to) ==
  /\ Begin(r, name, [Idle EXCEPT !.step = "write", !.to = to])
  /\ UNCHANGED <<rows, disk, phase, matches, client>>

DropStaged_All ==
  /\ stage' = [f \in Files |-> IF stage[f] \in {"part", "saved"} THEN "gone" ELSE stage[f]]
  /\ written' = [f \in Files |-> {}]

\* CleanupTransfer removes the staging directory; saved files have left it.
DropStaged ==
  /\ stage' = [f \in Files |-> IF stage[f] = "part" THEN "gone" ELSE stage[f]]
  /\ written' = [f \in Files |-> IF stage[f] = "part" THEN {} ELSE written[f]]

-----------------------------------------------------------------------------
(* Creation.  Manager.Create inserts the rows; then POST /transfers creates  *)
(* a .part for every file, while a file.offer skips empty files, ignores a   *)
(* failure to create one, declares no hash, and finally moves the row to     *)
(* waiting_accept.                                                           *)

CreateRow(r) ==
  /\ status = "absent"
  /\ At(r, "idle")
  /\ status' = "created"
  /\ \E to \in {"created"} \union
                 (IF "offer" \in Handlers /\ Hashed = {} THEN {"waiting_accept"} ELSE {}) :
        req' = [req EXCEPT ![r] = [Idle EXCEPT !.step = "create_parts", !.to = to]]
  /\ UNCHANGED <<started, row, bitmap, disk, phase, matches, client>>

CreateParts(r) ==
  /\ At(r, "create_parts")
  /\ LET offer  == req[r].to = "waiting_accept"
         wanted == IF offer THEN {f \in Files : NumChunks[f] > 0} ELSE Files
     IN /\ \E made \in (IF Faults THEN SUBSET wanted ELSE {wanted}) :
             /\ stage' = [f \in Files |-> IF f \in made THEN "part" ELSE stage[f]]
             /\ written' = [f \in Files |-> IF f \in made THEN {} ELSE written[f]]
        /\ IF offer THEN Goto(r, "write") ELSE Finish(r)
  /\ UNCHANGED <<rows, phase, matches, client>>

\* The creator's reply carries the file ids.
Published ==
  \A r \in Requests : /\ req[r].step # "create_parts"
                      /\ ~(req[r].step = "write" /\ req[r].to = "waiting_accept")

-----------------------------------------------------------------------------
(* PUT .../chunks/{i}: handlePutChunk, Storage.WriteChunk and                *)
(* Manager.MarkChunkComplete.                                                *)

\* A chunk is uploaded until its 200 arrives; a request that timed out at the
\* client may still be running here when the next attempt comes in.
MaySendChunk(f, c) ==
  /\ Published
  /\ \/ FreeClient
     \/ /\ c \in Chunks(f) \ acked[f]
        /\ \/ Timeouts
           \/ ~\E r \in Requests : /\ req[r].step # "idle"
                                  /\ req[r].file = f
                                  /\ req[r].chunk = c

\* The client learns of a 200, unless it has stopped waiting for it.
ChunkAnswered(f, c) ==
  /\ UNCHANGED asked
  /\ \/ acked' = IF FreeClient THEN acked ELSE [acked EXCEPT ![f] = @ \union {c}]
     \/ Timeouts /\ acked' = acked

BeginPut(r, f, c) ==
  /\ Begin(r, "put", [Idle EXCEPT
       !.step = IF status = "retrying" THEN "put_rearm" ELSE "put_write",
       !.file = f, !.chunk = c])
  /\ UNCHANGED <<rows, disk, phase, matches, client>>

PutRead_NoBoundCheck(r) ==
  /\ Live
  /\ \E f \in Files : \E c \in 0 .. NumChunks[f] : MaySendChunk(f, c) /\ BeginPut(r, f, c)

\* fileOwned reads the rows.  A terminal transfer is refused; so is an index past
\* the last chunk, but a transfer being retried is re-armed before that.
PutRead(r) ==
  /\ Live
  /\ \E f \in Files : \E c \in 0 .. NumChunks[f] :
        /\ MaySendChunk(f, c)
        /\ c \in Chunks(f) \/ status = "retrying"
        /\ BeginPut(r, f, c)

PutRearm(r) ==
  /\ At(r, "put_rearm")
  /\ status' = "transferring" \/ (Faults /\ UNCHANGED status)
  /\ IF req[r].chunk \in Chunks(req[r].file) THEN Goto(r, "put_write") ELSE Finish(r)
  /\ UNCHANGED <<started, row, bitmap, disk, phase, matches, client>>

PutWrite_CreatesPart(r) ==
  /\ At(r, "put_write")
  /\ stage' = [stage EXCEPT ![req[r].file] = "part"]
  /\ written' = [written EXCEPT ![req[r].file] = @ \union {req[r].chunk}]
  /\ Goto(r, "put_bit")
  /\ UNCHANGED <<rows, phase, matches, client>>

PutWrite_IgnoresError(r) ==
  /\ At(r, "put_write")
  /\ Goto(r, "put_bit")
  /\ \/ /\ stage[req[r].file] = "part"
        /\ written' = [written EXCEPT ![req[r].file] = @ \union {req[r].chunk}]
        /\ UNCHANGED stage
     \/ /\ stage[req[r].file] # "part" \/ Faults
        /\ UNCHANGED disk
  /\ UNCHANGED <<rows, phase, matches, client>>

\* WriteChunk opens the .part without creating it: no .part, no write, and 500.
PutWrite(r) ==
  /\ At(r, "put_write")
  /\ \/ /\ stage[req[r].file] = "part"
        /\ written' = [written EXCEPT ![req[r].file] = @ \union {req[r].chunk}]
        /\ UNCHANGED stage
        /\ Goto(r, "put_bit")
     \/ /\ stage[req[r].file] # "part" \/ Faults
        /\ Finish(r)
        /\ UNCHANGED disk
  /\ UNCHANGED <<rows, phase, matches, client>>

\* Mutant: a chunk that was recorded before is counted once more.
PutBit_CountsRepeats(r) ==
  /\ At(r, "put_bit")
  /\ LET f == req[r].file
         bits == bitmap[f] \union {req[r].chunk}
     IN \/ /\ bitmap' = [bitmap EXCEPT ![f] = bits]
           /\ req' = [req EXCEPT ![r].step = "put_row", ![r].count = Cardinality(bitmap[f]) + 1]
        \/ Faults /\ Finish(r) /\ UNCHANGED bitmap
  /\ UNCHANGED <<status, started, row, disk, phase, matches, client>>

\* The request that marks the chunk in the bitmap, under the chunk lock of the
\* file, also counts the bitmap; the count is carried past the unlock.
PutBit(r) ==
  /\ At(r, "put_bit")
  /\ LET f == req[r].file
         bits == bitmap[f] \union {req[r].chunk}
     IN \/ /\ bitmap' = [bitmap EXCEPT ![f] = bits]
           /\ req' = [req EXCEPT ![r].step = "put_row", ![r].count = Cardinality(bits)]
        \/ Faults /\ Finish(r) /\ UNCHANGED bitmap
  /\ UNCHANGED <<status, started, row, disk, phase, matches, client>>

PutRow(r) ==
  /\ At(r, "put_row")
  /\ \/ /\ row' = [row EXCEPT ![req[r].file] =
                     [status |-> "transferring", chunks |-> req[r].count]]
        /\ Goto(r, "put_started")
     \/ Faults /\ Finish(r) /\ UNCHANGED row
  /\ UNCHANGED <<status, started, bitmap, disk, phase, matches, client>>

\* MarkTransferStarted looks at started_at and at nothing else.
PutStarted(r) ==
  /\ At(r, "put_started")
  /\ \/ started' = TRUE /\ status' = IF started THEN status ELSE "transferring"
     \/ Faults /\ UNCHANGED <<started, status>>
  /\ Finish(r)
  /\ ChunkAnswered(req[r].file, req[r].chunk)
  /\ UNCHANGED <<row, bitmap, disk, phase, matches>>

Put(r) == PutRead(r) \/ PutRearm(r) \/ PutWrite(r) \/ PutBit(r) \/ PutRow(r) \/ PutStarted(r)

-----------------------------------------------------------------------------
(* POST .../complete: handleCompleteFile, Storage.FinalizeAndVerify and      *)
(* Manager.CompleteFile.                                                     *)

AllCompleted == \A f \in Files : row[f].status = "completed"

\* A completion is requested once every chunk is acknowledged, once per file.
MayComplete(f) ==
  /\ Published
  /\ FreeClient \/ (f \notin asked /\ acked[f] = Chunks(f))

BeginComplete(r, f, sha) ==
  /\ Begin(r, "complete", [Idle EXCEPT !.step = "list", !.file = f, !.sha = sha])
  /\ asked' = IF FreeClient THEN asked ELSE asked \union {f}
  /\ UNCHANGED <<rows, disk, phase, matches, acked>>

CompleteRead_NoBitmapCheck(r) ==
  /\ Exists
  /\ \E f \in Files, sha \in BOOLEAN : MayComplete(f) /\ BeginComplete(r, f, sha)

\* The bitmap must be full; the status of the transfer is not looked at.  The
\* body may or may not carry the SHA-256 of the file.
CompleteRead(r) ==
  /\ Exists
  /\ \E f \in Files, sha \in BOOLEAN :
        /\ MayComplete(f)
        /\ Cardinality(bitmap[f]) = NumChunks[f]
        /\ BeginComplete(r, f, sha)

\* Is this the last file?  The listing is another statement than the bitmap; when
\* it fails, the code takes the empty list and answers yes.
CompleteList(r) ==
  /\ At(r, "list")
  /\ \/ Goto(r, IF \A f \in Files \ {req[r].file} : row[f].status = "completed"
                THEN "verifying" ELSE "hash")
     \/ Faults /\ Goto(r, "verifying")
  /\ UNCHANGED <<rows, disk, phase, matches, client>>

CompleteVerifying(r) ==
  /\ At(r, "verifying")
  /\ status' = "verifying" \/ (Faults /\ UNCHANGED status)
  /\ Goto(r, "hash")
  /\ UNCHANGED <<started, row, bitmap, disk, phase, matches, client>>

\* No .part: 500, and the status stays as it is.  A mismatch with the hash in
\* the body fails the transfer and drops what it staged.
CompleteHash(r) ==
  /\ At(r, "hash")
  /\ LET f == req[r].file
     IN \/ /\ stage[f] # "part" \/ Faults
           /\ Finish(r)
        \/ /\ stage[f] = "part"
           /\ IF req[r].sha /\ f \notin matches
              THEN req' = [req EXCEPT ![r].step = "write", ![r].to = "failed"]
              ELSE Goto(r, "rename")
  /\ UNCHANGED <<rows, disk, phase, matches, client>>

CompleteRename_IgnoresError(r) ==
  /\ At(r, "rename")
  /\ stage' = [stage EXCEPT ![req[r].file] = IF @ = "part" THEN "saved" ELSE @]
  /\ Goto(r, "mark")
  /\ UNCHANGED <<rows, written, phase, matches, client>>

\* Under "skip", a target that exists costs the .part; a .part that another
\* handler took meanwhile cannot be renamed.  Both end in a 500.
CompleteRename(r) ==
  /\ At(r, "rename")
  /\ LET f == req[r].file
     IN \/ /\ stage[f] = "part"
           /\ stage' = [stage EXCEPT ![f] = "saved"]
           /\ UNCHANGED written
           /\ Goto(r, "mark")
        \/ /\ ConflictPolicy = "skip" /\ stage[f] = "part"
           /\ stage' = [stage EXCEPT ![f] = "gone"]
           /\ written' = [written EXCEPT ![f] = {}]
           /\ Finish(r)
        \/ /\ stage[f] # "part" \/ Faults
           /\ Finish(r)
           /\ UNCHANGED disk
  /\ UNCHANGED <<rows, phase, matches, client>>

CompleteMark_NoHashCheck(r) ==
  /\ At(r, "mark")
  /\ row' = [row EXCEPT ![req[r].file].status = "completed"]
  /\ Goto(r, "list_again")
  /\ UNCHANGED <<status, started, bitmap, disk, phase, matches, client>>

CompleteMark_OnlyLastFileCounts(r) ==
  /\ At(r, "mark")
  /\ row' = [row EXCEPT ![req[r].file].status = "completed"]
  /\ Goto(r, IF status = "verifying" THEN "list_again" ELSE "straggler")
  /\ UNCHANGED <<status, started, bitmap, disk, phase, matches, client>>

\* CompleteFile reads the row and compares the hash given at creation; the file is
\* saved by now, and stays so when the row cannot be written.
CompleteMark(r) ==
  /\ At(r, "mark")
  /\ LET f == req[r].file
     IN \/ /\ f \in Hashed \ matches
           /\ req' = [req EXCEPT ![r].step = "mark_failed", ![r].count = row[f].chunks]
           /\ UNCHANGED row
        \/ /\ f \notin Hashed \ matches
           /\ row' = [row EXCEPT ![f].status = "completed"]
           /\ Goto(r, "list_again")
        \/ Faults /\ Finish(r) /\ UNCHANGED row
  /\ UNCHANGED <<status, started, bitmap, disk, phase, matches, client>>

\* A mismatch: the count that was read is written back with the status.
CompleteFails(r) ==
  /\ At(r, "mark_failed")
  /\ \/ row' = [row EXCEPT ![req[r].file] = [status |-> "failed", chunks |-> req[r].count]]
     \/ Faults /\ UNCHANGED row
  /\ Finish(r)
  /\ UNCHANGED <<status, started, bitmap, disk, phase, matches, client>>

CompleteListAgain_AnyFile(r) ==
  /\ At(r, "list_again")
  /\ Goto(r, IF \E f \in Files : row[f].status = "completed"
             THEN "all_verifying" ELSE "straggler")
  /\ UNCHANGED <<rows, disk, phase, matches, client>>

CompleteListAgain_ErrorMeansAll(r) ==
  /\ At(r, "list_again")
  /\ \/ Goto(r, IF AllCompleted THEN "all_verifying" ELSE "straggler")
     \/ Faults /\ Goto(r, "all_verifying")
  /\ UNCHANGED <<rows, disk, phase, matches, client>>

CompleteListAgain(r) ==
  /\ At(r, "list_again")
  /\ \/ Goto(r, IF AllCompleted THEN "all_verifying" ELSE "straggler")
     \/ Faults /\ Finish(r)
  /\ UNCHANGED <<rows, disk, phase, matches, client>>

CompleteAllVerifying(r) ==
  /\ At(r, "all_verifying")
  /\ status' = "verifying" \/ (Faults /\ UNCHANGED status)
  /\ Goto(r, "all_completed")
  /\ UNCHANGED <<started, row, bitmap, disk, phase, matches, client>>

CompleteAll(r) ==
  /\ At(r, "all_completed")
  /\ status' = "completed" \/ (Faults /\ UNCHANGED status)
  /\ Finish(r)
  /\ UNCHANGED <<started, row, bitmap, disk, phase, matches, client>>

CompleteStraggler_Unguarded(r) ==
  /\ At(r, "straggler")
  /\ status' = "transferring"
  /\ Finish(r)
  /\ UNCHANGED <<started, row, bitmap, disk, phase, matches, client>>

CompleteStraggler(r) ==
  /\ At(r, "straggler")
  /\ \/ status' = IF status \in Terminal THEN status ELSE "transferring"
     \/ Faults /\ UNCHANGED status
  /\ Finish(r)
  /\ UNCHANGED <<started, row, bitmap, disk, phase, matches, client>>

Complete(r) ==
  \/ CompleteRead(r) \/ CompleteList(r) \/ CompleteVerifying(r) \/ CompleteHash(r)
  \/ CompleteRename(r) \/ CompleteMark(r) \/ CompleteFails(r) \/ CompleteListAgain(r)
  \/ CompleteAllVerifying(r) \/ CompleteAll(r) \/ CompleteStraggler(r)

-----------------------------------------------------------------------------
(* Everything else that writes the status: each handler reads the row, checks *)
(* it, and in a later statement writes over whatever the row then holds.      *)

\* POST .../cancel and transfer.cancel; Cancel ignores what Advance says.
Cancel(r)      == Live /\ BeginWrite(r, "cancel", "cancelled")
\* transfer.failed from the sender
FailReport(r)  == Live /\ BeginWrite(r, "fail", "failed")
\* OnGraceExpired, when the session stayed away too long
GraceExpiry(r) == Live /\ BeginWrite(r, "grace", "failed")
Pause(r)       == status = "transferring" /\ BeginWrite(r, "pause", "paused")
Resume(r)      == status = "paused" /\ BeginWrite(r, "resume", "transferring")
Retry(r)       == Exists /\ CanTransition(status, "retrying") /\ BeginWrite(r, "retry", "retrying")
Accept(r)      == Exists /\ CanTransition(status, "preparing") /\ BeginWrite(r, "accept", "preparing")
Reject(r)      == Exists /\ CanTransition(status, "rejected") /\ BeginWrite(r, "reject", "rejected")

\* Only a cancel and a failure go on to drop the staged files; a failure does even
\* when its write did not succeed.
WriteStatus(r) ==
  /\ At(r, "write")
  /\ \/ /\ status' = req[r].to
        /\ IF req[r].to \in {"cancelled", "failed"} THEN Goto(r, "cleanup") ELSE Finish(r)
     \/ /\ Faults
        /\ IF req[r].to = "failed" THEN Goto(r, "cleanup") ELSE Finish(r)
        /\ UNCHANGED status
  /\ UNCHANGED <<started, row, bitmap, disk, phase, matches, client>>

Cleanup(r) ==
  /\ At(r, "cleanup")
  /\ DropStaged \/ (Faults /\ UNCHANGED disk)
  /\ Finish(r)
  /\ UNCHANGED <<rows, phase, matches, client>>

Decide(r) ==
  \/ Cancel(r) \/ FailReport(r) \/ GraceExpiry(r) \/ Pause(r) \/ Resume(r)
  \/ Retry(r) \/ Accept(r) \/ Reject(r) \/ WriteStatus(r) \/ Cleanup(r)

-----------------------------------------------------------------------------
(* The process stops anywhere between two steps.  The next run revokes every *)
(* session, so nothing reaches the transfer again but the start-up sweep.    *)

Crash ==
  /\ "crash" \in Handlers
  /\ phase \in {"up", "dropping"}
  /\ phase' = "down"
  /\ req' = [r \in Requests |-> Idle]
  /\ UNCHANGED <<rows, disk, matches, client>>

Sweep_OnlyTransferring ==
  /\ phase = "down"
  /\ IF status = "transferring"
     THEN status' = "failed" /\ phase' = "dropping"
     ELSE phase' = "recovered" /\ UNCHANGED status
  /\ UNCHANGED <<started, row, bitmap, disk, req, matches, client>>

Sweep ==
  /\ phase = "down"
  /\ IF Live
     THEN status' = "failed" /\ phase' = "dropping"
     ELSE phase' = "recovered" /\ UNCHANGED status
  /\ UNCHANGED <<started, row, bitmap, disk, req, matches, client>>

SweepCleanup ==
  /\ phase = "dropping"
  /\ DropStaged
  /\ phase' = "recovered"
  /\ UNCHANGED <<rows, req, matches, client>>

Restart == Crash \/ Sweep \/ SweepCleanup

-----------------------------------------------------------------------------

Next ==
  \/ \E r \in Requests : CreateRow(r) \/ CreateParts(r) \/ Put(r) \/ Complete(r) \/ Decide(r)
  \/ Restart

Spec == Init /\ [][Next]_vars

\* A handler that has begun runs to its end, and a client that has something
\* to send sends it.  Nothing is promised of cancels, failures or crashes.
Advance(r) ==
  \/ CreateParts(r) \/ PutRearm(r) \/ PutWrite(r) \/ PutBit(r) \/ PutRow(r) \/ PutStarted(r)
  \/ CompleteList(r) \/ CompleteVerifying(r) \/ CompleteHash(r) \/ CompleteRename(r)
  \/ CompleteMark(r) \/ CompleteFails(r) \/ CompleteListAgain(r)
  \/ CompleteAllVerifying(r) \/ CompleteAll(r) \/ CompleteStraggler(r)
  \/ WriteStatus(r) \/ Cleanup(r)

Upload == \E r \in Requests : CreateRow(r) \/ PutRead(r) \/ CompleteRead(r)

FairSpec == Spec /\ (\A r \in Requests : WF_vars(Advance(r))) /\ WF_vars(Upload)

-----------------------------------------------------------------------------
(* Properties. *)

\* A file in the download directory holds every chunk of the sender's file: no
\* interleaving of chunk writes, completions and cleanups saves a partial one
\* (handleCompleteFile's bitmap test is separated from the rename by the hash).
SavedIsWhole == \A f \in Files : stage[f] = "saved" => written[f] = Chunks(f)

\* While a file is staged, a chunk the bitmap calls received has been written to
\* it: a cleanup takes the .part and no late chunk brings back an empty one
\* (WriteChunk opens, and never creates, the .part).
RecordedChunksStored == \A f \in Files : stage[f] = "part" => bitmap[f] \subseteq written[f]

\* A transfer reads "completed" only when every one of its files is in the
\* download directory, whatever other handlers did between the steps of
\* CompleteFile.
CompletedMeansDelivered == status = "completed" => \A f \in Files : stage[f] = "saved"

\* A transfer with a file that differs from the hash given at creation never
\* reads "completed", even when no hash came with the completion request.
CompletedMeansVerified == status = "completed" => Hashed \subseteq matches

\* After a crash at any point and the start-up sweep (itself cut short any number
\* of times), the transfer is not left in a state that waits for its client.
RestartLeavesNoZombie == phase = "recovered" => status \in Terminal \union {"absent"}

\* What has left the staging directory, saved or dropped, never comes back: a
\* cancel, a failure or a late chunk cannot take a saved file away or revive a
\* dropped one.
StagedFilesAreFinal ==
  [][\A f \in Files : stage[f] \in {"saved", "gone"} => stage'[f] = stage[f]]_vars

\* The server's rows, bitmaps and staging files implement the delivery promise.
Delivery == INSTANCE FileDelivery WITH
  batch     <- Files,
  delivered <- {f \in Files : stage[f] = "saved" /\ written[f] = Chunks(f)},
  reported  <- status = "completed"
DeliversBatch == Delivery!Spec

\* A client that uploads every chunk and asks for every completion once gets a
\* completed transfer, however its concurrent requests interleave.
EveryUploadCompletes == <>[](status = "completed")

Quiet == \A r \in Requests : req[r].step = "idle"

\* When no request is in progress and every file is saved, the transfer reads
\* "completed": of several files finishing at once, one request sees them all
\* (CompleteFile's second listing).
AllSavedSettles ==
  (Quiet /\ \A f \in Files : stage[f] = "saved") => status = "completed"

\* state_machine.go:83 says of the terminal states other than failed that they
\* have no outgoing edges.
TerminalIsFinal == [][(status \in Terminal \ {"failed"}) => status' = status]_vars

\* The count in a file's row, from which the interface shows progress, is never
\* ahead of the bitmap, even when PUTs of one file overlap, are repeated or write
\* their rows in the opposite order (MarkChunkComplete counts under the chunk lock
\* and writes the row after it), or a completion that failed writes back the count
\* it read before (CompleteFile).
CountsNeverAhead == \A f \in Files : row[f].chunks <= Cardinality(bitmap[f])

=============================================================================
