----------------------- MODULE InboundTransferProofs ------------------------
(***************************************************************************)
(* Theorems about InboundTransfer for any files, chunk counts, number of   *)
(* concurrent requests and choice of handlers: a saved file is whole, a    *)
(* transfer reads "completed" only when everything is delivered and        *)
(* verified, nothing that left the staging directory comes back, and the   *)
(* module implements FileDelivery.                                         *)
(***************************************************************************)
EXTENDS InboundTransfer, FiniteSetTheorems, TLAPS

\* What the rows and the disk say of a file.
FilesInv ==
  /\ SavedIsWhole
  /\ RecordedChunksStored
  /\ \A f \in Files : row[f].status = "completed" =>
       stage[f] = "saved" /\ f \notin Hashed \ matches

\* What a request may rely on at each of its steps.
RequestOK(r) ==
  LET f == req[r].file
  IN /\ req[r].step \in {"put_write", "put_bit"} => req[r].chunk \in Chunks(f)
     /\ req[r].step = "put_bit" => (stage[f] = "part" => req[r].chunk \in written[f])
     /\ req[r].step \in {"list", "verifying", "hash", "rename"} => bitmap[f] = Chunks(f)
     /\ req[r].step = "mark" => stage[f] = "saved"
     /\ req[r].step = "mark_failed" => f \in Hashed \ matches
     /\ req[r].step \in {"all_verifying", "all_completed"} =>
          (\A g \in Files : stage[g] = "saved") /\ Hashed \subseteq matches
     /\ req[r].step \in {"create_parts", "write"} => req[r].to # "completed"

RequestsInv == \A r \in Requests : RequestOK(r)

StatusInv ==
  /\ CompletedMeansDelivered
  /\ CompletedMeansVerified
  /\ phase \in {"dropping", "recovered"} => status \in Terminal \union {"absent"}

Fresh == \A f \in Files : stage[f] = "none" /\ bitmap[f] = {}

\* Until its staging files exist, a transfer has no chunk and no completion in
\* progress: nobody has been told its file ids.
CreationInv ==
  /\ status = "absent" => Fresh /\ \A r \in Requests : req[r].step = "idle"
  /\ \A r \in Requests : req[r].step = "create_parts" =>
       Fresh /\ \A q \in Requests \ {r} : req[q].step \in {"idle", "write", "cleanup"}

IInv == TypeOK /\ FilesInv /\ RequestsInv /\ StatusInv /\ CreationInv

-----------------------------------------------------------------------------
(* Chunks. *)

LEMMA ChunksFinite ==
  ASSUME NEW f \in Files
  PROVE  IsFiniteSet(Chunks(f)) /\ Cardinality(Chunks(f)) = NumChunks[f]
<1> DEFINE n == NumChunks[f]
<1>1. n \in Nat BY ChunksAssumption
<1>2. 0 \in Int /\ n - 1 \in Int BY <1>1
<1>3. IsFiniteSet(0 .. n - 1) /\ Cardinality(0 .. n - 1) = IF 0 > n - 1 THEN 0 ELSE n - 1 - 0 + 1
  BY <1>2, FS_Interval
<1> QED BY <1>1, <1>3 DEF Chunks

\* A bitmap whose population count is the chunk count has every chunk.
LEMMA FullBitmap ==
  ASSUME NEW f \in Files, NEW S \in SUBSET Chunks(f), Cardinality(S) = NumChunks[f]
  PROVE  S = Chunks(f)
<1> QED BY ChunksFinite, FS_Subset

LEMMA CountIsNat ==
  ASSUME NEW f \in Files, NEW S \in SUBSET Chunks(f)
  PROVE  Cardinality(S) \in Nat
<1>1. IsFiniteSet(S) BY ChunksFinite, FS_Subset
<1> QED BY <1>1, FS_CardinalityType

LEMMA ChunksAreNat == \A f \in Files : Chunks(f) \subseteq Nat
<1> QED BY ChunksAssumption DEF Chunks

-----------------------------------------------------------------------------
(* The request that moves, and the ones that do not. *)

LEMMA IdleIsRequest ==
  /\ Idle \in Request
  /\ Idle.step = "idle" /\ Idle.chunk = 0 /\ Idle.count = 0 /\ Idle.to = "created"
<1>1. (CHOOSE f \in Files : TRUE) \in Files BY FilesAssumption
<1> QED BY <1>1 DEF Idle, Request, Step, Status

LEMMA GotoFacts ==
  ASSUME TypeOK, NEW r \in Requests, NEW step \in Step, Goto(r, step)
  PROVE  /\ req' \in [Requests -> Request]
         /\ req'[r].step = step
         /\ req'[r].file = req[r].file /\ req'[r].chunk = req[r].chunk
         /\ req'[r].to = req[r].to /\ req'[r].sha = req[r].sha
         /\ \A q \in Requests \ {r} : req'[q] = req[q]
<1> QED BY DEF TypeOK, Goto, Request

LEMMA SetFacts ==
  ASSUME TypeOK, NEW r \in Requests, NEW x \in Request, req' = [req EXCEPT ![r] = x]
  PROVE  /\ req' \in [Requests -> Request]
         /\ req'[r] = x
         /\ \A q \in Requests \ {r} : req'[q] = req[q]
<1> QED BY DEF TypeOK

LEMMA FinishFacts ==
  ASSUME TypeOK, NEW r \in Requests, Finish(r)
  PROVE  /\ req' \in [Requests -> Request]
         /\ req'[r] = Idle
         /\ \A q \in Requests \ {r} : req'[q] = req[q]
<1> QED BY SetFacts, IdleIsRequest DEF Finish

\* Files only move forward: bits are added, saved files stay, and a file that is
\* staged was staged before with no fewer chunks.
Forward ==
  /\ matches' = matches
  /\ \A f \in Files : bitmap[f] \subseteq bitmap'[f] /\ bitmap'[f] \subseteq Chunks(f)
  /\ \A f \in Files : stage[f] = "saved" => stage'[f] = "saved"
  /\ \A f \in Files : stage'[f] = "part" => stage[f] = "part" /\ written[f] \subseteq written'[f]

LEMMA RequestKept ==
  ASSUME IInv, Forward, NEW q \in Requests, req'[q] = req[q]
  PROVE  RequestOK(q)'
<1>1. req[q].file \in Files BY DEF IInv, TypeOK, Request
<1>2. RequestOK(q) BY DEF IInv, RequestsInv
<1> QED BY <1>1, <1>2 DEF RequestOK, Forward, Chunks

LEMMA StillForward ==
  ASSUME TypeOK, UNCHANGED <<bitmap, stage, written, matches>>
  PROVE  Forward
<1> QED BY DEF TypeOK, Forward

LEMMA FilesUntouched ==
  ASSUME FilesInv, UNCHANGED <<row, bitmap, stage, written, matches>>
  PROVE  FilesInv'
<1> QED BY DEF FilesInv, SavedIsWhole, RecordedChunksStored, Chunks

\* A request past its first reads moves on: nobody is creating the transfer.
LEMMA PastCreation ==
  ASSUME IInv, NEW r \in Requests,
         req[r].step \notin {"idle", "create_parts", "write", "cleanup"},
         req'[r].step # "create_parts",
         \A q \in Requests \ {r} : req'[q] = req[q],
         status' # "absent"
  PROVE  CreationInv'
<1>1. \A q \in Requests : req'[q].step # "create_parts" BY DEF IInv, CreationInv
<1> QED BY <1>1 DEF CreationInv

\* A decision may come while the transfer is being created.
LEMMA DuringCreation ==
  ASSUME IInv, NEW r \in Requests,
         req[r].step \in {"idle", "write", "cleanup"},
         req'[r].step \in {"idle", "write", "cleanup"},
         \A q \in Requests \ {r} : req'[q] = req[q],
         status' # "absent",
         Fresh => Fresh'
  PROVE  CreationInv'
<1> QED BY DEF IInv, CreationInv

LEMMA SomethingExists ==
  ASSUME IInv, NEW r \in Requests, req[r].step # "idle"
  PROVE  status # "absent" /\ status \in Status
<1> QED BY DEF IInv, CreationInv, TypeOK

-----------------------------------------------------------------------------
(* Each action keeps the invariant. *)

LEMMA InitEstablishes == Init => IInv
<1> SUFFICES ASSUME Init PROVE IInv OBVIOUS
<1>1. TypeOK BY IdleIsRequest, FilesAssumption DEF Init, TypeOK, FileStatus, Stage, Phase
<1>2. FilesInv BY DEF Init, FilesInv, SavedIsWhole, RecordedChunksStored
<1>3. RequestsInv BY IdleIsRequest DEF Init, RequestsInv, RequestOK
<1>4. StatusInv
  BY DEF Init, StatusInv, CompletedMeansDelivered, CompletedMeansVerified
<1>5. CreationInv BY IdleIsRequest DEF Init, CreationInv, Fresh
<1> QED BY <1>1, <1>2, <1>3, <1>4, <1>5 DEF IInv

LEMMA CreateRowStep ==
  ASSUME IInv, NEW r \in Requests, CreateRow(r)
  PROVE  IInv'
<1>1. PICK to \in {"created", "waiting_accept"} :
        req' = [req EXCEPT ![r] = [Idle EXCEPT !.step = "create_parts", !.to = to]]
  BY DEF CreateRow
<1> DEFINE x == [Idle EXCEPT !.step = "create_parts", !.to = to]
<1>2. x \in Request /\ x.step = "create_parts" /\ x.to = to
  BY IdleIsRequest DEF Request, Step, Status
<1>3. /\ req' \in [Requests -> Request]
      /\ req'[r] = x
      /\ \A q \in Requests \ {r} : req'[q] = req[q]
  BY <1>1, <1>2, SetFacts DEF IInv
<1>4. /\ status = "absent" /\ status' = "created" /\ phase = "up"
      /\ UNCHANGED <<started, row, bitmap, stage, written, phase, matches, acked, asked>>
  BY DEF CreateRow, At, disk, client
<1>5. Fresh /\ \A q \in Requests : req[q].step = "idle" BY <1>4 DEF IInv, CreationInv
<1>6. TypeOK' BY <1>3, <1>4 DEF IInv, TypeOK, Status
<1>7. FilesInv' BY <1>4, FilesUntouched DEF IInv
<1>8. RequestsInv'
  <2>1. RequestOK(r)' BY <1>2, <1>3 DEF RequestOK
  <2>2. Forward BY <1>4, StillForward DEF IInv
  <2> QED BY <1>3, <2>1, <2>2, RequestKept DEF RequestsInv
<1>9. StatusInv'
  BY <1>4 DEF StatusInv, CompletedMeansDelivered, CompletedMeansVerified
<1>10. CreationInv'
  <2>1. Fresh' BY <1>4, <1>5 DEF Fresh
  <2> QED BY <1>3, <1>4, <1>5, <2>1 DEF CreationInv
<1> QED BY <1>6, <1>7, <1>8, <1>9, <1>10 DEF IInv

LEMMA CreatePartsStep ==
  ASSUME IInv, NEW r \in Requests, CreateParts(r)
  PROVE  IInv'
<1>1. req[r].step = "create_parts" /\ phase = "up" BY DEF CreateParts, At
<1>2. Fresh /\ \A q \in Requests \ {r} : req[q].step \in {"idle", "write", "cleanup"}
  BY <1>1 DEF IInv, CreationInv
<1>3. UNCHANGED <<status, started, row, bitmap, phase, matches, acked, asked>>
  BY DEF CreateParts, rows, client
<1>4. PICK made \in SUBSET Files :
        /\ stage' = [f \in Files |-> IF f \in made THEN "part" ELSE stage[f]]
        /\ written' = [f \in Files |-> IF f \in made THEN {} ELSE written[f]]
  BY Zenon DEF CreateParts
<1>5. Goto(r, "write") \/ Finish(r) BY DEF CreateParts
<1>6. /\ req' \in [Requests -> Request]
      /\ req'[r].step \in {"idle", "write"}
      /\ req'[r].to # "completed"
      /\ \A q \in Requests \ {r} : req'[q] = req[q]
  <2>1. req[r].to # "completed" BY <1>1 DEF IInv, RequestsInv, RequestOK
  <2>2. "write" \in Step BY DEF Step
  <2>3. CASE Goto(r, "write") BY <2>1, <2>2, <2>3, GotoFacts DEF IInv
  <2>4. CASE Finish(r) BY <2>4, FinishFacts, IdleIsRequest DEF IInv
  <2> QED BY <1>5, <2>3, <2>4
<1>7. TypeOK' BY <1>3, <1>4, <1>6 DEF IInv, TypeOK, Stage, Chunks
<1>8. FilesInv'
  <2>1. \A f \in Files : stage'[f] \in {"none", "part"} /\ bitmap'[f] = {}
    BY <1>2, <1>3, <1>4 DEF Fresh
  <2>2. \A f \in Files : row'[f].status # "completed"
    BY <1>2, <1>3 DEF IInv, FilesInv, Fresh
  <2> QED BY <2>1, <2>2 DEF FilesInv, SavedIsWhole, RecordedChunksStored
<1>9. RequestsInv'
  <2>1. RequestOK(r)' BY <1>6 DEF RequestOK
  <2>2. ASSUME NEW q \in Requests \ {r} PROVE RequestOK(q)'
    BY <1>2, <1>6 DEF IInv, RequestsInv, RequestOK
  <2> QED BY <2>1, <2>2 DEF RequestsInv
<1>10. StatusInv'
  <2>1. Files # {} BY FilesAssumption
  <2>2. status # "completed"
    BY <1>2, <2>1 DEF IInv, StatusInv, CompletedMeansDelivered, Fresh
  <2> QED BY <1>1, <1>3, <2>2 DEF StatusInv, CompletedMeansDelivered, CompletedMeansVerified
<1>11. CreationInv'
  <2>1. status # "absent" BY <1>1, SomethingExists
  <2> QED BY <1>2, <1>3, <1>6, <2>1 DEF CreationInv
<1> QED BY <1>7, <1>8, <1>9, <1>10, <1>11 DEF IInv

LEMMA PutReadStep ==
  ASSUME IInv, NEW r \in Requests, PutRead(r)
  PROVE  IInv'
<1>0. PICK f \in Files : \E c \in 0 .. NumChunks[f] :
        /\ MaySendChunk(f, c)
        /\ c \in Chunks(f) \/ status = "retrying"
        /\ BeginPut(r, f, c)
  BY DEF PutRead
<1>1. PICK c \in 0 .. NumChunks[f] :
        /\ MaySendChunk(f, c)
        /\ c \in Chunks(f) \/ status = "retrying"
        /\ BeginPut(r, f, c)
  BY <1>0
<1> DEFINE step == IF status = "retrying" THEN "put_rearm" ELSE "put_write"
           x == [Idle EXCEPT !.step = step, !.file = f, !.chunk = c]
<1>2. /\ x \in Request /\ x.file = f /\ x.chunk = c
      /\ x.step = "put_rearm" \/ (x.step = "put_write" /\ c \in Chunks(f))
  <2>1. c \in Nat BY ChunksAssumption
  <2> QED BY <1>1, <2>1, IdleIsRequest DEF Request, Step
<1>3. /\ req[r].step = "idle" /\ phase = "up"
      /\ req' \in [Requests -> Request]
      /\ req'[r] = x
      /\ \A q \in Requests \ {r} : req'[q] = req[q]
  BY <1>1, <1>2, SetFacts DEF IInv, BeginPut, Begin, At
<1>4. UNCHANGED <<status, started, row, bitmap, stage, written, phase, matches, acked, asked>>
  BY <1>1 DEF BeginPut, rows, disk, client
<1>5. Forward BY <1>4, StillForward DEF IInv
<1>6. TypeOK' BY <1>3, <1>4 DEF IInv, TypeOK
<1>7. FilesInv' BY <1>4, FilesUntouched DEF IInv
<1>8. RequestsInv'
  <2>1. RequestOK(r)' BY <1>2, <1>3 DEF RequestOK, Chunks
  <2> QED BY <1>3, <1>5, <2>1, RequestKept DEF RequestsInv
<1>9. StatusInv'
  BY <1>4 DEF IInv, StatusInv, CompletedMeansDelivered, CompletedMeansVerified
<1>10. CreationInv'
  <2>1. \A q \in Requests : req[q].step # "create_parts" BY <1>1 DEF MaySendChunk, Published
  <2>2. status # "absent" BY DEF PutRead, Live, Status
  <2> QED BY <1>2, <1>3, <1>4, <2>1, <2>2 DEF CreationInv
<1> QED BY <1>6, <1>7, <1>8, <1>9, <1>10 DEF IInv

\* A step that writes only the status, to a value other than "completed", and
\* takes its request from past the creation to "ready" or to its end.
LEMMA StatusOnlyStep ==
  ASSUME IInv, NEW r \in Requests,
         req[r].step \notin {"idle", "create_parts", "write", "cleanup"},
         phase = "up",
         status' \in Status \ {"completed"} \/ status' = status,
         started' \in BOOLEAN,
         UNCHANGED <<row, bitmap, stage, written, phase, matches, asked>>,
         acked' \in [Files -> SUBSET Nat],
         req' \in [Requests -> Request],
         RequestOK(r)', req'[r].step # "create_parts",
         \A q \in Requests \ {r} : req'[q] = req[q]
  PROVE  IInv'
<1>1. status # "absent" /\ status \in Status BY SomethingExists
<1>2. "absent" \notin Status BY DEF Status
<1>3. TypeOK' BY <1>1 DEF IInv, TypeOK
<1>4. FilesInv' BY FilesUntouched DEF IInv
<1>5. RequestsInv'
  <2>1. Forward BY StillForward DEF IInv
  <2> QED BY <2>1, RequestKept DEF RequestsInv
<1>6. StatusInv'
  BY DEF IInv, StatusInv, CompletedMeansDelivered, CompletedMeansVerified
<1>7. CreationInv' BY <1>1, <1>2, PastCreation
<1> QED BY <1>3, <1>4, <1>5, <1>6, <1>7 DEF IInv

\* A request past the creation ends, with at most a status other than "completed"
\* written on its way out.
LEMMA EndStep ==
  ASSUME IInv, NEW r \in Requests, Finish(r),
         req[r].step \notin {"idle", "create_parts", "write", "cleanup"},
         phase = "up",
         status' \in Status \ {"completed"} \/ status' = status,
         started' \in BOOLEAN,
         UNCHANGED <<row, bitmap, stage, written, phase, matches, asked>>,
         acked' \in [Files -> SUBSET Nat]
  PROVE  IInv'
<1>1. /\ req' \in [Requests -> Request]
      /\ req'[r] = Idle
      /\ \A q \in Requests \ {r} : req'[q] = req[q]
  BY FinishFacts DEF IInv
<1>2. RequestOK(r)' BY <1>1, IdleIsRequest DEF RequestOK
<1> QED BY <1>1, <1>2, IdleIsRequest, StatusOnlyStep

LEMMA PutRearmStep ==
  ASSUME IInv, NEW r \in Requests, PutRearm(r)
  PROVE  IInv'
<1>1. /\ req[r].step = "put_rearm" /\ phase = "up"
      /\ status' \in Status \ {"completed"} \/ status' = status
      /\ UNCHANGED <<started, row, bitmap, stage, written, phase, matches, acked, asked>>
  BY DEF PutRearm, At, disk, client, Status
<1>2. CASE req[r].chunk \in Chunks(req[r].file) /\ Goto(r, "put_write")
  <2>1. "put_write" \in Step BY DEF Step
  <2>2. /\ req' \in [Requests -> Request]
        /\ req'[r].step = "put_write"
        /\ req'[r].file = req[r].file /\ req'[r].chunk = req[r].chunk
        /\ \A q \in Requests \ {r} : req'[q] = req[q]
    BY <1>2, <2>1, GotoFacts DEF IInv
  <2>3. RequestOK(r)' BY <1>2, <2>2 DEF RequestOK, Chunks
  <2> QED BY <1>1, <2>2, <2>3, StatusOnlyStep DEF IInv, TypeOK
<1>3. CASE Finish(r) BY <1>1, <1>3, EndStep DEF IInv, TypeOK
<1> QED BY <1>2, <1>3 DEF PutRearm

LEMMA PutWriteStep ==
  ASSUME IInv, NEW r \in Requests, PutWrite(r)
  PROVE  IInv'
<1> DEFINE f == req[r].file  c == req[r].chunk
<1>1. /\ req[r].step = "put_write" /\ phase = "up"
      /\ UNCHANGED <<status, started, row, bitmap, phase, matches, acked, asked, stage>>
  BY DEF PutWrite, At, rows, client, disk
<1>2. f \in Files /\ c \in Chunks(f) /\ c \in Nat
  BY <1>1, ChunksAreNat DEF IInv, RequestsInv, RequestOK, TypeOK, Request
<1>3. CASE stage[f] = "part" /\ Goto(r, "put_bit")
                /\ written' = [written EXCEPT ![f] = @ \union {c}]
  <2>1. "put_bit" \in Step BY DEF Step
  <2>2. /\ req' \in [Requests -> Request]
        /\ req'[r].step = "put_bit"
        /\ req'[r].file = f /\ req'[r].chunk = c
        /\ \A q \in Requests \ {r} : req'[q] = req[q]
    BY <1>3, <2>1, GotoFacts DEF IInv
  <2>3. /\ written' \in [Files -> SUBSET Nat]
        /\ \A g \in Files : written'[g] \subseteq Chunks(g)
        /\ \A g \in Files : written[g] \subseteq written'[g]
        /\ \A g \in Files : g # f => written'[g] = written[g]
        /\ c \in written'[f]
    BY <1>2, <1>3 DEF IInv, TypeOK
  <2>4. TypeOK' BY <1>1, <2>2, <2>3 DEF IInv, TypeOK, Chunks
  <2>5. FilesInv'
    BY <1>1, <1>3, <2>3 DEF IInv, FilesInv, SavedIsWhole, RecordedChunksStored, Chunks
  <2>6. RequestsInv'
    <3>1. Forward BY <1>1, <2>3 DEF IInv, TypeOK, Forward
    <3>2. RequestOK(r)' BY <1>2, <2>2, <2>3 DEF RequestOK, Chunks
    <3> QED BY <2>2, <3>1, <3>2, RequestKept DEF RequestsInv
  <2>7. StatusInv'
    BY <1>1 DEF IInv, StatusInv, CompletedMeansDelivered, CompletedMeansVerified
  <2>8. CreationInv'
    <3>1. status # "absent" BY <1>1, SomethingExists
    <3> QED BY <1>1, <2>2, <3>1, PastCreation
  <2> QED BY <2>4, <2>5, <2>6, <2>7, <2>8 DEF IInv
<1>4. CASE Finish(r) /\ UNCHANGED disk
  BY <1>1, <1>4, EndStep DEF disk, IInv, TypeOK
<1> QED BY <1>3, <1>4 DEF PutWrite

LEMMA PutBitStep ==
  ASSUME IInv, NEW r \in Requests, PutBit(r)
  PROVE  IInv'
<1> DEFINE f == req[r].file
           bits == bitmap[f] \union {req[r].chunk}
           x == [req[r] EXCEPT !.step = "put_row", !.count = Cardinality(bits)]
<1>0. /\ req[r].step = "put_bit" /\ phase = "up"
      /\ UNCHANGED <<status, started, row, stage, written, phase, matches, acked, asked>>
  BY DEF PutBit, At, client, disk
<1>a. CASE Finish(r) /\ UNCHANGED bitmap BY <1>0, <1>a, EndStep DEF IInv, TypeOK
<1>b. SUFFICES ASSUME /\ bitmap' = [bitmap EXCEPT ![f] = bits]
                      /\ req' = [req EXCEPT ![r].step = "put_row",
                                             ![r].count = Cardinality(bits)]
               PROVE  IInv'
  BY <1>a DEF PutBit
<1>1. /\ req[r].step = "put_bit" /\ phase = "up"
      /\ UNCHANGED <<status, started, row, stage, written, phase, matches, acked, asked>>
      /\ bitmap' = [bitmap EXCEPT ![f] = bits]
      /\ req' = [req EXCEPT ![r] = x]
  BY <1>0, <1>b DEF IInv, TypeOK, Request
<1>2. f \in Files /\ req[r].chunk \in Chunks(f)
  BY <1>1 DEF IInv, RequestsInv, RequestOK, TypeOK, Request
<1>3. bits \in SUBSET Chunks(f) /\ bits \in SUBSET Nat
  BY <1>2, ChunksAreNat DEF IInv, TypeOK
<1>4. Cardinality(bits) \in Nat BY <1>2, <1>3, CountIsNat
<1>5. x \in Request /\ x.step = "put_row" BY <1>4 DEF IInv, TypeOK, Request, Step
<1>6. /\ req' \in [Requests -> Request]
      /\ req'[r] = x
      /\ \A q \in Requests \ {r} : req'[q] = req[q]
  BY <1>1, <1>5, SetFacts DEF IInv
<1>7. /\ bitmap' \in [Files -> SUBSET Nat]
      /\ \A g \in Files : bitmap[g] \subseteq bitmap'[g] /\ bitmap'[g] \subseteq Chunks(g)
      /\ bitmap'[f] = bits
      /\ \A g \in Files : g # f => bitmap'[g] = bitmap[g]
  BY <1>1, <1>2, <1>3 DEF IInv, TypeOK
<1>8. TypeOK' BY <1>1, <1>6, <1>7 DEF IInv, TypeOK, Chunks
<1>9. FilesInv'
  <2>1. stage[f] = "part" => bits \subseteq written[f]
    BY <1>1, <1>2 DEF IInv, RequestsInv, RequestOK, FilesInv, RecordedChunksStored
  <2> QED BY <1>1, <1>7, <2>1 DEF IInv, FilesInv, SavedIsWhole, RecordedChunksStored, Chunks
<1>10. RequestsInv'
  <2>1. Forward BY <1>1, <1>7 DEF IInv, TypeOK, Forward
  <2>2. RequestOK(r)' BY <1>5, <1>6 DEF RequestOK
  <2> QED BY <1>6, <2>1, <2>2, RequestKept DEF RequestsInv
<1>11. StatusInv'
  BY <1>1 DEF IInv, StatusInv, CompletedMeansDelivered, CompletedMeansVerified
<1>12. CreationInv'
  <2>1. status # "absent" BY <1>1, SomethingExists
  <2> QED BY <1>1, <1>5, <1>6, <2>1, PastCreation
<1> QED BY <1>8, <1>9, <1>10, <1>11, <1>12 DEF IInv

LEMMA PutRowStep ==
  ASSUME IInv, NEW r \in Requests, PutRow(r)
  PROVE  IInv'
<1> DEFINE f == req[r].file
           new == [status |-> "transferring", chunks |-> req[r].count]
<1>0. /\ req[r].step = "put_row" /\ phase = "up"
      /\ UNCHANGED <<status, started, bitmap, stage, written, phase, matches, acked, asked>>
  BY DEF PutRow, At, client, disk
<1>a. CASE Finish(r) /\ UNCHANGED row BY <1>0, <1>a, EndStep DEF IInv, TypeOK
<1>1. SUFFICES ASSUME row' = [row EXCEPT ![f] = new], Goto(r, "put_started")
               PROVE  IInv'
  BY <1>a DEF PutRow
<1>2. f \in Files /\ req[r].count \in Nat BY DEF IInv, TypeOK, Request
<1>3. "put_started" \in Step BY DEF Step
<1>4. /\ req' \in [Requests -> Request]
      /\ req'[r].step = "put_started"
      /\ \A q \in Requests \ {r} : req'[q] = req[q]
  BY <1>1, <1>3, GotoFacts DEF IInv
<1>5. /\ row' \in [Files -> [status : FileStatus, chunks : Nat]]
      /\ \A g \in Files : row'[g].status = "completed" => row[g].status = "completed"
  BY <1>1, <1>2 DEF IInv, TypeOK, FileStatus
<1>6. TypeOK' BY <1>0, <1>1, <1>4, <1>5 DEF IInv, TypeOK, Chunks
<1>7. FilesInv'
  BY <1>0, <1>1, <1>5 DEF IInv, FilesInv, SavedIsWhole, RecordedChunksStored, Chunks
<1>8. RequestsInv'
  <2>1. Forward BY <1>0, <1>1, StillForward DEF IInv
  <2>2. RequestOK(r)' BY <1>4 DEF RequestOK
  <2> QED BY <1>4, <2>1, <2>2, RequestKept DEF RequestsInv
<1>9. StatusInv'
  BY <1>0 DEF IInv, StatusInv, CompletedMeansDelivered, CompletedMeansVerified
<1>10. CreationInv'
  <2>1. status # "absent" BY <1>0, <1>1, SomethingExists
  <2> QED BY <1>0, <1>1, <1>4, <2>1, PastCreation
<1> QED BY <1>6, <1>7, <1>8, <1>9, <1>10 DEF IInv

LEMMA PutStartedStep ==
  ASSUME IInv, NEW r \in Requests, PutStarted(r)
  PROVE  IInv'
<1>1. req[r].step = "put_started" /\ phase = "up" BY DEF PutStarted, At
<1>2. req[r].file \in Files /\ req[r].chunk \in Nat BY DEF IInv, TypeOK, Request
<1>3. acked' \in [Files -> SUBSET Nat] BY <1>2 DEF PutStarted, ChunkAnswered, IInv, TypeOK
<1>4. /\ started' \in BOOLEAN
      /\ status' \in Status \ {"completed"} \/ status' = status
      /\ UNCHANGED <<row, bitmap, stage, written, phase, matches, asked>>
  BY DEF PutStarted, Status, disk, ChunkAnswered, IInv, TypeOK
<1> QED BY <1>1, <1>3, <1>4, EndStep DEF PutStarted

LEMMA CompleteReadStep ==
  ASSUME IInv, NEW r \in Requests, CompleteRead(r)
  PROVE  IInv'
<1>1. PICK f \in Files, sha \in BOOLEAN :
        /\ MayComplete(f)
        /\ Cardinality(bitmap[f]) = NumChunks[f]
        /\ BeginComplete(r, f, sha)
  BY DEF CompleteRead
<1> DEFINE x == [Idle EXCEPT !.step = "list", !.file = f, !.sha = sha]
<1>2. x \in Request /\ x.step = "list" /\ x.file = f
  BY IdleIsRequest DEF Request, Step
<1>3. /\ req[r].step = "idle" /\ phase = "up"
      /\ req' \in [Requests -> Request]
      /\ req'[r] = x
      /\ \A q \in Requests \ {r} : req'[q] = req[q]
  BY <1>1, <1>2, SetFacts DEF IInv, BeginComplete, Begin, At
<1>4. /\ UNCHANGED <<status, started, row, bitmap, stage, written, phase, matches, acked>>
      /\ asked' \subseteq Files
  BY <1>1 DEF BeginComplete, rows, disk, IInv, TypeOK
<1>5. TypeOK' BY <1>3, <1>4 DEF IInv, TypeOK
<1>6. FilesInv' BY <1>4, FilesUntouched DEF IInv
<1>7. RequestsInv'
  <2>1. bitmap[f] = Chunks(f) BY <1>1, FullBitmap DEF IInv, TypeOK
  <2>2. RequestOK(r)' BY <1>2, <1>3, <1>4, <2>1 DEF RequestOK, Chunks
  <2>3. Forward BY <1>4, StillForward DEF IInv
  <2> QED BY <1>3, <2>2, <2>3, RequestKept DEF RequestsInv
<1>8. StatusInv'
  BY <1>4 DEF IInv, StatusInv, CompletedMeansDelivered, CompletedMeansVerified
<1>9. CreationInv'
  <2>1. \A q \in Requests : req[q].step # "create_parts" BY <1>1 DEF MayComplete, Published
  <2>2. status # "absent" BY DEF CompleteRead, Exists, Status
  <2> QED BY <1>2, <1>3, <1>4, <2>1, <2>2 DEF CreationInv
<1> QED BY <1>5, <1>6, <1>7, <1>8, <1>9 DEF IInv

LEMMA CompleteListStep ==
  ASSUME IInv, NEW r \in Requests, CompleteList(r)
  PROVE  IInv'
<1>1. req[r].step = "list" /\ phase = "up" BY DEF CompleteList, At
<1>2. PICK step \in {"verifying", "hash"} : Goto(r, step) BY DEF CompleteList
<1>3. step \in Step BY DEF Step
<1>4. /\ req' \in [Requests -> Request]
      /\ req'[r].step = step /\ req'[r].file = req[r].file
      /\ \A q \in Requests \ {r} : req'[q] = req[q]
  BY <1>2, <1>3, GotoFacts DEF IInv
<1>5. UNCHANGED <<status, started, row, bitmap, stage, written, phase, matches, acked, asked>>
  BY DEF CompleteList, rows, disk, client
<1>6. RequestOK(r)'
  BY <1>1, <1>4, <1>5 DEF IInv, RequestsInv, RequestOK, Chunks
<1> QED BY <1>1, <1>4, <1>5, <1>6, StatusOnlyStep DEF IInv, TypeOK

LEMMA CompleteVerifyingStep ==
  ASSUME IInv, NEW r \in Requests, CompleteVerifying(r)
  PROVE  IInv'
<1>1. req[r].step = "verifying" /\ phase = "up" BY DEF CompleteVerifying, At
<1>2. "hash" \in Step BY DEF Step
<1>3. /\ req' \in [Requests -> Request]
      /\ req'[r].step = "hash" /\ req'[r].file = req[r].file
      /\ \A q \in Requests \ {r} : req'[q] = req[q]
  BY <1>2, GotoFacts DEF CompleteVerifying, IInv
<1>4. /\ UNCHANGED <<started, row, bitmap, stage, written, phase, matches, acked, asked>>
      /\ status' \in Status \ {"completed"} \/ status' = status
  BY DEF CompleteVerifying, disk, client, Status
<1>5. RequestOK(r)'
  BY <1>1, <1>3, <1>4 DEF IInv, RequestsInv, RequestOK, Chunks
<1> QED BY <1>1, <1>3, <1>4, <1>5, StatusOnlyStep DEF IInv, TypeOK

LEMMA CompleteHashStep ==
  ASSUME IInv, NEW r \in Requests, CompleteHash(r)
  PROVE  IInv'
<1>1. req[r].step = "hash" /\ phase = "up" BY DEF CompleteHash, At
<1>2. UNCHANGED <<status, started, row, bitmap, stage, written, phase, matches, acked, asked>>
  BY DEF CompleteHash, rows, disk, client
<1>3. /\ req' \in [Requests -> Request]
      /\ \A q \in Requests \ {r} : req'[q] = req[q]
      /\ req'[r].step # "create_parts"
      /\ RequestOK(r)'
  <2>1. CASE Finish(r)
    BY <2>1, FinishFacts, IdleIsRequest DEF IInv, RequestOK
  <2>2. CASE Goto(r, "rename")
    <3>1. "rename" \in Step BY DEF Step
    <3>2. /\ req' \in [Requests -> Request]
          /\ req'[r].step = "rename" /\ req'[r].file = req[r].file
          /\ \A q \in Requests \ {r} : req'[q] = req[q]
      BY <2>2, <3>1, GotoFacts DEF IInv
    <3> QED BY <1>1, <1>2, <3>2 DEF IInv, RequestsInv, RequestOK, Chunks
  <2>3. CASE req' = [req EXCEPT ![r].step = "write", ![r].to = "failed"]
    <3> DEFINE x == [req[r] EXCEPT !.step = "write", !.to = "failed"]
    <3>1. x \in Request /\ x.step = "write" /\ x.to = "failed"
      BY DEF IInv, TypeOK, Request, Step, Status
    <3>2. req' = [req EXCEPT ![r] = x] BY <2>3 DEF IInv, TypeOK, Request
    <3>3. /\ req' \in [Requests -> Request]
          /\ req'[r] = x
          /\ \A q \in Requests \ {r} : req'[q] = req[q]
      BY <3>1, <3>2, SetFacts DEF IInv
    <3> QED BY <3>1, <3>3 DEF RequestOK
  <2> QED BY <2>1, <2>2, <2>3 DEF CompleteHash
<1> QED BY <1>1, <1>2, <1>3, StatusOnlyStep DEF IInv, TypeOK

LEMMA CompleteRenameStep ==
  ASSUME IInv, NEW r \in Requests, CompleteRename(r)
  PROVE  IInv'
<1> DEFINE f == req[r].file
<1>1. /\ req[r].step = "rename" /\ phase = "up"
      /\ UNCHANGED <<status, started, row, bitmap, phase, matches, acked, asked>>
  BY DEF CompleteRename, At, rows, client
<1>2. f \in Files /\ bitmap[f] = Chunks(f)
  BY <1>1 DEF IInv, RequestsInv, RequestOK, TypeOK, Request
<1>3. status # "absent" BY <1>1, SomethingExists
<1>4. CASE stage[f] = "part" /\ stage' = [stage EXCEPT ![f] = "saved"]
             /\ UNCHANGED written /\ Goto(r, "mark")
  <2>1. "mark" \in Step BY DEF Step
  <2>2. /\ req' \in [Requests -> Request]
        /\ req'[r].step = "mark" /\ req'[r].file = f
        /\ \A q \in Requests \ {r} : req'[q] = req[q]
    BY <1>4, <2>1, GotoFacts DEF IInv
  <2>3. /\ stage' \in [Files -> Stage] /\ stage'[f] = "saved"
        /\ \A g \in Files : g # f => stage'[g] = stage[g]
    BY <1>2, <1>4 DEF IInv, TypeOK, Stage
  <2>4. written[f] = Chunks(f)
    BY <1>2, <1>4 DEF IInv, TypeOK, FilesInv, RecordedChunksStored
  <2>5. TypeOK' BY <1>1, <1>4, <2>2, <2>3 DEF IInv, TypeOK, Chunks
  <2>6. FilesInv'
    BY <1>1, <1>4, <2>3, <2>4 DEF IInv, FilesInv, SavedIsWhole, RecordedChunksStored, Chunks
  <2>7. RequestsInv'
    <3>1. Forward BY <1>1, <1>4, <2>3 DEF IInv, TypeOK, Forward
    <3>2. RequestOK(r)' BY <2>2, <2>3 DEF RequestOK
    <3> QED BY <2>2, <3>1, <3>2, RequestKept DEF RequestsInv
  <2>8. StatusInv'
    BY <1>1, <2>3 DEF IInv, StatusInv, CompletedMeansDelivered, CompletedMeansVerified
  <2>9. CreationInv' BY <1>1, <1>3, <2>2, PastCreation
  <2> QED BY <2>5, <2>6, <2>7, <2>8, <2>9 DEF IInv
<1>5. CASE stage[f] = "part" /\ stage' = [stage EXCEPT ![f] = "gone"]
             /\ written' = [written EXCEPT ![f] = {}] /\ Finish(r)
  <2>1. /\ req' \in [Requests -> Request]
        /\ req'[r] = Idle
        /\ \A q \in Requests \ {r} : req'[q] = req[q]
    BY <1>5, FinishFacts DEF IInv
  <2>2. /\ stage' \in [Files -> Stage] /\ stage'[f] = "gone" /\ stage[f] = "part"
        /\ \A g \in Files : g # f => stage'[g] = stage[g] /\ written'[g] = written[g]
        /\ written' \in [Files -> SUBSET Nat] /\ written'[f] = {}
    BY <1>2, <1>5 DEF IInv, TypeOK, Stage
  <2>3. TypeOK' BY <1>1, <2>1, <2>2 DEF IInv, TypeOK, Chunks
  <2>4. FilesInv'
    BY <1>1, <2>2 DEF IInv, FilesInv, SavedIsWhole, RecordedChunksStored, Chunks
  <2>5. RequestsInv'
    <3>1. Forward BY <1>1, <2>2 DEF IInv, TypeOK, Forward
    <3>2. RequestOK(r)' BY <2>1, IdleIsRequest DEF RequestOK
    <3> QED BY <2>1, <3>1, <3>2, RequestKept DEF RequestsInv
  <2>6. StatusInv'
    BY <1>1, <2>2 DEF IInv, StatusInv, CompletedMeansDelivered, CompletedMeansVerified
  <2>7. CreationInv' BY <1>1, <1>3, <2>1, IdleIsRequest, PastCreation
  <2> QED BY <2>3, <2>4, <2>5, <2>6, <2>7 DEF IInv
<1>6. CASE Finish(r) /\ UNCHANGED disk
  BY <1>1, <1>6, EndStep DEF disk, IInv, TypeOK
<1> QED BY <1>4, <1>5, <1>6 DEF CompleteRename

LEMMA CompleteMarkStep ==
  ASSUME IInv, NEW r \in Requests, CompleteMark(r)
  PROVE  IInv'
<1> DEFINE f == req[r].file
<1>1. /\ req[r].step = "mark" /\ phase = "up"
      /\ UNCHANGED <<status, started, bitmap, stage, written, phase, matches, acked, asked>>
  BY DEF CompleteMark, At, disk, client
<1>a. CASE Finish(r) /\ UNCHANGED row BY <1>1, <1>a, EndStep DEF IInv, TypeOK
<1>b. CASE f \in Hashed \ matches /\ UNCHANGED row
             /\ req' = [req EXCEPT ![r].step = "mark_failed", ![r].count = row[f].chunks]
  <2> DEFINE x == [req[r] EXCEPT !.step = "mark_failed", !.count = row[f].chunks]
  <2>1. req[r] \in Request /\ row[f].chunks \in Nat BY DEF IInv, TypeOK, Request
  <2>2. x \in Request /\ x.step = "mark_failed" /\ x.file = f
    BY <2>1 DEF Request, Step
  <2>3. req' = [req EXCEPT ![r] = x] BY <1>b DEF IInv, TypeOK
  <2>4. /\ req' \in [Requests -> Request]
        /\ req'[r] = x
        /\ \A q \in Requests \ {r} : req'[q] = req[q]
    BY <2>2, <2>3, SetFacts DEF IInv
  <2>5. RequestOK(r)' BY <1>1, <1>b, <2>2, <2>4 DEF RequestOK
  <2> QED BY <1>1, <1>b, <2>2, <2>4, <2>5, StatusOnlyStep DEF IInv, TypeOK
<1>c. SUFFICES ASSUME row' = [row EXCEPT ![f].status = "completed"],
                      f \notin Hashed \ matches, Goto(r, "list_again")
               PROVE  IInv'
  BY <1>a, <1>b DEF CompleteMark
<1>2. f \in Files /\ stage[f] = "saved"
  BY <1>1 DEF IInv, RequestsInv, RequestOK, TypeOK, Request
<1>3. /\ row' \in [Files -> [status : FileStatus, chunks : Nat]]
      /\ \A g \in Files : g # f => row'[g] = row[g]
  <2> DEFINE new == [row[f] EXCEPT !.status = "completed"]
  <2>2. row \in [Files -> [status : FileStatus, chunks : Nat]] BY DEF IInv, TypeOK
  <2>3. row' = [row EXCEPT ![f] = new] BY <1>c
  <2>4. new \in [status : FileStatus, chunks : Nat]
    BY <1>2, <2>2 DEF FileStatus
  <2> HIDE DEF new
  <2> QED BY <1>2, <2>2, <2>3, <2>4
<1>4. /\ req' \in [Requests -> Request]
      /\ \A q \in Requests \ {r} : req'[q] = req[q]
      /\ req'[r].step = "list_again"
  <2>1. "list_again" \in Step BY DEF Step
  <2> QED BY <1>c, <2>1, GotoFacts DEF IInv
<1>5. TypeOK' BY <1>1, <1>3, <1>4 DEF IInv, TypeOK, Chunks
<1>6. FilesInv'
  BY <1>1, <1>2, <1>3, <1>c DEF IInv, FilesInv, SavedIsWhole, RecordedChunksStored, Chunks
<1>7. RequestsInv'
  <2>1. Forward BY <1>1, StillForward DEF IInv
  <2>2. RequestOK(r)' BY <1>4 DEF RequestOK
  <2> QED BY <1>4, <2>1, <2>2, RequestKept DEF RequestsInv
<1>8. StatusInv'
  BY <1>1 DEF IInv, StatusInv, CompletedMeansDelivered, CompletedMeansVerified
<1>9. CreationInv'
  <2>1. status # "absent" BY <1>1, SomethingExists
  <2> QED BY <1>1, <1>4, <2>1, PastCreation
<1> QED BY <1>5, <1>6, <1>7, <1>8, <1>9 DEF IInv

LEMMA CompleteFailsStep ==
  ASSUME IInv, NEW r \in Requests, CompleteFails(r)
  PROVE  IInv'
<1> DEFINE f   == req[r].file
           new == [status |-> "failed", chunks |-> req[r].count]
<1>1. /\ req[r].step = "mark_failed" /\ phase = "up" /\ Finish(r)
      /\ UNCHANGED <<status, started, bitmap, stage, written, phase, matches, acked, asked>>
  BY DEF CompleteFails, At, disk, client
<1>a. CASE UNCHANGED row BY <1>1, <1>a, EndStep DEF IInv, TypeOK
<1>b. SUFFICES ASSUME row' = [row EXCEPT ![f] = new] PROVE IInv'
  BY <1>a DEF CompleteFails
<1>2. f \in Files /\ req[r].count \in Nat BY DEF IInv, TypeOK, Request
<1>3. /\ row' \in [Files -> [status : FileStatus, chunks : Nat]]
      /\ \A g \in Files : row'[g].status = "completed" => row[g].status = "completed"
  BY <1>b, <1>2 DEF IInv, TypeOK, FileStatus
<1>4. /\ req' \in [Requests -> Request]
      /\ \A q \in Requests \ {r} : req'[q] = req[q]
      /\ req'[r].step = "idle"
  BY <1>1, FinishFacts, IdleIsRequest DEF IInv
<1>5. TypeOK' BY <1>1, <1>3, <1>4 DEF IInv, TypeOK, Chunks
<1>6. FilesInv'
  BY <1>1, <1>3 DEF IInv, FilesInv, SavedIsWhole, RecordedChunksStored, Chunks
<1>7. RequestsInv'
  <2>1. Forward BY <1>1, StillForward DEF IInv
  <2>2. RequestOK(r)' BY <1>4 DEF RequestOK
  <2> QED BY <1>4, <2>1, <2>2, RequestKept DEF RequestsInv
<1>8. StatusInv'
  BY <1>1 DEF IInv, StatusInv, CompletedMeansDelivered, CompletedMeansVerified
<1>9. CreationInv'
  <2>1. status # "absent" BY <1>1, SomethingExists
  <2> QED BY <1>1, <1>4, <2>1, PastCreation
<1> QED BY <1>5, <1>6, <1>7, <1>8, <1>9 DEF IInv

LEMMA CompleteListAgainStep ==
  ASSUME IInv, NEW r \in Requests, CompleteListAgain(r)
  PROVE  IInv'
<1>1. req[r].step = "list_again" /\ phase = "up" BY DEF CompleteListAgain, At
<1>2. UNCHANGED <<status, started, row, bitmap, stage, written, phase, matches, acked, asked>>
  BY DEF CompleteListAgain, rows, disk, client
<1>3. /\ req' \in [Requests -> Request]
      /\ \A q \in Requests \ {r} : req'[q] = req[q]
      /\ req'[r].step # "create_parts"
      /\ RequestOK(r)'
  <2>1. CASE AllCompleted /\ Goto(r, "all_verifying")
    <3>1. "all_verifying" \in Step BY DEF Step
    <3>2. /\ req' \in [Requests -> Request]
          /\ req'[r].step = "all_verifying"
          /\ \A q \in Requests \ {r} : req'[q] = req[q]
      BY <2>1, <3>1, GotoFacts DEF IInv
    <3>3. \A g \in Files : stage[g] = "saved" /\ g \notin Hashed \ matches
      BY <2>1 DEF IInv, FilesInv, AllCompleted
    <3>4. Hashed \subseteq matches BY <3>3, OptionsAssumption
    <3> QED BY <1>2, <3>2, <3>3, <3>4 DEF RequestOK
  <2>2. CASE Goto(r, "straggler")
    <3>1. "straggler" \in Step BY DEF Step
    <3> QED BY <2>2, <3>1, GotoFacts DEF IInv, RequestOK
  <2>3. CASE Finish(r) BY <2>3, FinishFacts, IdleIsRequest DEF IInv, RequestOK
  <2> QED BY <2>1, <2>2, <2>3 DEF CompleteListAgain
<1> QED BY <1>1, <1>2, <1>3, StatusOnlyStep DEF IInv, TypeOK

LEMMA CompleteAllVerifyingStep ==
  ASSUME IInv, NEW r \in Requests, CompleteAllVerifying(r)
  PROVE  IInv'
<1>1. req[r].step = "all_verifying" /\ phase = "up" BY DEF CompleteAllVerifying, At
<1>2. "all_completed" \in Step BY DEF Step
<1>3. /\ req' \in [Requests -> Request]
      /\ req'[r].step = "all_completed"
      /\ \A q \in Requests \ {r} : req'[q] = req[q]
  BY <1>2, GotoFacts DEF CompleteAllVerifying, IInv
<1>4. /\ UNCHANGED <<started, row, bitmap, stage, written, phase, matches, acked, asked>>
      /\ status' \in Status \ {"completed"} \/ status' = status
  BY DEF CompleteAllVerifying, disk, client, Status
<1>5. RequestOK(r)' BY <1>1, <1>3, <1>4 DEF IInv, RequestsInv, RequestOK
<1> QED BY <1>1, <1>3, <1>4, <1>5, StatusOnlyStep DEF IInv, TypeOK

LEMMA CompleteAllStep ==
  ASSUME IInv, NEW r \in Requests, CompleteAll(r)
  PROVE  IInv'
<1>1. /\ req[r].step = "all_completed" /\ phase = "up"
      /\ UNCHANGED <<started, row, bitmap, stage, written, phase, matches, acked, asked>>
      /\ status' = "completed" \/ status' = status
  BY DEF CompleteAll, At, disk, client
<1>0. status # "absent" /\ "completed" # "absent" BY <1>1, SomethingExists
<1>2. /\ req' \in [Requests -> Request]
      /\ req'[r] = Idle
      /\ \A q \in Requests \ {r} : req'[q] = req[q]
  BY FinishFacts DEF CompleteAll, IInv
<1>3. TypeOK' BY <1>1, <1>2 DEF IInv, TypeOK, Status, Chunks
<1>4. FilesInv' BY <1>1, FilesUntouched DEF IInv
<1>5. RequestsInv'
  <2>1. Forward BY <1>1, StillForward DEF IInv
  <2>2. RequestOK(r)' BY <1>2, IdleIsRequest DEF RequestOK
  <2> QED BY <1>2, <2>1, <2>2, RequestKept DEF RequestsInv
<1>6. StatusInv'
  <2>1. (\A g \in Files : stage[g] = "saved") /\ Hashed \subseteq matches
    BY <1>1 DEF IInv, RequestsInv, RequestOK
  <2> QED BY <1>1, <2>1 DEF IInv, StatusInv, CompletedMeansDelivered, CompletedMeansVerified
<1>7. CreationInv' BY <1>0, <1>1, <1>2, IdleIsRequest, PastCreation
<1> QED BY <1>3, <1>4, <1>5, <1>6, <1>7 DEF IInv

LEMMA CompleteStragglerStep ==
  ASSUME IInv, NEW r \in Requests, CompleteStraggler(r)
  PROVE  IInv'
<1>1. /\ req[r].step = "straggler" /\ phase = "up"
      /\ UNCHANGED <<started, row, bitmap, stage, written, phase, matches, acked, asked>>
      /\ status' \in Status \ {"completed"} \/ status' = status
  BY DEF CompleteStraggler, At, disk, client, Status
<1> QED BY <1>1, EndStep DEF CompleteStraggler, IInv, TypeOK

LEMMA BeginWriteStep ==
  ASSUME IInv, NEW r \in Requests, NEW name, NEW to \in Status \ {"completed"},
         status # "absent", BeginWrite(r, name, to)
  PROVE  IInv'
<1> DEFINE x == [Idle EXCEPT !.step = "write", !.to = to]
<1>1. x \in Request /\ x.step = "write" /\ x.to = to
  BY IdleIsRequest DEF Request, Step
<1>2. /\ req[r].step = "idle" /\ phase = "up"
      /\ req' \in [Requests -> Request]
      /\ req'[r] = x
      /\ \A q \in Requests \ {r} : req'[q] = req[q]
      /\ UNCHANGED <<status, started, row, bitmap, stage, written, phase, matches, acked, asked>>
  BY <1>1, SetFacts DEF IInv, BeginWrite, Begin, At, rows, disk, client
<1>3. TypeOK' BY <1>2 DEF IInv, TypeOK, Chunks
<1>4. FilesInv' BY <1>2, FilesUntouched DEF IInv
<1>5. RequestsInv'
  <2>1. Forward BY <1>2, StillForward DEF IInv
  <2>2. RequestOK(r)' BY <1>1, <1>2 DEF RequestOK
  <2> QED BY <1>2, <2>1, <2>2, RequestKept DEF RequestsInv
<1>6. StatusInv'
  BY <1>2 DEF IInv, StatusInv, CompletedMeansDelivered, CompletedMeansVerified
<1>7. CreationInv'
  <2>1. Fresh => Fresh' BY <1>2 DEF Fresh
  <2> QED BY <1>1, <1>2, <2>1, DuringCreation
<1> QED BY <1>3, <1>4, <1>5, <1>6, <1>7 DEF IInv

LEMMA WriteStatusStep ==
  ASSUME IInv, NEW r \in Requests, WriteStatus(r)
  PROVE  IInv'
<1>1. /\ req[r].step = "write" /\ phase = "up"
      /\ status' = req[r].to \/ status' = status
      /\ UNCHANGED <<started, row, bitmap, stage, written, phase, matches, acked, asked>>
  BY DEF WriteStatus, At, disk, client
<1>0. status # "absent" /\ status \in Status BY <1>1, SomethingExists
<1>2. status' \in Status \ {"completed"} \/ status' = status
  BY <1>1 DEF IInv, TypeOK, Request, RequestsInv, RequestOK
<1>3. /\ req' \in [Requests -> Request]
      /\ req'[r].step \in {"idle", "cleanup"}
      /\ \A q \in Requests \ {r} : req'[q] = req[q]
  <2>1. "cleanup" \in Step BY DEF Step
  <2>2. CASE Goto(r, "cleanup") BY <2>1, <2>2, GotoFacts DEF IInv
  <2>3. CASE Finish(r) BY <2>3, FinishFacts, IdleIsRequest DEF IInv
  <2> QED BY <2>2, <2>3 DEF WriteStatus
<1>4. TypeOK' BY <1>0, <1>1, <1>2, <1>3 DEF IInv, TypeOK, Chunks
<1>5. FilesInv' BY <1>1, FilesUntouched DEF IInv
<1>6. RequestsInv'
  <2>1. Forward BY <1>1, StillForward DEF IInv
  <2>2. RequestOK(r)' BY <1>3 DEF RequestOK
  <2> QED BY <1>3, <2>1, <2>2, RequestKept DEF RequestsInv
<1>7. StatusInv'
  BY <1>1, <1>2 DEF IInv, StatusInv, CompletedMeansDelivered, CompletedMeansVerified
<1>8. CreationInv'
  <2>1. Fresh => Fresh' BY <1>1 DEF Fresh
  <2>2. status' # "absent" BY <1>0, <1>2 DEF Status
  <2> QED BY <1>1, <1>3, <2>1, <2>2, DuringCreation
<1> QED BY <1>4, <1>5, <1>6, <1>7, <1>8 DEF IInv

\* What CleanupTransfer does to the files, for a handler and for the sweep.
LEMMA DropStagedFacts ==
  ASSUME IInv, DropStaged, UNCHANGED <<row, bitmap, matches>>
  PROVE  /\ stage' \in [Files -> Stage] /\ written' \in [Files -> SUBSET Nat]
         /\ \A f \in Files : written'[f] \subseteq Chunks(f)
         /\ \A f \in Files : stage'[f] = "saved" <=> stage[f] = "saved"
         /\ \A f \in Files : stage'[f] # "part"
         /\ Forward /\ FilesInv' /\ (Fresh => Fresh')
<1>1. /\ stage' \in [Files -> Stage] /\ written' \in [Files -> SUBSET Nat]
      /\ \A f \in Files : written'[f] \subseteq Chunks(f)
      /\ \A f \in Files : stage'[f] = "saved" <=> stage[f] = "saved"
      /\ \A f \in Files : stage'[f] # "part"
      /\ \A f \in Files : stage[f] = "saved" => written'[f] = written[f]
      /\ \A f \in Files : stage[f] = "none" => stage'[f] = "none"
  BY DEF DropStaged, IInv, TypeOK, Stage
<1>2. Forward BY <1>1 DEF IInv, TypeOK, Forward
<1>3. FilesInv' BY <1>1 DEF IInv, FilesInv, SavedIsWhole, RecordedChunksStored, Chunks
<1>4. Fresh => Fresh' BY <1>1 DEF Fresh
<1> QED BY <1>1, <1>2, <1>3, <1>4

LEMMA CleanupStep ==
  ASSUME IInv, NEW r \in Requests, Cleanup(r)
  PROVE  IInv'
<1>1. /\ req[r].step = "cleanup" /\ phase = "up"
      /\ UNCHANGED <<status, started, row, bitmap, phase, matches, acked, asked>>
  BY DEF Cleanup, At, rows, client
<1>2. /\ req' \in [Requests -> Request]
      /\ req'[r] = Idle
      /\ \A q \in Requests \ {r} : req'[q] = req[q]
  BY FinishFacts DEF Cleanup, IInv
<1>3. /\ stage' \in [Files -> Stage] /\ written' \in [Files -> SUBSET Nat]
      /\ \A f \in Files : written'[f] \subseteq Chunks(f)
      /\ \A f \in Files : stage'[f] = "saved" <=> stage[f] = "saved"
      /\ Forward /\ FilesInv' /\ (Fresh => Fresh')
  <2>1. CASE DropStaged BY <1>1, <2>1, DropStagedFacts
  <2>2. CASE UNCHANGED disk
    <3>1. UNCHANGED <<row, bitmap, stage, written, matches>> BY <1>1, <2>2 DEF disk
    <3>2. Forward /\ FilesInv' BY <3>1, StillForward, FilesUntouched DEF IInv
    <3> QED BY <3>1, <3>2 DEF IInv, TypeOK, Fresh
  <2> QED BY <2>1, <2>2 DEF Cleanup
<1>4. TypeOK' BY <1>1, <1>2, <1>3 DEF IInv, TypeOK, Chunks
<1>5. RequestsInv'
  <2>1. RequestOK(r)' BY <1>2, IdleIsRequest DEF RequestOK
  <2> QED BY <1>2, <1>3, <2>1, RequestKept DEF RequestsInv
<1>6. StatusInv'
  BY <1>1, <1>3 DEF IInv, StatusInv, CompletedMeansDelivered, CompletedMeansVerified
<1>7. CreationInv'
  <2>1. status # "absent" BY <1>1, SomethingExists
  <2> QED BY <1>1, <1>2, <1>3, <2>1, IdleIsRequest, DuringCreation
<1> QED BY <1>3, <1>4, <1>5, <1>6, <1>7 DEF IInv

LEMMA CrashStep ==
  ASSUME IInv, Crash
  PROVE  IInv'
<1>1. /\ phase' = "down" /\ req' = [r \in Requests |-> Idle]
      /\ UNCHANGED <<status, started, row, bitmap, stage, written, matches, acked, asked>>
  BY DEF Crash, rows, disk, client
<1>2. TypeOK' BY <1>1, IdleIsRequest DEF IInv, TypeOK, Phase, Chunks
<1>3. FilesInv' BY <1>1, FilesUntouched DEF IInv
<1>4. RequestsInv' BY <1>1, IdleIsRequest DEF RequestsInv, RequestOK
<1>5. StatusInv'
  BY <1>1 DEF IInv, StatusInv, CompletedMeansDelivered, CompletedMeansVerified
<1>6. CreationInv' BY <1>1, IdleIsRequest DEF IInv, CreationInv, Fresh
<1> QED BY <1>2, <1>3, <1>4, <1>5, <1>6 DEF IInv

LEMMA SweepStep ==
  ASSUME IInv, Sweep
  PROVE  IInv'
<1>1. UNCHANGED <<started, row, bitmap, stage, written, req, matches, acked, asked>>
  BY DEF Sweep, disk, client
<1>2. \/ Live /\ status' = "failed" /\ phase' = "dropping"
      \/ ~Live /\ status' = status /\ phase' = "recovered"
  BY DEF Sweep
<1>3. TypeOK' BY <1>1, <1>2 DEF IInv, TypeOK, Status, Phase, Chunks
<1>4. FilesInv' BY <1>1, FilesUntouched DEF IInv
<1>5. RequestsInv'
  <2>1. Forward BY <1>1, StillForward DEF IInv
  <2> QED BY <1>1, <2>1, RequestKept DEF RequestsInv
<1>6. StatusInv'
  BY <1>1, <1>2 DEF IInv, TypeOK, Live, Terminal, StatusInv, CompletedMeansDelivered,
                    CompletedMeansVerified
<1>7. CreationInv' BY <1>1, <1>2 DEF IInv, CreationInv, Fresh
<1> QED BY <1>3, <1>4, <1>5, <1>6, <1>7 DEF IInv

LEMMA SweepCleanupStep ==
  ASSUME IInv, SweepCleanup
  PROVE  IInv'
<1>1. /\ phase = "dropping" /\ phase' = "recovered"
      /\ UNCHANGED <<status, started, row, bitmap, req, matches, acked, asked>>
  BY DEF SweepCleanup, rows, client
<1>2. /\ stage' \in [Files -> Stage] /\ written' \in [Files -> SUBSET Nat]
      /\ \A f \in Files : written'[f] \subseteq Chunks(f)
      /\ \A f \in Files : stage'[f] = "saved" <=> stage[f] = "saved"
      /\ Forward /\ FilesInv' /\ (Fresh => Fresh')
  BY <1>1, DropStagedFacts DEF SweepCleanup
<1>3. TypeOK' BY <1>1, <1>2 DEF IInv, TypeOK, Phase, Chunks
<1>4. RequestsInv' BY <1>1, <1>2, RequestKept DEF RequestsInv
<1>5. StatusInv'
  BY <1>1, <1>2 DEF IInv, StatusInv, CompletedMeansDelivered, CompletedMeansVerified
<1>6. CreationInv' BY <1>1, <1>2 DEF IInv, CreationInv
<1> QED BY <1>2, <1>3, <1>4, <1>5, <1>6 DEF IInv

LEMMA DecideStep ==
  ASSUME IInv, NEW r \in Requests, Decide(r)
  PROVE  IInv'
<1>1. {"cancelled", "failed", "paused", "transferring", "retrying", "preparing", "rejected"}
        \subseteq Status \ {"completed"}
  BY DEF Status
<1>2. "absent" \notin Status BY DEF Status
<1>3. CASE Cancel(r) BY <1>1, <1>2, <1>3, BeginWriteStep DEF Cancel, Live
<1>4. CASE FailReport(r) BY <1>1, <1>2, <1>4, BeginWriteStep DEF FailReport, Live
<1>5. CASE GraceExpiry(r) BY <1>1, <1>2, <1>5, BeginWriteStep DEF GraceExpiry, Live
<1>6. CASE Pause(r) BY <1>1, <1>6, BeginWriteStep DEF Pause
<1>7. CASE Resume(r) BY <1>1, <1>7, BeginWriteStep DEF Resume
<1>8. CASE Retry(r) BY <1>1, <1>2, <1>8, BeginWriteStep DEF Retry, Exists
<1>9. CASE Accept(r) BY <1>1, <1>2, <1>9, BeginWriteStep DEF Accept, Exists
<1>10. CASE Reject(r) BY <1>1, <1>2, <1>10, BeginWriteStep DEF Reject, Exists
<1>11. CASE WriteStatus(r) BY <1>11, WriteStatusStep
<1>12. CASE Cleanup(r) BY <1>12, CleanupStep
<1> QED
  BY <1>3, <1>4, <1>5, <1>6, <1>7, <1>8, <1>9, <1>10, <1>11, <1>12 DEF Decide

LEMMA StepPreserves == IInv /\ [Next]_vars => IInv'
<1> SUFFICES ASSUME IInv, [Next]_vars PROVE IInv' OBVIOUS
<1>1. ASSUME NEW r \in Requests, CreateRow(r) \/ CreateParts(r) PROVE IInv'
  BY <1>1, CreateRowStep, CreatePartsStep
<1>2. ASSUME NEW r \in Requests, Put(r) PROVE IInv'
  BY <1>2, PutReadStep, PutRearmStep, PutWriteStep, PutBitStep, PutRowStep, PutStartedStep
     DEF Put
<1>3. ASSUME NEW r \in Requests, Complete(r) PROVE IInv'
  BY <1>3, CompleteReadStep, CompleteListStep, CompleteVerifyingStep, CompleteHashStep,
     CompleteRenameStep, CompleteMarkStep, CompleteFailsStep, CompleteListAgainStep,
     CompleteAllVerifyingStep, CompleteAllStep, CompleteStragglerStep DEF Complete
<1>4. ASSUME NEW r \in Requests, Decide(r) PROVE IInv' BY <1>4, DecideStep
<1>5. CASE Restart BY <1>5, CrashStep, SweepStep, SweepCleanupStep DEF Restart
<1>6. CASE UNCHANGED vars
  <2>1. UNCHANGED <<status, started, row, bitmap, stage, written, req, phase, matches, acked, asked>>
    BY <1>6 DEF vars
  <2>2. TypeOK' BY <2>1 DEF IInv, TypeOK, Chunks
  <2>3. FilesInv' BY <2>1, FilesUntouched DEF IInv
  <2>4. RequestsInv'
    <3>1. Forward BY <2>1, StillForward DEF IInv
    <3> QED BY <2>1, <3>1, RequestKept DEF RequestsInv
  <2>5. StatusInv'
    BY <2>1 DEF IInv, StatusInv, CompletedMeansDelivered, CompletedMeansVerified
  <2>6. CreationInv' BY <2>1 DEF IInv, CreationInv, Fresh
  <2> QED BY <2>2, <2>3, <2>4, <2>5, <2>6 DEF IInv
<1> QED BY <1>1, <1>2, <1>3, <1>4, <1>5, <1>6 DEF Next

LEMMA Invariance == Spec => []IInv
<1> QED BY InitEstablishes, StepPreserves, PTL DEF Spec

-----------------------------------------------------------------------------
(* How a step moves the files. *)

\* A step keeps every file that was saved or dropped where it is, and it either
\* saves nothing, or saves one staged file and leaves the status alone.
FilesMove ==
  /\ \A f \in Files : stage[f] \in {"saved", "gone"} => stage'[f] = stage[f]
  /\ \/ \A f \in Files : stage'[f] = "saved" <=> stage[f] = "saved"
     \/ /\ status' = status
        /\ \E g \in Files : /\ stage[g] = "part" /\ stage'[g] = "saved"
                            /\ \A f \in Files \ {g} : stage'[f] = stage[f]

LEMMA StepMovesFiles ==
  ASSUME IInv, [Next]_vars
  PROVE  FilesMove
<1>1. CASE UNCHANGED stage BY <1>1 DEF FilesMove
<1>2. CASE DropStaged BY <1>2 DEF FilesMove, DropStaged
<1>3. ASSUME NEW r \in Requests, CreateParts(r) PROVE FilesMove
  <2>1. Fresh BY <1>3 DEF CreateParts, At, IInv, CreationInv
  <2>2. PICK made \in SUBSET Files :
          stage' = [f \in Files |-> IF f \in made THEN "part" ELSE stage[f]]
    BY <1>3, Zenon DEF CreateParts
  <2> QED BY <2>1, <2>2 DEF FilesMove, Fresh
<1>4. ASSUME NEW r \in Requests, CompleteRename(r) PROVE FilesMove
  <2> DEFINE g == req[r].file
  <2>1. g \in Files /\ stage \in [Files -> Stage] BY DEF IInv, TypeOK, Request
  <2>2. CASE stage[g] = "part" /\ stage' = [stage EXCEPT ![g] = "saved"] /\ UNCHANGED rows
    BY <2>1, <2>2 DEF FilesMove, rows
  <2>3. CASE stage[g] = "part" /\ stage' = [stage EXCEPT ![g] = "gone"]
    BY <2>1, <2>3 DEF FilesMove
  <2> QED BY <1>1, <1>4, <2>2, <2>3 DEF CompleteRename, disk
<1>5. ASSUME NEW r \in Requests, CreateRow(r) PROVE UNCHANGED stage
  BY <1>5 DEF CreateRow, disk
<1>6. ASSUME NEW r \in Requests, Put(r) PROVE UNCHANGED stage
  BY <1>6 DEF Put, PutRead, BeginPut, PutRearm, PutWrite, PutBit, PutRow, PutStarted, disk
<1>7. ASSUME NEW r \in Requests, Complete(r) PROVE UNCHANGED stage \/ CompleteRename(r)
  BY <1>7 DEF Complete, CompleteRead, BeginComplete, CompleteList, CompleteVerifying,
              CompleteHash, CompleteMark, CompleteFails, CompleteListAgain,
              CompleteAllVerifying, CompleteAll, CompleteStraggler, disk
<1>8. ASSUME NEW r \in Requests, Decide(r) PROVE UNCHANGED stage \/ DropStaged
  BY <1>8 DEF Decide, Cancel, FailReport, GraceExpiry, Pause, Resume, Retry, Accept, Reject,
              BeginWrite, WriteStatus, Cleanup, disk
<1>9. CASE Restart BY <1>1, <1>2, <1>9 DEF Restart, Crash, Sweep, SweepCleanup, disk
<1>10. CASE UNCHANGED vars BY <1>1, <1>10 DEF vars
<1> QED
  BY <1>1, <1>2, <1>3, <1>4, <1>5, <1>6, <1>7, <1>8, <1>9, <1>10 DEF Next

-----------------------------------------------------------------------------
(* The counts of the file rows, and the chunks answered. *)

\* The steps of a request that carries a count to a row.
Carries == {"put_row", "mark_failed"}

\* A request about to write a count took it from the bitmap, or from the row behind it,
\* and the bitmap has grown since if it has changed.
CountsInv ==
  /\ CountsNeverAhead
  /\ \A r \in Requests : req[r].step \in Carries =>
       req[r].count <= Cardinality(bitmap[req[r].file])

\* The steps of a PUT whose chunk is in the bitmap.
Recorded == {"put_row", "put_started"}

\* A chunk that was answered, or is about to be, is in the bitmap.
AnswersInv ==
  /\ \A r \in Requests : req[r].step \in Recorded => req[r].chunk \in bitmap[req[r].file]
  /\ \A f \in Files : acked[f] \subseteq bitmap[f]

\* How a step moves counts and recorded chunks.
CountsMove ==
  /\ \A f \in Files : bitmap[f] \subseteq bitmap'[f]
  /\ \A f \in Files :
       \/ row'[f].chunks = row[f].chunks
       \/ \E r \in Requests : /\ req[r].step \in Carries /\ req[r].file = f
                             /\ row'[f].chunks = req[r].count
  /\ \A r \in Requests : req'[r].step \in Carries =>
       \/ req'[r] = req[r]
       \/ req'[r].count = Cardinality(bitmap'[req'[r].file])
       \/ req'[r].count = row[req'[r].file].chunks
  /\ \A r \in Requests : req'[r].step \in Recorded =>
       \/ req'[r] = req[r]
       \/ req'[r].chunk \in bitmap'[req'[r].file]
       \/ /\ req[r].step \in Recorded
          /\ req'[r].file = req[r].file /\ req'[r].chunk = req[r].chunk

\* What follows of them is kept by such a step, as bitmaps are finite.
LEMMA CountsKept ==
  ASSUME TypeOK, TypeOK', CountsInv, CountsMove
  PROVE  CountsInv'
<1>1. ASSUME NEW f \in Files
      PROVE  /\ Cardinality(bitmap[f]) \in Nat /\ Cardinality(bitmap'[f]) \in Nat
             /\ Cardinality(bitmap[f]) <= Cardinality(bitmap'[f])
  <2>1. bitmap[f] \subseteq bitmap'[f] BY DEF CountsMove
  <2>2. bitmap[f] \subseteq Chunks(f) BY DEF TypeOK
  <2>3. bitmap'[f] \subseteq Chunks(f) BY DEF TypeOK, Chunks
  <2>4. IsFiniteSet(bitmap'[f]) BY <2>3, ChunksFinite, FS_Subset
  <2>5. Cardinality(bitmap[f]) <= Cardinality(bitmap'[f]) BY <2>1, <2>4, FS_Subset
  <2> QED BY <2>2, <2>3, <2>5, CountIsNat
<1>2. CountsNeverAhead'
  <2> SUFFICES ASSUME NEW f \in Files PROVE row'[f].chunks <= Cardinality(bitmap'[f])
    BY DEF CountsNeverAhead
  <2>1. row[f].chunks \in Nat /\ row[f].chunks <= Cardinality(bitmap[f])
    BY DEF CountsInv, CountsNeverAhead, TypeOK
  <2>2. CASE row'[f].chunks = row[f].chunks BY <1>1, <2>1, <2>2
  <2>3. ASSUME NEW r \in Requests, req[r].step \in Carries, req[r].file = f,
               row'[f].chunks = req[r].count
        PROVE  row'[f].chunks <= Cardinality(bitmap'[f])
    <3>1. req[r].count \in Nat /\ req[r].count <= Cardinality(bitmap[f])
      BY <2>3 DEF CountsInv, TypeOK, Request
    <3> QED BY <1>1, <2>3, <3>1
  <2> QED BY <2>2, <2>3 DEF CountsMove
<1>3. ASSUME NEW r \in Requests, req'[r].step \in Carries
      PROVE  req'[r].count <= Cardinality(bitmap'[req'[r].file])
  <2>1. req'[r].file \in Files /\ req'[r].count \in Nat BY DEF TypeOK, Request
  <2>2. CASE req'[r] = req[r]
    <3>1. req[r].count <= Cardinality(bitmap[req[r].file]) BY <1>3, <2>2 DEF CountsInv
    <3> QED BY <1>1, <2>1, <2>2, <3>1
  <2>3. CASE req'[r].count = Cardinality(bitmap'[req'[r].file]) BY <1>1, <2>1, <2>3
  <2>4. CASE req'[r].count = row[req'[r].file].chunks
    <3>1. row[req'[r].file].chunks <= Cardinality(bitmap[req'[r].file])
      BY <2>1 DEF CountsInv, CountsNeverAhead
    <3> QED BY <1>1, <2>1, <2>4, <3>1
  <2> QED BY <1>3, <2>2, <2>3, <2>4 DEF CountsMove
<1> QED BY <1>2, <1>3 DEF CountsInv

\* A chunk is answered from the last step of its PUT.
LEMMA StepAnswers ==
  ASSUME TypeOK, [Next]_vars
  PROVE  \A f \in Files :
           \/ acked'[f] \subseteq acked[f]
           \/ \E r \in Requests : /\ req[r].step = "put_started" /\ req[r].file = f
                                 /\ acked'[f] \subseteq acked[f] \union {req[r].chunk}
<1>1. UNCHANGED acked \/ \E r \in Requests : PutStarted(r)
  BY Zenon DEF Next, CreateRow, CreateParts, Put, PutRead, BeginPut, PutRearm, PutWrite, PutBit,
         PutRow, Complete, CompleteRead, BeginComplete, CompleteList, CompleteVerifying,
         CompleteHash, CompleteRename, CompleteMark, CompleteFails, CompleteListAgain,
         CompleteAllVerifying, CompleteAll, CompleteStraggler, Decide, Cancel, FailReport, GraceExpiry, Pause, Resume,
         Retry, Accept, Reject, BeginWrite, WriteStatus, Cleanup, Restart, Crash, Sweep,
         SweepCleanup, client, vars
<1>2. CASE UNCHANGED acked BY <1>2
<1>3. ASSUME NEW r \in Requests, PutStarted(r)
      PROVE  /\ req[r].step = "put_started"
             /\ \/ acked' = acked
                \/ acked' = [acked EXCEPT ![req[r].file] = @ \union {req[r].chunk}]
  BY <1>3 DEF PutStarted, At, ChunkAnswered
<1>4. ASSUME NEW r \in Requests, PutStarted(r), NEW f \in Files
      PROVE  \/ acked'[f] \subseteq acked[f]
             \/ /\ req[r].step = "put_started" /\ req[r].file = f
                /\ acked'[f] \subseteq acked[f] \union {req[r].chunk}
  BY <1>3, <1>4 DEF TypeOK
<1> QED BY <1>1, <1>2, <1>4

LEMMA AnswersKept ==
  ASSUME TypeOK, TypeOK', AnswersInv, CountsMove, [Next]_vars
  PROVE  AnswersInv'
<1>1. \A r \in Requests : req'[r].step \in Recorded => req'[r].chunk \in bitmap'[req'[r].file]
  <2> SUFFICES ASSUME NEW r \in Requests, req'[r].step \in Recorded
               PROVE  req'[r].chunk \in bitmap'[req'[r].file]
    OBVIOUS
  <2>1. req[r].file \in Files BY DEF TypeOK, Request
  <2> QED BY <2>1 DEF AnswersInv, CountsMove
<1>2. \A f \in Files : acked'[f] \subseteq bitmap'[f]
  <2> TAKE f \in Files
  <2>1. acked[f] \subseteq bitmap'[f] BY DEF AnswersInv, CountsMove
  <2>2. \A r \in Requests : req[r].step = "put_started" /\ req[r].file = f =>
          req[r].chunk \in bitmap'[f]
    BY DEF AnswersInv, CountsMove, Recorded
  <2> QED BY <2>1, <2>2, StepAnswers
<1> QED BY <1>1, <1>2 DEF AnswersInv

\* The steps that neither count nor write a count.
LEMMA CountsUntouched ==
  ASSUME TypeOK, NEW r \in Requests, UNCHANGED bitmap,
         \A f \in Files : row'[f].chunks = row[f].chunks,
         \A q \in Requests \ {r} : req'[q] = req[q],
         req'[r].step \notin Recorded \union Carries
  PROVE  CountsMove
<1> QED BY DEF CountsMove

LEMMA StepMovesCounts ==
  ASSUME IInv, [Next]_vars
  PROVE  CountsMove
<1> USE DEF IInv, Recorded, Carries
<1>1. CASE UNCHANGED <<row, bitmap>> /\ \A q \in Requests : req'[q] = req[q] \/ req'[q] = Idle
  BY <1>1, IdleIsRequest DEF CountsMove
<1>2. ASSUME NEW r \in Requests, UNCHANGED <<row, bitmap>>,
             NEW step \in Step \ (Recorded \union Carries), Goto(r, step)
      PROVE  CountsMove
  BY <1>2, GotoFacts, CountsUntouched
<1>3. ASSUME NEW r \in Requests, UNCHANGED <<row, bitmap>>, Finish(r) PROVE CountsMove
  BY <1>1, <1>3, FinishFacts
<1>4. ASSUME NEW r \in Requests, UNCHANGED <<row, bitmap>>,
             NEW x \in Request, x.step \notin Recorded \union Carries, req' = [req EXCEPT ![r] = x]
      PROVE  CountsMove
  BY <1>4, SetFacts, CountsUntouched
<1>5. ASSUME NEW r \in Requests, PutBit(r) PROVE CountsMove
  <2> DEFINE f    == req[r].file
             bits == bitmap[f] \union {req[r].chunk}
             x    == [req[r] EXCEPT !.step = "put_row", !.count = Cardinality(bits)]
  <2>1. CASE bitmap' = [bitmap EXCEPT ![f] = bits] /\ req' = [req EXCEPT ![r] = x]
    <3>1. req[r] \in Request /\ f \in Files BY DEF TypeOK, Request
    <3>2. \A g \in Files : bitmap'[g] = IF g = f THEN bits ELSE bitmap[g]
      BY <2>1 DEF TypeOK
    <3>3. /\ \A q \in Requests \ {r} : req'[q] = req[q]
          /\ req'[r] = x
      BY <2>1 DEF TypeOK
    <3>4. /\ x.file = f /\ x.count = Cardinality(bits) /\ x.chunk = req[r].chunk
      BY <3>1 DEF Request
    <3>5. req'[r].count = Cardinality(bitmap'[req'[r].file]) BY <3>1, <3>2, <3>3, <3>4
    <3>6. row' = row BY <1>5 DEF PutBit
    <3>7. \A g \in Files : bitmap[g] \subseteq bitmap'[g] BY <3>2
    <3>8. req'[r].chunk \in bitmap'[req'[r].file] BY <3>1, <3>2, <3>3, <3>4
    <3> QED BY <3>3, <3>5, <3>6, <3>7, <3>8 DEF CountsMove
  <2>2. CASE Finish(r) /\ UNCHANGED <<row, bitmap>> BY <1>3, <2>2
  <2>3. PutBit(r) => \/ /\ bitmap' = [bitmap EXCEPT ![f] = bits]
                        /\ req' = [req EXCEPT ![r] = x]
                     \/ Finish(r) /\ UNCHANGED <<row, bitmap>>
    <3>1. req' = [req EXCEPT ![r].step = "put_row", ![r].count = Cardinality(bits)]
          => req' = [req EXCEPT ![r] = x]
      BY DEF TypeOK
    <3> QED BY <3>1 DEF PutBit
  <2> QED BY <1>5, <2>1, <2>2, <2>3
<1>6. ASSUME NEW r \in Requests, PutRow(r) PROVE CountsMove
  <2>1. CASE /\ row' = [row EXCEPT ![req[r].file] =
                          [status |-> "transferring", chunks |-> req[r].count]]
             /\ Goto(r, "put_started")
    <3>1. /\ \A q \in Requests \ {r} : req'[q] = req[q]
          /\ req'[r].step = "put_started"
          /\ req'[r].file = req[r].file /\ req'[r].chunk = req[r].chunk
      BY <2>1, GotoFacts DEF Step
    <3>2. req[r].step = "put_row" /\ bitmap' = bitmap BY <1>6 DEF PutRow, At
    <3>3. \A f \in Files : row'[f].chunks = IF f = req[r].file THEN req[r].count
                                           ELSE row[f].chunks
      BY <2>1 DEF TypeOK
    <3> QED BY <3>1, <3>2, <3>3 DEF CountsMove
  <2>2. CASE Finish(r) /\ UNCHANGED row BY <1>3, <1>6, <2>2 DEF PutRow
  <2> QED BY <1>6, <2>1, <2>2 DEF PutRow
<1>7. ASSUME NEW r \in Requests, CompleteMark(r) PROVE CountsMove
  <2> DEFINE f == req[r].file
             x == [req[r] EXCEPT !.step = "mark_failed", !.count = row[f].chunks]
  <2>1. bitmap' = bitmap BY <1>7 DEF CompleteMark
  <2>2. \A g \in Files : row'[g].chunks = row[g].chunks BY <1>7 DEF CompleteMark, TypeOK
  <2>3. CASE Finish(r) \/ Goto(r, "list_again")
    <3>1. /\ \A q \in Requests \ {r} : req'[q] = req[q]
          /\ req'[r].step \notin Recorded \union Carries
      BY <2>3, FinishFacts, GotoFacts, IdleIsRequest DEF Step
    <3> QED BY <2>1, <2>2, <3>1, CountsUntouched
  <2>4. CASE req' = [req EXCEPT ![r] = x]
    <3>1. req[r] \in Request BY DEF TypeOK
    <3>2. /\ \A q \in Requests \ {r} : req'[q] = req[q]
          /\ req'[r] = x
      BY <2>4 DEF TypeOK
    <3>3. x.step = "mark_failed" /\ x.file = f /\ x.count = row[f].chunks
      BY <3>1 DEF Request
    <3> QED BY <2>1, <2>2, <3>2, <3>3 DEF CountsMove
  <2>5. \/ Finish(r) \/ Goto(r, "list_again")
        \/ req' = [req EXCEPT ![r].step = "mark_failed", ![r].count = row[f].chunks]
    BY <1>7 DEF CompleteMark
  <2>6. req' = [req EXCEPT ![r].step = "mark_failed", ![r].count = row[f].chunks]
        => req' = [req EXCEPT ![r] = x]
    BY DEF TypeOK
  <2> QED BY <2>3, <2>4, <2>5, <2>6
<1>7a. ASSUME NEW r \in Requests, CompleteFails(r) PROVE CountsMove
  <2>1. CASE row' = [row EXCEPT ![req[r].file] =
                       [status |-> "failed", chunks |-> req[r].count]]
    <3>1. /\ \A q \in Requests \ {r} : req'[q] = req[q]
          /\ req'[r].step = "idle"
      BY <1>7a, FinishFacts, IdleIsRequest DEF CompleteFails
    <3>2. req[r].step = "mark_failed" /\ bitmap' = bitmap BY <1>7a DEF CompleteFails, At
    <3>3. \A f \in Files : row'[f].chunks = IF f = req[r].file THEN req[r].count
                                           ELSE row[f].chunks
      BY <2>1 DEF TypeOK
    <3> QED BY <3>1, <3>2, <3>3 DEF CountsMove
  <2>2. CASE UNCHANGED row BY <1>3, <1>7a, <2>2 DEF CompleteFails
  <2> QED BY <1>7a, <2>1, <2>2 DEF CompleteFails
<1>8. ASSUME NEW r \in Requests, Put(r) PROVE CountsMove
  <2>1. CASE PutRead(r)
    <3>1. PICK f \in Files, c \in Nat : BeginPut(r, f, c)
      BY <2>1, ChunksAssumption DEF PutRead
    <3> DEFINE x == [Idle EXCEPT !.step = IF status = "retrying" THEN "put_rearm"
                                         ELSE "put_write", !.file = f, !.chunk = c]
    <3>2. x \in Request /\ x.step \notin Recorded \union Carries
      BY IdleIsRequest DEF Request, Step
    <3>3. req' = [req EXCEPT ![r] = x] /\ UNCHANGED <<row, bitmap>>
      BY <3>1 DEF BeginPut, Begin, rows
    <3> QED BY <1>4, <3>2, <3>3
  <2>2. CASE PutRearm(r) \/ PutWrite(r) \/ PutStarted(r)
    <3>1. UNCHANGED <<row, bitmap>>
      BY <2>2 DEF PutRearm, PutWrite, PutStarted, rows
    <3>2. Goto(r, "put_write") \/ Goto(r, "put_bit") \/ Finish(r)
      BY <2>2 DEF PutRearm, PutWrite, PutStarted
    <3> QED BY <1>2, <1>3, <3>1, <3>2 DEF Step
  <2> QED BY <1>5, <1>6, <1>8, <2>1, <2>2 DEF Put
<1>9. ASSUME NEW r \in Requests, Complete(r) PROVE CountsMove
  <2>1. CASE CompleteRead(r)
    <3>1. PICK f \in Files, sha \in BOOLEAN : BeginComplete(r, f, sha)
      BY <2>1 DEF CompleteRead
    <3> DEFINE x == [Idle EXCEPT !.step = "list", !.file = f, !.sha = sha]
    <3>2. x \in Request /\ x.step \notin Recorded \union Carries BY IdleIsRequest DEF Request, Step
    <3>3. req' = [req EXCEPT ![r] = x] /\ UNCHANGED <<row, bitmap>>
      BY <3>1 DEF BeginComplete, Begin, rows
    <3> QED BY <1>4, <3>2, <3>3
  <2>2. CASE CompleteHash(r)
    <3> DEFINE x == [req[r] EXCEPT !.step = "write", !.to = "failed"]
    <3>1. UNCHANGED <<row, bitmap>> BY <2>2 DEF CompleteHash, rows
    <3>2. req[r] \in Request BY DEF TypeOK
    <3>3. x \in Request /\ x.step \notin Recorded \union Carries BY <3>2 DEF Request, Step, Status
    <3>4. \/ Finish(r) \/ Goto(r, "rename")
          \/ req' = [req EXCEPT ![r].step = "write", ![r].to = "failed"]
      BY <2>2 DEF CompleteHash
    <3>5. req' = [req EXCEPT ![r].step = "write", ![r].to = "failed"]
          => req' = [req EXCEPT ![r] = x]
      BY DEF TypeOK
    <3> QED BY <1>2, <1>3, <1>4, <3>1, <3>3, <3>4, <3>5 DEF Step
  <2>3. CASE \/ CompleteList(r) \/ CompleteVerifying(r) \/ CompleteRename(r)
             \/ CompleteListAgain(r) \/ CompleteAllVerifying(r) \/ CompleteAll(r)
             \/ CompleteStraggler(r)
    <3>1. UNCHANGED <<row, bitmap>>
      BY <2>3 DEF CompleteList, CompleteVerifying, CompleteRename, CompleteListAgain,
                  CompleteAllVerifying, CompleteAll, CompleteStraggler, rows
    <3>2. Finish(r) \/ \E step \in {"verifying", "hash", "mark", "all_verifying",
                                    "straggler", "all_completed"} : Goto(r, step)
      BY <2>3 DEF CompleteList, CompleteVerifying, CompleteRename, CompleteListAgain,
                  CompleteAllVerifying, CompleteAll, CompleteStraggler
    <3> QED BY <1>2, <1>3, <3>1, <3>2 DEF Step
  <2> QED BY <1>7, <1>7a, <1>9, <2>1, <2>2, <2>3 DEF Complete
<1>10. ASSUME NEW r \in Requests, CreateRow(r) \/ CreateParts(r) PROVE CountsMove
  <2>1. UNCHANGED <<row, bitmap>>
    <3>1. CreateRow(r) => UNCHANGED <<row, bitmap>> BY Zenon DEF CreateRow
    <3>2. CreateParts(r) => UNCHANGED rows BY Zenon DEF CreateParts
    <3> QED BY <1>10, <3>1, <3>2 DEF rows
  <2>2. CASE CreateRow(r)
    <3>1. PICK to \in {"created", "waiting_accept"} :
            req' = [req EXCEPT ![r] = [Idle EXCEPT !.step = "create_parts", !.to = to]]
      BY <2>2 DEF CreateRow
    <3>2. /\ [Idle EXCEPT !.step = "create_parts", !.to = to] \in Request
          /\ [Idle EXCEPT !.step = "create_parts", !.to = to].step \notin Recorded \union Carries
      BY IdleIsRequest DEF Request, Step, Status
    <3> QED BY <1>4, <2>1, <3>1, <3>2
  <2>3. CASE CreateParts(r)
    <3>1. Finish(r) \/ Goto(r, "write") BY <2>3, Zenon DEF CreateParts
    <3> QED BY <1>2, <1>3, <2>1, <3>1 DEF Step
  <2> QED BY <1>10, <2>2, <2>3
<1>11. ASSUME NEW r \in Requests, Decide(r) PROVE CountsMove
  <2>1. UNCHANGED <<row, bitmap>>
    BY <1>11 DEF Decide, Cancel, FailReport, GraceExpiry, Pause, Resume, Retry, Accept,
                 Reject, BeginWrite, WriteStatus, Cleanup, rows
  <2>2. ASSUME NEW name, NEW to \in Status, BeginWrite(r, name, to) PROVE CountsMove
    <3>1. /\ [Idle EXCEPT !.step = "write", !.to = to] \in Request
          /\ [Idle EXCEPT !.step = "write", !.to = to].step \notin Recorded \union Carries
      BY IdleIsRequest DEF Request, Step
    <3>2. req' = [req EXCEPT ![r] = [Idle EXCEPT !.step = "write", !.to = to]]
      BY <2>2 DEF BeginWrite, Begin
    <3> QED BY <1>4, <2>1, <3>1, <3>2
  <2>3. CASE WriteStatus(r) \/ Cleanup(r)
    <3>1. Finish(r) \/ Goto(r, "cleanup") BY <2>3 DEF WriteStatus, Cleanup
    <3> QED BY <1>2, <1>3, <2>1, <3>1 DEF Step
  <2> QED BY <1>11, <2>2, <2>3
          DEF Decide, Cancel, FailReport, GraceExpiry, Pause, Resume, Retry, Accept, Reject,
              Status
<1>12. CASE Restart
  <2>1. UNCHANGED <<row, bitmap>> BY <1>12 DEF Restart, Crash, Sweep, SweepCleanup, rows
  <2>2. \A q \in Requests : req'[q] = req[q] \/ req'[q] = Idle
    BY <1>12 DEF Restart, Crash, Sweep, SweepCleanup
  <2> QED BY <1>1, <2>1, <2>2
<1>13. CASE UNCHANGED vars BY <1>1, <1>13 DEF vars
<1> QED BY <1>8, <1>9, <1>10, <1>11, <1>12, <1>13 DEF Next

-----------------------------------------------------------------------------
(* Theorems. *)

\* Every reachable state has the shape TypeOK describes: no bit of a bitmap and no
\* staged byte lies past the last chunk of its file.
THEOREM TypeCorrect == Spec => []TypeOK
<1>1. IInv => TypeOK BY DEF IInv
<1> QED BY <1>1, Invariance, PTL

\* No interleaving of chunk writes, completions and cleanups renames a partial
\* file into the download directory.
THEOREM SavedFilesAreWhole == Spec => []SavedIsWhole
<1>1. IInv => SavedIsWhole BY DEF IInv, FilesInv
<1> QED BY <1>1, Invariance, PTL

\* The bitmap in the database never runs ahead of the staged file.
THEOREM BitmapIsBehindDisk == Spec => []RecordedChunksStored
<1>1. IInv => RecordedChunksStored BY DEF IInv, FilesInv
<1> QED BY <1>1, Invariance, PTL

\* A transfer reads "completed" only with every file delivered, although status,
\* file rows and files are written by separate statements of many handlers.
THEOREM CompletedIsDelivered == Spec => []CompletedMeansDelivered
<1>1. IInv => CompletedMeansDelivered BY DEF IInv, StatusInv
<1> QED BY <1>1, Invariance, PTL

\* A transfer reads "completed" only if each file matches the hash declared for it
\* at creation.
THEOREM CompletedIsVerified == Spec => []CompletedMeansVerified
<1>1. IInv => CompletedMeansVerified BY DEF IInv, StatusInv
<1> QED BY <1>1, Invariance, PTL

\* After a crash and the start-up sweep the transfer is settled.
THEOREM NoZombieAfterRestart == Spec => []RestartLeavesNoZombie
<1>1. IInv => RestartLeavesNoZombie BY DEF IInv, StatusInv, RestartLeavesNoZombie
<1> QED BY <1>1, Invariance, PTL

\* The count the interface shows is never ahead of the bitmap, though it is taken
\* under the chunk lock and written after it (MarkChunkComplete).
THEOREM CountsStayBehind == Spec => []CountsNeverAhead
<1>1. Init => CountsInv
  <2> SUFFICES ASSUME Init PROVE CountsInv OBVIOUS
  <2>1. \A f \in Files : row[f].chunks = 0 /\ bitmap[f] = {} BY DEF Init
  <2>2. \A r \in Requests : req[r].step = "idle" BY IdleIsRequest DEF Init
  <2>3. Cardinality({}) = 0 BY FS_EmptySet
  <2>4. CountsNeverAhead BY <2>1, <2>3 DEF CountsNeverAhead
  <2> QED BY <2>2, <2>4 DEF CountsInv, Carries
<1>2. IInv /\ IInv' /\ CountsInv /\ [Next]_vars => CountsInv'
  BY StepMovesCounts, CountsKept DEF IInv
<1>3. Spec => []CountsInv BY <1>1, <1>2, Invariance, PTL DEF Spec
<1>4. CountsInv => CountsNeverAhead BY DEF CountsInv
<1> QED BY <1>3, <1>4, PTL

\* A chunk answered with 200 is in the bitmap, and in the file as long as the file is
\* there, staged or saved.
AnsweredIsStored ==
  \A f \in Files : /\ acked[f] \subseteq bitmap[f]
                   /\ stage[f] \in {"part", "saved"} => acked[f] \subseteq written[f]

\* Whatever fails, stops or interleaves after the answer, a client that comes back to
\* an interrupted upload need not send an answered chunk again (handlePutChunk answers
\* after WriteChunk and MarkChunkComplete).
THEOREM AnsweredChunksStay == Spec => []AnsweredIsStored
<1>1. Init => AnswersInv
  <2> SUFFICES ASSUME Init PROVE AnswersInv OBVIOUS
  <2>1. \A r \in Requests : req[r].step = "idle" BY IdleIsRequest DEF Init
  <2> QED BY <2>1 DEF Init, AnswersInv, Recorded
<1>2. IInv /\ IInv' /\ AnswersInv /\ [Next]_vars => AnswersInv'
  BY StepMovesCounts, AnswersKept DEF IInv
<1>3. Spec => []AnswersInv BY <1>1, <1>2, Invariance, PTL DEF Spec
<1>4. IInv /\ AnswersInv => AnsweredIsStored
  BY DEF IInv, TypeOK, FilesInv, SavedIsWhole, RecordedChunksStored, AnswersInv,
         AnsweredIsStored
<1> QED BY <1>3, <1>4, Invariance, PTL

\* No step takes a saved file away or revives a dropped one.
THEOREM StagedFilesStayFinal == Spec => StagedFilesAreFinal
<1>1. IInv /\ [Next]_vars =>
        [\A f \in Files : stage[f] \in {"saved", "gone"} => stage'[f] = stage[f]]_vars
  BY StepMovesFiles DEF FilesMove
<1> QED BY <1>1, Invariance, PTL DEF Spec, StagedFilesAreFinal

LEMMA DeliveryInit == Init => Delivery!Init
<1> QED BY DEF Init, Delivery!Init, Status

LEMMA DeliveryStep == IInv /\ IInv' /\ [Next]_vars => [Delivery!Next]_(Delivery!vars)
<1> SUFFICES ASSUME IInv, IInv', [Next]_vars PROVE [Delivery!Next]_(Delivery!vars) OBVIOUS
<1> DEFINE done == {f \in Files : stage[f] = "saved" /\ written[f] = Chunks(f)}
           said == status = "completed"
<1>1. \A f \in Files : f \in done <=> stage[f] = "saved" BY DEF IInv, FilesInv, SavedIsWhole
<1>2. \A f \in Files : f \in done' <=> stage'[f] = "saved" BY DEF IInv, FilesInv, SavedIsWhole
<1>3. FilesMove BY StepMovesFiles
<1>4. CASE \A f \in Files : stage'[f] = "saved" <=> stage[f] = "saved"
  <2>1. done' = done BY <1>1, <1>2, <1>4
  <2>2. said' => done = Files
    BY <1>2, <2>1 DEF IInv, StatusInv, CompletedMeansDelivered
  <2>3. CASE said' <=> said BY <2>1, <2>3 DEF Delivery!vars
  <2>4. CASE said' /\ ~said BY <2>1, <2>2, <2>4 DEF Delivery!Next, Delivery!Report
  <2>5. CASE ~said' /\ said BY <2>1, <2>5 DEF Delivery!Next, Delivery!Withdraw
  <2> QED BY <2>3, <2>4, <2>5
<1>5. ASSUME NEW g \in Files, status' = status, stage[g] = "part", stage'[g] = "saved",
             \A f \in Files \ {g} : stage'[f] = stage[f]
      PROVE  [Delivery!Next]_(Delivery!vars)
  <2>1. g \notin done /\ done' = done \union {g} BY <1>1, <1>2, <1>5
  <2>2. said' = said BY <1>5
  <2>3. Delivery!Deliver(g) BY <2>1, <2>2 DEF Delivery!Deliver
  <2> QED BY <2>3 DEF Delivery!Next
<1> QED BY <1>3, <1>4, <1>5 DEF FilesMove

\* The server with its rows, bitmaps, staging files and interleaved handlers
\* implements FileDelivery: each file is delivered once, whole and for good, and
\* the batch is reported complete only after all of them.
THEOREM ImplementsDelivery == Spec => DeliversBatch
<1>1. Spec => Delivery!Init BY DeliveryInit DEF Spec
<1>2. Spec => [][Delivery!Next]_(Delivery!vars)
  BY DeliveryStep, Invariance, PTL DEF Spec
<1> QED BY <1>1, <1>2 DEF DeliversBatch, Delivery!Spec

=============================================================================
