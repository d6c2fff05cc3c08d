------------------------ MODULE InboundSettlesProofs ------------------------
(***************************************************************************)
(* Theorems about InboundTransfer for a client that keeps its side: it     *)
(* sends every chunk until it is answered, asks for every completion once, *)
(* waits for its answers and decides nothing else.  However its concurrent *)
(* requests interleave, no completion is lost between the two listings of  *)
(* Manager.CompleteFile: once nothing is in progress, a transfer whose     *)
(* files are saved reads "completed", and so does one of which the client  *)
(* has nothing left to ask for.                                            *)
(***************************************************************************)
EXTENDS InboundTransferProofs

\* The options of such a client, on a server whose database and files answer.
PatientClient ==
  /\ Handlers \subseteq {"put", "complete"}
  /\ ~FreeClient /\ ~Timeouts /\ ~Faults
  /\ MayMismatch \cap Hashed = {}

\* The steps of a chunk upload; of a completion until the row of its file is
\* written, and after that.
Sends(r)   == req[r].step \in {"put_rearm", "put_write", "put_bit", "put_row", "put_started"}
Saves(r)   == req[r].step \in {"list", "verifying", "hash", "rename", "mark", "write", "cleanup"}
Reports(r) == req[r].step \in {"list_again", "all_verifying", "all_completed", "straggler"}
Completes(r) == Saves(r) \/ Reports(r)

\* A chunk is sent by one request at a time, and only until it is answered.
SendingInv ==
  /\ \A r \in Requests :
       Sends(r) => req[r].chunk \in Chunks(req[r].file) \ acked[req[r].file]
  /\ \A q, r \in Requests :
       Sends(q) /\ Sends(r) /\ req[q].file = req[r].file /\ req[q].chunk = req[r].chunk
         => q = r

\* A file is completed by one request, after its chunks have been answered.
CompletingInv ==
  /\ \A r \in Requests : Completes(r) => req[r].file \in asked
  /\ \A q, r \in Requests : Completes(q) /\ Completes(r) /\ req[q].file = req[r].file => q = r
  /\ \A f \in asked : acked[f] = Chunks(f)

\* That request saves the file and writes its row, and nobody takes it back.
RowsInv ==
  /\ \A f \in Files : row[f].status = "completed" => f \in asked
  /\ \A r \in Requests : Saves(r) => row[req[r].file].status # "completed"
  /\ \A f \in Files : stage[f] = "saved" =>
       \/ row[f].status = "completed"
       \/ \E r \in Requests : req[r].step = "mark" /\ req[r].file = f

\* When all rows say so, some request is to find that out, or one has.
Found(r) == req[r].step \in {"list_again", "all_verifying", "all_completed"}
SettlingInv == AllCompleted => status = "completed" \/ \E r \in Requests : Found(r)

\* Nothing but uploads and completions happens.
CalmInv ==
  /\ phase = "up"
  /\ Hashed \subseteq matches
  /\ \A r \in Requests : req[r].step = "create_parts" => req[r].to = "created"

SInv == SendingInv /\ CompletingInv /\ RowsInv /\ SettlingInv /\ CalmInv

-----------------------------------------------------------------------------
(* A request that goes on, and the others that do not move. *)

Alone(r) == \A q \in Requests \ {r} : req'[q] = req[q]

\* r ends or goes on with its file and chunk, from uploading to uploading and
\* from completing to completing.
Continues(r) ==
  /\ Alone(r)
  /\ \/ req'[r] = Idle
     \/ /\ req'[r].file = req[r].file /\ req'[r].chunk = req[r].chunk
        /\ Sends(r)' => Sends(r)
        /\ Completes(r)' => Completes(r)
        /\ Saves(r)' => Saves(r)
        /\ req'[r].step # "create_parts"

LEMMA EndsOrGoesOn ==
  ASSUME IInv, NEW r \in Requests,
         \/ Finish(r)
         \/ \E step \in Step : /\ Goto(r, step)
                               /\ Sends(r)' => Sends(r)
                               /\ Completes(r)' => Completes(r)
                               /\ Saves(r)' => Saves(r)
                               /\ step # "create_parts"
  PROVE  Continues(r)
<1>1. CASE Finish(r) BY <1>1, FinishFacts DEF IInv, Continues, Alone
<1>2. ASSUME NEW step \in Step, Goto(r, step),
             Sends(r)' => Sends(r), Completes(r)' => Completes(r), Saves(r)' => Saves(r),
             step # "create_parts"
      PROVE  Continues(r)
  BY <1>2, GotoFacts DEF IInv, Continues, Alone
<1> QED BY <1>1, <1>2

LEMMA IdleDoesNothing ==
  ASSUME NEW r \in Requests, req'[r] = Idle
  PROVE  ~Sends(r)' /\ ~Completes(r)' /\ ~Saves(r)' /\ req'[r].step # "create_parts"
BY IdleIsRequest DEF Sends, Completes, Saves, Reports

LEMMA KeepsSending ==
  ASSUME SInv, NEW r \in Requests, Continues(r), UNCHANGED <<acked, asked>>
  PROVE  SendingInv' /\ CompletingInv'
<1>1. \A q \in Requests : Sends(q)' =>
        Sends(q) /\ req'[q].file = req[q].file /\ req'[q].chunk = req[q].chunk
  BY IdleDoesNothing DEF Continues, Alone, Sends
<1>2. \A q \in Requests : Completes(q)' => Completes(q) /\ req'[q].file = req[q].file
  BY IdleDoesNothing DEF Continues, Alone, Completes, Saves, Reports
<1>3. SendingInv' BY <1>1 DEF SInv, SendingInv, Chunks
<1>4. CompletingInv' BY <1>2 DEF SInv, CompletingInv, Chunks
<1> QED BY <1>3, <1>4

LEMMA KeepsCalm ==
  ASSUME SInv, NEW r \in Requests, Continues(r), UNCHANGED <<phase, matches>>
  PROVE  CalmInv'
BY IdleDoesNothing DEF SInv, CalmInv, Continues, Alone

\* A step that moves no file and writes no row.
LEMMA KeepsRows ==
  ASSUME SInv, NEW r \in Requests, Continues(r), req[r].step # "mark",
         UNCHANGED <<row, stage, asked>>
  PROVE  RowsInv'
<1>1. \A q \in Requests : Saves(q)' => Saves(q) /\ req'[q].file = req[q].file
  BY IdleDoesNothing DEF Continues, Alone, Saves
<1>2. \A q \in Requests : req[q].step = "mark" => req'[q] = req[q]
  BY DEF Continues, Alone
<1> QED BY <1>1, <1>2 DEF SInv, RowsInv

\* All rows cannot be completed while a chunk is on its way or a file is to be
\* marked.
LEMMA NotAllCompleted ==
  ASSUME IInv, SInv, NEW r \in Requests, Sends(r) \/ Saves(r)
  PROVE  ~AllCompleted
<1>1. req[r].file \in Files BY DEF IInv, TypeOK, Request
<1>2. CASE Sends(r)
  <2>1. req[r].file \notin asked BY <1>1, <1>2 DEF SInv, SendingInv, CompletingInv
  <2> QED BY <1>1, <2>1 DEF SInv, RowsInv, AllCompleted
<1>3. CASE Saves(r) BY <1>1, <1>3 DEF SInv, RowsInv, AllCompleted
<1> QED BY <1>2, <1>3

\* Such a request moves on.
LEMMA EarlyStep ==
  ASSUME IInv, SInv, NEW r \in Requests, Continues(r), Sends(r) \/ Saves(r),
         req[r].step # "mark",
         UNCHANGED <<row, stage, acked, asked, phase, matches>>
  PROVE  SInv'
<1>1. ~AllCompleted' BY NotAllCompleted DEF AllCompleted
<1>2. SettlingInv' BY <1>1 DEF SettlingInv
<1> QED BY <1>2, KeepsSending, KeepsRows, KeepsCalm DEF SInv

\* A request that has written the row of its file moves on.
LEMMA LateStep ==
  ASSUME IInv, SInv, NEW r \in Requests, Continues(r), Reports(r),
         UNCHANGED <<row, stage, acked, asked, phase, matches>>,
         \/ Found(r)'
         \/ status' = "completed"
         \/ ~Found(r) /\ (status = "completed" => status' = "completed")
         \/ ~AllCompleted
  PROVE  SInv'
<1>1. req[r].step # "mark" BY DEF Reports
<1>2. SettlingInv'
  <2>1. AllCompleted' <=> AllCompleted BY DEF AllCompleted
  <2>2. \A q \in Requests \ {r} : Found(q) => Found(q)' BY DEF Continues, Alone, Found
  <2> QED BY <2>1, <2>2 DEF SInv, SettlingInv
<1> QED BY <1>1, <1>2, KeepsSending, KeepsRows, KeepsCalm DEF SInv

-----------------------------------------------------------------------------
(* Each action. *)

LEMMA SettlesInit == PatientClient /\ Init => SInv
<1> SUFFICES ASSUME PatientClient, Init PROVE SInv OBVIOUS
<1>1. \A r \in Requests : req[r].step = "idle" BY IdleIsRequest DEF Init
<1>2. \A f \in Files : row[f].status = "created" /\ stage[f] = "none" BY DEF Init
<1>3. asked = {} /\ phase = "up" BY DEF Init
<1>4. Hashed \subseteq matches BY OptionsAssumption DEF Init, PatientClient
<1>5. ~AllCompleted BY <1>2, FilesAssumption DEF AllCompleted
<1> QED BY <1>1, <1>2, <1>3, <1>4, <1>5
        DEF SInv, SendingInv, CompletingInv, RowsInv, SettlingInv, CalmInv, Sends, Completes,
            Saves, Reports

LEMMA SettlesCreateRow ==
  ASSUME PatientClient, IInv, SInv, NEW r \in Requests, CreateRow(r)
  PROVE  SInv'
<1> DEFINE x == [Idle EXCEPT !.step = "create_parts", !.to = "created"]
<1>1. req' = [req EXCEPT ![r] = x] BY DEF CreateRow, PatientClient
<1>2. x \in Request /\ x.step = "create_parts" /\ x.to = "created"
  BY IdleIsRequest DEF Request, Step, Status
<1> HIDE DEF x
<1>3. req'[r] = x /\ Alone(r)
  BY <1>1, <1>2, SetFacts DEF IInv, Alone
<1>4. /\ status = "absent"
      /\ UNCHANGED <<row, stage, phase, matches, acked, asked>>
  BY DEF CreateRow, disk, client
<1>5. \A q \in Requests : req[q].step = "idle" BY <1>4 DEF IInv, CreationInv
<1>6. \A q \in Requests : ~Sends(q)' /\ ~Completes(q)' /\ ~Saves(q)'
                          /\ (req'[q].step = "create_parts" => req'[q].to = "created")
  BY <1>2, <1>3, <1>5 DEF Alone, Sends, Completes, Saves, Reports
<1>7. ~AllCompleted' BY <1>4, <1>5 DEF SInv, SettlingInv, Found, AllCompleted
<1> QED BY <1>4, <1>5, <1>6, <1>7
        DEF SInv, SendingInv, CompletingInv, RowsInv, SettlingInv, CalmInv, Chunks

LEMMA SettlesCreateParts ==
  ASSUME PatientClient, IInv, SInv, NEW r \in Requests, CreateParts(r)
  PROVE  SInv'
<1>1. req[r].step = "create_parts" /\ req[r].to = "created"
  BY DEF CreateParts, At, SInv, CalmInv
<1>2. Finish(r) BY <1>1 DEF CreateParts
<1>3. Continues(r) BY <1>2, EndsOrGoesOn
<1>4. UNCHANGED <<status, row, phase, matches, acked, asked>>
  BY DEF CreateParts, rows, client
<1>5. PICK made : stage' = [f \in Files |-> IF f \in made THEN "part" ELSE stage[f]]
  BY Zenon DEF CreateParts
<1>6. \A f \in Files : stage'[f] # "saved"
  BY <1>1, <1>5 DEF IInv, CreationInv, Fresh
<1>7. RowsInv'
  <2>1. \A q \in Requests : Saves(q)' => Saves(q) /\ req'[q].file = req[q].file
    BY <1>3, IdleDoesNothing DEF Continues, Alone, Saves
  <2> QED BY <1>4, <1>6, <2>1 DEF SInv, RowsInv
<1>8. SettlingInv'
  <2>1. \A q \in Requests : Found(q) => Found(q)' BY <1>1, <1>3 DEF Continues, Alone, Found
  <2> QED BY <1>4, <2>1 DEF SInv, SettlingInv, AllCompleted
<1> QED BY <1>3, <1>4, <1>7, <1>8, KeepsSending, KeepsCalm DEF SInv

\* A chunk is sent: no other request sends it, and its file is not being completed.
LEMMA SettlesPutRead ==
  ASSUME PatientClient, IInv, SInv, NEW r \in Requests, PutRead(r)
  PROVE  SInv'
<1>1. PICK f \in Files : \E c \in 0 .. NumChunks[f] : MaySendChunk(f, c) /\ BeginPut(r, f, c)
  BY DEF PutRead
<1>2. PICK c \in 0 .. NumChunks[f] : MaySendChunk(f, c) /\ BeginPut(r, f, c) BY <1>1
<1>3. /\ c \in Chunks(f) \ acked[f]
      /\ ~\E q \in Requests : /\ req[q].step # "idle"
                              /\ req[q].file = f /\ req[q].chunk = c
  BY <1>2 DEF MaySendChunk, PatientClient
<1> DEFINE step == IF status = "retrying" THEN "put_rearm" ELSE "put_write"
           x == [Idle EXCEPT !.step = step, !.file = f, !.chunk = c]
<1>4. /\ x \in Request /\ x.file = f /\ x.chunk = c
      /\ x.step \in {"put_rearm", "put_write"}
  <2>1. c \in Nat BY ChunksAssumption
  <2> QED BY <2>1, IdleIsRequest DEF Request, Step
<1>5. req[r].step = "idle" /\ req' = [req EXCEPT ![r] = x]
      /\ UNCHANGED <<status, row, stage, phase, matches, acked, asked>>
  BY <1>2 DEF BeginPut, Begin, At, rows, disk, client
<1> HIDE DEF x
<1>6. req'[r] = x /\ Alone(r) BY <1>4, <1>5, SetFacts DEF IInv, Alone
<1>7. SendingInv'
  <2>1. \A q \in Requests : Sends(q)' => IF q = r THEN TRUE ELSE Sends(q) /\ req'[q] = req[q]
    BY <1>6 DEF Alone, Sends
  <2>2. \A q \in Requests \ {r} : Sends(q)' => ~(req'[q].file = f /\ req'[q].chunk = c)
    BY <1>3, <1>6 DEF Alone, Sends
  <2> QED BY <1>3, <1>4, <1>5, <1>6, <2>1, <2>2 DEF SInv, SendingInv, Chunks
<1>8. \A q \in Requests : /\ Completes(q)' => Completes(q) /\ req'[q] = req[q]
                          /\ Saves(q)' => Saves(q) /\ req'[q] = req[q]
                          /\ req'[q].step = "create_parts" => req'[q] = req[q]
  BY <1>4, <1>6 DEF Alone, Completes, Saves, Reports
<1>9. \A q \in Requests : /\ req[q].step = "mark" => req'[q] = req[q]
                          /\ Found(q) => Found(q)'
  BY <1>5, <1>6 DEF Alone, Found
<1>10. CompletingInv' BY <1>5, <1>8 DEF SInv, CompletingInv, Chunks
<1>11. RowsInv' BY <1>5, <1>8, <1>9 DEF SInv, RowsInv
<1>12. SettlingInv' BY <1>5, <1>9 DEF SInv, SettlingInv, AllCompleted
<1>13. CalmInv' BY <1>5, <1>8 DEF SInv, CalmInv
<1> QED BY <1>7, <1>10, <1>11, <1>12, <1>13 DEF SInv

\* The steps of a PUT that write neither the row of the file nor its answer.
LEMMA SettlesPutMiddle ==
  ASSUME PatientClient, IInv, SInv, NEW r \in Requests,
         PutRearm(r) \/ PutWrite(r) \/ PutBit(r)
  PROVE  SInv'
<1>1. Sends(r) /\ req[r].step # "mark"
  BY DEF PutRearm, PutWrite, PutBit, At, Sends
<1>2. UNCHANGED <<row, stage, acked, asked, phase, matches>>
  BY DEF PutRearm, PutWrite, PutBit, rows, disk, client
<1>3. Continues(r)
  <2>1. CASE Finish(r) BY <2>1, EndsOrGoesOn
  <2>2. ASSUME NEW step \in {"put_write", "put_bit"}, Goto(r, step) PROVE Continues(r)
    <3>1. step \in Step BY DEF Step
    <3>2. req'[r].step = step BY <2>2, <3>1, GotoFacts DEF IInv
    <3> QED BY <1>1, <2>2, <3>1, <3>2, EndsOrGoesOn DEF Completes, Saves, Reports
  <2>3. CASE PutBit(r)
    <3> DEFINE n == Cardinality(bitmap[req[r].file] \union {req[r].chunk})
    <3>1. req' = [req EXCEPT ![r].step = "put_row", ![r].count = n]
      BY <2>3 DEF PutBit, PatientClient
    <3> HIDE DEF n
    <3>2. /\ req'[r].file = req[r].file /\ req'[r].chunk = req[r].chunk
          /\ req'[r].step = "put_row" /\ Alone(r)
      BY <3>1 DEF IInv, TypeOK, Request, Alone
    <3> QED BY <1>1, <3>2 DEF Continues, Completes, Saves, Reports
  <2> QED BY <2>1, <2>2, <2>3 DEF PutRearm, PutWrite
<1> QED BY <1>1, <1>2, <1>3, EarlyStep

\* A PUT writes the row of a file that nobody completes.
LEMMA SettlesPutRow ==
  ASSUME PatientClient, IInv, SInv, NEW r \in Requests, PutRow(r)
  PROVE  SInv'
<1> DEFINE f == req[r].file
<1>1. Sends(r) /\ req[r].step = "put_row" /\ f \in Files
  BY DEF PutRow, At, Sends, IInv, TypeOK, Request
<1>2. /\ Goto(r, "put_started")
      /\ row' = [row EXCEPT ![f] = [status |-> "transferring", chunks |-> req[r].count]]
      /\ UNCHANGED <<status, stage, acked, asked, phase, matches>>
  BY DEF PutRow, PatientClient, disk, client
<1>3. Continues(r)
  <2>1. "put_started" \in Step BY DEF Step
  <2>2. req'[r].step = "put_started" BY <1>2, <2>1, GotoFacts DEF IInv
  <2> QED BY <1>1, <1>2, <2>1, <2>2, EndsOrGoesOn DEF Completes, Saves, Reports
<1>4. f \notin asked BY <1>1 DEF SInv, SendingInv, CompletingInv
<1>5. /\ row'[f].status = "transferring"
      /\ \A g \in Files \ {f} : row'[g] = row[g]
  BY <1>1, <1>2 DEF IInv, TypeOK
<1>6. stage[f] # "saved"
  <2>1. ~\E q \in Requests : req[q].step = "mark" /\ req[q].file = f
    BY <1>4 DEF SInv, CompletingInv, Completes, Saves
  <2> QED BY <1>1, <1>4, <2>1 DEF SInv, RowsInv
<1>7. RowsInv'
  <2>1. \A q \in Requests : Saves(q)' => Saves(q) /\ req'[q].file = req[q].file
    BY <1>3, IdleDoesNothing DEF Continues, Alone, Saves
  <2>2. \A q \in Requests : req[q].step = "mark" => req'[q] = req[q]
    BY <1>1, <1>3 DEF Continues, Alone
  <2>3. \A q \in Requests : req[q].file \in Files BY DEF IInv, TypeOK, Request
  <2> QED BY <1>2, <1>5, <1>6, <2>1, <2>2, <2>3 DEF SInv, RowsInv
<1>8. SettlingInv' BY <1>1, <1>5 DEF SettlingInv, AllCompleted
<1> QED BY <1>2, <1>3, <1>7, <1>8, KeepsSending, KeepsCalm DEF SInv

\* A PUT is answered; the file still lacks this answer, so it is not asked for yet.
LEMMA SettlesPutStarted ==
  ASSUME PatientClient, IInv, SInv, NEW r \in Requests, PutStarted(r)
  PROVE  SInv'
<1> DEFINE f == req[r].file
           c == req[r].chunk
<1>1. Sends(r) /\ req[r].step # "mark" /\ f \in Files
  BY DEF PutStarted, At, Sends, IInv, TypeOK, Request
<1>2. /\ Finish(r)
      /\ acked' = [acked EXCEPT ![f] = @ \union {c}]
      /\ UNCHANGED <<row, stage, asked, phase, matches>>
  BY DEF PutStarted, ChunkAnswered, PatientClient, disk
<1>3. Continues(r) /\ req'[r] = Idle BY <1>2, EndsOrGoesOn, FinishFacts DEF IInv
<1>4. f \notin asked BY <1>1 DEF SInv, SendingInv, CompletingInv
<1>5. /\ acked'[f] = acked[f] \union {c}
      /\ \A g \in Files \ {f} : acked'[g] = acked[g]
  BY <1>1, <1>2 DEF IInv, TypeOK
<1>6. SendingInv'
  <2>1. \A q \in Requests : Sends(q)' => q # r /\ Sends(q) /\ req'[q] = req[q]
    BY <1>3, IdleDoesNothing DEF Continues, Alone, Sends
  <2>2. \A q \in Requests \ {r} : Sends(q) => ~(req[q].file = f /\ req[q].chunk = c)
    BY <1>1 DEF SInv, SendingInv
  <2>3. \A q \in Requests : req[q].file \in Files BY DEF IInv, TypeOK, Request
  <2> QED BY <1>5, <2>1, <2>2, <2>3 DEF SInv, SendingInv, Chunks
<1>7. CompletingInv'
  <2>1. \A q \in Requests : Completes(q)' => Completes(q) /\ req'[q].file = req[q].file
    BY <1>3, IdleDoesNothing DEF Continues, Alone, Completes, Saves, Reports
  <2>2. asked \subseteq Files BY DEF IInv, TypeOK
  <2> QED BY <1>2, <1>4, <1>5, <2>1, <2>2 DEF SInv, CompletingInv, Chunks
<1>8. SettlingInv' BY <1>1, <1>2, NotAllCompleted DEF SettlingInv, AllCompleted
<1> QED BY <1>1, <1>2, <1>3, <1>6, <1>7, <1>8, KeepsRows, KeepsCalm DEF SInv

\* The completion of a file is asked for, the only time.
LEMMA SettlesCompleteRead ==
  ASSUME PatientClient, IInv, SInv, NEW r \in Requests, CompleteRead(r)
  PROVE  SInv'
<1>1. PICK f \in Files, sha \in BOOLEAN : MayComplete(f) /\ BeginComplete(r, f, sha)
  BY DEF CompleteRead
<1> DEFINE x == [Idle EXCEPT !.step = "list", !.file = f, !.sha = sha]
<1>2. x \in Request /\ x.step = "list" /\ x.file = f
  BY IdleIsRequest DEF Request, Step
<1>3. f \notin asked /\ acked[f] = Chunks(f) BY <1>1 DEF MayComplete, PatientClient
<1>4. /\ req[r].step = "idle" /\ req' = [req EXCEPT ![r] = x]
      /\ asked' = asked \union {f}
      /\ UNCHANGED <<status, row, stage, phase, matches, acked>>
  BY <1>1 DEF BeginComplete, Begin, At, rows, disk, PatientClient
<1> HIDE DEF x
<1>5. req'[r] = x /\ Alone(r) BY <1>2, <1>4, SetFacts DEF IInv, Alone
<1>6. /\ ~Sends(r)' /\ Saves(r)' /\ Completes(r)' /\ req'[r].step # "create_parts"
      /\ req'[r].file = f
  BY <1>2, <1>5 DEF Sends, Saves, Completes
<1>7. \A q \in Requests \ {r} : /\ Sends(q)' <=> Sends(q)
                                /\ Saves(q)' <=> Saves(q)
                                /\ Completes(q)' <=> Completes(q)
                                /\ req'[q] = req[q]
  BY <1>5 DEF Alone, Sends, Saves, Completes, Reports
<1>8. SendingInv' BY <1>4, <1>6, <1>7 DEF SInv, SendingInv, Chunks
<1>9. CompletingInv'
  <2>1. \A q \in Requests \ {r} : Completes(q) => req[q].file # f
    BY <1>3 DEF SInv, CompletingInv
  <2> QED BY <1>3, <1>4, <1>6, <1>7, <2>1 DEF SInv, CompletingInv, Chunks
<1>10. RowsInv'
  <2>1. row[f].status # "completed" BY <1>3 DEF SInv, RowsInv
  <2>2. \A q \in Requests : req[q].step = "mark" => req'[q] = req[q]
    BY <1>4, <1>7
  <2> QED BY <1>4, <1>6, <1>7, <2>1, <2>2 DEF SInv, RowsInv
<1>11. SettlingInv'
  <2>1. ~AllCompleted' BY <1>3, <1>4 DEF SInv, RowsInv, AllCompleted
  <2> QED BY <2>1 DEF SettlingInv
<1>12. CalmInv' BY <1>4, <1>6, <1>7 DEF SInv, CalmInv
<1> QED BY <1>8, <1>9, <1>10, <1>11, <1>12 DEF SInv

\* A completion goes on without moving the file, or ends without saving it.
LEMMA SettlesCompleteMiddle ==
  ASSUME PatientClient, IInv, SInv, NEW r \in Requests,
         CompleteList(r) \/ CompleteVerifying(r) \/ CompleteHash(r) \/ WriteStatus(r)
  PROVE  SInv'
<1>1. Saves(r) /\ req[r].step # "mark"
  BY DEF CompleteList, CompleteVerifying, CompleteHash, WriteStatus, At, Saves
<1>2. UNCHANGED <<row, stage, acked, asked, phase, matches>>
  BY DEF CompleteList, CompleteVerifying, CompleteHash, WriteStatus, rows, disk, client
<1>3. Continues(r)
  <2>1. CASE Finish(r) BY <2>1, EndsOrGoesOn
  <2>2. ASSUME NEW step \in {"verifying", "hash", "rename", "cleanup"}, Goto(r, step)
        PROVE  Continues(r)
    <3>1. step \in Step BY DEF Step
    <3>2. req'[r].step = step BY <2>2, <3>1, GotoFacts DEF IInv
    <3> QED BY <1>1, <2>2, <3>1, <3>2, EndsOrGoesOn DEF Completes, Saves, Sends
  <2>3. CASE req' = [req EXCEPT ![r].step = "write", ![r].to = "failed"]
    <3>1. /\ req'[r].file = req[r].file /\ req'[r].chunk = req[r].chunk
          /\ req'[r].step = "write" /\ Alone(r)
      BY <2>3 DEF IInv, TypeOK, Request, Alone
    <3> QED BY <1>1, <3>1 DEF Continues, Completes, Saves, Sends
  <2>4. CASE CompleteList(r)
    <3>1. Goto(r, "verifying") \/ Goto(r, "hash") BY <2>4 DEF CompleteList
    <3> QED BY <2>2, <3>1
  <2> QED BY <2>1, <2>2, <2>3, <2>4
          DEF CompleteVerifying, CompleteHash, WriteStatus, PatientClient
<1> QED BY <1>1, <1>2, <1>3, EarlyStep

\* A file is saved, and its request goes on to mark it.
LEMMA SettlesCompleteRename ==
  ASSUME PatientClient, IInv, SInv, NEW r \in Requests, CompleteRename(r)
  PROVE  SInv'
<1> DEFINE f == req[r].file
<1>1. Saves(r) /\ req[r].step = "rename" /\ f \in Files
  BY DEF CompleteRename, At, Saves, IInv, TypeOK, Request
<1>2. UNCHANGED <<row, acked, asked, phase, matches>>
  BY DEF CompleteRename, rows, client
<1>3. /\ Continues(r)
      /\ \A g \in Files : stage'[g] = "saved" =>
           stage[g] = "saved" \/ (g = f /\ req'[r].step = "mark" /\ req'[r].file = f)
  <2>1. CASE Goto(r, "mark") /\ stage' = [stage EXCEPT ![f] = "saved"]
    <3>1. "mark" \in Step BY DEF Step
    <3>2. req'[r].step = "mark" /\ req'[r].file = f
      BY <2>1, <3>1, GotoFacts DEF IInv
    <3>3. Continues(r)
      BY <1>1, <2>1, <3>1, <3>2, EndsOrGoesOn DEF Completes, Saves, Sends
    <3> QED BY <2>1, <3>2, <3>3 DEF IInv, TypeOK
  <2>2. CASE Finish(r) /\ (stage' = stage \/ stage' = [stage EXCEPT ![f] = "gone"])
    <3>1. Continues(r) BY <2>2, EndsOrGoesOn
    <3> QED BY <2>2, <3>1 DEF IInv, TypeOK
  <2> QED BY <2>1, <2>2 DEF CompleteRename, disk
<1>4. RowsInv'
  <2>1. \A q \in Requests : Saves(q)' => Saves(q) /\ req'[q].file = req[q].file
    BY <1>3, IdleDoesNothing DEF Continues, Alone, Saves
  <2>2. \A q \in Requests : req[q].step = "mark" => req'[q] = req[q]
    BY <1>1, <1>3 DEF Continues, Alone
  <2> QED BY <1>2, <1>3, <2>1, <2>2 DEF SInv, RowsInv
<1>5. SettlingInv' BY <1>1, <1>2, NotAllCompleted DEF SettlingInv, AllCompleted
<1> QED BY <1>2, <1>3, <1>4, <1>5, KeepsSending, KeepsCalm DEF SInv

\* The row of the saved file is written: the hash declared for it agrees.
LEMMA SettlesCompleteMark ==
  ASSUME PatientClient, IInv, SInv, NEW r \in Requests, CompleteMark(r)
  PROVE  SInv'
<1> DEFINE f == req[r].file
<1>1. Saves(r) /\ Completes(r) /\ req[r].step = "mark" /\ f \in Files
  BY DEF CompleteMark, At, Saves, Completes, IInv, TypeOK, Request
<1>2. UNCHANGED <<status, stage, acked, asked, phase, matches>>
  BY DEF CompleteMark, disk, client
<1>3. Goto(r, "list_again") /\ row' = [row EXCEPT ![f].status = "completed"]
  BY DEF CompleteMark, PatientClient, SInv, CalmInv
<1>4. "list_again" \in Step BY DEF Step
<1>5. req'[r].step = "list_again" BY <1>3, <1>4, GotoFacts DEF IInv
<1>6. Continues(r)
  BY <1>1, <1>3, <1>4, <1>5, EndsOrGoesOn DEF Completes, Saves, Reports, Sends
<1>7. /\ row'[f].status = "completed"
      /\ \A g \in Files \ {f} : row'[g] = row[g]
  BY <1>1, <1>3 DEF IInv, TypeOK
<1>8. RowsInv'
  <2>1. \A q \in Requests : Saves(q)' => q # r /\ Saves(q) /\ req'[q].file = req[q].file
    BY <1>5, <1>6, IdleDoesNothing DEF Continues, Alone, Saves
  <2>2. \A q \in Requests \ {r} : Saves(q) => req[q].file # f
    BY <1>1 DEF SInv, CompletingInv, Completes
  <2>3. \A q \in Requests \ {r} : req[q].step = "mark" => req'[q] = req[q]
    BY <1>6 DEF Continues, Alone
  <2>4. f \in asked BY <1>1 DEF SInv, CompletingInv
  <2>5. \A q \in Requests : req[q].file \in Files BY DEF IInv, TypeOK, Request
  <2> QED BY <1>2, <1>7, <2>1, <2>2, <2>3, <2>4, <2>5 DEF SInv, RowsInv
<1>9. SettlingInv' BY <1>5 DEF SettlingInv, Found
<1> QED BY <1>2, <1>6, <1>8, <1>9, KeepsSending, KeepsCalm DEF SInv

\* CompleteFile after it has written the row: a request that sees all files goes on
\* to say so; one that does not leaves "completed" alone.
LEMMA SettlesCompleteEnd ==
  ASSUME PatientClient, IInv, SInv, NEW r \in Requests,
         \/ CompleteListAgain(r) \/ CompleteAllVerifying(r) \/ CompleteAll(r)
         \/ CompleteStraggler(r)
  PROVE  SInv'
<1>1. UNCHANGED <<row, stage, acked, asked, phase, matches>>
  BY DEF CompleteListAgain, CompleteAllVerifying, CompleteAll, CompleteStraggler, rows, disk,
         client
<1>2. CASE CompleteListAgain(r)
  <2>1. Reports(r) BY <1>2 DEF CompleteListAgain, At, Reports
  <2>2. PICK step \in {"all_verifying", "straggler"} :
          Goto(r, step) /\ (AllCompleted => step = "all_verifying")
    BY <1>2 DEF CompleteListAgain, PatientClient
  <2>3. step \in Step BY DEF Step
  <2>4. req'[r].step = step BY <2>2, <2>3, GotoFacts DEF IInv
  <2>5. Continues(r)
    BY <2>1, <2>2, <2>3, <2>4, EndsOrGoesOn DEF Completes, Saves, Reports, Sends
  <2> QED BY <1>1, <2>1, <2>2, <2>4, <2>5, LateStep DEF Found
<1>3. CASE CompleteAllVerifying(r)
  <2>1. Reports(r) /\ Goto(r, "all_completed")
    BY <1>3 DEF CompleteAllVerifying, At, Reports
  <2>2. "all_completed" \in Step BY DEF Step
  <2>3. req'[r].step = "all_completed" BY <2>1, <2>2, GotoFacts DEF IInv
  <2>4. Continues(r)
    BY <2>1, <2>2, <2>3, EndsOrGoesOn DEF Completes, Saves, Reports, Sends
  <2> QED BY <1>1, <2>1, <2>3, <2>4, LateStep DEF Found
<1>4. CASE CompleteAll(r)
  <2>1. Reports(r) /\ Finish(r) /\ status' = "completed"
    BY <1>4 DEF CompleteAll, At, Reports, PatientClient
  <2>2. Continues(r) BY <2>1, EndsOrGoesOn
  <2> QED BY <1>1, <2>1, <2>2, LateStep
<1>5. CASE CompleteStraggler(r)
  <2>1. Reports(r) /\ ~Found(r) /\ Finish(r)
    BY <1>5 DEF CompleteStraggler, At, Reports, Found
  <2>2. status = "completed" => status' = "completed"
    BY <1>5 DEF CompleteStraggler, PatientClient, Terminal
  <2>3. Continues(r) BY <2>1, EndsOrGoesOn
  <2> QED BY <1>1, <2>1, <2>2, <2>3, LateStep
<1> QED BY <1>2, <1>3, <1>4, <1>5

\* After a mismatch the staged files are dropped, never a saved one.
LEMMA SettlesCleanup ==
  ASSUME PatientClient, IInv, SInv, NEW r \in Requests, Cleanup(r)
  PROVE  SInv'
<1>1. Saves(r) /\ req[r].step = "cleanup" BY DEF Cleanup, At, Saves
<1>2. /\ Finish(r) /\ DropStaged
      /\ UNCHANGED <<status, row, acked, asked, phase, matches>>
  BY DEF Cleanup, PatientClient, rows, client
<1>3. Continues(r) BY <1>2, EndsOrGoesOn
<1>4. \A f \in Files : stage'[f] = "saved" => stage[f] = "saved"
  BY <1>2 DEF DropStaged
<1>5. RowsInv'
  <2>1. \A q \in Requests : Saves(q)' => Saves(q) /\ req'[q].file = req[q].file
    BY <1>3, IdleDoesNothing DEF Continues, Alone, Saves
  <2>2. \A q \in Requests : req[q].step = "mark" => req'[q] = req[q]
    BY <1>1, <1>3 DEF Continues, Alone
  <2> QED BY <1>2, <1>4, <2>1, <2>2 DEF SInv, RowsInv
<1>6. SettlingInv' BY <1>1, <1>2, NotAllCompleted DEF SettlingInv, AllCompleted
<1> QED BY <1>2, <1>3, <1>5, <1>6, KeepsSending, KeepsCalm DEF SInv

-----------------------------------------------------------------------------
(* The whole. *)

\* No other step is taken: neither the user nor the timers nor the process act.
LEMMA CalmSteps ==
  ASSUME PatientClient, SInv, [Next]_vars
  PROVE  \/ \E r \in Requests :
              \/ CreateRow(r) \/ CreateParts(r) \/ Put(r) \/ Complete(r)
              \/ WriteStatus(r) \/ Cleanup(r)
         \/ UNCHANGED vars
<1>1. \A name \in {"cancel", "fail", "grace", "pause", "resume", "retry", "accept", "reject",
                   "crash"} : name \notin Handlers
  BY DEF PatientClient
<1>2. phase = "up" BY DEF SInv, CalmInv
<1>3. ~Restart BY <1>1, <1>2 DEF Restart, Crash, Sweep, SweepCleanup
<1>4. \A r \in Requests : Decide(r) => WriteStatus(r) \/ Cleanup(r)
  BY <1>1 DEF Decide, Cancel, FailReport, GraceExpiry, Pause, Resume, Retry, Accept, Reject,
              BeginWrite, Begin
<1> QED BY <1>3, <1>4 DEF Next

\* No file differs from the hash declared for it.
LEMMA NothingFails ==
  ASSUME PatientClient, IInv, SInv, NEW r \in Requests
  PROVE  ~CompleteFails(r)
BY DEF CompleteFails, At, IInv, RequestsInv, RequestOK, SInv, CalmInv

LEMMA SettlesStep == PatientClient /\ IInv /\ SInv /\ [Next]_vars => SInv'
<1> SUFFICES ASSUME PatientClient, IInv, SInv, [Next]_vars PROVE SInv' OBVIOUS
<1>1. ASSUME NEW r \in Requests, CreateRow(r) \/ CreateParts(r) PROVE SInv'
  BY <1>1, SettlesCreateRow, SettlesCreateParts
<1>2. ASSUME NEW r \in Requests, Put(r) PROVE SInv'
  BY <1>2, SettlesPutRead, SettlesPutMiddle, SettlesPutRow, SettlesPutStarted DEF Put
<1>3. ASSUME NEW r \in Requests, Complete(r) PROVE SInv'
  BY <1>3, SettlesCompleteRead, SettlesCompleteMiddle, SettlesCompleteRename,
     SettlesCompleteMark, NothingFails, SettlesCompleteEnd DEF Complete
<1>4. ASSUME NEW r \in Requests, WriteStatus(r) \/ Cleanup(r) PROVE SInv'
  BY <1>4, SettlesCompleteMiddle, SettlesCleanup
<1>5. CASE UNCHANGED vars
  BY <1>5 DEF vars, SInv, SendingInv, CompletingInv, RowsInv, SettlingInv, CalmInv, Sends,
              Completes, Saves, Reports, Found, AllCompleted, Chunks
<1> QED BY <1>1, <1>2, <1>3, <1>4, <1>5, CalmSteps

LEMMA SettlesInvariance == PatientClient => (Spec => []SInv)
<1> SUFFICES ASSUME PatientClient PROVE Spec => []SInv OBVIOUS
<1>1. Init => SInv BY SettlesInit
<1>2. IInv /\ SInv /\ [Next]_vars => SInv' BY SettlesStep
<1> QED BY <1>1, <1>2, Invariance, PTL DEF Spec

\* Once no request is in progress and every file is saved, the transfer reads
\* "completed", for any number of files and of requests at once: of several files that
\* finish together, one request sees them all in the second listing of CompleteFile.
THEOREM SavedTransferSettles ==
  ASSUME PatientClient
  PROVE  Spec => []AllSavedSettles
<1>1. SInv => AllSavedSettles
  BY DEF SInv, RowsInv, SettlingInv, AllSavedSettles, AllCompleted, Quiet, Found
<1> QED BY <1>1, SettlesInvariance, PTL

-----------------------------------------------------------------------------
(* Nothing is refused: every file matches its hash, and a name that is taken    *)
(* does not cost a file.  Then what the client has asked for is what it gets.   *)

CleanUpload == PatientClient /\ MayMismatch = {} /\ ConflictPolicy # "skip"

\* Once the client knows its files they are staged or saved, nothing decides
\* against them, and a completion that was asked for is done or in progress.
CarriedInv ==
  /\ matches = Files
  /\ \A r \in Requests : req[r].step \notin {"write", "cleanup"}
  /\ status # "absent" /\ (\A r \in Requests : req[r].step # "create_parts") =>
       \A f \in Files : stage[f] \in {"part", "saved"}
  /\ \A f \in asked : \/ row[f].status = "completed"
                      \/ \E r \in Requests : Saves(r) /\ req[r].file = f

\* Until its own rename, the file of a completion is staged: no other request
\* completes it.
LEMMA StillStaged ==
  ASSUME IInv, SInv, CarriedInv, NEW r \in Requests,
         req[r].step \in {"list", "verifying", "hash", "rename"}
  PROVE  stage[req[r].file] = "part"
<1> DEFINE f == req[r].file
<1>1. f \in Files BY DEF IInv, TypeOK, Request
<1>2. stage[f] \in {"part", "saved"}
  <2>1. status # "absent" BY SomethingExists
  <2>2. \A q \in Requests : req[q].step # "create_parts"
    BY DEF IInv, CreationInv
  <2> QED BY <1>1, <2>1, <2>2 DEF CarriedInv
<1>3. Saves(r) /\ Completes(r) BY DEF Saves, Completes
<1>4. ~\E q \in Requests : req[q].step = "mark" /\ req[q].file = f
  <2> SUFFICES ASSUME NEW q \in Requests, req[q].step = "mark", req[q].file = f PROVE FALSE
    OBVIOUS
  <2>1. Completes(q) BY DEF Completes, Saves
  <2>2. q = r BY <1>3, <2>1 DEF SInv, CompletingInv
  <2> QED BY <2>2
<1>5. stage[f] # "saved" BY <1>1, <1>3, <1>4 DEF SInv, RowsInv
<1> QED BY <1>2, <1>5

LEMMA CarriesOn ==
  ASSUME IInv, CarriedInv, NEW r \in Requests, Alone(r),
         req[r].step \notin {"idle", "create_parts"},
         req'[r].step \notin {"write", "cleanup", "create_parts"},
         \/ ~Saves(r)
         \/ Saves(r)' /\ req'[r].file = req[r].file
         \/ row'[req[r].file].status = "completed",
         \A f \in Files : stage[f] \in {"part", "saved"} => stage'[f] \in {"part", "saved"},
         \A f \in asked : row[f].status = "completed" => row'[f].status = "completed",
         asked' = asked, matches' = matches
  PROVE  CarriedInv'
<1>1. status # "absent" BY SomethingExists
<1>2. \A q \in Requests : req'[q].step \notin {"write", "cleanup"}
  BY DEF CarriedInv, Alone
<1>3. (\A q \in Requests : req'[q].step # "create_parts") =>
        \A q \in Requests : req[q].step # "create_parts"
  BY DEF Alone
<1>4. \A f \in asked : \/ row'[f].status = "completed"
                       \/ \E q \in Requests : Saves(q)' /\ req'[q].file = f
  <2> TAKE f \in asked
  <2>1. CASE row[f].status = "completed" BY <2>1
  <2>2. CASE \E q \in Requests : Saves(q) /\ req[q].file = f
    <3>1. PICK q \in Requests : Saves(q) /\ req[q].file = f BY <2>2
    <3>2. CASE q = r BY <3>1, <3>2
    <3>3. CASE q # r
      <4>1. Saves(q)' /\ req'[q].file = f BY <3>1, <3>3 DEF Alone, Saves
      <4> QED BY <4>1
    <3> QED BY <3>2, <3>3
  <2> QED BY <2>1, <2>2 DEF CarriedInv
<1> QED BY <1>1, <1>2, <1>3, <1>4 DEF CarriedInv

LEMMA CarriesInit == CleanUpload /\ Init => CarriedInv
<1> SUFFICES ASSUME CleanUpload, Init PROVE CarriedInv OBVIOUS
<1>1. \A r \in Requests : req[r].step = "idle" BY IdleIsRequest DEF Init
<1>2. matches = Files BY DEF Init, CleanUpload
<1>3. asked = {} /\ status = "absent" BY DEF Init
<1> QED BY <1>1, <1>2, <1>3 DEF CarriedInv

LEMMA CarriesCreation ==
  ASSUME CleanUpload, IInv, SInv, CarriedInv, NEW r \in Requests, CreateRow(r) \/ CreateParts(r)
  PROVE  CarriedInv'
<1>1. req[r].step \in {"idle", "create_parts"} BY DEF CreateRow, CreateParts, At
<1>2. \A q \in Requests \ {r} : req'[q] = req[q]
  BY FinishFacts DEF CreateRow, CreateParts, IInv, TypeOK, Goto
<1>3. UNCHANGED <<row, asked, matches>> BY DEF CreateRow, CreateParts, client, rows
<1>4. req'[r].step \in {"idle", "create_parts"}
  <2>1. CASE CreateRow(r)
    <3>1. PICK to \in {"created"} :
            req' = [req EXCEPT ![r] = [Idle EXCEPT !.step = "create_parts", !.to = to]]
      BY <2>1 DEF CreateRow, CleanUpload, PatientClient
    <3> DEFINE x == [Idle EXCEPT !.step = "create_parts", !.to = to]
    <3>2. x.step = "create_parts" BY IdleIsRequest DEF Request
    <3>3. req'[r] = x BY <3>1 DEF IInv, TypeOK
    <3> QED BY <3>2, <3>3
  <2>2. CASE CreateParts(r)
    <3>1. req[r].to = "created" BY <2>2 DEF CreateParts, At, SInv, CalmInv
    <3>2. Finish(r) BY <2>2, <3>1 DEF CreateParts
    <3> QED BY <3>2, FinishFacts, IdleIsRequest DEF IInv
  <2> QED BY <2>1, <2>2
<1>5. \A f \in asked : \/ row'[f].status = "completed"
                       \/ \E q \in Requests : Saves(q)' /\ req'[q].file = f
  <2> TAKE f \in asked
  <2>1. \A q \in Requests : Saves(q) => q # r BY <1>1 DEF Saves
  <2>2. \A q \in Requests : Saves(q) => Saves(q)' /\ req'[q].file = req[q].file
    BY <1>2, <2>1 DEF Saves
  <2> QED BY <1>3, <2>2 DEF CarriedInv
<1>6. \A q \in Requests : req'[q].step \notin {"write", "cleanup"}
  BY <1>2, <1>4 DEF CarriedInv
<1>7. status' # "absent" /\ (\A q \in Requests : req'[q].step # "create_parts") =>
        \A f \in Files : stage'[f] \in {"part", "saved"}
  <2>1. CASE CreateRow(r)
    <3>1. PICK to \in {"created"} :
            req' = [req EXCEPT ![r] = [Idle EXCEPT !.step = "create_parts", !.to = to]]
      BY <2>1 DEF CreateRow, CleanUpload, PatientClient
    <3> DEFINE x == [Idle EXCEPT !.step = "create_parts", !.to = to]
    <3>2. x.step = "create_parts" BY IdleIsRequest DEF Request
    <3>3. req'[r] = x BY <3>1 DEF IInv, TypeOK
    <3> QED BY <3>2, <3>3
  <2>2. CASE CreateParts(r)
    <3>1. req[r].to = "created" BY <2>2 DEF CreateParts, At, SInv, CalmInv
    <3>2. stage' = [f \in Files |-> "part"]
      BY <2>2, <3>1 DEF CreateParts, CleanUpload, PatientClient
    <3> QED BY <3>2
  <2> QED BY <2>1, <2>2
<1> QED BY <1>3, <1>5, <1>6, <1>7 DEF CarriedInv

LEMMA CarriesBegin ==
  ASSUME CleanUpload, IInv, SInv, CarriedInv, NEW r \in Requests,
         PutRead(r) \/ CompleteRead(r)
  PROVE  CarriedInv'
<1>1. \E f \in Files :
        \/ \E c \in 0 .. NumChunks[f] : BeginPut(r, f, c)
        \/ \E sha \in BOOLEAN : BeginComplete(r, f, sha)
  BY DEF PutRead, CompleteRead
<1>2. PICK f \in Files :
        \/ \E c \in 0 .. NumChunks[f] : BeginPut(r, f, c)
        \/ \E sha \in BOOLEAN : BeginComplete(r, f, sha)
  BY <1>1
<1>3. /\ req[r].step = "idle" /\ Alone(r)
      /\ \/ /\ req'[r].step \in {"put_rearm", "put_write"} /\ asked' = asked
         \/ /\ req'[r].step = "list" /\ req'[r].file = f /\ asked' = asked \union {f}
      /\ UNCHANGED <<status, row, stage, matches>>
  <2>1. ASSUME NEW c \in 0 .. NumChunks[f], BeginPut(r, f, c) PROVE <1>3
    <3> DEFINE step == IF status = "retrying" THEN "put_rearm" ELSE "put_write"
               x == [Idle EXCEPT !.step = step, !.file = f, !.chunk = c]
    <3>1. x \in Request /\ x.step \in {"put_rearm", "put_write"}
      <4>1. c \in Nat BY ChunksAssumption
      <4> QED BY <4>1, IdleIsRequest DEF Request, Step
    <3>2. req' = [req EXCEPT ![r] = x] /\ req[r].step = "idle"
          /\ UNCHANGED <<status, row, stage, matches, asked>>
      BY <2>1 DEF BeginPut, Begin, At, rows, disk, client
    <3> HIDE DEF x
    <3>3. req'[r] = x /\ Alone(r) BY <3>1, <3>2, SetFacts DEF IInv, Alone
    <3> QED BY <3>1, <3>2, <3>3
  <2>2. ASSUME NEW sha \in BOOLEAN, BeginComplete(r, f, sha) PROVE <1>3
    <3> DEFINE x == [Idle EXCEPT !.step = "list", !.file = f, !.sha = sha]
    <3>1. x \in Request /\ x.step = "list" /\ x.file = f
      BY IdleIsRequest DEF Request, Step
    <3>2. req' = [req EXCEPT ![r] = x] /\ req[r].step = "idle" /\ asked' = asked \union {f}
          /\ UNCHANGED <<status, row, stage, matches>>
      BY <2>2 DEF BeginComplete, Begin, At, rows, disk, CleanUpload, PatientClient
    <3> HIDE DEF x
    <3>3. req'[r] = x /\ Alone(r) BY <3>1, <3>2, SetFacts DEF IInv, Alone
    <3> QED BY <3>1, <3>2, <3>3
  <2> QED BY <1>2, <2>1, <2>2
<1>4. \A q \in Requests : Saves(q) => Saves(q)' /\ req'[q].file = req[q].file
  BY <1>3 DEF Alone, Saves
<1>5. \A g \in asked' : \/ row'[g].status = "completed"
                        \/ \E q \in Requests : Saves(q)' /\ req'[q].file = g
  <2> TAKE g \in asked'
  <2>1. CASE g \in asked BY <1>3, <1>4, <2>1 DEF CarriedInv
  <2>2. CASE g \notin asked
    <3>1. req'[r].step = "list" /\ req'[r].file = g BY <1>3, <2>2
    <3>2. Saves(r)' BY <3>1 DEF Saves
    <3> QED BY <3>1, <3>2
  <2> QED BY <2>1, <2>2
<1>6. \A q \in Requests : /\ req'[q].step \notin {"write", "cleanup"}
                          /\ req[q].step = "create_parts" => req'[q].step = "create_parts"
  BY <1>3 DEF CarriedInv, Alone
<1> QED BY <1>3, <1>5, <1>6 DEF CarriedInv

LEMMA CarriesPut ==
  ASSUME CleanUpload, IInv, SInv, CarriedInv, NEW r \in Requests,
         PutRearm(r) \/ PutWrite(r) \/ PutBit(r) \/ PutRow(r) \/ PutStarted(r)
  PROVE  CarriedInv'
<1> DEFINE f == req[r].file
<1>1. Sends(r) /\ ~Saves(r) /\ f \in Files
  BY DEF PutRearm, PutWrite, PutBit, PutRow, PutStarted, At, Sends, Saves, IInv, TypeOK, Request
<1>2. UNCHANGED <<stage, asked, matches>>
  BY DEF PutRearm, PutWrite, PutBit, PutRow, PutStarted, rows, disk, client, ChunkAnswered
<1>3. Alone(r) /\ req'[r].step \notin {"write", "cleanup", "create_parts"}
  <2>1. CASE Finish(r) BY <2>1, FinishFacts, IdleIsRequest DEF IInv, Alone
  <2>2. ASSUME NEW step \in {"put_write", "put_bit", "put_started"}, Goto(r, step) PROVE <1>3
    <3>1. step \in Step BY DEF Step
    <3> QED BY <2>2, <3>1, GotoFacts DEF IInv, Alone
  <2>3. CASE PutBit(r)
    <3> DEFINE n == Cardinality(bitmap[f] \union {req[r].chunk})
    <3>1. req' = [req EXCEPT ![r].step = "put_row", ![r].count = n]
      BY <2>3 DEF PutBit, CleanUpload, PatientClient
    <3> HIDE DEF n
    <3> QED BY <3>1 DEF IInv, TypeOK, Request, Alone
  <2> QED BY <2>1, <2>2, <2>3 DEF PutRearm, PutWrite, PutRow, PutStarted
<1>4. f \notin asked BY <1>1 DEF SInv, SendingInv, CompletingInv
<1>5. \A g \in asked : row'[g] = row[g]
  <2>1. CASE PutRow(r)
    <3>1. row' = [row EXCEPT ![f] = [status |-> "transferring", chunks |-> req[r].count]]
      BY <2>1 DEF PutRow, CleanUpload, PatientClient
    <3> QED BY <1>4, <3>1 DEF IInv, TypeOK
  <2>2. CASE ~PutRow(r) BY <2>2 DEF PutRearm, PutWrite, PutBit, PutStarted, rows
  <2> QED BY <2>1, <2>2
<1>6. req[r].step \notin {"idle", "create_parts"} BY <1>1 DEF Sends
<1> QED BY <1>1, <1>2, <1>3, <1>5, <1>6, CarriesOn

LEMMA CarriesComplete ==
  ASSUME CleanUpload, IInv, SInv, CarriedInv, NEW r \in Requests,
         \/ CompleteList(r) \/ CompleteVerifying(r) \/ CompleteHash(r) \/ CompleteRename(r)
         \/ CompleteMark(r) \/ CompleteListAgain(r) \/ CompleteAllVerifying(r)
         \/ CompleteAll(r) \/ CompleteStraggler(r)
  PROVE  CarriedInv'
<1> DEFINE f == req[r].file
<1> USE DEF CleanUpload, PatientClient
<1>1. f \in Files BY DEF IInv, TypeOK, Request
<1>2. /\ Completes(r) /\ req[r].step \notin {"idle", "create_parts"}
      /\ UNCHANGED <<asked, matches>>
  BY DEF CompleteList, CompleteVerifying, CompleteHash, CompleteRename, CompleteMark,
         CompleteListAgain, CompleteAllVerifying, CompleteAll, CompleteStraggler, At,
         Completes, Saves, Reports, rows, disk, client
<1>3. CASE CompleteList(r) \/ CompleteVerifying(r) \/ CompleteHash(r)
  <2>1. req[r].step = "hash" => stage[f] = "part" BY StillStaged
  <2>2. f \in matches BY <1>1 DEF CarriedInv
  <2>3. PICK step \in {"verifying", "hash", "rename"} : Goto(r, step)
    BY <1>3, <2>1, <2>2 DEF CompleteList, CompleteVerifying, CompleteHash, At
  <2>4. step \in Step BY DEF Step
  <2>5. Alone(r) /\ req'[r].step = step /\ req'[r].file = f
    BY <2>3, <2>4, GotoFacts DEF IInv, Alone
  <2>6. Saves(r)' BY <2>5 DEF Saves
  <2>7. UNCHANGED <<row, stage>>
    BY <1>3 DEF CompleteList, CompleteVerifying, CompleteHash, rows, disk
  <2> QED BY <1>2, <2>5, <2>6, <2>7, CarriesOn
<1>4. CASE CompleteRename(r)
  <2>1. stage[f] = "part" BY <1>4, StillStaged DEF CompleteRename, At
  <2>2. stage' = [stage EXCEPT ![f] = "saved"] /\ Goto(r, "mark") /\ UNCHANGED row
    BY <1>4, <2>1 DEF CompleteRename, rows
  <2>3. Alone(r) /\ req'[r].step = "mark" /\ req'[r].file = f
    BY <2>2, GotoFacts DEF IInv, Alone, Step
  <2>4. Saves(r)' BY <2>3 DEF Saves
  <2>5. \A g \in Files : stage[g] \in {"part", "saved"} => stage'[g] \in {"part", "saved"}
    BY <2>2 DEF IInv, TypeOK
  <2> QED BY <1>2, <2>2, <2>3, <2>4, <2>5, CarriesOn
<1>5. CASE CompleteMark(r)
  <2>1. f \notin Hashed \ matches BY <1>1 DEF CarriedInv
  <2>2. /\ row' = [row EXCEPT ![f].status = "completed"]
        /\ Goto(r, "list_again") /\ UNCHANGED stage
    BY <1>5, <2>1 DEF CompleteMark, disk
  <2>3. Alone(r) /\ req'[r].step = "list_again"
    BY <2>2, GotoFacts DEF IInv, Alone, Step
  <2>4. /\ row'[f].status = "completed"
        /\ \A g \in Files : row[g].status = "completed" => row'[g].status = "completed"
    BY <1>1, <2>2 DEF IInv, TypeOK
  <2>5. asked \subseteq Files BY DEF IInv, TypeOK
  <2> QED BY <1>2, <2>2, <2>3, <2>4, <2>5, CarriesOn
<1>6. CASE \/ CompleteListAgain(r) \/ CompleteAllVerifying(r) \/ CompleteAll(r)
           \/ CompleteStraggler(r)
  <2>1. ~Saves(r) /\ UNCHANGED <<row, stage>>
    BY <1>6 DEF CompleteListAgain, CompleteAllVerifying, CompleteAll, CompleteStraggler, At,
                Saves, rows, disk
  <2>2. Finish(r) \/ \E step \in {"all_verifying", "all_completed", "straggler"} : Goto(r, step)
    BY <1>6 DEF CompleteListAgain, CompleteAllVerifying, CompleteAll, CompleteStraggler
  <2>3. Alone(r) /\ req'[r].step \notin {"write", "cleanup", "create_parts"}
    <3>1. CASE Finish(r) BY <3>1, FinishFacts, IdleIsRequest DEF IInv, Alone
    <3>2. ASSUME NEW step \in {"all_verifying", "all_completed", "straggler"}, Goto(r, step)
          PROVE  <2>3
      <4>1. step \in Step BY DEF Step
      <4> QED BY <3>2, <4>1, GotoFacts DEF IInv, Alone
    <3> QED BY <2>2, <3>1, <3>2
  <2> QED BY <1>2, <2>1, <2>3, CarriesOn
<1> QED BY <1>3, <1>4, <1>5, <1>6

LEMMA CarriesStep == CleanUpload /\ IInv /\ SInv /\ CarriedInv /\ [Next]_vars => CarriedInv'
<1> SUFFICES ASSUME CleanUpload, IInv, SInv, CarriedInv, [Next]_vars PROVE CarriedInv'
  OBVIOUS
<1>4. PatientClient BY DEF CleanUpload
<1>1. ASSUME NEW r \in Requests, CreateRow(r) \/ CreateParts(r) \/ Put(r) \/ Complete(r)
      PROVE  CarriedInv'
  BY <1>1, <1>4, CarriesCreation, CarriesBegin, CarriesPut, CarriesComplete, NothingFails
     DEF Put, Complete
<1>2. ASSUME NEW r \in Requests, WriteStatus(r) \/ Cleanup(r) PROVE CarriedInv'
  BY <1>2 DEF WriteStatus, Cleanup, At, CarriedInv
<1>3. CASE UNCHANGED vars BY <1>3 DEF vars, CarriedInv, Saves
<1> QED BY <1>1, <1>2, <1>3, <1>4, CalmSteps

\* What the status of such an upload can be.
UnderwayInv == status \in {"absent", "created", "transferring", "verifying", "completed"}

LEMMA UnderwayStep == PatientClient /\ SInv /\ CarriedInv /\ UnderwayInv /\ [Next]_vars => UnderwayInv'
<1> SUFFICES ASSUME PatientClient, SInv, CarriedInv, UnderwayInv, [Next]_vars
             PROVE  UnderwayInv'
  OBVIOUS
<1>1. ASSUME NEW r \in Requests, ~WriteStatus(r),
             CreateRow(r) \/ CreateParts(r) \/ Put(r) \/ Complete(r) \/ Cleanup(r)
      PROVE  UnderwayInv'
  BY <1>1 DEF CreateRow, CreateParts, Put, PutRead, BeginPut, PutRearm, PutWrite, PutBit,
              PutRow, PutStarted, Complete, CompleteRead, BeginComplete, CompleteList,
              CompleteVerifying, CompleteHash, CompleteRename, CompleteMark,
              CompleteFails, CompleteListAgain, CompleteAllVerifying, CompleteAll,
              CompleteStraggler, Cleanup, rows, UnderwayInv
<1>2. \A r \in Requests : ~WriteStatus(r) BY DEF WriteStatus, At, CarriedInv
<1>3. CASE UNCHANGED vars BY <1>3 DEF vars, UnderwayInv
<1> QED BY <1>1, <1>2, <1>3, CalmSteps

LEMMA CarriedInvariance == CleanUpload => (Spec => [](CarriedInv /\ UnderwayInv))
<1> SUFFICES ASSUME CleanUpload PROVE Spec => [](CarriedInv /\ UnderwayInv) OBVIOUS
<1>1. PatientClient BY DEF CleanUpload
<1>2. Init => CarriedInv /\ UnderwayInv BY CarriesInit DEF Init, UnderwayInv
<1>3. IInv /\ SInv /\ CarriedInv /\ UnderwayInv /\ [Next]_vars => CarriedInv' /\ UnderwayInv'
  BY <1>1, CarriesStep, UnderwayStep
<1> QED BY <1>1, <1>2, <1>3, Invariance, SettlesInvariance, PTL DEF Spec

\* A client that has asked for all its files has nothing left to do: once its requests
\* have run to their end the transfer reads "completed".
DoneReadsCompleted == Quiet /\ asked = Files => status = "completed"

\* As long as nothing is in progress and the transfer does not read "completed",
\* creating it, sending a chunk or asking for a completion is possible.
SomethingIsLeftToDo ==
  Quiet /\ status # "completed" =>
    \/ status = "absent"
    \/ \E f \in Files :
         \/ Live /\ \E c \in Chunks(f) : MaySendChunk(f, c)
         \/ MayComplete(f) /\ Cardinality(bitmap[f]) = NumChunks[f]

\* By the time the requests of the last files have run to their end the transfer reads
\* "completed", for any number of files and of requests at once.  This is half of what
\* EveryUploadCompletes rests on besides fairness.
THEOREM NothingLeftToAskFor == ASSUME CleanUpload PROVE Spec => []DoneReadsCompleted
<1>1. PatientClient BY DEF CleanUpload
<1>2. SInv /\ CarriedInv => DoneReadsCompleted
  BY DEF SInv, SettlingInv, CarriedInv, DoneReadsCompleted, Quiet, AllCompleted, Saves, Found
<1> QED BY <1>1, <1>2, CarriedInvariance, SettlesInvariance, PTL

\* The other half: an upload never comes to rest short of its end.  When every chunk of
\* a file has been answered its bitmap is full, so the completion is not refused, and
\* until then the transfer takes chunks.
THEOREM UploadNeverRests == ASSUME CleanUpload PROVE Spec => []SomethingIsLeftToDo
<1>1. PatientClient BY DEF CleanUpload
<1>2. ASSUME TypeOK, SInv, CarriedInv, UnderwayInv, AnsweredIsStored, DoneReadsCompleted,
             Quiet, status \notin {"completed", "absent"}
      PROVE  \E f \in Files :
               \/ Live /\ \E c \in Chunks(f) : MaySendChunk(f, c)
               \/ MayComplete(f) /\ Cardinality(bitmap[f]) = NumChunks[f]
  <2>1. Published BY <1>2 DEF Published, Quiet
  <2>2. Live BY <1>2 DEF Live, UnderwayInv, Status, Terminal
  <2>3. PICK f \in Files : f \notin asked
    BY <1>2 DEF DoneReadsCompleted, TypeOK
  <2>4. acked[f] \subseteq bitmap[f] /\ bitmap[f] \subseteq Chunks(f)
    BY <1>2 DEF AnsweredIsStored, TypeOK
  <2>5. CASE acked[f] # Chunks(f)
    <3>1. PICK c \in Chunks(f) : c \notin acked[f] BY <2>4, <2>5
    <3>2. MaySendChunk(f, c) BY <1>1, <1>2, <2>1, <3>1 DEF MaySendChunk, PatientClient, Quiet
    <3> QED BY <2>2, <3>2
  <2>6. CASE acked[f] = Chunks(f)
    <3>1. bitmap[f] = Chunks(f) BY <2>4, <2>6
    <3>2. Cardinality(bitmap[f]) = NumChunks[f] BY <3>1, ChunksFinite
    <3>3. MayComplete(f) BY <2>1, <2>3, <2>6 DEF MayComplete
    <3> QED BY <3>2, <3>3
  <2> QED BY <2>5, <2>6
<1>3. TypeOK /\ SInv /\ CarriedInv /\ UnderwayInv /\ AnsweredIsStored /\ DoneReadsCompleted
        => SomethingIsLeftToDo
  BY <1>2 DEF SomethingIsLeftToDo
<1>4. Spec => []DoneReadsCompleted BY NothingLeftToAskFor
<1> QED BY <1>1, <1>3, <1>4, TypeCorrect, AnsweredChunksStay, CarriedInvariance,
           SettlesInvariance, PTL

=============================================================================
