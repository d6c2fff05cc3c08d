----------------------------- MODULE HubMessages ----------------------------
(***************************************************************************)
(* The hub with the messages it carries.  Send puts a message on the       *)
(* channel of Run, or straight into the inbox when the channel is full;    *)
(* Run puts it into the send buffer of every client, or into the inbox     *)
(* when no client takes it; a registration flushes the inbox.              *)
(*                                                                         *)
(* A message is its number in the order of the Sends.  A message put into  *)
(* the send buffer of a connection counts as got by it: what is still in   *)
(* the buffer when the connection breaks is beyond this model.  Whether a  *)
(* buffer has room is left open, as that depends on the peer.              *)
(***************************************************************************)
EXTENDS Hub

CONSTANTS
  BroadcastCap,   \* capacity of the channel
  InboxCap,       \* an inbox longer than that loses its oldest message
  MaxSent         \* bound: how many messages are sent

ASSUME MessagesAssumption == {BroadcastCap, InboxCap, MaxSent} \subseteq Nat

VARIABLES
  broadcast,      \* the channel
  inbox,          \* h.inboxes of the session
  sent,           \* how many messages were sent
  got,            \* the messages put into the buffer of each connection
  overflowed      \* history: the channel, the inbox or the buffer of some
                  \* client was full when a message was to go there

msgVars == <<broadcast, inbox, sent, got, overflowed>>
allVars == <<vars, msgVars>>

Waiting == inbox \o broadcast

MessagesTypeOK ==
  /\ broadcast \in Seq(1 .. sent) /\ Len(broadcast) <= BroadcastCap
  /\ inbox \in Seq(1 .. sent) /\ Len(inbox) <= InboxCap + 1
  /\ sent \in 0 .. MaxSent
  /\ got \in [Conns -> SUBSET (1 .. sent)]
  /\ overflowed \in BOOLEAN

MessagesInit ==
  /\ Init
  /\ broadcast = <<>> /\ inbox = <<>>
  /\ sent = 0
  /\ got = [c \in Conns |-> {}]
  /\ overflowed = FALSE

-----------------------------------------------------------------------------
(* Sending. *)

\* Mutant: the inbox keeps all that is queued.
Enqueue_KeepsAll(m) == inbox' = Append(inbox, m)

\* enqueueInbox drops the oldest message when there are more than InboxCap.
Enqueue(m) ==
  inbox' = Append(IF Len(inbox) > InboxCap THEN Tail(inbox) ELSE inbox, m)

Overflows == Len(inbox) > InboxCap

\* Any goroutine of the server sends at any moment: the callbacks of main.go
\* (device.info, device.disconnect, transfer.failed), the handlers, the upload
\* path.  Send does not wait for room in the channel.
Send ==
  /\ sent < MaxSent
  /\ sent' = sent + 1
  /\ IF Len(broadcast) < BroadcastCap
     THEN broadcast' = Append(broadcast, sent + 1) /\ UNCHANGED <<inbox, overflowed>>
     ELSE Enqueue(sent + 1) /\ overflowed' = TRUE /\ UNCHANGED broadcast
  /\ UNCHANGED <<vars, got>>

-----------------------------------------------------------------------------
(* Run. *)

Queued == {inbox[i] : i \in DOMAIN inbox}

\* Mutant: only the latest of the queue goes to the client.
Flush_LatestOnly(c) ==
  /\ inbox' = <<>>
  /\ got' = [got EXCEPT ![c] = IF inbox = <<>> THEN @ ELSE @ \cup {inbox[Len(inbox)]}]
  /\ UNCHANGED <<broadcast, sent, overflowed>>

\* The queue goes to the client that registers, as far as its buffer takes it.
Flush(c) ==
  /\ inbox' = <<>>
  /\ \E taken \in SUBSET Queued :
       /\ got' = [got EXCEPT ![c] = @ \cup taken]
       /\ overflowed' = (overflowed \/ taken # Queued)
  /\ UNCHANGED <<broadcast, sent>>

Deliver(m, to) == got' = [c \in Conns |-> IF c \in to THEN got[c] \cup {m} ELSE got[c]]

\* Mutant: a message is queued as well when there is only one client.
TakeBroadcast_QueuesToo ==
  /\ AtSelect
  /\ broadcast # <<>>
  /\ broadcast' = Tail(broadcast)
  /\ \E room \in SUBSET clients :
       /\ Deliver(Head(broadcast), room)
       /\ IF Cardinality(room) <= 1
          THEN /\ Enqueue(Head(broadcast))
               /\ overflowed' = (overflowed \/ room # clients \/ Overflows)
          ELSE overflowed' = (overflowed \/ room # clients) /\ UNCHANGED inbox
  /\ UNCHANGED <<vars, sent>>

\* Every client with room gets the message; if none does, the inbox.
TakeBroadcast ==
  /\ AtSelect
  /\ broadcast # <<>>
  /\ broadcast' = Tail(broadcast)
  /\ \E room \in SUBSET clients :
       /\ Deliver(Head(broadcast), room)
       /\ IF room = {}
          THEN /\ Enqueue(Head(broadcast))
               /\ overflowed' = (overflowed \/ clients # {} \/ Overflows)
          ELSE overflowed' = (overflowed \/ room # clients) /\ UNCHANGED inbox
  /\ UNCHANGED <<vars, sent>>

-----------------------------------------------------------------------------
(* The steps of Hub; a registration delivers. *)

Quietly(step) == step /\ UNCHANGED msgVars

RegisterAndFlush == TakeRegister /\ Flush(Head(registerQ))

MessagesNext ==
  \/ \E c \in Conns :
       \/ Quietly(Dial(c)) \/ Quietly(Register(c)) \/ Quietly(Connect(c))
       \/ Quietly(Pong(c)) \/ Quietly(ReadFails(c))
       \/ Quietly(Disconnect(c)) \/ Quietly(Unregister(c))
       \/ Quietly(Beat(c))
  \/ RegisterAndFlush \/ TakeBroadcast
  \/ Quietly(TakeUnregister) \/ Quietly(Tick)
  \/ Quietly(Fire) \/ Quietly(Callback) \/ Quietly(Expire)
  \/ Quietly(Revoke)
  \/ Send

MessagesSpec == MessagesInit /\ [][MessagesNext]_allVars

-----------------------------------------------------------------------------
(* Properties. *)

\* Until the channel, the inbox or the buffer of a client has been full, every message
\* sent either waits its turn or was put into the buffer of some connection of the
\* session, none is both, and the way through the inbox neither overtakes the way
\* through the channel nor leaves a gap: what waits are the latest messages, in
\* the order of their Sends; each connection got an unbroken run of the others,
\* up to the last of them for a client that got any.  The window on the PC counts
\* as a connection here: what it got while the phone was away is not queued for the phone.
NothingMissed ==
  LET given == sent - Len(Waiting) IN
  ~overflowed =>
    /\ \A i \in DOMAIN Waiting : Waiting[i] = given + i
    /\ UNION {got[c] : c \in Conns} = 1 .. given
    /\ \A c \in Conns : \A m, n \in got[c] : m .. n \subseteq got[c]
    /\ \A c \in clients : got[c] # {} => given \in got[c]

\* Until then the inbox holds messages only while nobody is registered: no message
\* waits for a reconnection while there is a client it could go to.
QueuedOnlyWhileOffline ==
  ~overflowed /\ inbox # <<>> => clients = {}

=============================================================================
