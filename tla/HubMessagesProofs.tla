------------------------- MODULE HubMessagesProofs --------------------------
(***************************************************************************)
(* Theorems about HubMessages for any connections, capacities and number   *)
(* of messages: the hub with its messages behaves as Hub, and as long as   *)
(* there is room every message waits or reached a connection, in order.    *)
(***************************************************************************)
EXTENDS HubMessages, HubProofs, SequenceTheorems

\* The number of messages that wait nowhere any more.
Given == sent - Len(inbox) - Len(broadcast)

\* What a connection got is an unbroken run of the messages that wait no more.
UnbrokenRun(c) ==
  /\ got[c] \subseteq 1 .. Given
  /\ \A m, n \in got[c] : m .. n \subseteq got[c]

OrderInv ==
    ~overflowed =>
        /\ \A i \in 1 .. Len(inbox) : inbox[i] = Given + i
        /\ \A i \in 1 .. Len(broadcast) : broadcast[i] = sent - Len(broadcast) + i
        /\ \A c \in Conns : UnbrokenRun(c)
        /\ \A m \in 1 .. Given : \E c \in Conns : m \in got[c]
        /\ \A c \in clients : got[c] # {} => Given \in got[c]

\* Only a connection that is or was a client got anything.
OnlyClientsGot == \A c \in Conns : got[c] # {} => c \in clients \cup closed

MInv == MessagesTypeOK /\ OrderInv /\ OnlyClientsGot /\ QueuedOnlyWhileOffline

-----------------------------------------------------------------------------
(* The hub with its messages implements the hub without. *)

LEMMA MessagesStepIsHubStep == [MessagesNext]_allVars => [Next]_vars
BY Zenon DEF MessagesNext, allVars, Next, Quietly, RegisterAndFlush, TakeBroadcast, Send

\* Whatever is sent, queued, flushed and delivered, clients, timers and presence
\* behave as in Hub: messages change none of its state.
THEOREM MessagesImplementHub == MessagesSpec => Spec
<1>1. MessagesInit => Init BY DEF MessagesInit
<1> QED BY <1>1, MessagesStepIsHubStep, PTL DEF MessagesSpec, Spec

\* Only a registration adds a client.
LEMMA ClientsAdded ==
  ASSUME TypeOK, [MessagesNext]_allVars
  PROVE  clients' \subseteq clients \/ RegisterAndFlush
BY DEF MessagesNext, allVars, vars, Quietly, Dial, Register, Connect, Pong, ReadFails,
       Disconnect, Unregister, Beat, TakeUnregister, Tick, Fire, Callback, Expire, Revoke,
       TakeBroadcast, Send, runVars

\* A connection that is or was a client remains one of the two.
LEMMA ClientsClose ==
  ASSUME TypeOK, [MessagesNext]_allVars
  PROVE  clients \cup closed \subseteq clients' \cup closed'
BY DEF MessagesNext, allVars, vars, Quietly, Dial, Register, Connect, Pong, ReadFails,
       Disconnect, Unregister, Beat, TakeRegister, TakeUnregister, Tick, Fire, Callback,
       Expire, Revoke, RegisterAndFlush, TakeBroadcast, Send, runVars

LEMMA MessageWriters ==
  [MessagesNext]_allVars =>
     UNCHANGED msgVars \/ Send \/ TakeBroadcast \/ RegisterAndFlush
BY Zenon DEF MessagesNext, allVars, Quietly

-----------------------------------------------------------------------------
(* Messages keep their order. *)

LEMMA CapsInNat == BroadcastCap \in Nat /\ InboxCap \in Nat /\ MaxSent \in Nat
BY MessagesAssumption

LEMMA InitMessages == MessagesInit => MInv
<1> SUFFICES ASSUME MessagesInit PROVE MInv OBVIOUS
<1> USE DEF MessagesInit, Init
<1>1. MessagesTypeOK
  <2>1. <<>> \in Seq(1 .. sent) /\ Len(<<>>) = 0 BY EmptySeq
  <2>2. [c \in Conns |-> {}] \in [Conns -> SUBSET (1 .. sent)] OBVIOUS
  <2>3. sent = 0 /\ broadcast = <<>> /\ inbox = <<>> /\ overflowed = FALSE
        /\ got = [c \in Conns |-> {}]
    OBVIOUS
  <2> HIDE DEF MessagesInit, Init
  <2>4. broadcast \in Seq(1 .. sent) /\ Len(broadcast) <= BroadcastCap
    BY <2>1, <2>3, CapsInNat
  <2>5. inbox \in Seq(1 .. sent) /\ Len(inbox) <= InboxCap + 1
    BY <2>1, <2>3, CapsInNat
  <2>6. sent \in 0 .. MaxSent BY <2>3, CapsInNat
  <2>7. got \in [Conns -> SUBSET (1 .. sent)] BY <2>2, <2>3
  <2>8. overflowed \in BOOLEAN BY <2>3
  <2> QED BY <2>4, <2>5, <2>6, <2>7, <2>8 DEF MessagesTypeOK
<1>2. OrderInv BY DEF OrderInv, UnbrokenRun, Given
<1>3. OnlyClientsGot BY DEF OnlyClientsGot
<1>4. QueuedOnlyWhileOffline BY DEF QueuedOnlyWhileOffline
<1> QED BY <1>1, <1>2, <1>3, <1>4 DEF MInv

\* A message that is queued comes last, and the oldest makes room if there is none.
LEMMA Queueing ==
  ASSUME NEW n \in Nat, inbox \in Seq(1 .. n), Len(inbox) <= InboxCap + 1,
         NEW m \in 1 .. n, Enqueue(m)
  PROVE  /\ inbox' \in Seq(1 .. n) /\ Len(inbox') <= InboxCap + 1
         /\ inbox' # <<>>
         /\ ~Overflows => /\ Len(inbox') = Len(inbox) + 1
                          /\ inbox'[Len(inbox')] = m
                          /\ \A i \in 1 .. Len(inbox) : inbox'[i] = inbox[i]
<1> DEFINE old == IF Len(inbox) > InboxCap THEN Tail(inbox) ELSE inbox
<1>1. old \in Seq(1 .. n) /\ Len(old) <= InboxCap
  <2>1. CASE Len(inbox) > InboxCap
    <3>1. inbox # <<>>
      <4>1. Len(<<>>) = 0 OBVIOUS
      <4> QED BY <2>1, <4>1, CapsInNat
    <3> QED BY <2>1, <3>1, CapsInNat, HeadTailProperties, LenProperties
  <2>2. CASE ~(Len(inbox) > InboxCap)
    BY <2>2, CapsInNat, LenProperties
  <2> QED BY <2>1, <2>2
<1>2. inbox' = Append(old, m) BY DEF Enqueue
<1>3. ~Overflows => old = inbox BY DEF Overflows
<1> HIDE DEF old
<1>4. /\ inbox' \in Seq(1 .. n) /\ inbox' # <<>>
      /\ Len(inbox') = Len(old) + 1
      /\ inbox'[Len(old) + 1] = m
      /\ \A i \in 1 .. Len(old) : inbox'[i] = old[i]
  BY <1>1, <1>2, AppendProperties
<1>5. Len(old) \in Nat BY <1>1, LenProperties
<1>6. Len(inbox') <= InboxCap + 1 BY <1>1, <1>4, <1>5, CapsInNat
<1>7. CASE Overflows BY <1>4, <1>6, <1>7
<1>8. CASE ~Overflows
  <2>1. old = inbox BY <1>3, <1>8
  <2> QED BY <1>4, <1>6, <2>1
<1> QED BY <1>7, <1>8

LEMMA SendStep == MInv /\ Send => MInv'
<1> SUFFICES ASSUME MInv, Send PROVE MInv' OBVIOUS
<1> USE DEF MInv, MessagesTypeOK
<1>1. /\ sent \in Nat /\ sent' = sent + 1 /\ sent' \in 0 .. MaxSent
      /\ UNCHANGED <<got, clients, closed>>
  BY CapsInNat DEF Send, vars
<1>2. inbox \in Seq(1 .. sent') /\ broadcast \in Seq(1 .. sent')
  <2>1. 1 .. sent \subseteq 1 .. sent' BY <1>1
  <2> QED BY <2>1, SeqMonotonic
<1>3. got' \in [Conns -> SUBSET (1 .. sent')]
  <2>1. 1 .. sent \subseteq 1 .. sent' BY <1>1
  <2> QED BY <1>1, <2>1
<1>9. OnlyClientsGot' BY <1>1 DEF OnlyClientsGot
<1>4. CASE Len(broadcast) < BroadcastCap
  <2>1. broadcast' = Append(broadcast, sent') /\ UNCHANGED <<inbox, overflowed>>
    BY <1>1, <1>4 DEF Send
  <2>2. /\ broadcast' \in Seq(1 .. sent')
        /\ Len(broadcast') = Len(broadcast) + 1
        /\ broadcast'[Len(broadcast) + 1] = sent'
        /\ \A i \in 1 .. Len(broadcast) : broadcast'[i] = broadcast[i]
    BY <1>1, <1>2, <2>1, AppendProperties
  <2>3. Len(broadcast) \in Nat /\ Len(inbox) \in Nat BY LenProperties
  <2>4. MessagesTypeOK'
    BY <1>1, <1>2, <1>3, <1>4, <2>1, <2>2, <2>3, CapsInNat
  <2>5. OrderInv'
    <3>1. Given' = Given BY <1>1, <2>1, <2>2, <2>3 DEF Given
    <3>2. ~overflowed => \A i \in 1 .. Len(broadcast') :
            broadcast'[i] = sent' - Len(broadcast') + i
      <4> SUFFICES ASSUME ~overflowed, NEW i \in 1 .. Len(broadcast')
                   PROVE  broadcast'[i] = sent' - Len(broadcast') + i
        OBVIOUS
      <4>1. CASE i = Len(broadcast) + 1 BY <1>1, <2>2, <2>3, <4>1
      <4>2. CASE i \in 1 .. Len(broadcast)
        <5>1. broadcast[i] = sent - Len(broadcast) + i BY <4>2 DEF OrderInv
        <5> QED BY <1>1, <2>2, <2>3, <4>2, <5>1
      <4> QED BY <2>2, <2>3, <4>1, <4>2
    <3> QED BY <1>1, <2>1, <3>1, <3>2 DEF OrderInv, UnbrokenRun
  <2>6. QueuedOnlyWhileOffline' BY <1>1, <2>1 DEF QueuedOnlyWhileOffline
  <2> QED BY <1>9, <2>4, <2>5, <2>6
<1>5. CASE ~(Len(broadcast) < BroadcastCap)
  <2>1. Enqueue(sent') /\ overflowed' = TRUE /\ UNCHANGED broadcast
    BY <1>1, <1>5 DEF Send
  <2>2. inbox' \in Seq(1 .. sent') /\ Len(inbox') <= InboxCap + 1
    BY <1>1, <1>2, <2>1, Queueing
  <2>3. MessagesTypeOK' BY <1>1, <1>2, <1>3, <2>1, <2>2
  <2> QED BY <1>9, <2>1, <2>3 DEF OrderInv, QueuedOnlyWhileOffline
<1> QED BY <1>4, <1>5

\* The queue holds the messages that come after all that were given.
LEMMA OrderedInbox ==
  ASSUME MInv, ~overflowed
  PROVE  Queued = Given + 1 .. Given + Len(inbox)
<1>1. inbox \in Seq(1 .. sent) /\ Len(inbox) \in Nat /\ Given \in Int
  BY LenProperties, CapsInNat DEF MInv, MessagesTypeOK, Given
<1>2. \A i \in 1 .. Len(inbox) : inbox[i] = Given + i BY DEF MInv, OrderInv
<1>3. DOMAIN inbox = 1 .. Len(inbox) BY <1>1, LenProperties
<1>4. ASSUME NEW m \in Given + 1 .. Given + Len(inbox) PROVE m \in Queued
  <2>1. m - Given \in 1 .. Len(inbox) BY <1>1
  <2>2. inbox[m - Given] = m BY <1>1, <1>2, <2>1
  <2> QED BY <1>3, <2>1, <2>2 DEF Queued
<1>5. ASSUME NEW m \in Queued PROVE m \in Given + 1 .. Given + Len(inbox)
  BY <1>1, <1>2, <1>3 DEF Queued
<1> QED BY <1>4, <1>5

\* A registration flushes the inbox to the client, which got nothing before.
LEMMA FlushStep == MInv /\ IInv /\ RegisterAndFlush => MInv'
<1> SUFFICES ASSUME MInv, IInv, RegisterAndFlush PROVE MInv' OBVIOUS
<1> USE DEF MInv, MessagesTypeOK
<1> DEFINE new == Head(registerQ)
<1>1. new \in Conns /\ new \notin clients \cup closed
  <2>1. registerQ # <<>> /\ registerQ \in Seq(Conns)
    BY DEF RegisterAndFlush, TakeRegister, IInv, TypeOK
  <2>2. 1 \in 1 .. Len(registerQ) /\ new = registerQ[1]
    BY <2>1, HeadTailProperties, LenProperties, EmptySeq
  <2> QED BY <2>1, <2>2, HeadTailProperties DEF IInv, RegisterInv
<1>2. got[new] = {} BY <1>1 DEF OnlyClientsGot
<1>3. PICK taken \in SUBSET Queued :
        /\ got' = [got EXCEPT ![new] = @ \cup taken]
        /\ overflowed' = (overflowed \/ taken # Queued)
  BY DEF RegisterAndFlush, Flush
<1>4. /\ inbox' = <<>> /\ UNCHANGED <<broadcast, sent, closed>>
      /\ clients' = clients \cup {new}
  BY DEF RegisterAndFlush, TakeRegister, Flush
<1>5. Queued \subseteq 1 .. sent BY ElementOfSeq, LenProperties DEF Queued
<1> HIDE DEF new
<1>6. /\ \A c \in Conns \ {new} : got'[c] = got[c]
      /\ got'[new] = taken
      /\ got' \in [Conns -> SUBSET (1 .. sent)]
  BY <1>1, <1>2, <1>3, <1>5
<1>7. MessagesTypeOK'
  <2>1. inbox' \in Seq(1 .. sent') /\ Len(inbox') = 0 BY <1>4, EmptySeq
  <2>2. overflowed' \in BOOLEAN BY <1>3
  <2> QED BY <1>4, <1>6, <2>1, <2>2, CapsInNat
<1>8. OrderInv'
  <2> SUFFICES ASSUME ~overflowed' PROVE OrderInv' BY DEF OrderInv
  <2>1. ~overflowed /\ taken = Queued BY <1>3
  <2>2. /\ Len(inbox) \in Nat /\ Given \in Int
        /\ Len(inbox') = 0 /\ Given' = Given + Len(inbox)
    <3>1. Len(broadcast) \in Nat /\ Len(inbox) \in Nat /\ sent \in Nat
      BY LenProperties, CapsInNat
    <3> QED BY <1>4, <3>1, EmptySeq DEF Given
  <2>3. /\ \A i \in 1 .. Len(broadcast') : broadcast'[i] = sent' - Len(broadcast') + i
        /\ \A c \in Conns : UnbrokenRun(c)
        /\ \A m \in 1 .. Given : \E c \in Conns : m \in got[c]
        /\ \A c \in clients : got[c] # {} => Given \in got[c]
    BY <1>4, <2>1 DEF OrderInv
  <2>4. taken = Given + 1 .. Given + Len(inbox) BY <2>1, OrderedInbox
  <2>5. Given \in Nat /\ Given' \in Nat
    <3>1. Given >= 0
      <4>1. CASE inbox = <<>>
        <5>1. CASE broadcast = <<>>
          BY <4>1, <5>1, EmptySeq, CapsInNat DEF Given
        <5>2. CASE broadcast # <<>>
          <6>1. Len(broadcast) \in Nat \ {0} BY <5>2, LenProperties, EmptySeq
          <6>2. broadcast[1] \in 1 .. sent BY <6>1, ElementOfSeq
          <6>3. broadcast[1] = sent - Len(broadcast) + 1
            BY <2>1, <6>1 DEF OrderInv
          <6> QED BY <4>1, <6>1, <6>2, <6>3, EmptySeq, CapsInNat DEF Given
        <5> QED BY <5>1, <5>2
      <4>2. CASE inbox # <<>>
        <5>1. Len(inbox) \in Nat \ {0} BY <4>2, LenProperties, EmptySeq
        <5>2. Given + 1 \in Queued BY <2>1, <2>2, <2>4, <5>1
        <5> QED BY <1>5, <2>2, <5>2, CapsInNat
      <4> QED BY <4>1, <4>2
    <3> QED BY <2>2, <3>1
  <2>6. ASSUME NEW c \in Conns PROVE UnbrokenRun(c)'
    <3>1. CASE c = new
      BY <1>6, <2>2, <2>4, <2>5, <3>1 DEF UnbrokenRun
    <3>2. CASE c # new
      <4>1. UnbrokenRun(c) /\ got'[c] = got[c] BY <1>6, <2>3, <3>2
      <4>2. 1 .. Given \subseteq 1 .. Given' BY <2>2, <2>5
      <4> QED BY <4>1, <4>2 DEF UnbrokenRun
    <3> QED BY <3>1, <3>2
  <2>7. ASSUME NEW m \in 1 .. Given' PROVE \E c \in Conns : m \in got'[c]
    <3>1. CASE m \in 1 .. Given
      <4>1. PICK c \in Conns : m \in got[c] BY <2>3, <3>1
      <4> QED BY <1>2, <1>6, <4>1
    <3>2. CASE m \notin 1 .. Given
      BY <1>1, <1>6, <2>2, <2>4, <2>5, <3>2
    <3> QED BY <3>1, <3>2
  <2>8. ASSUME NEW c \in clients', got'[c] # {} PROVE Given' \in got'[c]
    <3>1. CASE c = new
      <4>1. taken # {} BY <1>6, <2>8, <3>1
      <4>2. Given + Len(inbox) \in taken BY <2>2, <2>4, <4>1
      <4> QED BY <1>6, <2>2, <3>1, <4>2
    <3>2. CASE c # new
      <4>1. c \in clients /\ c \in Conns BY <1>4, <2>8, <3>2 DEF IInv, TypeOK
      <4>2. Given \in got'[c] BY <1>6, <2>3, <2>8, <3>2, <4>1
      <4>3. inbox = <<>> BY <2>1, <4>1 DEF QueuedOnlyWhileOffline
      <4>4. Given' = Given BY <2>2, <4>3, EmptySeq
      <4> QED BY <4>2, <4>4
    <3> QED BY <3>1, <3>2
  <2> QED BY <2>2, <2>3, <2>6, <2>7, <2>8 DEF OrderInv
<1>9. OnlyClientsGot' BY <1>4, <1>6 DEF OnlyClientsGot
<1>10. QueuedOnlyWhileOffline' BY <1>4 DEF QueuedOnlyWhileOffline
<1> QED BY <1>7, <1>8, <1>9, <1>10

\* Run hands the next message on, or queues it.
LEMMA TakeStep == MInv /\ IInv /\ TakeBroadcast => MInv'
<1> SUFFICES ASSUME MInv, IInv, TakeBroadcast PROVE MInv' OBVIOUS
<1> USE DEF MInv, MessagesTypeOK
<1> DEFINE m == Head(broadcast)
<1>1. /\ broadcast # <<>> /\ broadcast' = Tail(broadcast)
      /\ UNCHANGED <<sent, clients, closed>>
  BY DEF TakeBroadcast, vars
<1>2. /\ m \in 1 .. sent /\ m = broadcast[1]
      /\ broadcast' \in Seq(1 .. sent)
      /\ Len(broadcast) \in Nat \ {0} /\ Len(broadcast') = Len(broadcast) - 1
      /\ \A i \in 1 .. Len(broadcast') : broadcast'[i] = broadcast[i + 1]
  BY <1>1, HeadTailProperties, LenProperties, EmptySeq
<1>3. sent \in Nat /\ Len(inbox) \in Nat BY CapsInNat, LenProperties
<1>4. PICK room \in SUBSET clients :
        /\ Deliver(m, room)
        /\ IF room = {}
           THEN /\ Enqueue(m)
                /\ overflowed' = (overflowed \/ clients # {} \/ Overflows)
           ELSE overflowed' = (overflowed \/ room # clients) /\ UNCHANGED inbox
  BY DEF TakeBroadcast
<1> HIDE DEF m
<1>5. got' = [c \in Conns |-> IF c \in room THEN got[c] \cup {m} ELSE got[c]]
  BY <1>4 DEF Deliver
<1>6. got' \in [Conns -> SUBSET (1 .. sent)] BY <1>2, <1>5
<1>11. OnlyClientsGot' BY <1>1, <1>4, <1>5 DEF OnlyClientsGot
<1>7. ~overflowed => \A i \in 1 .. Len(broadcast') :
        broadcast'[i] = sent' - Len(broadcast') + i
  <2> SUFFICES ASSUME ~overflowed, NEW i \in 1 .. Len(broadcast')
               PROVE  broadcast'[i] = sent' - Len(broadcast') + i
    OBVIOUS
  <2>1. i + 1 \in 1 .. Len(broadcast) BY <1>2
  <2>2. broadcast[i + 1] = sent - Len(broadcast) + (i + 1) BY <2>1 DEF OrderInv
  <2> QED BY <1>1, <1>2, <1>3, <2>2
<1>8. ~overflowed => m = sent - Len(broadcast) + 1 BY <1>2 DEF OrderInv
<1>9. CASE room = {}
  <2>1. Enqueue(m) /\ overflowed' = (overflowed \/ clients # {} \/ Overflows)
    BY <1>4, <1>9
  <2>2. /\ inbox' \in Seq(1 .. sent) /\ Len(inbox') <= InboxCap + 1
        /\ ~Overflows => /\ Len(inbox') = Len(inbox) + 1
                         /\ inbox'[Len(inbox')] = m
                         /\ \A i \in 1 .. Len(inbox) : inbox'[i] = inbox[i]
    BY <1>2, <1>3, <2>1, Queueing
  <2>3. got' = got BY <1>5, <1>9
  <2>4. overflowed' \in BOOLEAN BY <2>1
  <2>5. MessagesTypeOK' BY <1>1, <1>2, <1>6, <2>2, <2>4, CapsInNat
  <2>6. OrderInv'
    <3> SUFFICES ASSUME ~overflowed' PROVE OrderInv' BY DEF OrderInv
    <3>1. ~overflowed /\ ~Overflows BY <2>1
    <3>2. /\ Len(inbox') = Len(inbox) + 1 /\ inbox'[Len(inbox')] = m
          /\ \A i \in 1 .. Len(inbox) : inbox'[i] = inbox[i]
      BY <2>2, <3>1
    <3>3. Given' = Given
      <4> HIDE DEF MInv, MessagesTypeOK
      <4> QED BY <1>1, <1>2, <1>3, <3>2 DEF Given
    <3>4. ASSUME NEW i \in 1 .. Len(inbox') PROVE inbox'[i] = Given + i
      <4>1. CASE i = Len(inbox')
        <5>1. m = sent - Len(broadcast) + 1 BY <1>8, <3>1
        <5> HIDE DEF MInv, MessagesTypeOK
        <5> QED BY <1>2, <1>3, <3>2, <4>1, <5>1 DEF Given
      <4>2. CASE i \in 1 .. Len(inbox) BY <3>1, <3>2, <4>2 DEF OrderInv
      <4> QED BY <1>3, <3>2, <4>1, <4>2
    <3> QED BY <1>1, <1>7, <2>3, <3>1, <3>3, <3>4 DEF OrderInv, UnbrokenRun
  <2>7. QueuedOnlyWhileOffline' BY <1>1, <2>1 DEF QueuedOnlyWhileOffline
  <2> QED BY <1>11, <2>5, <2>6, <2>7
<1>10. CASE room # {}
  <2>1. UNCHANGED inbox /\ overflowed' = (overflowed \/ room # clients)
    BY <1>4, <1>10
  <2>2. MessagesTypeOK' BY <1>1, <1>2, <1>6, <2>1, CapsInNat
  <2>3. OrderInv'
    <3> SUFFICES ASSUME ~overflowed' PROVE OrderInv' BY DEF OrderInv
    <3>1. ~overflowed /\ room = clients BY <2>1
    <3>2. inbox = <<>> BY <1>10, <3>1 DEF QueuedOnlyWhileOffline
    <3>3. Len(inbox) = 0 BY <3>2
    <3>4. Given' = m /\ Given = m - 1 /\ m \in Nat \ {0}
      BY <1>1, <1>2, <1>3, <1>8, <2>1, <3>1, <3>3 DEF Given
    <3>5. /\ \A c \in Conns : UnbrokenRun(c)
          /\ \A k \in 1 .. m - 1 : \E c \in Conns : k \in got[c]
          /\ \A c \in clients : got[c] # {} => m - 1 \in got[c]
          /\ clients \subseteq Conns
      BY <3>1, <3>4 DEF OrderInv, IInv, TypeOK
    <3>6. \A c \in Conns : got'[c] = IF c \in clients THEN got[c] \cup {m} ELSE got[c]
      BY <1>5, <3>1
    <3>7. ASSUME NEW c \in Conns PROVE UnbrokenRun(c)'
      <4>1. got[c] \subseteq 1 .. m - 1 /\ \A k, n \in got[c] : k .. n \subseteq got[c]
        BY <3>4, <3>5 DEF UnbrokenRun
      <4>2. CASE c \notin clients
        <5>1. got'[c] = got[c] BY <3>6, <4>2
        <5>2. 1 .. m - 1 \subseteq 1 .. m BY <3>4
        <5> QED BY <3>4, <4>1, <5>1, <5>2 DEF UnbrokenRun
      <4>3. CASE c \in clients
        <5>1. got'[c] = got[c] \cup {m} BY <3>6, <4>3
        <5>2. got'[c] \subseteq 1 .. m BY <3>4, <4>1, <5>1
        <5>3. ASSUME NEW k \in got'[c], NEW n \in got'[c], NEW l \in k .. n
              PROVE  l \in got'[c]
          <6>1. CASE l = m BY <5>1, <6>1
          <6>2. CASE l # m
            <7>1. k \in 1 .. m /\ n \in 1 .. m BY <5>2
            <7>2. k \in got[c] BY <3>4, <5>1, <6>2, <7>1
            <7>3. m - 1 \in got[c] BY <3>5, <4>3, <7>2
            <7>4. l \in k .. m - 1 BY <3>4, <6>2, <7>1
            <7>5. l \in got[c] BY <4>1, <7>2, <7>3, <7>4
            <7> QED BY <5>1, <7>5
          <6> QED BY <6>1, <6>2
        <5> QED BY <3>4, <5>2, <5>3 DEF UnbrokenRun
      <4> QED BY <4>2, <4>3
    <3>8. ASSUME NEW k \in 1 .. m PROVE \E c \in Conns : k \in got'[c]
      <4>1. CASE k = m
        <5>1. PICK c \in clients : c \in Conns BY <1>10, <3>1, <3>5
        <5> QED BY <3>6, <4>1, <5>1
      <4>2. CASE k # m
        <5>1. k \in 1 .. m - 1 BY <3>4, <4>2
        <5>2. PICK c \in Conns : k \in got[c] BY <3>5, <5>1
        <5> QED BY <3>6, <5>2
      <4> QED BY <4>1, <4>2
    <3>9. \A c \in clients' : m \in got'[c] BY <1>1, <3>5, <3>6
    <3>10. \A i \in 1 .. Len(inbox') : inbox'[i] = Given' + i BY <2>1, <3>3
    <3>11. \A k \in 1 .. Given' : \E c \in Conns : k \in got'[c] BY <3>4, <3>8
    <3>12. \A c \in clients' : Given' \in got'[c] BY <3>4, <3>9
    <3> HIDE DEF MInv, MessagesTypeOK
    <3> QED BY <1>7, <3>1, <3>7, <3>10, <3>11, <3>12 DEF OrderInv
  <2>4. QueuedOnlyWhileOffline' BY <1>1, <2>1 DEF QueuedOnlyWhileOffline
  <2> QED BY <1>11, <2>2, <2>3, <2>4
<1> QED BY <1>9, <1>10

LEMMA QuietStep ==
  ASSUME MInv, UNCHANGED msgVars, clients' \subseteq clients,
         clients \cup closed \subseteq clients' \cup closed'
  PROVE  MInv'
<1>1. UNCHANGED <<broadcast, inbox, sent, got, overflowed>> BY DEF msgVars
<1>2. MessagesTypeOK' BY <1>1 DEF MInv, MessagesTypeOK
<1>3. OrderInv' BY <1>1 DEF MInv, OrderInv, UnbrokenRun, Given
<1>4. OnlyClientsGot' BY <1>1 DEF MInv, OnlyClientsGot
<1>5. QueuedOnlyWhileOffline' BY <1>1 DEF MInv, QueuedOnlyWhileOffline
<1> QED BY <1>2, <1>3, <1>4, <1>5 DEF MInv

LEMMA MessagesStep == MInv /\ IInv /\ [MessagesNext]_allVars => MInv'
<1>1. IInv => TypeOK BY DEF IInv
<1> QED BY <1>1, SendStep, FlushStep, TakeStep, QuietStep, ClientsAdded, ClientsClose,
           MessageWriters

LEMMA MessagesHold == MessagesSpec => []MInv
<1>1. MessagesSpec => []IInv BY MessagesImplementHub, HubInvariant, PTL
<1> QED BY <1>1, InitMessages, MessagesStep, PTL DEF MessagesSpec

\* Type correctness: the channel and the inbox stay within their capacities, and no client
\* was ever given a message that was not sent.
THEOREM MessagesTypeCorrect == MessagesSpec => []MessagesTypeOK
<1>1. MInv => MessagesTypeOK BY DEF MInv
<1> QED BY <1>1, MessagesHold, PTL

\* As long as no queue and no buffer has been full, each message that was sent waits or was
\* put into the buffer of a connection, not both; what waits is in order, and what
\* a connection got, flushed from the inbox or straight from the channel, has no gap.
THEOREM NoMessageMissed == MessagesSpec => []NothingMissed
<1>1. MInv => NothingMissed
  <2> SUFFICES ASSUME MInv, ~overflowed
               PROVE  /\ \A i \in DOMAIN Waiting : Waiting[i] = (sent - Len(Waiting)) + i
                      /\ UNION {got[c] : c \in Conns} = 1 .. (sent - Len(Waiting))
                      /\ \A c \in Conns : \A m, n \in got[c] : m .. n \subseteq got[c]
                      /\ \A c \in clients : got[c] # {} => (sent - Len(Waiting)) \in got[c]
    BY DEF NothingMissed
  <2>1. inbox \in Seq(1 .. sent) /\ broadcast \in Seq(1 .. sent)
    BY DEF MInv, MessagesTypeOK
  <2>2. Len(inbox) \in Nat /\ Len(broadcast) \in Nat /\ sent \in Nat
    BY <2>1, LenProperties, CapsInNat DEF MInv, MessagesTypeOK
  <2>3. /\ Waiting \in Seq(1 .. sent)
        /\ Len(Waiting) = Len(inbox) + Len(broadcast)
        /\ \A i \in 1 .. Len(Waiting) :
             Waiting[i] = IF i <= Len(inbox) THEN inbox[i] ELSE broadcast[i - Len(inbox)]
    BY <2>1, ConcatProperties DEF Waiting
  <2>4. sent - Len(Waiting) = Given BY <2>2, <2>3 DEF Given
  <2>5. ASSUME NEW i \in DOMAIN Waiting PROVE Waiting[i] = Given + i
    <3>1. i \in 1 .. Len(Waiting) BY <2>3, LenProperties
    <3>2. CASE i <= Len(inbox)
      <4>1. i \in 1 .. Len(inbox) BY <2>2, <3>1, <3>2, <2>3
      <4>2. inbox[i] = Given + i BY <4>1 DEF MInv, OrderInv
      <4> QED BY <2>3, <3>1, <3>2, <4>2
    <3>3. CASE ~(i <= Len(inbox))
      <4>1. i - Len(inbox) \in 1 .. Len(broadcast) BY <2>2, <2>3, <3>1, <3>3
      <4>2. broadcast[i - Len(inbox)] = sent - Len(broadcast) + (i - Len(inbox))
        BY <4>1 DEF MInv, OrderInv
      <4> QED BY <2>2, <2>3, <3>1, <3>3, <4>2 DEF Given
    <3> QED BY <3>2, <3>3
  <2>6. /\ \A c \in Conns : got[c] \subseteq 1 .. Given
        /\ \A c \in Conns : \A m, n \in got[c] : m .. n \subseteq got[c]
        /\ \A m \in 1 .. Given : \E c \in Conns : m \in got[c]
        /\ \A c \in clients : got[c] # {} => Given \in got[c]
    BY DEF MInv, OrderInv, UnbrokenRun
  <2>7. UNION {got[c] : c \in Conns} = 1 .. Given BY <2>6
  <2> QED BY <2>4, <2>5, <2>6, <2>7
<1> QED BY <1>1, MessagesHold, PTL

\* Until then no message waits in the inbox while there is a client it could go to.
THEOREM OfflineQueueOnly == MessagesSpec => []QueuedOnlyWhileOffline
<1>1. MInv => QueuedOnlyWhileOffline BY DEF MInv
<1> QED BY <1>1, MessagesHold, PTL
=============================================================================
