----------------------------- MODULE HubProofs ------------------------------
(***************************************************************************)
(* Theorems about Hub for any finite set of connections, any of them local,*)
(* and any capacities: clients and their channels, the grace timer and the *)
(* presence map stay consistent in every order the select of Run and the   *)
(* goroutines around it may take.                                          *)
(***************************************************************************)
EXTENDS Hub, FiniteSetTheorems, TLAPS

\* Each connection is put on register once, before it can be a client, and its
\* channel is not closed before.
Comes(c) == pc[c] \notin {"new", "register"}

RegisterInv ==
  /\ \A i \in 1..Len(registerQ) :
       Comes(registerQ[i]) /\ registerQ[i] \notin clients \cup closed
  /\ \A i, j \in 1..Len(registerQ) : registerQ[i] = registerQ[j] => i = j
  /\ \A c \in clients \cup closed : Comes(c)

IInv ==
  /\ TypeOK
  /\ RegisterInv
  /\ OpenWhileRegistered
  /\ TimerMeansNoPhone
  /\ LeavingIsCovered
  /\ PresenceIsReal

-----------------------------------------------------------------------------
(* What steps leave alone. *)

\* All that the parts of IInv other than TypeOK and PresenceIsReal look at,
\* except registerQ.
runState == <<clients, closed, slot, lost, expiring, unsettled>>

\* A connection that goes on without touching Run's state keeps RegisterInv and
\* what it says of the others.
LEMMA KeepsRegisterInv ==
  ASSUME RegisterInv, TypeOK, UNCHANGED <<registerQ, clients, closed>>,
         \A c \in Conns : Comes(c) => Comes(c)'
  PROVE  RegisterInv'
<1>1. \A i \in 1..Len(registerQ) : registerQ[i] \in Conns BY DEF TypeOK
<1>2. clients \cup closed \subseteq Conns BY DEF TypeOK
<1> QED BY <1>1, <1>2 DEF RegisterInv

\* The three parts about Run and the timers look at nothing else.
LEMMA KeepsRunParts ==
  ASSUME OpenWhileRegistered, TimerMeansNoPhone, LeavingIsCovered,
         UNCHANGED runState
  PROVE  OpenWhileRegistered' /\ TimerMeansNoPhone' /\ LeavingIsCovered'
BY DEF OpenWhileRegistered, TimerMeansNoPhone, LeavingIsCovered, runState, Phones

-----------------------------------------------------------------------------
(* The steps of a connection. *)

\* The initial state.
LEMMA InitInv == Init => IInv
<1> SUFFICES ASSUME Init PROVE IInv OBVIOUS
<1> USE DEF Init
<1>1. TypeOK
  <2>1. registerQ \in Seq(Conns) /\ Len(registerQ) <= RegisterCap
    BY CapsAssumption
  <2>2. unregisterQ \in Seq(Conns) /\ Len(unregisterQ) <= UnregisterCap
    BY CapsAssumption
  <2>3. pc \in [Conns -> Control] BY DEF Control
  <2> QED BY <2>1, <2>2, <2>3 DEF TypeOK
<1>2. RegisterInv BY DEF RegisterInv
<1>3. OpenWhileRegistered /\ TimerMeansNoPhone /\ LeavingIsCovered
  BY DEF OpenWhileRegistered, TimerMeansNoPhone, LeavingIsCovered
<1>4. PresenceIsReal BY DEF PresenceIsReal
<1> QED BY <1>1, <1>2, <1>3, <1>4 DEF IInv

\* Steps of a connection that change neither a channel nor Run's state.
LEMMA LocalSteps ==
  ASSUME IInv, NEW c \in Conns,
         Dial(c) \/ Connect(c) \/ Pong(c) \/ ReadFails(c) \/ Disconnect(c)
  PROVE  IInv'
<1>1. UNCHANGED <<registerQ, unregisterQ, clients, closed, beating, slot, lost,
                  expiring, unsettled, valid, shut>>
  BY Zenon DEF Dial, Connect, Pong, ReadFails, Disconnect, runVars, graceVars
<1> USE DEF IInv
<1>2. /\ pc' \in [Conns -> Control] /\ missed' \in [Conns -> Nat]
      /\ online' \in BOOLEAN
  <2>1. CASE Dial(c) BY <2>1 DEF Dial, TypeOK, Control, Goto
  <2>2. CASE Connect(c) BY <2>2 DEF Connect, TypeOK, Control, Goto
  <2>3. CASE Pong(c) BY <2>3 DEF Pong, TypeOK
  <2>4. CASE ReadFails(c) BY <2>4 DEF ReadFails, TypeOK, Control, Goto
  <2>5. CASE Disconnect(c) BY <2>5 DEF Disconnect, TypeOK, Control, Goto
  <2> QED BY <2>1, <2>2, <2>3, <2>4, <2>5
<1>3. TypeOK' BY <1>1, <1>2 DEF TypeOK, Phones
<1>4. \A d \in Conns : Comes(d) => Comes(d)'
  BY DEF Dial, Connect, Pong, ReadFails, Disconnect, TypeOK, Goto, Comes
<1>5. RegisterInv' BY <1>1, <1>4, KeepsRegisterInv
<1>6. OpenWhileRegistered' /\ TimerMeansNoPhone' /\ LeavingIsCovered'
  BY <1>1, KeepsRunParts DEF runState
<1>7. PresenceIsReal'
  <2>1. CASE Connect(c)
    BY <2>1, ConnsAssumption DEF Connect, PresenceIsReal, Goto, Phones, TypeOK
  <2>2. CASE Disconnect(c)
    BY <2>2, ConnsAssumption DEF Disconnect, PresenceIsReal, Goto, Phones, TypeOK
  <2>3. CASE Dial(c) \/ Pong(c) \/ ReadFails(c)
    BY <2>3 DEF Dial, Pong, ReadFails, PresenceIsReal, Goto, Phones, TypeOK
  <2> QED BY <2>1, <2>2, <2>3
<1> QED BY <1>3, <1>5, <1>6, <1>7

\* A connection is put on register.
LEMMA RegisterStep ==
  ASSUME IInv, NEW c \in Conns, Register(c)
  PROVE  IInv'
<1> USE DEF IInv, Register, Goto
<1>1. UNCHANGED <<unregisterQ, clients, closed, beating, slot, lost, expiring,
                  unsettled, shut, missed, valid, online>>
  BY DEF graceVars
<1>2. /\ pc[c] = "register"
      /\ \A d \in Conns : pc'[d] = IF d = c THEN "connect" ELSE pc[d]
      /\ pc' \in [Conns -> Control]
  BY DEF TypeOK, Control
<1>3. /\ registerQ' \in Seq(Conns)
      /\ Len(registerQ') = Len(registerQ) + 1
      /\ registerQ'[Len(registerQ) + 1] = c
      /\ \A i \in 1..Len(registerQ) : registerQ'[i] = registerQ[i]
      /\ \A i \in 1..Len(registerQ) : registerQ[i] \in Conns
      /\ Len(registerQ) \in Nat
  BY DEF TypeOK
<1>4. Len(registerQ') <= RegisterCap
  BY <1>3, CapsAssumption
<1>5. TypeOK' BY <1>1, <1>2, <1>3, <1>4 DEF TypeOK, Phones
<1>6. RegisterInv'
  <2>1. c \notin clients \cup closed
    BY <1>2 DEF RegisterInv, Comes
  <2>2. \A i \in 1..Len(registerQ) : registerQ[i] # c
    BY <1>2 DEF RegisterInv, Comes
  <2>3. \A d \in Conns : Comes(d) => Comes(d)'
    BY <1>2 DEF Comes
  <2>4. Comes(c)' BY <1>2 DEF Comes
  <2>5. \A i \in 1..Len(registerQ') :
          Comes(registerQ[i])' /\ registerQ'[i] \notin clients' \cup closed'
    <3>1. ASSUME NEW i \in 1..Len(registerQ)
          PROVE  Comes(registerQ[i])' /\ registerQ'[i] \notin clients' \cup closed'
      BY <1>1, <1>3, <2>3 DEF RegisterInv, Comes
    <3>2. CASE Len(registerQ') = Len(registerQ) + 1
      BY <1>1, <1>3, <2>1, <2>4, <3>1 DEF Comes
    <3> QED BY <1>3, <3>2
  <2>6. \A i, j \in 1..Len(registerQ') : registerQ'[i] = registerQ'[j] => i = j
    BY <1>3, <2>2 DEF RegisterInv
  <2>7. \A d \in clients' \cup closed' : Comes(d)'
    BY <1>1, <2>3 DEF RegisterInv, TypeOK, Comes
  <2> QED BY <2>5, <2>6, <2>7 DEF RegisterInv
<1>7. OpenWhileRegistered' /\ TimerMeansNoPhone' /\ LeavingIsCovered'
  BY <1>1, KeepsRunParts DEF runState
<1>8. PresenceIsReal' BY <1>1, <1>2 DEF PresenceIsReal, Phones
<1> QED BY <1>5, <1>6, <1>7, <1>8

\* A connection that has ended is put on unregister.
LEMMA UnregisterStep ==
  ASSUME IInv, NEW c \in Conns, Unregister(c)
  PROVE  IInv'
<1> USE DEF IInv, Unregister, Goto
<1>1. UNCHANGED <<registerQ, clients, closed, beating, slot, lost, expiring,
                  unsettled, shut, missed, valid, online>>
  BY DEF graceVars
<1>2. /\ pc[c] = "unregister"
      /\ \A d \in Conns : pc'[d] = IF d = c THEN "gone" ELSE pc[d]
      /\ pc' \in [Conns -> Control]
  BY DEF TypeOK, Control
<1>3. unregisterQ' \in Seq(Conns) /\ Len(unregisterQ') <= UnregisterCap
  BY CapsAssumption DEF TypeOK
<1>4. TypeOK' BY <1>1, <1>2, <1>3 DEF TypeOK, Phones
<1>5. \A d \in Conns : Comes(d) => Comes(d)' BY <1>2 DEF Comes
<1>6. RegisterInv' BY <1>1, <1>5, KeepsRegisterInv
<1>7. OpenWhileRegistered' /\ TimerMeansNoPhone' /\ LeavingIsCovered'
  BY <1>1, KeepsRunParts DEF runState
<1>8. PresenceIsReal' BY <1>1, <1>2 DEF PresenceIsReal, Phones
<1> QED BY <1>4, <1>6, <1>7, <1>8

-----------------------------------------------------------------------------
(* The steps of Run. *)

\* Run takes a registration: the client was not one before, nor is its channel
\* closed.
LEMMA TakeRegisterStep == IInv /\ TakeRegister => IInv'
<1> SUFFICES ASSUME IInv, TakeRegister PROVE IInv' OBVIOUS
<1> USE DEF IInv, TakeRegister
<1> DEFINE c == Head(registerQ)
<1>1. UNCHANGED <<pc, shut, missed, valid, online, unregisterQ, closed, beating,
                  expiring>>
  BY DEF connVars
<1>2. /\ clients' = clients \cup {c}
      /\ unsettled' = unsettled \cup ({c} \cap Phones)
  OBVIOUS
<1>3. /\ c \in Conns /\ c = registerQ[1] /\ 1 \in 1..Len(registerQ)
      /\ registerQ' \in Seq(Conns)
      /\ Len(registerQ') = Len(registerQ) - 1 /\ Len(registerQ) \in Nat
      /\ \A i \in 1..Len(registerQ') :
           registerQ'[i] = registerQ[i + 1] /\ i + 1 \in 1..Len(registerQ)
  BY DEF TypeOK
<1>4. Len(registerQ') <= RegisterCap BY <1>3, CapsAssumption DEF TypeOK
<1>5. /\ slot' \in {"none", "ticking", "fired"}
      /\ lost' \in [ticking : Nat, fired : Nat]
      /\ c \in Phones => slot' = "none"
      /\ c \notin Phones => slot' = slot /\ lost' = lost
  BY DEF TypeOK, StopTimer, graceVars
<1>6. TypeOK' BY <1>1, <1>2, <1>3, <1>4, <1>5 DEF TypeOK, Phones, AtSelect
<1>7. Comes(c) /\ c \notin clients \cup closed BY <1>3 DEF RegisterInv
<1>8. RegisterInv'
  <2>1. \A d : Comes(d)' <=> Comes(d) BY <1>1 DEF Comes
  <2>2. \A i \in 1..Len(registerQ') : registerQ'[i] # c
    BY <1>3 DEF RegisterInv
  <2>3. \A i \in 1..Len(registerQ') :
          Comes(registerQ[i])' /\ registerQ'[i] \notin clients' \cup closed'
    BY <1>1, <1>2, <1>3, <2>1, <2>2 DEF RegisterInv, Comes
  <2>4. \A i, j \in 1..Len(registerQ') : registerQ'[i] = registerQ'[j] => i = j
    BY <1>3 DEF RegisterInv
  <2>5. \A d \in clients' \cup closed' : Comes(d)'
    BY <1>1, <1>2, <1>7 DEF RegisterInv, Comes
  <2> QED BY <2>3, <2>4, <2>5 DEF RegisterInv
<1>9. OpenWhileRegistered' BY <1>1, <1>2, <1>7 DEF OpenWhileRegistered
<1>10. TimerMeansNoPhone'
  BY <1>2, <1>3, <1>5 DEF TimerMeansNoPhone, Phones
<1>11. LeavingIsCovered'
  <2>1. CASE c \in Phones BY <1>2, <2>1 DEF LeavingIsCovered, Phones
  <2>2. CASE c \notin Phones
    BY <1>1, <1>2, <1>5, <2>2 DEF LeavingIsCovered, Phones
  <2> QED BY <2>1, <2>2
<1>12. PresenceIsReal' BY <1>1 DEF PresenceIsReal, Phones
<1> QED BY <1>6, <1>8, <1>9, <1>10, <1>11, <1>12

\* Run takes an unregistration: a timer is started if the last phone left.
LEMMA TakeUnregisterStep == IInv /\ TakeUnregister => IInv'
<1> SUFFICES ASSUME IInv, TakeUnregister PROVE IInv' OBVIOUS
<1> USE DEF IInv, TakeUnregister
<1> DEFINE c == Head(unregisterQ)
<1>1. UNCHANGED <<pc, shut, missed, valid, online, registerQ, beating, expiring,
                  unsettled>>
  BY DEF connVars
<1>2. clients' = clients \ {c} /\ closed' = closed \cup ({c} \cap clients)
  OBVIOUS
<1>3. /\ c \in Conns /\ unregisterQ' \in Seq(Conns)
      /\ Len(unregisterQ') = Len(unregisterQ) - 1 /\ Len(unregisterQ) \in Nat
  BY DEF TypeOK
<1>4. Len(unregisterQ') <= UnregisterCap BY <1>3, CapsAssumption DEF TypeOK
<1>5. /\ slot' \in {"none", "ticking", "fired"}
      /\ lost' = lost
      /\ LastRemote(c) => slot' # "none"
      /\ slot # "none" => slot' # "none"
      /\ ~LastRemote(c) => slot' = slot
  BY DEF TypeOK, StartTimer, graceVars
<1>6. TypeOK' BY <1>1, <1>2, <1>3, <1>4, <1>5 DEF TypeOK, Phones, AtSelect
<1>7. RegisterInv'
  <2>1. clients' \cup closed' = clients \cup closed BY <1>2
  <2> QED BY <1>1, <2>1 DEF RegisterInv, Comes
<1>8. OpenWhileRegistered' BY <1>2 DEF OpenWhileRegistered
<1>9. TimerMeansNoPhone'
  BY <1>2, <1>5 DEF TimerMeansNoPhone, LastRemote
<1>10. LeavingIsCovered'
  <2>1. CASE LastRemote(c) BY <1>5, <2>1 DEF LeavingIsCovered
  <2>2. CASE ~LastRemote(c)
    <3>1. clients \cap Phones # {} => clients' \cap Phones # {}
      BY <1>2, <2>2 DEF LastRemote, Phones, TypeOK
    <3> QED BY <1>1, <1>5, <2>2, <3>1 DEF LeavingIsCovered, Phones
  <2> QED BY <2>1, <2>2
<1>11. PresenceIsReal' BY <1>1 DEF PresenceIsReal, Phones
<1> QED BY <1>6, <1>7, <1>8, <1>9, <1>10, <1>11

\* A tick and the look at one client.
LEMMA HeartbeatSteps ==
  ASSUME IInv, Tick \/ \E c \in Conns : Beat(c)
  PROVE  IInv'
<1> USE DEF IInv
<1>1. UNCHANGED <<pc, valid, online, registerQ, clients, closed, slot, lost,
                  expiring, unsettled>>
  BY Zenon DEF Tick, Beat, connVars, graceVars
<1>2. /\ shut' \in SUBSET Conns /\ missed' \in [Conns -> Nat]
      /\ unregisterQ' \in Seq(Conns) /\ Len(unregisterQ') <= UnregisterCap
      /\ beating' \in SUBSET clients
  <2>1. CASE Tick BY <2>1 DEF Tick, connVars, TypeOK
  <2>2. ASSUME NEW c \in Conns, Beat(c)
        PROVE  /\ shut' \in SUBSET Conns /\ missed' \in [Conns -> Nat]
               /\ unregisterQ' \in Seq(Conns) /\ Len(unregisterQ') <= UnregisterCap
               /\ beating' \in SUBSET clients
    <3>1. missed' \in [Conns -> Nat] BY <2>2 DEF Beat, TypeOK
    <3>2. beating' \in SUBSET clients BY <2>2 DEF Beat, TypeOK
    <3>3. CASE Drops(c)
      <4>1. Drop(c) BY <2>2, <3>3 DEF Beat
      <4>2. shut' \in SUBSET Conns BY <4>1 DEF Drop, TypeOK
      <4>3. unregisterQ' \in Seq(Conns) /\ Len(unregisterQ') <= UnregisterCap
        BY <4>1, CapsAssumption DEF Drop, TypeOK
      <4> QED BY <3>1, <3>2, <4>2, <4>3
    <3>4. CASE ~Drops(c) BY <2>2, <3>1, <3>2, <3>4 DEF Beat, TypeOK
    <3> QED BY <3>3, <3>4
  <2> QED BY <2>1, <2>2
<1>3. TypeOK' BY <1>1, <1>2 DEF TypeOK, Phones
<1>4. RegisterInv' BY <1>1 DEF RegisterInv, Comes
<1>5. OpenWhileRegistered' /\ TimerMeansNoPhone' /\ LeavingIsCovered'
  BY <1>1, KeepsRunParts DEF runState
<1>6. PresenceIsReal' BY <1>1 DEF PresenceIsReal, Phones
<1> QED BY <1>3, <1>4, <1>5, <1>6

-----------------------------------------------------------------------------
(* Timers, and the whole. *)

\* A timer fires, its callback deletes the entry, and OnGraceExpired runs.
LEMMA TimerSteps ==
  ASSUME IInv, Fire \/ Callback \/ Expire
  PROVE  IInv'
<1> USE DEF IInv
<1>1. UNCHANGED <<pc, shut, missed, valid, online, registerQ, unregisterQ,
                  clients, closed, beating>>
  BY Zenon DEF Fire, Callback, Expire, connVars, runVars
<1>2. /\ slot' \in {"none", "ticking", "fired"}
      /\ lost' \in [ticking : Nat, fired : Nat]
      /\ expiring' \in Nat
      /\ unsettled' \in SUBSET Phones
  BY DEF Fire, Callback, Expire, graceVars, TypeOK
<1>3. TypeOK' BY <1>1, <1>2 DEF TypeOK, Phones
<1>4. RegisterInv' BY <1>1 DEF RegisterInv, Comes
<1>5. OpenWhileRegistered' BY <1>1 DEF OpenWhileRegistered
<1>6. TimerMeansNoPhone'
  BY <1>1 DEF TimerMeansNoPhone, Fire, Callback, Expire, graceVars
<1>7. LeavingIsCovered'
  <2>1. CASE Fire BY <1>1, <2>1 DEF Fire, LeavingIsCovered, Phones, TypeOK
  <2>2. CASE Callback BY <2>2 DEF Callback, LeavingIsCovered, TypeOK
  <2>3. CASE Expire
    BY <1>1, <2>3 DEF Expire, LeavingIsCovered, Phones, TypeOK, graceVars
  <2> QED BY <2>1, <2>2, <2>3
<1>8. PresenceIsReal' BY <1>1 DEF PresenceIsReal, Phones
<1> QED BY <1>3, <1>4, <1>5, <1>6, <1>7, <1>8

\* The session expires, or nothing happens.
LEMMA OtherSteps ==
  ASSUME IInv, Revoke \/ UNCHANGED vars
  PROVE  IInv'
<1> USE DEF IInv
<1>1. /\ UNCHANGED <<pc, shut, missed, online, registerQ, unregisterQ, clients,
                     closed, beating, slot, lost, expiring, unsettled>>
      /\ valid' \in BOOLEAN
  BY DEF Revoke, vars, runVars, graceVars, TypeOK
<1>2. TypeOK' BY <1>1 DEF TypeOK, Phones
<1>3. RegisterInv' BY <1>1 DEF RegisterInv, Comes
<1>4. OpenWhileRegistered' /\ TimerMeansNoPhone' /\ LeavingIsCovered'
  BY <1>1, KeepsRunParts DEF runState
<1>5. PresenceIsReal' BY <1>1 DEF PresenceIsReal, Phones
<1> QED BY <1>2, <1>3, <1>4, <1>5

\* Every step keeps the invariant.
LEMMA StepInv == IInv /\ [Next]_vars => IInv'
<1> SUFFICES ASSUME IInv, [Next]_vars PROVE IInv' OBVIOUS
<1>1. ASSUME NEW c \in Conns,
             Dial(c) \/ Connect(c) \/ Pong(c) \/ ReadFails(c) \/ Disconnect(c)
      PROVE  IInv'
  BY <1>1, LocalSteps
<1>2. ASSUME NEW c \in Conns, Register(c) PROVE IInv' BY <1>2, RegisterStep
<1>3. ASSUME NEW c \in Conns, Unregister(c) PROVE IInv' BY <1>3, UnregisterStep
<1>4. CASE Tick \/ \E c \in Conns : Beat(c) BY <1>4, HeartbeatSteps
<1>5. CASE TakeRegister BY <1>5, TakeRegisterStep
<1>6. CASE TakeUnregister BY <1>6, TakeUnregisterStep
<1>7. CASE Fire \/ Callback \/ Expire BY <1>7, TimerSteps
<1>8. CASE Revoke \/ UNCHANGED vars BY <1>8, OtherSteps
<1> QED BY <1>1, <1>2, <1>3, <1>4, <1>5, <1>6, <1>7, <1>8 DEF Next

\* The inductive invariant of the hub.
THEOREM HubInvariant == Spec => []IInv
BY InitInv, StepInv, PTL DEF Spec

\* The variables keep their types; in particular the heartbeat only looks at
\* clients that are still registered.
THEOREM TypeCorrect == Spec => []TypeOK
<1>1. IInv => TypeOK BY DEF IInv
<1> QED BY <1>1, HubInvariant, PTL

\* Run never sends on a closed channel nor closes one twice.
THEOREM ChannelsAreOpen == Spec => []OpenWhileRegistered
<1>1. IInv => OpenWhileRegistered BY DEF IInv
<1> QED BY <1>1, HubInvariant, PTL

\* The timer in the map and registered phones exclude each other.
THEOREM TimerExcludesPhones == Spec => []TimerMeansNoPhone
<1>1. IInv => TimerMeansNoPhone BY DEF IInv
<1> QED BY <1>1, HubInvariant, PTL

\* A phone that left is covered by a phone, a timer or a callback until its
\* transfers are failed.
THEOREM AbsenceIsCovered == Spec => []LeavingIsCovered
<1>1. IInv => LeavingIsCovered BY DEF IInv
<1> QED BY <1>1, HubInvariant, PTL

\* The presence map has no entry of a phone that has left.
THEOREM PresenceIsTrue == Spec => []PresenceIsReal
<1>1. IInv => PresenceIsReal BY DEF IInv
<1> QED BY <1>1, HubInvariant, PTL

-----------------------------------------------------------------------------
(* The room in unregister. *)

Entries == 1..Len(unregisterQ)

\* A connection is put on unregister by its own goroutine as that ends, and by
\* the heartbeat as it closes the connection; each does so once.
QueueInv ==
  /\ \A i \in Entries : pc[unregisterQ[i]] = "gone" \/ unregisterQ[i] \in shut
  /\ \A i, j \in Entries : i # j /\ unregisterQ[i] = unregisterQ[j] =>
       pc[unregisterQ[i]] = "gone" /\ unregisterQ[i] \in shut
  /\ \A i, j, k \in Entries :
       unregisterQ[i] = unregisterQ[j] /\ unregisterQ[j] = unregisterQ[k] =>
         i = j \/ j = k \/ i = k
  /\ beating \cap shut = {}

\* What ended stays ended, and what the heartbeat closed stays closed.
Ends(c) == (pc[c] = "gone" => pc'[c] = "gone") /\ (c \in shut => c \in shut')

\* A step that leaves the queue alone, or takes its head, keeps what is said of
\* its entries.
LEMMA QueueShrinks ==
  ASSUME TypeOK, QueueInv, \A c \in Conns : Ends(c), beating' \cap shut' = {},
         \/ unregisterQ' = unregisterQ
         \/ unregisterQ # <<>> /\ unregisterQ' = Tail(unregisterQ)
  PROVE  QueueInv'
<1>1. \A i \in Entries : unregisterQ[i] \in Conns BY DEF TypeOK, Entries
<1>2. CASE unregisterQ' = unregisterQ
  BY <1>1, <1>2 DEF QueueInv, Ends, Entries
<1>3. CASE unregisterQ # <<>> /\ unregisterQ' = Tail(unregisterQ)
  <2>1. \A i \in Entries' : i + 1 \in Entries /\ unregisterQ'[i] = unregisterQ[i + 1]
    BY <1>3 DEF TypeOK, Entries
  <2>2. \A i \in Entries' : i \in Int BY DEF Entries
  <2>3. \A i \in Entries' :
          pc'[unregisterQ'[i]] = "gone" \/ unregisterQ'[i] \in shut'
    BY <1>1, <2>1 DEF QueueInv, Ends
  <2>4. \A i, j \in Entries' : i # j /\ unregisterQ'[i] = unregisterQ'[j] =>
          pc'[unregisterQ'[i]] = "gone" /\ unregisterQ'[i] \in shut'
    BY <1>1, <2>1, <2>2 DEF QueueInv, Ends
  <2>5. \A i, j, k \in Entries' :
          unregisterQ'[i] = unregisterQ'[j] /\ unregisterQ'[j] = unregisterQ'[k] =>
            i = j \/ j = k \/ i = k
    BY <2>1, <2>2 DEF QueueInv
  <2> QED BY <2>3, <2>4, <2>5 DEF QueueInv
<1> QED BY <1>2, <1>3

\* A step that appends a connection which has not been put there for the reason
\* that holds from now on.
LEMMA QueueGrows ==
  ASSUME TypeOK, QueueInv, \A d \in Conns : Ends(d), beating' \cap shut' = {},
         NEW c \in Conns, unregisterQ' = Append(unregisterQ, c),
         \/ pc[c] # "gone" /\ pc'[c] = "gone"
         \/ c \notin shut /\ c \in shut'
  PROVE  QueueInv'
<1> DEFINE n == Len(unregisterQ) + 1
<1>1. \A i \in Entries : unregisterQ[i] \in Conns BY DEF TypeOK, Entries
<1>2. /\ \A i \in Entries' : i # n => i \in Entries /\ unregisterQ'[i] = unregisterQ[i]
      /\ unregisterQ'[n] = c
  BY DEF TypeOK, Entries
<1>3. \A i, j \in Entries : unregisterQ[i] = c /\ unregisterQ[j] = c => i = j
  BY DEF QueueInv
<1>4. \A i \in Entries : unregisterQ[i] = c => pc'[c] = "gone" /\ c \in shut'
  BY DEF QueueInv, Ends
<1>5. \A i \in Entries' :
        pc'[unregisterQ'[i]] = "gone" \/ unregisterQ'[i] \in shut'
  BY <1>1, <1>2 DEF QueueInv, Ends
<1>6. \A i, j \in Entries' : i # j /\ unregisterQ'[i] = unregisterQ'[j] =>
        pc'[unregisterQ'[i]] = "gone" /\ unregisterQ'[i] \in shut'
  <2>1. ASSUME NEW i \in Entries, NEW j \in Entries, i # j,
               unregisterQ[i] = unregisterQ[j]
        PROVE  pc'[unregisterQ[i]] = "gone" /\ unregisterQ[i] \in shut'
    BY <1>1, <2>1 DEF QueueInv, Ends
  <2> SUFFICES ASSUME NEW i \in Entries', NEW j \in Entries', i # j,
                      unregisterQ'[i] = unregisterQ'[j]
               PROVE  pc'[unregisterQ'[i]] = "gone" /\ unregisterQ'[i] \in shut'
    OBVIOUS
  <2>2. CASE i = n
    <3>1. j \in Entries /\ unregisterQ[j] = c /\ unregisterQ'[i] = c BY <1>2, <2>2
    <3> QED BY <1>4, <3>1
  <2>3. CASE j = n
    <3>1. i \in Entries /\ unregisterQ[i] = c /\ unregisterQ'[i] = c BY <1>2, <2>3
    <3> QED BY <1>4, <3>1
  <2>4. CASE i # n /\ j # n
    <3>1. /\ i \in Entries /\ j \in Entries
          /\ unregisterQ[i] = unregisterQ[j] /\ unregisterQ'[i] = unregisterQ[i]
      BY <1>2, <2>4
    <3> QED BY <2>1, <3>1
  <2> QED BY <2>2, <2>3, <2>4
<1>7. \A i, j, k \in Entries' :
        unregisterQ'[i] = unregisterQ'[j] /\ unregisterQ'[j] = unregisterQ'[k] =>
          i = j \/ j = k \/ i = k
  <2> SUFFICES ASSUME NEW i \in Entries', NEW j \in Entries', NEW k \in Entries',
                      unregisterQ'[i] = unregisterQ'[j], unregisterQ'[j] = unregisterQ'[k],
                      i # j, j # k, i # k
               PROVE  FALSE
    OBVIOUS
  <2>1. CASE i = n
    <3>1. j \in Entries /\ k \in Entries /\ unregisterQ[j] = c /\ unregisterQ[k] = c
      BY <1>2, <2>1
    <3> QED BY <1>3, <3>1
  <2>2. CASE j = n
    <3>1. i \in Entries /\ k \in Entries /\ unregisterQ[i] = c /\ unregisterQ[k] = c
      BY <1>2, <2>2
    <3> QED BY <1>3, <3>1
  <2>3. CASE k = n
    <3>1. i \in Entries /\ j \in Entries /\ unregisterQ[i] = c /\ unregisterQ[j] = c
      BY <1>2, <2>3
    <3> QED BY <1>3, <3>1
  <2>4. CASE i # n /\ j # n /\ k # n
    <3>1. /\ i \in Entries /\ j \in Entries /\ k \in Entries
          /\ unregisterQ[i] = unregisterQ[j] /\ unregisterQ[j] = unregisterQ[k]
      BY <1>2, <2>4
    <3> QED BY <3>1 DEF QueueInv
  <2> QED BY <2>1, <2>2, <2>3, <2>4
<1> QED BY <1>5, <1>6, <1>7 DEF QueueInv

\* The steps that append.
LEMMA QueueWriters ==
  [Next]_vars =>
    \/ UNCHANGED <<unregisterQ, shut>> /\ beating' = beating
    \/ UNCHANGED <<pc, unregisterQ, shut>> /\ clients \cap shut = {} /\ beating' = clients
    \/ UNCHANGED <<pc, shut, beating>> /\ unregisterQ # <<>>
       /\ unregisterQ' = Tail(unregisterQ)
    \/ \E c \in Conns : Unregister(c) \/ Beat(c)
BY Zenon DEF Next, vars, connVars, runVars, Dial, Register, Connect, Pong, ReadFails,
       Disconnect, TakeRegister, TakeUnregister, Tick, Fire, Callback, Expire, Revoke

LEMMA ConnectionsEnd ==
  ASSUME TypeOK, [Next]_vars, NEW c \in Conns
  PROVE  Ends(c)
<1>1. pc' = pc \/ \E d \in Conns, to \in Control : pc[d] # "gone" /\ pc' = [pc EXCEPT ![d] = to]
  BY DEF Next, vars, connVars, Dial, Register, Connect, Pong, ReadFails, Disconnect, Unregister,
         Beat, TakeRegister, TakeUnregister, Tick, Fire, Callback, Expire, Revoke, Goto, Control
<1>2. shut' = shut \/ \E d \in Conns : shut' = shut \cup {d}
  BY Zenon DEF Next, vars, connVars, Dial, Register, Connect, Pong, ReadFails, Disconnect,
         Unregister, Beat, Drop, TakeRegister, TakeUnregister, Tick, Fire, Callback, Expire, Revoke
<1> QED BY <1>1, <1>2 DEF Ends, TypeOK

LEMMA QueueStep == TypeOK /\ QueueInv /\ [Next]_vars => QueueInv'
<1> SUFFICES ASSUME TypeOK, QueueInv, [Next]_vars PROVE QueueInv' OBVIOUS
<1>1. \A c \in Conns : Ends(c) BY ConnectionsEnd
<1>2. ASSUME NEW c \in Conns, Unregister(c) PROVE QueueInv'
  <2>1. /\ unregisterQ' = Append(unregisterQ, c)
        /\ pc[c] # "gone" /\ pc'[c] = "gone"
        /\ beating' \cap shut' = {}
    BY <1>2 DEF Unregister, Goto, TypeOK, QueueInv
  <2> QED BY <1>1, <2>1, QueueGrows
<1>3. ASSUME NEW c \in Conns, Beat(c) PROVE QueueInv'
  <2>1. CASE Drops(c)
    <3>1. /\ unregisterQ' = Append(unregisterQ, c)
          /\ c \notin shut /\ c \in shut'
          /\ beating' \cap shut' = {}
      BY <1>3, <2>1 DEF Beat, Drop, QueueInv
    <3> QED BY <1>1, <3>1, QueueGrows
  <2>2. CASE ~Drops(c)
    <3>1. unregisterQ' = unregisterQ /\ beating' \cap shut' = {}
      BY <1>3, <2>2 DEF Beat, QueueInv
    <3> QED BY <1>1, <3>1, QueueShrinks
  <2> QED BY <2>1, <2>2
<1>4. beating \cap shut = {} BY DEF QueueInv
<1>5. CASE UNCHANGED <<unregisterQ, shut>> /\ beating' = beating
  BY <1>1, <1>4, <1>5, QueueShrinks
<1>6. CASE UNCHANGED <<pc, unregisterQ, shut>> /\ clients \cap shut = {}
           /\ beating' = clients
  BY <1>1, <1>6, QueueShrinks
<1>7. CASE UNCHANGED <<pc, shut, beating>> /\ unregisterQ # <<>>
           /\ unregisterQ' = Tail(unregisterQ)
  BY <1>1, <1>4, <1>7, QueueShrinks
<1> QED BY <1>2, <1>3, <1>5, <1>6, <1>7, QueueWriters

LEMMA QueueInvariant == Spec => []QueueInv
<1>1. Init => QueueInv BY DEF Init, QueueInv, Entries
<1>2. IInv => TypeOK BY DEF IInv
<1> QED BY <1>1, <1>2, QueueStep, HubInvariant, PTL DEF Spec

\* An entry is told from the others by its connection and by whether it is the
\* first of that connection.
Rank(i) == IF \E j \in Entries : j < i /\ unregisterQ[j] = unregisterQ[i] THEN 2 ELSE 1
Label   == [i \in Entries |-> <<unregisterQ[i], Rank(i)>>]

LEMMA QueueBounded ==
  ASSUME TypeOK, QueueInv, NEW c \in beating
  PROVE  Len(unregisterQ) < 2 * Cardinality(Conns)
<1> DEFINE Labels == Conns \X {1, 2}
           Others == Labels \ {<<c, 2>>}
<1>1. c \in Conns /\ c \notin shut BY DEF TypeOK, QueueInv
<1>2. \A i \in Entries : unregisterQ[i] \in Conns /\ i \in Int BY DEF TypeOK, Entries
<1>3. Label \in Injection(Entries, Others)
  <2>1. \A i \in Entries : Rank(i) \in {1, 2} BY DEF Rank
  <2>2. \A i \in Entries : unregisterQ[i] = c => Rank(i) = 1
    BY <1>1, <1>2 DEF Rank, QueueInv
  <2>3. \A i \in Entries : <<unregisterQ[i], Rank(i)>> \in Others
    BY <1>2, <2>1, <2>2
  <2>4. ASSUME NEW i \in Entries, NEW j \in Entries, i # j,
               unregisterQ[i] = unregisterQ[j], Rank(i) = Rank(j)
        PROVE  FALSE
    <3>1. CASE i < j
      <4>1. Rank(j) = 2 BY <2>4, <3>1 DEF Rank
      <4>2. PICK k \in Entries : k < i /\ unregisterQ[k] = unregisterQ[i]
        BY <2>4, <4>1 DEF Rank
      <4> QED BY <1>2, <2>4, <3>1, <4>2 DEF QueueInv
    <3>2. CASE j < i
      <4>1. Rank(i) = 2 BY <2>4, <3>2 DEF Rank
      <4>2. PICK k \in Entries : k < j /\ unregisterQ[k] = unregisterQ[j]
        BY <2>4, <4>1 DEF Rank
      <4> QED BY <1>2, <2>4, <3>2, <4>2 DEF QueueInv
    <3> QED BY <1>2, <2>4, <3>1, <3>2
  <2>5. Label \in [Entries -> Others] BY <2>3 DEF Label
  <2>6. \A i, j \in Entries : Label[i] = Label[j] => i = j BY <2>4 DEF Label
  <2> QED BY <2>5, <2>6 DEF Injection, IsInjective
<1>4. IsFiniteSet(Conns) /\ Cardinality(Conns) \in Nat
  BY ConnsAssumption, FS_CardinalityType
<1>5. IsFiniteSet({1, 2}) /\ Cardinality({1, 2}) = 2
  <2>1. IsFiniteSet(1..2) /\ Cardinality(1..2) = IF 1 > 2 THEN 0 ELSE 2 - 1 + 1
    BY 1 \in Int, 2 \in Int, FS_Interval
  <2>2. 1..2 = {1, 2} OBVIOUS
  <2> QED BY <2>1, <2>2
<1>6. IsFiniteSet(Labels) /\ Cardinality(Labels) = Cardinality(Conns) * 2
  BY <1>4, <1>5, FS_Product
<1>7. <<c, 2>> \in Labels BY <1>1
<1>8. IsFiniteSet(Others) /\ Cardinality(Others) = Cardinality(Labels) - 1
  BY <1>6, <1>7, FS_RemoveElement
<1>9. Cardinality(Entries) = Len(unregisterQ) /\ Len(unregisterQ) \in Nat
  <2>1. Len(unregisterQ) \in Nat BY DEF TypeOK
  <2> DEFINE m == Len(unregisterQ)
  <2>2. Cardinality(1..m) = IF 1 > m THEN 0 ELSE m - 1 + 1
    BY <2>1, 1 \in Int, m \in Int, FS_Interval
  <2> QED BY <2>1, <2>2 DEF Entries
<1>10. Cardinality(Entries) <= Cardinality(Others) BY <1>3, <1>8, FS_Injection
<1> QED BY <1>4, <1>6, <1>8, <1>9, <1>10

\* Run never waits for room in the channel that only it empties, with any number of
\* connections, if the channel has two places for each: Drop in sendHeartbeats and
\* the deferred function of HandleConn put each connection there once.
THEOREM RunIsNeverStuck ==
  ASSUME UnregisterCap >= 2 * Cardinality(Conns)
  PROVE  Spec => []NeverStuck
<1>1. TypeOK /\ QueueInv => NeverStuck
  <2> SUFFICES ASSUME TypeOK, QueueInv, NEW c \in beating
               PROVE  Len(unregisterQ) < UnregisterCap
    BY DEF NeverStuck
  <2>1. Len(unregisterQ) < 2 * Cardinality(Conns) BY QueueBounded
  <2>2. Cardinality(Conns) \in Nat BY ConnsAssumption, FS_CardinalityType
  <2>3. Len(unregisterQ) \in Nat /\ UnregisterCap \in Nat BY CapsAssumption DEF TypeOK
  <2> QED BY <2>1, <2>2, <2>3
<1>2. IInv => TypeOK BY DEF IInv
<1> QED BY <1>1, <1>2, HubInvariant, QueueInvariant, PTL

-----------------------------------------------------------------------------
(* Connections that the heartbeat has closed. *)

\* What the heartbeat closed is or was a client, and while it is one, its
\* unregistration waits to be served.
LeavingInv ==
  /\ shut \subseteq clients \cup closed
  /\ \A c \in clients \cap shut : \E i \in Entries : unregisterQ[i] = c

\* The steps that change what LeavingInv looks at.
LEMMA LeavingWriters ==
  [Next]_vars =>
    \/ UNCHANGED <<unregisterQ, shut, clients, closed>>
    \/ TakeRegister \/ TakeUnregister
    \/ \E c \in Conns : Unregister(c) \/ Beat(c)
BY Zenon DEF Next, vars, connVars, runVars, Dial, Register, Connect, Pong, ReadFails,
       Disconnect, Tick, Fire, Callback, Expire, Revoke

LEMMA LeavingStep == IInv /\ LeavingInv /\ [Next]_vars => LeavingInv'
<1> SUFFICES ASSUME IInv, LeavingInv, [Next]_vars PROVE LeavingInv' OBVIOUS
<1> USE DEF IInv
<1>1. CASE UNCHANGED <<unregisterQ, shut, clients, closed>>
  BY <1>1 DEF LeavingInv, Entries
<1>2. ASSUME NEW c \in Conns, unregisterQ' = Append(unregisterQ, c)
      PROVE  /\ \E i \in Entries' : unregisterQ'[i] = c
             /\ \A i \in Entries : i \in Entries' /\ unregisterQ'[i] = unregisterQ[i]
  <2>1. /\ Len(unregisterQ') = Len(unregisterQ) + 1 /\ Len(unregisterQ) \in Nat
        /\ unregisterQ'[Len(unregisterQ) + 1] = c
        /\ \A i \in 1..Len(unregisterQ) : unregisterQ'[i] = unregisterQ[i]
    BY <1>2 DEF TypeOK
  <2>2. Len(unregisterQ) + 1 \in Entries' BY <2>1 DEF Entries
  <2> QED BY <2>1, <2>2 DEF Entries
<1>3. ASSUME NEW c \in Conns, Unregister(c) PROVE LeavingInv'
  <2>1. UNCHANGED <<shut, clients, closed>> /\ unregisterQ' = Append(unregisterQ, c)
    BY <1>3 DEF Unregister
  <2> QED BY <1>2, <2>1 DEF LeavingInv
<1>4. ASSUME NEW c \in Conns, Beat(c) PROVE LeavingInv'
  <2>1. c \in clients /\ UNCHANGED <<clients, closed>> BY <1>4 DEF Beat, TypeOK
  <2>2. CASE Drops(c)
    <3>1. unregisterQ' = Append(unregisterQ, c) /\ shut' = shut \cup {c}
      BY <1>4, <2>2 DEF Beat, Drop
    <3>2. \A b \in clients' \cap shut' : \E i \in Entries' : unregisterQ'[i] = b
      <4> SUFFICES ASSUME NEW b \in clients \cap (shut \cup {c})
                   PROVE  \E i \in Entries' : unregisterQ'[i] = b
        BY <2>1, <3>1
      <4>1. CASE b = c BY <1>2, <3>1, <4>1
      <4>2. CASE b # c
        <5>1. PICK i \in Entries : unregisterQ[i] = b BY <4>2 DEF LeavingInv
        <5> QED BY <1>2, <3>1, <5>1
      <4> QED BY <4>1, <4>2
    <3>3. shut' \subseteq clients' \cup closed' BY <2>1, <3>1 DEF LeavingInv
    <3> QED BY <3>2, <3>3 DEF LeavingInv
  <2>3. CASE ~Drops(c)
    <3>1. UNCHANGED <<unregisterQ, shut>> BY <1>4, <2>3 DEF Beat
    <3> QED BY <2>1, <3>1 DEF LeavingInv, Entries
  <2> QED BY <2>2, <2>3
<1>5. CASE TakeRegister
  <2>1. /\ registerQ # <<>> /\ clients' = clients \cup {Head(registerQ)}
        /\ UNCHANGED <<unregisterQ, shut, closed>>
    BY <1>5 DEF TakeRegister, connVars
  <2>2. Head(registerQ) \notin clients \cup closed
    <3>1. 1 \in 1..Len(registerQ) /\ Head(registerQ) = registerQ[1]
      BY <2>1 DEF TypeOK
    <3> QED BY <3>1 DEF RegisterInv
  <2> QED BY <2>1, <2>2 DEF LeavingInv, Entries
<1>6. CASE TakeUnregister
  <2> DEFINE d == Head(unregisterQ)
  <2>1. /\ unregisterQ # <<>> /\ unregisterQ' = Tail(unregisterQ)
        /\ clients' = clients \ {d} /\ closed' = closed \cup ({d} \cap clients)
        /\ UNCHANGED shut
    BY <1>6 DEF TakeUnregister, connVars
  <2>2. \A i \in Entries : unregisterQ[i] # d =>
          \E j \in Entries' : unregisterQ'[j] = unregisterQ[i]
    <3> SUFFICES ASSUME NEW i \in Entries, unregisterQ[i] # d
                 PROVE  \E j \in Entries' : unregisterQ'[j] = unregisterQ[i]
      OBVIOUS
    <3>1. i # 1 /\ i \in 1..Len(unregisterQ) /\ Len(unregisterQ) \in Nat
      BY <2>1 DEF TypeOK, Entries
    <3>2. i - 1 \in Entries' /\ unregisterQ'[i - 1] = unregisterQ[i]
      BY <2>1, <3>1 DEF TypeOK, Entries
    <3> QED BY <3>2
  <2> HIDE DEF d
  <2>3. shut' \subseteq clients' \cup closed' BY <2>1 DEF LeavingInv
  <2>4. ASSUME NEW c \in clients' \cap shut'
        PROVE  \E i \in Entries' : unregisterQ'[i] = c
    <3>1. c \in clients \cap shut /\ c # d BY <2>1, <2>4
    <3>2. PICK i \in Entries : unregisterQ[i] = c BY <3>1 DEF LeavingInv
    <3> QED BY <2>2, <3>1, <3>2
  <2> QED BY <2>3, <2>4 DEF LeavingInv
<1> QED BY <1>1, <1>3, <1>4, <1>5, <1>6, LeavingWriters

LEMMA LeavingInvariant == Spec => []LeavingInv
<1>1. Init => LeavingInv BY DEF Init, LeavingInv
<1> QED BY <1>1, LeavingStep, HubInvariant, PTL DEF Spec

\* Run at its select can look at its clients, or has an unregistration to take.
HeartbeatGoesOn ==
  AtSelect => clients \cap shut = {} \/ unregisterQ # <<>>

\* A connection that was closed for its missed pongs or its session does not stay
\* a client: its own entry in unregister (sendHeartbeats puts it there before it
\* closes the connection) is still to be served.
THEOREM ClosedClientsLeave == Spec => []HeartbeatGoesOn
<1>1. LeavingInv => HeartbeatGoesOn
  BY DEF LeavingInv, HeartbeatGoesOn, Entries
<1> QED BY <1>1, LeavingInvariant, PTL
=============================================================================
