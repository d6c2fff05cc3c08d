-------------------------------- MODULE Hub ---------------------------------
(***************************************************************************)
(* The WebSocket hub of the desktop for one session, with the presence map *)
(* that main.go keeps from its callbacks.                                  *)
(*                                                                         *)
(* Each connection is a goroutine in HandleConn.  One goroutine, Run,      *)
(* serves the channels register, unregister and broadcast and a ticker in  *)
(* one select, in any order when several are ready.  A grace timer runs in *)
(* a goroutine of its own once it has fired.                               *)
(*                                                                         *)
(* Messages (broadcast, the inbox, the send buffers) change none of this   *)
(* state; HubMessages adds them.                                           *)
(***************************************************************************)
EXTENDS Integers, Sequences, FiniteSets

CONSTANTS
  Conns,                 \* the connections dialled in a behaviour, each once
  Local,                 \* those of the Vue UI on the PC; the others: phones
  RegisterCap, UnregisterCap, \* capacities of the channels
  MissedPongsThreshold

ASSUME ConnsAssumption == IsFiniteSet(Conns) /\ Local \subseteq Conns
ASSUME CapsAssumption ==
  {RegisterCap, UnregisterCap, MissedPongsThreshold} \subseteq Nat

VARIABLES
  pc,             \* where the goroutine of each connection is
  shut,           \* connections the heartbeat has closed
  missed,         \* missedPongs
  valid,          \* the session is neither revoked nor expired
  online,         \* phoneOnline has an entry for the session
  registerQ, unregisterQ,
  clients,        \* the connections in h.clients
  closed,         \* connections whose send channel is closed
  beating,        \* the clients sendHeartbeats has still to look at
  slot,           \* the timer in graceTimers: none, ticking, or fired but
                  \* not yet past the lock in its callback
  lost,           \* how many timers tick, or have fired, outside the map
  expiring,       \* callbacks that are about to call OnGraceExpired
  unsettled       \* history: registered phones that OnGraceExpired has not
                  \* dealt with since they left

connVars  == <<pc, shut, missed, valid, online>>
graceVars == <<slot, lost>>
runVars   == <<registerQ, unregisterQ, clients, closed, beating>>
vars == <<pc, shut, missed, valid, online, registerQ, unregisterQ, clients,
          closed, beating, slot, lost, expiring, unsettled>>

Phones == Conns \ Local

\* new: not dialled; register: validated, to be put on register; connect:
\* OnClientConnected; reading: the read loop; disconnect: OnClientDisconnected;
\* unregister: to be put on unregister
Control == {"new", "register", "connect", "reading", "disconnect",
            "unregister", "gone"}

TypeOK ==
  /\ pc \in [Conns -> Control]
  /\ shut \in SUBSET Conns
  /\ missed \in [Conns -> Nat]
  /\ valid \in BOOLEAN
  /\ online \in BOOLEAN
  /\ registerQ \in Seq(Conns) /\ Len(registerQ) <= RegisterCap
  /\ unregisterQ \in Seq(Conns) /\ Len(unregisterQ) <= UnregisterCap
  /\ clients \in SUBSET Conns
  /\ closed \in SUBSET Conns
  /\ beating \in SUBSET clients
  /\ slot \in {"none", "ticking", "fired"}
  /\ lost \in [ticking : Nat, fired : Nat]
  /\ expiring \in Nat
  /\ unsettled \in SUBSET Phones

Init ==
  /\ pc = [c \in Conns |-> "new"]
  /\ shut = {}
  /\ missed = [c \in Conns |-> 0]
  /\ valid = TRUE
  /\ online = FALSE
  /\ registerQ = <<>>
  /\ unregisterQ = <<>>
  /\ clients = {}
  /\ closed = {}
  /\ beating = {}
  /\ slot = "none"
  /\ lost = [ticking |-> 0, fired |-> 0]
  /\ expiring = 0
  /\ unsettled = {}

-----------------------------------------------------------------------------
(* A connection: HandleConn and the two callbacks of main.go. *)

Goto(c, from, to) == pc[c] = from /\ pc' = [pc EXCEPT ![c] = to]

\* wsHandler and awaitAuth: the session is validated.
Dial(c) ==
  /\ valid
  /\ Goto(c, "new", "register")
  /\ UNCHANGED <<shut, missed, valid, online, runVars, graceVars, expiring,
                 unsettled>>

Register(c) ==
  /\ Goto(c, "register", "connect")
  /\ Len(registerQ) < RegisterCap
  /\ registerQ' = Append(registerQ, c)
  /\ UNCHANGED <<shut, missed, valid, online, unregisterQ, clients, closed,
                 beating, graceVars, expiring, unsettled>>

\* OnClientConnected: a phone enters the presence map, the UI looks at it.
\* All connections of a session carry the device of the session row.
Connect(c) ==
  /\ Goto(c, "connect", "reading")
  /\ online' = (online \/ c \in Phones)
  /\ UNCHANGED <<shut, missed, valid, runVars, graceVars, expiring, unsettled>>

\* The pong handler runs inside the read loop.
Pong(c) ==
  /\ pc[c] = "reading" /\ c \notin shut
  /\ missed' = [missed EXCEPT ![c] = 0]
  /\ UNCHANGED <<pc, shut, valid, online, runVars, graceVars, expiring,
                 unsettled>>

\* Mutant: the read loop unregisters, and so does the deferred function.
ReadFails_Unregisters(c) ==
  /\ Goto(c, "reading", "disconnect")
  /\ Len(unregisterQ) < UnregisterCap
  /\ unregisterQ' = Append(unregisterQ, c)
  /\ UNCHANGED <<shut, missed, valid, online, registerQ, clients, closed,
                 beating, graceVars, expiring, unsettled>>

\* ReadMessage returns an error: the peer left, or the heartbeat closed.
ReadFails(c) ==
  /\ Goto(c, "reading", "disconnect")
  /\ UNCHANGED <<shut, missed, valid, online, runVars, graceVars, expiring,
                 unsettled>>

\* Mutant: presence is announced but not cleared.
Disconnect_KeepsEntry(c) ==
  /\ Goto(c, "disconnect", "unregister")
  /\ UNCHANGED <<shut, missed, valid, online, runVars, graceVars, expiring,
                 unsettled>>

\* OnClientDisconnected: the entry of the phone is removed if it names the
\* device of this connection, as all entries of the session do.
Disconnect(c) ==
  /\ Goto(c, "disconnect", "unregister")
  /\ online' = (online /\ c \in Local)
  /\ UNCHANGED <<shut, missed, valid, runVars, graceVars, expiring, unsettled>>

Unregister(c) ==
  /\ Goto(c, "unregister", "gone")
  /\ Len(unregisterQ) < UnregisterCap
  /\ unregisterQ' = Append(unregisterQ, c)
  /\ UNCHANGED <<shut, missed, valid, online, registerQ, clients, closed,
                 beating, graceVars, expiring, unsettled>>

-----------------------------------------------------------------------------
(* Run. *)

\* Mutant: the heartbeat runs in a goroutine of its own.
AtSelect_OwnHeartbeat == TRUE

AtSelect == beating = {}

\* A phone that registers stops the timer in the map and removes it; Stop
\* comes too late for one that has fired.
StopTimer ==
  /\ slot' = "none"
  /\ lost' = IF slot = "fired" THEN [lost EXCEPT !.fired = @ + 1] ELSE lost

TakeRegister ==
  /\ AtSelect
  /\ registerQ # <<>>
  /\ registerQ' = Tail(registerQ)
  /\ LET c == Head(registerQ) IN
       /\ IF c \in Phones THEN StopTimer ELSE UNCHANGED graceVars
       /\ clients' = clients \cup {c}
       /\ unsettled' = unsettled \cup ({c} \cap Phones)
  /\ UNCHANGED <<connVars, unregisterQ, closed, beating, expiring>>

\* Mutants: other phones are not looked at; the UI keeps the set alive.
LastRemote_AnyPhone(c) == clients # {} /\ c \in Phones
LastRemote_EmptySet(c) == clients # {} /\ c \in Phones /\ clients \subseteq {c}

\* No phone is left in the set; without a set nothing is done.
LastRemote(c) == clients # {} /\ c \in Phones /\ clients \ {c} \subseteq Local

StartTimer ==
  /\ slot' = IF slot = "none" THEN "ticking" ELSE slot
  /\ UNCHANGED lost

\* Mutant: the channel is closed whether or not the client is in the set.
TakeUnregister_AlwaysCloses ==
  /\ AtSelect
  /\ unregisterQ # <<>>
  /\ unregisterQ' = Tail(unregisterQ)
  /\ LET c == Head(unregisterQ) IN
       /\ clients' = clients \ {c}
       /\ closed' = closed \cup {c}
       /\ IF LastRemote(c) THEN StartTimer ELSE UNCHANGED graceVars
  /\ UNCHANGED <<connVars, registerQ, beating, expiring, unsettled>>

\* The send channel is closed if the client is in the set.  (Its writeLoop
\* then closes the connection, which its reader or the heartbeat did before.)
TakeUnregister ==
  /\ AtSelect
  /\ unregisterQ # <<>>
  /\ unregisterQ' = Tail(unregisterQ)
  /\ LET c == Head(unregisterQ) IN
       /\ clients' = clients \ {c}
       /\ closed' = closed \cup ({c} \cap clients)
       /\ IF LastRemote(c) THEN StartTimer ELSE UNCHANGED graceVars
  /\ UNCHANGED <<connVars, registerQ, beating, expiring, unsettled>>

\* The ticker.  Ticks are 15 s apart: Run has by then taken from unregister
\* what the last one put there.
Tick ==
  /\ AtSelect
  /\ clients \cap shut = {}
  /\ beating' = clients
  /\ UNCHANGED <<connVars, registerQ, unregisterQ, clients, closed, graceVars,
                 expiring, unsettled>>

\* Mutant: a revoked session is not looked at.
Drops_PongsOnly(c) == missed[c] + 1 > MissedPongsThreshold

\* The session is not valid, or there were too many pings without a pong.
Drops(c) == ~valid \/ missed[c] + 1 > MissedPongsThreshold

\* Run itself sends to the channel it serves.
Drop(c) ==
  /\ Len(unregisterQ) < UnregisterCap
  /\ unregisterQ' = Append(unregisterQ, c)
  /\ shut' = shut \cup {c}

\* Mutant: a ping is not counted as missed.
Beat_NoCount(c) ==
  /\ c \in beating
  /\ beating' = beating \ {c}
  /\ IF Drops(c) THEN Drop(c) ELSE UNCHANGED <<unregisterQ, shut>>
  /\ UNCHANGED <<pc, missed, valid, online, registerQ, clients, closed, graceVars,
                 expiring, unsettled>>

\* sendHeartbeats, one client: dropped or pinged.
Beat(c) ==
  /\ c \in beating
  /\ beating' = beating \ {c}
  /\ missed' = IF valid THEN [missed EXCEPT ![c] = @ + 1] ELSE missed
  /\ IF Drops(c) THEN Drop(c) ELSE UNCHANGED <<unregisterQ, shut>>
  /\ UNCHANGED <<pc, valid, online, registerQ, clients, closed, graceVars,
                 expiring, unsettled>>

-----------------------------------------------------------------------------
(* Timers and the rest of the server. *)

\* A timer fires: its callback is now to take graceMu.
Fire ==
  /\ \/ slot = "ticking" /\ slot' = "fired" /\ UNCHANGED lost
     \/ /\ lost.ticking > 0
        /\ lost' = [ticking |-> lost.ticking - 1, fired |-> lost.fired + 1]
        /\ UNCHANGED slot
  /\ UNCHANGED <<connVars, runVars, expiring, unsettled>>

\* The callback deletes the entry of the session, whatever timer it holds.
Callback ==
  /\ \/ slot = "fired" /\ UNCHANGED lost
     \/ /\ lost.fired > 0
        /\ lost' = [ticking |-> lost.ticking + (IF slot = "ticking" THEN 1 ELSE 0),
                    fired |-> lost.fired - 1 + (IF slot = "fired" THEN 1 ELSE 0)]
  /\ slot' = "none"
  /\ expiring' = expiring + 1
  /\ UNCHANGED <<connVars, runVars, unsettled>>

\* OnGraceExpired fails the transfers in progress, with a message for each; one
\* message stands for them.
Expire ==
  /\ expiring > 0
  /\ expiring' = expiring - 1
  /\ unsettled' = unsettled \cap clients
  /\ UNCHANGED <<connVars, runVars, graceVars>>

\* The session expires or is revoked.
Revoke ==
  /\ valid
  /\ valid' = FALSE
  /\ UNCHANGED <<pc, shut, missed, online, runVars, graceVars, expiring,
                 unsettled>>

-----------------------------------------------------------------------------
Next ==
  \/ \E c \in Conns :
       \/ Dial(c) \/ Register(c) \/ Connect(c)
       \/ Pong(c) \/ ReadFails(c)
       \/ Disconnect(c) \/ Unregister(c)
       \/ Beat(c)
  \/ TakeRegister \/ TakeUnregister \/ Tick
  \/ Fire \/ Callback \/ Expire
  \/ Revoke

Spec == Init /\ [][Next]_vars

\* A goroutine goes on when it can; a read returns once the connection is
\* closed; a select serves each channel that is ready again and again; timers
\* fire.  Nobody need dial, answer, leave, send or revoke.
Fairness ==
  /\ \A c \in Conns :
       /\ SF_vars(Register(c)) /\ SF_vars(Unregister(c))
       /\ WF_vars(Connect(c) \/ Disconnect(c) \/ Beat(c))
       /\ WF_vars(c \in shut /\ ReadFails(c))
  /\ SF_vars(TakeRegister) /\ SF_vars(TakeUnregister)
  /\ SF_vars(Tick)
  /\ WF_vars(Fire) /\ WF_vars(Callback) /\ WF_vars(Expire)

FairSpec == Spec /\ Fairness

-----------------------------------------------------------------------------
(* Properties. *)

\* Run never sends on a closed channel and never closes one twice, which would
\* end the process: a client in the set has an open channel, even if its
\* unregistration was served before its registration.
OpenWhileRegistered == clients \cap closed = {}

\* The timer of the map never coexists with a registered phone: registration
\* and unregistration of several phone connections, in whatever order select
\* serves them, leave the two consistent.
TimerMeansNoPhone == slot # "none" => clients \subseteq Local

\* A phone that was registered is never forgotten: until OnGraceExpired has
\* dealt with it, a phone is registered or some timer or callback is on its way.
LeavingIsCovered ==
  unsettled # {} =>
    \/ clients \cap Phones # {}
    \/ slot # "none" \/ lost.ticking + lost.fired > 0 \/ expiring > 0

\* The presence map has an entry only while a phone is connected: no order of
\* overlapping connections leaves an entry of a phone that has left.
PresenceIsReal ==
  online => \E c \in Phones : pc[c] \in {"reading", "disconnect"}

\* Run never waits for room in the channel that only it empties, as long as the
\* channel has room for two entries of each connection.
NeverStuck == beating # {} => Len(unregisterQ) < UnregisterCap

\* A phone that stays away has its transfers failed, also when its connection
\* was registered after it had ended.
PhoneAwayIsNoticed ==
  []<>((\A c \in Phones : pc[c] \in {"new", "gone"}) => unsettled = {})

\* The connections of a session that was revoked or has expired end, also those
\* that were validated before and register after.
RevokedSessionsEnd == ~valid ~> [](clients = {})

=============================================================================
