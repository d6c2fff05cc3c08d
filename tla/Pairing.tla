------------------------------ MODULE Pairing ------------------------------
(***************************************************************************)
(* Pairing a phone with the desktop: the QR tokens and pair requests that  *)
(* pairing.Manager keeps in memory, the sessions and device rows in the    *)
(* database, and the HTTP handlers that act on both.                       *)
(*                                                                         *)
(* The manager's methods hold its mutex and every SQL call is a statement  *)
(* of its own, so a handler is a sequence of atomic steps and any number   *)
(* of other handlers run between two of them.  A statement that takes the  *)
(* request's context fails once the client is gone: UpsertDevice and       *)
(* InsertSession do not take it, the others may fail at any time.          *)
(*                                                                         *)
(* Identifiers are drawn from finite sets and used again once nothing in   *)
(* the system refers to them: random ids and tokens never collide.         *)
(***************************************************************************)
EXTENDS Naturals, FiniteSets

CONSTANTS
    Dev,          \* devices that pair
    NameOf,       \* the name each device presents
    Pair,         \* pair ids
    Tok,          \* one-time tokens
    Req,          \* request ids
    Sess,         \* session ids
    Handler,      \* requests the server handles at the same time
    MaxTokenFailures,
    none

ASSUME PairingAssumption ==
    /\ none \notin Dev \cup Pair \cup Tok \cup Req \cup Sess
    /\ MaxTokenFailures \in Nat \ {0}

VARIABLES
    token,          \* Manager.tokens: pair id -> its current token
    request,        \* Manager.requests
    session,        \* table sessions: the rows that Session.Validate takes
    known,          \* table devices: the rows
    ignored,        \* the rows with ignored_at set
    handler,        \* the handlers in flight
    phone           \* what each phone is doing

mgr  == <<token, request>>
db   == <<session, known, ignored>>
vars == <<token, request, session, known, ignored, handler, phone>>

Verdict  == {"accepted", "rejected", "expired"}
\* An overdue request is one past its ExpiresAt whose Status still says
\* waiting_confirmation.
Pending  == {"waiting", "overdue"}

NoToken   == [val |-> none, state |-> "none", failures |-> 0]
NoRequest == [status |-> "none", dev |-> none, tok |-> none, sess |-> none]
\* req is the request a session was made for, none when that is forgotten.
NoSession == [dev |-> none, req |-> none]
Idle      == [op |-> "none", pc |-> "idle", dev |-> none, req |-> none,
              pair |-> none, tok |-> none, sess |-> none]
AtRest    == [doing |-> "nothing", req |-> none]

TypeOK ==
    /\ token \in [Pair -> [val : Tok \cup {none},
                           state : {"none", "new", "used", "late"},
                           failures : 0 .. MaxTokenFailures]]
    /\ request \in [Req -> [status : {"none"} \cup Pending \cup Verdict,
                            dev : Dev \cup {none}, tok : Tok \cup {none},
                            sess : Sess \cup {none}]]
    /\ session \in [Sess -> [dev : Dev \cup {none}, req : Req \cup {none}]]
    /\ known \subseteq Dev
    /\ ignored \subseteq known
    /\ handler \in [Handler ->
                      [op : {"none", "request", "discover", "accept", "delete"},
                       pc : {"idle", "request", "check", "clear",
                             "lookup", "create", "mark", "revoke", "ignore"},
                       dev : Dev \cup {none}, req : Req \cup {none},
                       pair : Pair \cup {none}, tok : Tok \cup {none},
                       sess : Sess \cup {none}]]
    /\ phone \in [Dev -> [doing : {"nothing", "asking", "polling"},
                          req : Req \cup {none}]]

Init ==
    /\ token = [p \in Pair |-> NoToken]
    /\ request = [r \in Req |-> NoRequest]
    /\ session = [s \in Sess |-> NoSession]
    /\ known = {}
    /\ ignored = {}
    /\ handler = [h \in Handler |-> Idle]
    /\ phone = [d \in Dev |-> AtRest]

-----------------------------------------------------------------------------
(* Identifiers nothing refers to any more. *)

FreeTok(t) ==
    /\ \A p \in Pair : token[p].val # t
    /\ \A r \in Req : request[r].tok # t
    /\ \A h \in Handler : handler[h].tok # t

FreePair(p) == token[p] = NoToken /\ \A h \in Handler : handler[h].pair # p

FreeReq(r) ==
    /\ request[r] = NoRequest
    /\ \A h \in Handler : handler[h].req # r
    /\ \A s \in Sess : session[s].req # r
    /\ \A d \in Dev : phone[d].req # r

FreeSess(s) ==
    /\ session[s] = NoSession
    /\ \A r \in Req : request[r].sess # s
    /\ \A h \in Handler : handler[h].sess # s

Live(s) == session[s] # NoSession

Goto(h, pc) == handler' = [handler EXCEPT ![h].pc = pc]
End(h)      == handler' = [handler EXCEPT ![h] = Idle]

\* What the phone behind h makes of the answer, if it is still there: a request
\* to poll, or an error.  Handlers of the desktop's own window have no phone.
PhoneGets(h, r) ==
    phone' = [d \in Dev |->
                IF phone[d] = [doing |-> "asking", req |-> handler[h].req]
                   /\ handler[h].op \in {"request", "discover"}
                THEN IF r = none THEN AtRest ELSE [doing |-> "polling", req |-> r]
                ELSE phone[d]]

\* The handler answers with an error.
Fails(h) == End(h) /\ PhoneGets(h, none)

-----------------------------------------------------------------------------
(* Tokens. *)

Fresh(t) == [val |-> t, state |-> "new", failures |-> 0]

\* The desktop window asks for a QR code.
Issue(p, t) ==
    /\ FreePair(p)
    /\ FreeTok(t)
    /\ token' = [token EXCEPT ![p] = Fresh(t)]
    /\ UNCHANGED <<request, db, handler, phone>>

\* An authenticated client has the token of a pair id replaced, whatever
\* state the old one is in and whether or not the manager still has it.
Refresh(p, t) ==
    /\ \E s \in Sess : Live(s)
    /\ FreeTok(t)
    /\ token' = [token EXCEPT ![p] = Fresh(t)]
    /\ UNCHANGED <<request, db, handler, phone>>

\* A used token is refused as such whether or not it has expired.
TokenExpires(p) ==
    /\ token[p].state = "new"
    /\ token' = [token EXCEPT ![p].state = "late"]
    /\ UNCHANGED <<request, db, handler, phone>>

-----------------------------------------------------------------------------
(* POST /pair/request and POST /pair/discover. *)

\* Mutant: a token is not marked as used when it is consumed.
UsableAgain(k) == k.state \in {"new", "used"} /\ k.failures < MaxTokenFailures

\* A token that may still be tried.
Usable(k) == k.state = "new" /\ k.failures < MaxTokenFailures

Starts(h, d, r, op, pc, p) ==
    /\ handler[h] = Idle
    /\ phone[d] = AtRest
    /\ FreeReq(r)
    /\ handler' = [handler EXCEPT ![h] =
                     [op |-> op, pc |-> pc, dev |-> d, req |-> r, pair |-> p,
                      tok |-> IF p = none THEN none ELSE token[p].val,
                      sess |-> none]]
    /\ phone' = [phone EXCEPT ![d] = [doing |-> "asking", req |-> r]]

\* Validate, with the token that is on the screen for pair p.
PresentToken(h, d, p, r) ==
    /\ Usable(token[p])
    /\ token' = [token EXCEPT ![p].state = "used"]
    /\ Starts(h, d, r, "request", "request", p)
    /\ UNCHANGED <<request, db>>

\* Mutant: a locked token still counts failures.
WrongTokenAnyway(p) ==
    /\ token[p].state = "new"
    /\ token' = [token EXCEPT ![p].failures = @ + 1]
    /\ UNCHANGED <<request, db, handler, phone>>

\* Validate, with anything else: an error for the phone.  A token that is used,
\* locked or late, or that the manager does not have, changes nothing.
PresentWrongToken(p) ==
    /\ Usable(token[p])
    /\ token' = [token EXCEPT ![p].failures = @ + 1]
    /\ UNCHANGED <<request, db, handler, phone>>

NewRequest(d, t) == [status |-> "waiting", dev |-> d, tok |-> t, sess |-> none]

\* CreateRequest looks the pair id up again: the token may be gone by now, or
\* be a new one that nobody has presented yet.  The handler then reads the
\* setting RequirePairConfirmation, which the user may change at any time: it
\* stops here or goes on to accept the request by itself.
CreateRequest(h) ==
    LET r == handler[h].req IN
    /\ handler[h].pc = "request"
    /\ \/ /\ token[handler[h].pair].state # "used"
          /\ Fails(h)
          /\ UNCHANGED request
       \/ /\ token[handler[h].pair].state = "used"
          /\ request' = [request EXCEPT ![r] = NewRequest(handler[h].dev, handler[h].tok)]
          /\ \/ End(h) /\ PhoneGets(h, r)
             \/ /\ handler' = [handler EXCEPT ![h].pc = "lookup", ![h].tok = none,
                                              ![h].pair = none]
                /\ UNCHANGED phone
    /\ UNCHANGED <<token, db>>

\* CreateDirectRequest; with RequirePairConfirmation the handler ends here.
AskDirectly(h, d, r) ==
    /\ request' = [request EXCEPT ![r] = NewRequest(d, none)]
    /\ \/ Starts(h, d, r, "discover", "check", none)
       \/ /\ phone[d] = AtRest
          /\ FreeReq(r)
          /\ phone' = [phone EXCEPT ![d] = [doing |-> "polling", req |-> r]]
          /\ UNCHANGED handler
    /\ UNCHANGED <<token, db>>

-----------------------------------------------------------------------------
(* The list of deleted devices. *)

Namesakes(d) == {e \in Dev : NameOf[e] = NameOf[d]}

\* The device is marked, or another device of its name.
Marked(d) == Namesakes(d) \cap ignored # {}

\* handlePairDiscover asks before it accepts on its own.  A query that fails
\* counts as "not marked".
DiscoverChecks(h) ==
    /\ handler[h].pc = "check"
    /\ \/ /\ Marked(handler[h].dev)
          /\ End(h)
          /\ PhoneGets(h, handler[h].req)
       \/ /\ Goto(h, "lookup")
          /\ UNCHANGED phone
    /\ UNCHANGED <<mgr, db>>

\* What handlePairAccept does to a mark it found before it accepts.
ClearIgnoreOnManualAccept(h) ==
    /\ handler[h].pc = "clear"
    /\ ignored' \in {ignored, ignored \ Namesakes(handler[h].dev)}
    /\ Goto(h, "lookup")
    /\ UNCHANGED <<mgr, session, known, phone>>

-----------------------------------------------------------------------------
(* acceptPairRequest. *)

\* Mutant: a request does not expire when it is looked at.
NeverLate(q) == q

\* The record a caller of GetRequest sees: an overdue request expires when it
\* is looked at.
Looked(q) ==
    IF q.status = "overdue" THEN [q EXCEPT !.status = "expired"] ELSE q

\* GetRequest, then UpsertDevice, which leaves ignored_at alone.
LookUp(h) ==
    LET r == handler[h].req IN
    /\ handler[h].pc = "lookup"
    /\ request' = [request EXCEPT ![r] = Looked(@)]
    /\ IF request[r].status = "none"
       THEN Fails(h) /\ UNCHANGED known
       ELSE /\ known' = known \cup {handler[h].dev}
            /\ Goto(h, "create")
            /\ UNCHANGED phone
    /\ UNCHANGED <<token, session, ignored>>

CreateSession(h, s) ==
    /\ handler[h].pc = "create"
    /\ FreeSess(s)
    /\ session' = [session EXCEPT ![s] =
                     [dev |-> handler[h].dev, req |-> handler[h].req]]
    /\ handler' = [handler EXCEPT ![h].pc = "mark", ![h].sess = s]
    /\ UNCHANGED <<mgr, known, ignored, phone>>

\* The database refuses the row.
CreateSessionFails(h) ==
    /\ handler[h].pc = "create"
    /\ Fails(h)
    /\ UNCHANGED <<mgr, db>>

\* Mutant: Accept does not look at the status.
AcceptableAnyway(q) == q.status \in {"waiting"} \cup Verdict

\* Manager.Accept takes a request that is still waiting.
Acceptable(q) == q.status = "waiting"

\* On success the desktop window is answered with the credentials and the
\* phone with the id of the request.
MarkAccepted(h) ==
    LET r == handler[h].req IN
    /\ handler[h].pc = "mark"
    /\ IF Acceptable(request[r])
       THEN /\ request' = [request EXCEPT ![r].status = "accepted",
                                          ![r].sess = handler[h].sess]
            /\ End(h)
            /\ PhoneGets(h, r)
       ELSE /\ request' = [request EXCEPT ![r] = Looked(@)]
            /\ Goto(h, "revoke")
            /\ UNCHANGED <<phone>>
    /\ UNCHANGED <<token, db>>

\* Mutant: the session made for nothing is kept.
KeepUnused(h) ==
    /\ handler[h].pc = "revoke"
    /\ Fails(h)
    /\ UNCHANGED <<mgr, db>>

\* The session made for nothing is revoked.  When the client is gone the
\* statement fails, the error is dropped and the session stays, with nobody
\* who knows its token.
RevokeUnused(h) ==
    LET s == handler[h].sess IN
    /\ handler[h].pc = "revoke"
    /\ \/ session' = [session EXCEPT ![s] = NoSession]
       \/ session' = [session EXCEPT ![s].req = none]
    /\ Fails(h)
    /\ UNCHANGED <<mgr, known, ignored>>

-----------------------------------------------------------------------------
(* The desktop's window. *)

\* The window lists requests every two seconds: what it accepts may have been
\* decided, or have expired, since.  GetRequest, and the look for a mark.
UiAccept(h, r) ==
    /\ handler[h] = Idle
    /\ request[r].status # "none"
    /\ request' = [request EXCEPT ![r] = Looked(@)]
    /\ \E pc \in {"lookup"} \cup IF Marked(request[r].dev) THEN {"clear"} ELSE {} :
          handler' = [handler EXCEPT ![h] =
                        [Idle EXCEPT !.op = "accept", !.pc = pc,
                                     !.dev = request[r].dev, !.req = r]]
    /\ UNCHANGED <<token, db, phone>>

\* Reject has no look at the clock.
UiReject(r) ==
    /\ request[r].status \in Pending
    /\ request' = [request EXCEPT ![r].status = "rejected"]
    /\ UNCHANGED <<token, db, handler, phone>>

\* The list hands the window the credentials of the accepted requests.
UiList ==
    /\ request' = [r \in Req |-> Looked(request[r])]
    /\ UNCHANGED <<token, db, handler, phone>>

\* handleDeleteLocalDevice: the sessions are revoked, then the connections are
\* cut (which may panic and end the handler), then the row is marked.
UiDelete(h, d) ==
    /\ handler[h] = Idle
    /\ d \in known
    /\ session' = [s \in Sess |-> IF session[s].dev = d THEN NoSession
                                  ELSE session[s]]
    /\ \/ handler' = [handler EXCEPT ![h] =
                        [Idle EXCEPT !.op = "delete", !.pc = "ignore", !.dev = d]]
       \/ UNCHANGED handler
    /\ UNCHANGED <<mgr, known, ignored, phone>>

MarkIgnored(h) ==
    /\ handler[h].pc = "ignore"
    /\ ignored' \in {ignored, ignored \cup {handler[h].dev}}
    /\ End(h)
    /\ UNCHANGED <<mgr, session, known, phone>>

UiRestore(d) ==
    /\ d \in ignored
    /\ ignored' = ignored \ {d}
    /\ UNCHANGED <<mgr, session, known, handler, phone>>

-----------------------------------------------------------------------------
(* The phone after its request, and its session. *)

\* GET /pair/requests/{id}.  While the request waits nothing changes.
Poll(d) ==
    LET r == phone[d].req
        q == Looked(request[r])
    IN
    /\ phone[d].doing = "polling"
    /\ q.status \notin Pending
    /\ request' = [request EXCEPT ![r] = q]
    /\ phone' = [phone EXCEPT ![d] = AtRest]
    /\ UNCHANGED <<token, db, handler>>

\* The poll itself fails: no connection, or the status was read while Accept
\* was writing it and the result was not there yet.  The phone stops polling.
PollFails(d) ==
    /\ phone[d].doing = "polling"
    /\ phone' = [phone EXCEPT ![d] = AtRest]
    /\ UNCHANGED <<mgr, db, handler>>

\* The phone does not wait for the answer; the handler runs on.
StopAsking(d) ==
    /\ phone[d].doing = "asking"
    /\ phone' = [phone EXCEPT ![d] = AtRest]
    /\ UNCHANGED <<mgr, db, handler>>

\* DELETE /session by a client that holds it, or its expiry: a session past its
\* time is refused like one that does not exist, and the purge deletes its row.
SessionEnds(s) ==
    /\ Live(s)
    /\ session' = [session EXCEPT ![s] = NoSession]
    /\ UNCHANGED <<mgr, known, ignored, handler, phone>>

-----------------------------------------------------------------------------
(* Time and restarts. *)

RequestExpires(r) ==
    /\ request[r].status = "waiting"
    /\ request' = [request EXCEPT ![r].status = "overdue"]
    /\ UNCHANGED <<token, db, handler, phone>>

\* Every 30 seconds.  Used tokens go, and so do the tokens P that expired, and
\* the requests R that were made, five minutes ago: all but those waiting.
Cleanup(P, R) ==
    /\ \A p \in P : token[p].state = "late"
    /\ \A r \in R : request[r].status \in {"overdue"} \cup Verdict
    /\ token' = [p \in Pair |-> IF p \in P \/ token[p].state = "used"
                                THEN NoToken ELSE token[p]]
    /\ request' = [r \in Req |-> IF r \in R THEN NoRequest ELSE request[r]]
    /\ session' = [s \in Sess |-> IF session[s].req \in R
                                  THEN [session[s] EXCEPT !.req = none]
                                  ELSE session[s]]
    /\ UNCHANGED <<known, ignored, handler, phone>>

\* The process is killed and started again: the database is what is left, and
\* every session in it is revoked.
Restart ==
    /\ token' = [p \in Pair |-> NoToken]
    /\ request' = [r \in Req |-> NoRequest]
    /\ session' = [s \in Sess |-> NoSession]
    /\ handler' = [h \in Handler |-> Idle]
    /\ phone' = [d \in Dev |-> IF phone[d].doing = "asking" THEN AtRest ELSE phone[d]]
    /\ UNCHANGED <<known, ignored>>

-----------------------------------------------------------------------------
Step(h) ==
    \/ CreateRequest(h)
    \/ DiscoverChecks(h)
    \/ ClearIgnoreOnManualAccept(h)
    \/ LookUp(h)
    \/ \E s \in Sess : CreateSession(h, s)
    \/ CreateSessionFails(h)
    \/ MarkAccepted(h)
    \/ RevokeUnused(h)
    \/ MarkIgnored(h)

Next ==
    \/ \E p \in Pair, t \in Tok : Issue(p, t) \/ Refresh(p, t)
    \/ \E p \in Pair : TokenExpires(p) \/ PresentWrongToken(p)
    \/ \E h \in Handler, d \in Dev, p \in Pair, r \in Req : PresentToken(h, d, p, r)
    \/ \E h \in Handler, d \in Dev, r \in Req : AskDirectly(h, d, r)
    \/ \E h \in Handler : Step(h)
    \/ \E h \in Handler, r \in Req : UiAccept(h, r)
    \/ \E r \in Req : UiReject(r) \/ RequestExpires(r)
    \/ UiList
    \/ \E h \in Handler, d \in Dev : UiDelete(h, d)
    \/ \E d \in Dev : UiRestore(d) \/ Poll(d) \/ PollFails(d) \/ StopAsking(d)
    \/ \E s \in Sess : SessionEnds(s)
    \/ \E P \in SUBSET Pair, R \in SUBSET Req : Cleanup(P, R)
    \/ Restart

Spec == Init /\ [][Next]_vars
\* The handlers run on, the phones poll until they have an answer, and time
\* passes.  Nobody has to press a button and nothing has to be cleaned up.
FairSpec ==
    /\ Spec
    /\ \A h \in Handler : WF_vars(Step(h))
    /\ \A d \in Dev : WF_vars(Poll(d))
    /\ \A r \in Req : WF_vars(RequestExpires(r))

-----------------------------------------------------------------------------
(* Properties. *)

\* Whoever asks how a request ended is told the same, with the same session:
\* the phone that polls, the window that accepts, lists or rejects, in whatever
\* order an expiry, two accepts and a reject arrive (pairing.Manager.Accept,
\* Reject, GetRequest).
VerdictStands ==
    [][\A r \in Req : request[r].status \in Verdict =>
         \/ request'[r] = NoRequest
         \/ /\ request'[r].status = request[r].status
            /\ request'[r].sess = request[r].sess]_vars

\* A session that is live is the one its request was accepted with, or is in
\* the hands of a handler that will hand it out or revoke it, or was lost with
\* the client whose accept came too late: acceptPairRequest creates the session
\* before it knows whether the request can still be accepted.
NoStraySession ==
    \A s \in Sess : session[s].req # none =>
        \/ request[session[s].req].sess = s
        \/ \E h \in Handler : handler[h].sess = s

\* A token makes one request at most, although it is consumed in one call of
\* the manager and the request made in another, with refreshes and evictions of
\* the same pair id in between (Validate, CreateRequest, Refresh, Cleanup).
OneRequestPerToken ==
    \A q, r \in Req : request[q].tok # none /\ request[q].tok = request[r].tok => q = r

\* A phone that asked to be paired gets an answer: a request that nobody
\* decides expires when it is looked at (GetRequest).
AttemptsEnd == \A d \in Dev : phone[d] # AtRest ~> phone[d] = AtRest

\* A device the user deleted needs to be confirmed (isDeviceIgnored: "must be
\* confirmed by the user" even when the setting asks for no confirmation): when
\* handlePairRequest goes on to accept by itself, the device is not marked.
DeletedNeedsConfirmation ==
    [][\A h \in Handler :
         /\ handler[h].pc = "request"
         /\ handler'[h].pc = "lookup"
         => ~Marked(handler[h].dev)]_vars
=============================================================================
