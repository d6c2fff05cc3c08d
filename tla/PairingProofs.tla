--------------------------- MODULE PairingProofs ---------------------------
(***************************************************************************)
(* Theorems about Pairing for any number of phones, tokens, requests,      *)
(* sessions and handlers in flight, any names and any limit of failures.   *)
(***************************************************************************)
EXTENDS Pairing, TLAPS

\* What a handler carries fits the point it has come to.
HandlersSound ==
    \A h \in Handler :
        LET k == handler[h] IN
        /\ k.pc # "idle" => k.dev \in Dev
        /\ k.pc \notin {"idle", "ignore"} => k.req \in Req
        /\ k.pc \in {"mark", "revoke"} => k.sess \in Sess
        /\ k.pc \notin {"mark", "revoke"} => k.sess = none
        /\ k.pc = "ignore" => k.dev \in known

\* A request that is yet to be made has nothing under its id, and only an
\* accepted request names a session.
RequestsSound ==
    /\ \A r \in Req : request[r].status # "none" => request[r].dev \in Dev
    /\ \A r \in Req : request[r].status # "accepted" => request[r].sess = none
    /\ \A h \in Handler : handler[h].pc = "request" =>
         /\ request[handler[h].req] = NoRequest
         /\ \A g \in Handler \ {h} : handler[g].req # handler[h].req

\* A token is on one pair id, and one that can still be consumed is nowhere else.
TokensApart ==
    /\ \A p \in Pair : token[p].state = "new" => token[p].val \in Tok
    /\ \A p, q \in Pair :
         token[p].val # none /\ token[p].val = token[q].val => p = q
    /\ \A p \in Pair : token[p].state = "new" =>
         /\ \A r \in Req : request[r].tok # token[p].val
         /\ \A h \in Handler : handler[h].tok # token[p].val

\* A consumed token is with one handler or with one request.
TokenHolders ==
    /\ \A g, h \in Handler :
         handler[h].tok # none /\ handler[g].tok = handler[h].tok => g = h
    /\ \A h \in Handler, r \in Req :
         handler[h].tok # none => request[r].tok # handler[h].tok

\* A session is with one handler, and was made for the request of that handler.
SessionHolders ==
    /\ \A g, h \in Handler :
         handler[h].sess # none /\ handler[g].sess = handler[h].sess => g = h
    /\ \A h \in Handler : handler[h].sess # none =>
         session[handler[h].sess].req \in {handler[h].req, none}

IInv ==
    /\ TypeOK
    /\ HandlersSound
    /\ RequestsSound
    /\ TokensApart
    /\ TokenHolders
    /\ OneRequestPerToken
    /\ SessionHolders
    /\ NoStraySession

-----------------------------------------------------------------------------
(* Effects that several actions share. *)

\* The initial state.
LEMMA InitInv == Init => IInv
<1> SUFFICES ASSUME Init PROVE IInv OBVIOUS
<1> USE DEF Init, NoToken, NoRequest, NoSession, Idle, AtRest
<1>1. TypeOK BY PairingAssumption DEF TypeOK, Pending, Verdict
<1>2. HandlersSound BY DEF HandlersSound
<1>3. RequestsSound BY DEF RequestsSound
<1>4. TokensApart BY DEF TokensApart
<1>5. TokenHolders BY DEF TokenHolders
<1>6. OneRequestPerToken BY DEF OneRequestPerToken
<1>7. SessionHolders BY DEF SessionHolders
<1>8. NoStraySession BY DEF NoStraySession
<1> QED BY <1>1, <1>2, <1>3, <1>4, <1>5, <1>6, <1>7, <1>8 DEF IInv

\* What the phones are doing matters to TypeOK only, and so does the set of
\* marked devices.
LEMMA PhonesAndMarks ==
  ASSUME IInv, TypeOK', UNCHANGED <<token, request, session, known, handler>>
  PROVE  IInv'
BY DEF IInv, HandlersSound, RequestsSound, TokensApart, TokenHolders,
       OneRequestPerToken, SessionHolders, NoStraySession

LEMMA PhoneAnswered ==
  ASSUME TypeOK, NEW h \in Handler, NEW r \in Req \cup {none}, PhoneGets(h, r)
  PROVE  phone' \in [Dev -> [doing : {"nothing", "asking", "polling"},
                             req : Req \cup {none}]]
BY DEF TypeOK, PhoneGets, AtRest

\* Only tokens change: a new value is one that nothing else holds.
LEMMA TokenChange ==
  ASSUME IInv, TypeOK', UNCHANGED <<request, session, known, handler>>, TokensApart'
  PROVE  IInv'
BY DEF IInv, HandlersSound, RequestsSound, TokenHolders, OneRequestPerToken,
       SessionHolders, NoStraySession

\* Requests are decided otherwise than by an acceptance.
Undecided(q, r) ==
    /\ q.dev = r.dev /\ q.tok = r.tok /\ q.sess = r.sess
    /\ (q.status = "none") <=> (r.status = "none")
    /\ (q.status = "accepted") <=> (r.status = "accepted")

LEMMA StatusChange ==
  ASSUME IInv, TypeOK', UNCHANGED <<token, session, known, handler>>,
         \A r \in Req : Undecided(request[r], request'[r]),
         \A r \in Req : request[r] = NoRequest => request'[r] = NoRequest
  PROVE  IInv'
<1> USE DEF IInv, Undecided
<1>1. HandlersSound' BY DEF HandlersSound
<1>2. RequestsSound'
  <2>1. \A h \in Handler : handler[h].pc = "request" => handler[h].req \in Req
    BY DEF HandlersSound
  <2> QED BY <2>1 DEF RequestsSound
<1>3. TokensApart' BY DEF TokensApart
<1>4. TokenHolders' BY DEF TokenHolders
<1>5. OneRequestPerToken' BY DEF OneRequestPerToken
<1>6. SessionHolders' BY DEF SessionHolders
<1>7. NoStraySession' BY DEF NoStraySession, TypeOK
<1> QED BY <1>1, <1>2, <1>3, <1>4, <1>5, <1>6, <1>7

\* Looking at a request may make it expire, and no more.
LEMMA LookedAt ==
  ASSUME TypeOK, NEW r \in Req
  PROVE  /\ Undecided(request[r], Looked(request[r]))
         /\ request[r].status \notin Pending => Looked(request[r]) = request[r]
         /\ request[r] = NoRequest => Looked(request[r]) = NoRequest
         /\ Looked(request[r]) \in [status : {"none"} \cup Pending \cup Verdict,
                                    dev : Dev \cup {none}, tok : Tok \cup {none},
                                    sess : Sess \cup {none}]
BY DEF TypeOK, Looked, Undecided, NoRequest, Pending, Verdict

\* Requests are decided otherwise than by an acceptance, if at all.
StatusesMove ==
    /\ \A q \in Req : Undecided(request[q], request'[q])
    /\ \A q \in Req : request[q] = NoRequest => request'[q] = NoRequest
    /\ request' \in [Req -> [status : {"none"} \cup Pending \cup Verdict,
                             dev : Dev \cup {none}, tok : Tok \cup {none},
                             sess : Sess \cup {none}]]

LEMMA LookedAtOne ==
  ASSUME TypeOK, NEW r \in Req, request' = [request EXCEPT ![r] = Looked(request[r])]
  PROVE  StatusesMove
<1>1. Undecided(request[r], Looked(request[r])) BY LookedAt
<1>2. request[r] = NoRequest => Looked(request[r]) = NoRequest BY LookedAt
<1>3. Looked(request[r]) \in [status : {"none"} \cup Pending \cup Verdict,
                             dev : Dev \cup {none}, tok : Tok \cup {none},
                             sess : Sess \cup {none}]
  BY LookedAt
<1> QED BY <1>1, <1>2, <1>3 DEF TypeOK, Undecided, StatusesMove

\* The values of a handler.
HandlerRecords ==
    [op : {"none", "request", "discover", "accept", "delete"},
     pc : {"idle", "request", "check", "clear", "lookup", "create", "mark", "revoke",
           "ignore"},
     dev : Dev \cup {none}, req : Req \cup {none}, pair : Pair \cup {none},
     tok : Tok \cup {none}, sess : Sess \cup {none}]

\* A handler ends, or goes on to another point with what it carries.
LEMMA Ending ==
  ASSUME TypeOK, NEW h \in Handler, End(h)
  PROVE  /\ handler' \in [Handler -> HandlerRecords]
         /\ \A g \in Handler : handler'[g] = IF g = h THEN Idle ELSE handler[g]
<1>1. handler \in [Handler -> HandlerRecords] BY DEF TypeOK, HandlerRecords
<1>2. Idle \in HandlerRecords BY DEF Idle, HandlerRecords
<1> QED BY <1>1, <1>2 DEF End

LEMMA GoingOn ==
  ASSUME TypeOK, NEW h \in Handler,
         NEW pc \in {"lookup", "create", "revoke"}, Goto(h, pc)
  PROVE  /\ handler' \in [Handler -> HandlerRecords]
         /\ \A g \in Handler \ {h} : handler'[g] = handler[g]
         /\ handler'[h].pc = pc
         /\ handler'[h].dev = handler[h].dev /\ handler'[h].req = handler[h].req
         /\ handler'[h].tok = handler[h].tok /\ handler'[h].sess = handler[h].sess
<1>1. handler \in [Handler -> HandlerRecords] BY DEF TypeOK, HandlerRecords
<1>2. handler[h] \in HandlerRecords BY <1>1
<1>3. [handler[h] EXCEPT !.pc = pc] \in HandlerRecords BY <1>2 DEF HandlerRecords
<1>4. handler' = [handler EXCEPT ![h] = [handler[h] EXCEPT !.pc = pc]] BY DEF Goto
<1>5. handler'[h] = [handler[h] EXCEPT !.pc = pc] BY <1>1, <1>4
<1>6. /\ handler' \in [Handler -> HandlerRecords]
      /\ \A g \in Handler \ {h} : handler'[g] = handler[g]
  BY <1>1, <1>3, <1>4
<1> QED BY <1>2, <1>5, <1>6 DEF HandlerRecords

\* RequestsSound lasts while requests are not made and no handler takes a request up.
LEMMA RequestsStaySound ==
  ASSUME IInv,
         \A r \in Req : Undecided(request[r], request'[r]),
         \A r \in Req : request[r] = NoRequest => request'[r] = NoRequest,
         \A g \in Handler : handler'[g].pc = "request" => handler'[g] = handler[g],
         \A g \in Handler : handler'[g].req \in {handler[g].req, none}
  PROVE  RequestsSound'
<1>1. /\ \A r \in Req : request'[r].status # "none" => request'[r].dev \in Dev
      /\ \A r \in Req : request'[r].status # "accepted" => request'[r].sess = none
  BY DEF IInv, RequestsSound, Undecided
<1>2. ASSUME NEW g \in Handler, handler'[g].pc = "request"
      PROVE  /\ request'[handler'[g].req] = NoRequest
             /\ \A f \in Handler \ {g} : handler'[f].req # handler'[g].req
  <2>1. handler'[g].req = handler[g].req /\ handler[g].pc = "request" BY <1>2
  <2>2. handler[g].req \in Req BY <2>1 DEF IInv, HandlersSound
  <2>3. /\ request[handler[g].req] = NoRequest
        /\ \A f \in Handler \ {g} : handler[f].req # handler[g].req
    BY <2>1 DEF IInv, RequestsSound
  <2>4. handler[g].req # none BY <2>2, PairingAssumption
  <2> QED BY <2>1, <2>2, <2>3, <2>4
<1> QED BY <1>1, <1>2 DEF RequestsSound

LEMMA SameRequests ==
  ASSUME UNCHANGED request
  PROVE  /\ \A r \in Req : Undecided(request[r], request'[r])
         /\ \A r \in Req : request[r] = NoRequest => request'[r] = NoRequest
BY DEF Undecided

\* NoStraySession lasts while no session is made and nobody lets go of one.
LEMMA SessionsStayHeld ==
  ASSUME IInv,
         \A s \in Sess : session'[s].req \in {session[s].req, none},
         \A r \in Req : request[r].sess # none => request'[r].sess = request[r].sess,
         \A g \in Handler : handler[g].sess # none => handler'[g].sess = handler[g].sess
  PROVE  NoStraySession'
<1> SUFFICES ASSUME NEW s \in Sess, session'[s].req # none
             PROVE  \/ request'[session'[s].req].sess = s
                    \/ \E g \in Handler : handler'[g].sess = s
  BY DEF NoStraySession
<1>1. session'[s].req = session[s].req OBVIOUS
<1>2. session[s].req \in Req BY <1>1 DEF IInv, TypeOK
<1>3. s # none BY PairingAssumption
<1>4. \/ request[session[s].req].sess = s
      \/ \E g \in Handler : handler[g].sess = s
  BY <1>1 DEF IInv, NoStraySession
<1> QED BY <1>1, <1>2, <1>3, <1>4

-----------------------------------------------------------------------------
(* Steps without a handler. *)

\* Tokens are issued, refreshed, tried in vain and expire.
LEMMA TokenSteps ==
  ASSUME IInv, NEW p \in Pair,
         \/ \E t \in Tok : Issue(p, t) \/ Refresh(p, t)
         \/ TokenExpires(p) \/ PresentWrongToken(p)
  PROVE  IInv'
<1> USE DEF IInv
<1>1. UNCHANGED <<request, session, known, ignored, handler, phone>>
  BY Zenon DEF Issue, Refresh, TokenExpires, PresentWrongToken, db
<1>2. ASSUME NEW t \in Tok, Issue(p, t) \/ Refresh(p, t) PROVE IInv'
  <2>1. token' = [token EXCEPT ![p] = Fresh(t)] /\ FreeTok(t)
    BY <1>2 DEF Issue, Refresh
  <2>2. /\ \A q \in Pair : token'[q] = IF q = p THEN Fresh(t) ELSE token[q]
        /\ t # none
    BY <2>1, PairingAssumption DEF TypeOK
  <2>3. TypeOK' BY <1>1, <2>1, PairingAssumption DEF TypeOK, Fresh
  <2>4. TokensApart' BY <1>1, <2>1, <2>2 DEF TokensApart, FreeTok, Fresh
  <2> QED BY <1>1, <2>3, <2>4, TokenChange
<1>3. CASE TokenExpires(p)
  <2>1. token' = [token EXCEPT ![p].state = "late"] BY <1>3 DEF TokenExpires
  <2>2. TypeOK' BY <1>1, <2>1 DEF TypeOK
  <2>3. TokensApart' BY <1>1, <2>1 DEF TokensApart, TypeOK
  <2> QED BY <1>1, <2>2, <2>3, TokenChange
<1>4. CASE PresentWrongToken(p)
  <2>1. /\ token' = [token EXCEPT ![p].failures = token[p].failures + 1]
        /\ token[p].failures < MaxTokenFailures
    BY <1>4 DEF PresentWrongToken, Usable
  <2>2. token[p].failures + 1 \in 0 .. MaxTokenFailures
    BY <2>1, PairingAssumption DEF TypeOK
  <2>3. TypeOK'
    <3>1. [token[p] EXCEPT !.failures = token[p].failures + 1]
            \in [val : Tok \cup {none}, state : {"none", "new", "used", "late"},
                failures : 0 .. MaxTokenFailures]
      BY <2>2 DEF TypeOK
    <3> QED BY <1>1, <2>1, <3>1 DEF TypeOK
  <2>4. TokensApart' BY <1>1, <2>1 DEF TokensApart, TypeOK
  <2> QED BY <1>1, <2>3, <2>4, TokenChange
<1> QED BY <1>2, <1>3, <1>4

\* Requests are rejected, listed, polled and expire.
LEMMA RequestSteps ==
  ASSUME IInv, \/ \E r \in Req : UiReject(r) \/ RequestExpires(r)
               \/ UiList
               \/ \E d \in Dev : Poll(d)
  PROVE  IInv'
<1> USE DEF IInv
<1>1. UNCHANGED <<token, session, known, ignored, handler>>
  BY Zenon DEF UiReject, UiList, RequestExpires, Poll, db
<1>2. phone' \in [Dev -> [doing : {"nothing", "asking", "polling"},
                          req : Req \cup {none}]]
  BY DEF UiReject, UiList, RequestExpires, Poll, TypeOK, AtRest
<1>3. StatusesMove
  <2>1. ASSUME NEW r \in Req, UiReject(r) PROVE StatusesMove
    BY <2>1 DEF UiReject, TypeOK, StatusesMove, Undecided, NoRequest, Pending, Verdict
  <2>2. ASSUME NEW r \in Req, RequestExpires(r) PROVE StatusesMove
    BY <2>2 DEF RequestExpires, TypeOK, StatusesMove, Undecided, NoRequest, Pending,
                Verdict
  <2>3. CASE UiList BY <2>3, LookedAt DEF UiList, TypeOK, StatusesMove, Undecided
  <2>4. ASSUME NEW d \in Dev, Poll(d) PROVE StatusesMove
    <3> DEFINE q == phone[d].req
    <3>1. request' = [request EXCEPT ![q] = Looked(request[q])]
      BY <2>4 DEF Poll
    <3>2. CASE q \in Req BY <3>1, <3>2, LookedAtOne
    <3>3. CASE q \notin Req
      BY <3>1, <3>3 DEF TypeOK, StatusesMove, Undecided
    <3> QED BY <3>2, <3>3
  <2> QED BY <2>1, <2>2, <2>3, <2>4
<1>4. TypeOK' BY <1>1, <1>2, <1>3 DEF TypeOK, StatusesMove
<1> QED BY <1>1, <1>3, <1>4, StatusChange DEF StatusesMove

\* A phone gives up, or the user restores a device.
LEMMA QuietSteps ==
  ASSUME IInv, NEW d \in Dev, PollFails(d) \/ StopAsking(d) \/ UiRestore(d)
  PROVE  IInv'
<1>1. UNCHANGED <<token, request, session, known, handler>>
  BY Zenon DEF PollFails, StopAsking, UiRestore, mgr, db
<1>2. TypeOK'
  BY <1>1 DEF IInv, TypeOK, PollFails, StopAsking, UiRestore, AtRest, mgr, db
<1> QED BY <1>1, <1>2, PhonesAndMarks

\* A session is revoked or runs out.
LEMMA SessionEndsStep ==
  ASSUME IInv, NEW s \in Sess, SessionEnds(s)
  PROVE  IInv'
<1> USE DEF IInv, SessionEnds, NoSession
<1>1. UNCHANGED <<token, request, known, ignored, handler, phone>> BY DEF mgr
<1>2. TypeOK' BY <1>1 DEF TypeOK
<1>3. SessionHolders' BY <1>1 DEF SessionHolders, TypeOK
<1>4. NoStraySession' BY <1>1 DEF NoStraySession, TypeOK
<1> QED BY <1>1, <1>2, <1>3, <1>4
        DEF HandlersSound, RequestsSound, TokensApart, TokenHolders, OneRequestPerToken
-----------------------------------------------------------------------------
(* Steps of a handler. *)

\* A handler that ends gives back what it holds.  The caller sees to the
\* session, if it has one.
LEMMA HandlerEnds ==
  ASSUME IInv, TypeOK', NEW h \in Handler, End(h), RequestsSound', NoStraySession',
         UNCHANGED token, known \subseteq known',
         \A s \in Sess : session'[s].req \in {session[s].req, none},
         \A r \in Req : request'[r].tok = request[r].tok
  PROVE  IInv'
<1> USE DEF IInv
<1>1. \A g \in Handler : handler'[g] = IF g = h THEN Idle ELSE handler[g]
  BY DEF End, TypeOK
<1>2. HandlersSound' BY <1>1 DEF HandlersSound, Idle
<1>3. TokensApart'
  <2>1. \A p \in Pair : token[p].state = "new" => token[p].val # none
    BY PairingAssumption DEF TokensApart
  <2> QED BY <1>1, <2>1 DEF TokensApart, Idle
<1>4. TokenHolders' BY <1>1 DEF TokenHolders, Idle
<1>5. OneRequestPerToken' BY DEF OneRequestPerToken
<1>6. SessionHolders'
  <2>1. \A g \in Handler : handler[g].sess # none => handler[g].sess \in Sess
    BY DEF TypeOK
  <2> QED BY <1>1, <2>1 DEF SessionHolders, Idle
<1> QED BY <1>2, <1>3, <1>4, <1>5, <1>6

\* A handler that goes on keeps what it holds, or lets go of its token.
LEMMA HandlerGoesOn ==
  ASSUME IInv, TypeOK', NEW h \in Handler, HandlersSound', RequestsSound',
         UNCHANGED <<token, session>>,
         \A g \in Handler \ {h} : handler'[g] = handler[g],
         handler'[h].tok \in {handler[h].tok, none},
         handler'[h].req = handler[h].req, handler'[h].sess = handler[h].sess,
         \A r \in Req : /\ request'[r].tok = request[r].tok
                       /\ request'[r].sess = request[r].sess
  PROVE  IInv'
<1> USE DEF IInv
<1>1. TokensApart'
  <2>1. \A p \in Pair : token[p].state = "new" => token[p].val # none
    BY PairingAssumption DEF TokensApart
  <2> QED BY <2>1 DEF TokensApart
<1>2. TokenHolders' BY DEF TokenHolders
<1>3. OneRequestPerToken' BY DEF OneRequestPerToken
<1>4. SessionHolders' BY DEF SessionHolders
<1>5. \A g \in Handler : handler'[g].sess = handler[g].sess OBVIOUS
<1>6. NoStraySession' BY <1>5, SessionsStayHeld
<1> QED BY <1>1, <1>2, <1>3, <1>4, <1>6

\* A phone presents the token that is on the screen.
LEMMA PresentTokenStep ==
  ASSUME IInv, NEW h \in Handler, NEW d \in Dev, NEW p \in Pair, NEW r \in Req,
         PresentToken(h, d, p, r)
  PROVE  IInv'
<1> USE DEF IInv
<1>1. /\ UNCHANGED <<request, session, known, ignored>>
      /\ token[p].state = "new"
      /\ token' = [token EXCEPT ![p].state = "used"]
      /\ handler[h] = Idle
      /\ FreeReq(r)
      /\ phone' = [phone EXCEPT ![d] = [doing |-> "asking", req |-> r]]
  BY DEF PresentToken, Usable, Starts, db
<1>2. p # none BY PairingAssumption
<1>3. handler' = [handler EXCEPT ![h] =
                    [op |-> "request", pc |-> "request", dev |-> d, req |-> r,
                     pair |-> p, tok |-> token[p].val, sess |-> none]]
  BY <1>2 DEF PresentToken, Starts
<1>4. \A g \in Handler \ {h} : handler'[g] = handler[g]
  BY <1>3 DEF TypeOK
<1>5. /\ handler'[h].pc = "request" /\ handler'[h].dev = d /\ handler'[h].req = r
      /\ handler'[h].tok = token[p].val /\ handler'[h].sess = none
  BY <1>3 DEF TypeOK
<1>6. \A q \in Pair : /\ token'[q].val = token[q].val
                     /\ token'[q].state = IF q = p THEN "used" ELSE token[q].state
  BY <1>1 DEF TypeOK
<1>7. TypeOK'
  <2>1. [op |-> "request", pc |-> "request", dev |-> d, req |-> r,
         pair |-> p, tok |-> token[p].val, sess |-> none] \in HandlerRecords
    BY DEF TypeOK, HandlerRecords
  <2>2. handler' \in [Handler -> HandlerRecords]
    BY <1>3, <2>1 DEF TypeOK, HandlerRecords
  <2>3. token' \in [Pair -> [val : Tok \cup {none},
                            state : {"none", "new", "used", "late"},
                            failures : 0 .. MaxTokenFailures]]
    <3>1. token \in [Pair -> [val : Tok \cup {none},
                             state : {"none", "new", "used", "late"},
                             failures : 0 .. MaxTokenFailures]]
      BY DEF TypeOK
    <3>2. [token[p] EXCEPT !.state = "used"]
            \in [val : Tok \cup {none}, state : {"none", "new", "used", "late"},
                failures : 0 .. MaxTokenFailures]
      BY <3>1
    <3> QED BY <1>1, <3>1, <3>2
  <2>4. phone' \in [Dev -> [doing : {"nothing", "asking", "polling"},
                           req : Req \cup {none}]]
    BY <1>1 DEF TypeOK
  <2> QED BY <1>1, <2>2, <2>3, <2>4 DEF TypeOK, HandlerRecords
<1>8. HandlersSound' BY <1>1, <1>4, <1>5 DEF HandlersSound
<1>9. RequestsSound'
  <2>1. \A g \in Handler : handler[g].req # r BY <1>1 DEF FreeReq
  <2>2. request[r] = NoRequest BY <1>1 DEF FreeReq
  <2> QED BY <1>1, <1>4, <1>5, <2>1, <2>2 DEF RequestsSound
<1>10. TokensApart' BY <1>1, <1>4, <1>5, <1>6, PairingAssumption DEF TokensApart
<1>11. TokenHolders' BY <1>1, <1>4, <1>5 DEF TokenHolders, TokensApart
<1>12. OneRequestPerToken' BY <1>1 DEF OneRequestPerToken
<1>13. handler[h].sess = none BY <1>1 DEF Idle
<1>14. SessionHolders' BY <1>1, <1>4, <1>5 DEF SessionHolders
<1>15. NoStraySession' BY <1>1, <1>4, <1>5, <1>13, PairingAssumption DEF NoStraySession
<1> QED BY <1>7, <1>8, <1>9, <1>10, <1>11, <1>12, <1>14, <1>15

\* CreateRequest puts the token from the handler into the new request.
LEMMA CreateRequestStep ==
  ASSUME IInv, NEW h \in Handler, CreateRequest(h)
  PROVE  IInv'
<1> USE DEF IInv
<1> DEFINE r == handler[h].req
<1>1. UNCHANGED <<token, session, known, ignored>> /\ handler[h].pc = "request"
  BY DEF CreateRequest, db
<1>2. r \in Req /\ handler[h].dev \in Dev /\ handler[h].sess = none
  BY <1>1 DEF HandlersSound
<1>3. CASE Fails(h) /\ UNCHANGED request
  <2>1. End(h) BY <1>3 DEF Fails
  <2>2. TypeOK' BY <1>1, <1>3, PhoneAnswered DEF TypeOK, Fails, End, Idle
  <2>3. RequestsSound'
    <3>1. \A g \in Handler : handler'[g] = IF g = h THEN Idle ELSE handler[g]
      BY <2>1, Ending
    <3> QED BY <1>3, <3>1, SameRequests, RequestsStaySound DEF Idle
  <2>4. NoStraySession'
    BY <1>1, <1>2, <1>3, <2>1, PairingAssumption DEF NoStraySession, End, TypeOK, Idle
  <2> QED BY <1>1, <1>3, <2>1, <2>2, <2>3, <2>4, HandlerEnds
<1>4. CASE /\ request' = [request EXCEPT ![r] = NewRequest(handler[h].dev, handler[h].tok)]
           /\ \/ End(h) /\ PhoneGets(h, r)
              \/ /\ handler' = [handler EXCEPT ![h].pc = "lookup", ![h].tok = none,
                                               ![h].pair = none]
                 /\ UNCHANGED phone
  <2> DEFINE new == NewRequest(handler[h].dev, handler[h].tok)
  <2>1. /\ \A q \in Req : request'[q] = IF q = r THEN new ELSE request[q]
        /\ new.status = "waiting" /\ new.dev = handler[h].dev
        /\ new.tok = handler[h].tok /\ new.sess = none
    BY <1>4 DEF NewRequest, TypeOK
  <2>2. \A g \in Handler \ {h} : handler'[g] = handler[g]
    BY <1>4 DEF End, TypeOK
  <2>3. /\ handler'[h].tok = none /\ handler'[h].sess = none
        /\ handler'[h].req \in {r, none}
        /\ \/ handler'[h] = Idle
           \/ /\ handler'[h].pc = "lookup"
              /\ handler'[h].dev = handler[h].dev /\ handler'[h].req = r
    BY <1>2, <1>4 DEF End, TypeOK, Idle
  <2>4. TypeOK'
    <3>1. request' \in [Req -> [status : {"none"} \cup Pending \cup Verdict,
                               dev : Dev \cup {none}, tok : Tok \cup {none},
                               sess : Sess \cup {none}]]
      BY <1>4 DEF TypeOK, NewRequest, Pending
    <3>2. phone' \in [Dev -> [doing : {"nothing", "asking", "polling"},
                             req : Req \cup {none}]]
      BY <1>2, <1>4, PhoneAnswered DEF TypeOK
    <3>3. handler' \in [Handler -> HandlerRecords]
      <4>1. CASE End(h) BY <4>1, Ending
      <4>2. CASE handler' = [handler EXCEPT ![h].pc = "lookup", ![h].tok = none,
                                            ![h].pair = none]
        <5>1. handler \in [Handler -> HandlerRecords] BY DEF TypeOK, HandlerRecords
        <5>2. handler[h] \in HandlerRecords BY <5>1
        <5>3. [handler[h] EXCEPT !.pc = "lookup", !.tok = none, !.pair = none]
                \in HandlerRecords
          BY <5>2 DEF HandlerRecords
        <5>4. handler' = [handler EXCEPT ![h] =
                [handler[h] EXCEPT !.pc = "lookup", !.tok = none, !.pair = none]]
          BY <4>2, <5>1
        <5> QED BY <5>1, <5>3, <5>4
      <4> QED BY <1>4, <4>1, <4>2
    <3> QED BY <1>1, <3>1, <3>2, <3>3 DEF TypeOK, HandlerRecords
  <2>5. /\ request[r] = NoRequest
        /\ \A g \in Handler \ {h} : handler[g].req # r
    BY <1>1 DEF RequestsSound
  <2> HIDE DEF new, r
  <2>6. HandlersSound' BY <1>1, <1>2, <2>2, <2>3 DEF HandlersSound, Idle
  <2>7. RequestsSound'
    <3>1. /\ \A q \in Req : request'[q].status # "none" => request'[q].dev \in Dev
          /\ \A q \in Req : request'[q].status # "accepted" => request'[q].sess = none
      BY <1>2, <2>1 DEF RequestsSound
    <3>2. ASSUME NEW g \in Handler, handler'[g].pc = "request"
          PROVE  /\ request'[handler'[g].req] = NoRequest
                 /\ \A f \in Handler \ {g} : handler'[f].req # handler'[g].req
      <4>1. g # h BY <2>3, <3>2 DEF Idle
      <4>2. handler'[g] = handler[g] /\ handler[g].pc = "request" BY <2>2, <3>2, <4>1
      <4>3. handler[g].req \in Req /\ handler[g].req # r /\ handler[g].req # none
        BY <2>5, <4>1, <4>2, PairingAssumption DEF HandlersSound
      <4>4. /\ request[handler[g].req] = NoRequest
            /\ \A f \in Handler \ {g} : handler[f].req # handler[g].req
        BY <4>2 DEF RequestsSound
      <4>5. request'[handler'[g].req] = NoRequest BY <2>1, <4>2, <4>3, <4>4
      <4>6. \A f \in Handler \ {g} : handler'[f].req # handler'[g].req
        BY <2>2, <2>3, <4>2, <4>3, <4>4
      <4> QED BY <4>5, <4>6
    <3> QED BY <3>1, <3>2 DEF RequestsSound
  <2>8. TokensApart'
    <3>1. \A p \in Pair : token[p].state = "new" => token[p].val # none
      BY PairingAssumption DEF TokensApart
    <3> QED BY <1>1, <1>2, <2>1, <2>2, <2>3, <3>1 DEF TokensApart
  <2>9. TokenHolders' BY <1>1, <1>2, <2>1, <2>2, <2>3 DEF TokenHolders
  <2>10. OneRequestPerToken'
    BY <1>1, <1>2, <2>1, <2>5 DEF OneRequestPerToken, TokenHolders
  <2>11. SessionHolders' BY <1>1, <1>2, <2>2, <2>3 DEF SessionHolders
  <2>12. NoStraySession'
    <3>1. \A q \in Req : request[q].sess # none => request'[q].sess = request[q].sess
      BY <2>1, <2>5 DEF NoRequest
    <3>2. \A g \in Handler : handler[g].sess # none => handler'[g].sess = handler[g].sess
      BY <1>2, <2>2
    <3> QED BY <1>1, <3>1, <3>2, SessionsStayHeld
  <2> QED BY <2>4, <2>6, <2>7, <2>8, <2>9, <2>10, <2>11, <2>12
<1> QED BY <1>3, <1>4 DEF CreateRequest

\* CreateDirectRequest.
LEMMA AskDirectlyStep ==
  ASSUME IInv, NEW h \in Handler, NEW d \in Dev, NEW r \in Req, AskDirectly(h, d, r)
  PROVE  IInv'
<1> USE DEF IInv
<1> DEFINE new == NewRequest(d, none)
<1>1. /\ UNCHANGED <<token, session, known, ignored>>
      /\ request' = [request EXCEPT ![r] = new]
      /\ FreeReq(r)
  BY DEF AskDirectly, Starts, db
<1>2. /\ \A q \in Req : request'[q] = IF q = r THEN new ELSE request[q]
      /\ new.status = "waiting" /\ new.dev = d /\ new.tok = none /\ new.sess = none
  BY <1>1 DEF NewRequest, TypeOK
<1>3. \/ UNCHANGED handler
      \/ /\ handler[h] = Idle
         /\ handler' = [handler EXCEPT ![h] =
                          [op |-> "discover", pc |-> "check", dev |-> d, req |-> r,
                           pair |-> none, tok |-> none, sess |-> none]]
  BY DEF AskDirectly, Starts
<1>4. \A g \in Handler : handler'[g] = handler[g] \/
        /\ g = h /\ handler[h] = Idle
        /\ handler'[h].pc = "check" /\ handler'[h].dev = d /\ handler'[h].req = r
        /\ handler'[h].tok = none /\ handler'[h].sess = none
  BY <1>3 DEF TypeOK
<1>5. TypeOK'
  <2>1. request' \in [Req -> [status : {"none"} \cup Pending \cup Verdict,
                             dev : Dev \cup {none}, tok : Tok \cup {none},
                             sess : Sess \cup {none}]]
    BY <1>1 DEF TypeOK, NewRequest, Pending
  <2>2. handler' \in [Handler -> HandlerRecords]
    BY <1>3 DEF TypeOK, HandlerRecords
  <2>3. phone' \in [Dev -> [doing : {"nothing", "asking", "polling"},
                           req : Req \cup {none}]]
    BY DEF TypeOK, AskDirectly, Starts
  <2> QED BY <1>1, <2>1, <2>2, <2>3 DEF TypeOK, HandlerRecords
<1>6. request[r] = NoRequest /\ \A g \in Handler : handler[g].req # r
  BY <1>1 DEF FreeReq
<1> HIDE DEF new
<1>7. HandlersSound' BY <1>1, <1>4 DEF HandlersSound
<1>8. RequestsSound'
  <2>1. \A g \in Handler : handler'[g].pc = "request" => handler'[g] = handler[g]
    BY <1>4
  <2>2. \A g \in Handler : handler[g].pc = "request" => handler[g].req \in Req
    BY DEF HandlersSound
  <2> QED BY <1>1, <1>2, <1>4, <1>6, <2>1, <2>2 DEF RequestsSound
<1>9. TokensApart'
  <2>1. \A p \in Pair : token[p].state = "new" => token[p].val # none
    BY PairingAssumption DEF TokensApart
  <2> QED BY <1>1, <1>2, <1>4, <2>1 DEF TokensApart
<1>10. TokenHolders' BY <1>1, <1>2, <1>4 DEF TokenHolders
<1>11. OneRequestPerToken' BY <1>1, <1>2 DEF OneRequestPerToken
<1>12. SessionHolders' BY <1>1, <1>4 DEF SessionHolders
<1>13. NoStraySession'
  <2>1. \A q \in Req : request[q].sess # none => request'[q].sess = request[q].sess
    BY <1>2, <1>6 DEF NoRequest
  <2>2. \A g \in Handler : handler[g].sess # none => handler'[g].sess = handler[g].sess
    BY <1>4 DEF Idle
  <2> QED BY <1>1, <2>1, <2>2, SessionsStayHeld
<1> QED BY <1>5, <1>7, <1>8, <1>9, <1>10, <1>11, <1>12, <1>13

\* DiscoverChecks and ClearIgnoreOnManualAccept.
LEMMA CheckSteps ==
  ASSUME IInv, NEW h \in Handler, DiscoverChecks(h) \/ ClearIgnoreOnManualAccept(h)
  PROVE  IInv'
<1> USE DEF IInv
<1>1. /\ UNCHANGED <<token, request, session, known>>
      /\ ignored' \subseteq known'
      /\ handler[h].pc \in {"check", "clear"}
  BY DEF DiscoverChecks, ClearIgnoreOnManualAccept, mgr, db, TypeOK
<1>2. handler[h].req \in Req /\ handler[h].dev \in Dev /\ handler[h].sess = none
  BY <1>1 DEF HandlersSound
<1>3. CASE End(h) /\ PhoneGets(h, handler[h].req)
  <2>1. TypeOK' BY <1>1, <1>2, <1>3, PhoneAnswered DEF TypeOK, End, Idle
  <2>2. RequestsSound'
    <3>1. \A g \in Handler : handler'[g] = IF g = h THEN Idle ELSE handler[g]
      BY <1>3, Ending
    <3> QED BY <1>1, <3>1, SameRequests, RequestsStaySound DEF Idle
  <2>3. NoStraySession'
    BY <1>1, <1>2, <1>3, PairingAssumption DEF NoStraySession, End, TypeOK, Idle
  <2> QED BY <1>1, <1>3, <2>1, <2>2, <2>3, HandlerEnds
<1>4. CASE Goto(h, "lookup") /\ UNCHANGED phone
  <2>1. handler' \in [Handler -> HandlerRecords] BY <1>4, GoingOn
  <2>2. TypeOK' BY <1>1, <1>4, <2>1 DEF TypeOK, HandlerRecords
  <2>3. /\ \A g \in Handler \ {h} : handler'[g] = handler[g]
        /\ handler'[h].tok = handler[h].tok /\ handler'[h].req = handler[h].req
        /\ handler'[h].sess = handler[h].sess /\ handler'[h].pc = "lookup"
        /\ handler'[h].dev = handler[h].dev
    BY <1>4, GoingOn
  <2>4. HandlersSound' BY <1>1, <1>2, <2>3 DEF HandlersSound
  <2>5. RequestsSound' BY <1>1, <2>3, SameRequests, RequestsStaySound
  <2> QED BY <1>1, <2>2, <2>3, <2>4, <2>5, HandlerGoesOn
<1> QED BY <1>3, <1>4 DEF DiscoverChecks, ClearIgnoreOnManualAccept

\* GetRequest and UpsertDevice.
LEMMA LookUpStep ==
  ASSUME IInv, NEW h \in Handler, LookUp(h)
  PROVE  IInv'
<1> USE DEF IInv
<1> DEFINE r == handler[h].req
<1>1. /\ UNCHANGED <<token, session, ignored>>
      /\ request' = [request EXCEPT ![r] = Looked(request[r])]
      /\ handler[h].pc = "lookup"
  BY DEF LookUp
<1>2. r \in Req /\ handler[h].dev \in Dev /\ handler[h].sess = none
  BY <1>1 DEF HandlersSound
<1>3. StatusesMove BY <1>1, <1>2, LookedAtOne
<1>4. \A q \in Req : /\ request'[q].tok = request[q].tok
                    /\ request'[q].sess = request[q].sess
  BY <1>3 DEF StatusesMove, Undecided
<1> HIDE DEF r
<1>5. CASE Fails(h) /\ UNCHANGED known
  <2>1. End(h) BY <1>5 DEF Fails
  <2>2. TypeOK' BY <1>1, <1>3, <1>5, PhoneAnswered
    DEF TypeOK, StatusesMove, Fails, End, Idle
  <2>3. RequestsSound'
    <3>1. \A g \in Handler : handler'[g] = handler[g] \/ handler'[g] = Idle
      BY <2>1 DEF End, TypeOK
    <3>2. \A g \in Handler : handler[g].pc = "request" => handler[g].req \in Req
      BY DEF HandlersSound
    <3>3. /\ \A q \in Req : request'[q].status # "none" => request'[q].dev \in Dev
          /\ \A q \in Req : request'[q].status # "accepted" => request'[q].sess = none
      BY <1>3 DEF RequestsSound, StatusesMove, Undecided
    <3>4. \A g \in Handler : handler'[g].pc = "request" =>
            /\ request'[handler'[g].req] = NoRequest
            /\ \A f \in Handler \ {g} : handler'[f].req # handler'[g].req
      <4>1. none \notin Req BY PairingAssumption
      <4> QED BY <1>3, <3>1, <3>2, <4>1 DEF RequestsSound, StatusesMove, Idle
    <3> QED BY <3>3, <3>4 DEF RequestsSound
  <2>4. NoStraySession'
    <3>1. \A g \in Handler : handler[g].sess # none => handler'[g] = handler[g]
      BY <1>2, <2>1 DEF End, TypeOK
    <3> QED BY <1>1, <1>4, <3>1, SessionsStayHeld
  <2> QED BY <1>1, <1>4, <1>5, <2>1, <2>2, <2>3, <2>4, HandlerEnds
<1>6. CASE /\ known' = known \cup {handler[h].dev}
           /\ Goto(h, "create") /\ UNCHANGED phone
  <2>1. handler' \in [Handler -> HandlerRecords] BY <1>6, GoingOn
  <2>2. TypeOK' BY <1>1, <1>2, <1>3, <1>6, <2>1 DEF TypeOK, StatusesMove, HandlerRecords
  <2>3. /\ \A g \in Handler \ {h} : handler'[g] = handler[g]
        /\ handler'[h].tok = handler[h].tok /\ handler'[h].req = handler[h].req
        /\ handler'[h].sess = handler[h].sess /\ handler'[h].pc = "create"
        /\ handler'[h].dev = handler[h].dev
    BY <1>6, GoingOn
  <2>4. HandlersSound' BY <1>1, <1>2, <1>6, <2>3 DEF HandlersSound, r
  <2>5. RequestsSound' BY <1>3, <2>3, RequestsStaySound DEF StatusesMove
  <2> QED BY <1>1, <1>4, <2>2, <2>3, <2>4, <2>5, HandlerGoesOn
<1> QED BY <1>5, <1>6 DEF LookUp

\* Session.Create.
LEMMA CreateSessionStep ==
  ASSUME IInv, NEW h \in Handler, NEW s \in Sess, CreateSession(h, s)
  PROVE  IInv'
<1> USE DEF IInv
<1>1. /\ UNCHANGED <<token, request, known, ignored, phone>>
      /\ handler[h].pc = "create"
      /\ FreeSess(s)
  BY DEF CreateSession, mgr
<1>2. handler[h].req \in Req /\ handler[h].dev \in Dev /\ handler[h].sess = none
  BY <1>1 DEF HandlersSound
<1>3. \A z \in Sess : session'[z].req = IF z = s THEN handler[h].req ELSE session[z].req
  BY DEF CreateSession, TypeOK
<1>4. /\ handler' \in [Handler -> HandlerRecords]
      /\ \A g \in Handler \ {h} : handler'[g] = handler[g]
      /\ handler'[h].tok = handler[h].tok /\ handler'[h].req = handler[h].req
      /\ handler'[h].dev = handler[h].dev
      /\ handler'[h].pc = "mark" /\ handler'[h].sess = s
  <2> DEFINE new == [handler[h] EXCEPT !.pc = "mark", !.sess = s]
  <2>1. handler \in [Handler -> HandlerRecords] BY DEF TypeOK, HandlerRecords
  <2>2. handler[h] \in HandlerRecords BY <2>1
  <2>3. /\ new \in HandlerRecords
        /\ new.tok = handler[h].tok /\ new.req = handler[h].req
        /\ new.dev = handler[h].dev /\ new.pc = "mark" /\ new.sess = s
    BY <2>2 DEF HandlerRecords
  <2>4. handler' = [handler EXCEPT ![h] = new] BY <2>1 DEF CreateSession
  <2> HIDE DEF new
  <2>5. handler'[h] = new BY <2>1, <2>4
  <2> QED BY <2>1, <2>3, <2>4, <2>5
<1>5. TypeOK'
  <2>1. session' \in [Sess -> [dev : Dev \cup {none}, req : Req \cup {none}]]
    BY <1>2 DEF CreateSession, TypeOK
  <2> QED BY <1>1, <1>4, <2>1 DEF TypeOK, HandlerRecords
<1>6. HandlersSound' BY <1>1, <1>2, <1>4 DEF HandlersSound
<1>7. RequestsSound' BY <1>1, <1>4, SameRequests, RequestsStaySound
<1>8. TokensApart' BY <1>1, <1>4 DEF TokensApart
<1>9. TokenHolders' BY <1>1, <1>4 DEF TokenHolders
<1>10. OneRequestPerToken' BY <1>1 DEF OneRequestPerToken
<1>11. /\ \A g \in Handler : handler[g].sess # s
       /\ \A q \in Req : request[q].sess # s
  BY <1>1 DEF FreeSess
<1>12. SessionHolders'
  <2>1. \A g \in Handler : handler[g].sess # none => handler[g].sess \in Sess
    BY DEF TypeOK
  <2> QED BY <1>3, <1>4, <1>11, <2>1 DEF SessionHolders
<1>13. NoStraySession'
  <2>1. \A g \in Handler : handler[g].sess # none => handler'[g].sess = handler[g].sess
    BY <1>2, <1>4
  <2>2. handler'[h].sess = s BY <1>4
  <2> QED BY <1>1, <1>3, <2>1, <2>2, PairingAssumption DEF NoStraySession
<1> QED BY <1>5, <1>6, <1>7, <1>8, <1>9, <1>10, <1>12, <1>13

\* A handler that ends without a session and leaves the manager alone.
LEMMA EndsWithNothing ==
  ASSUME IInv, TypeOK', NEW h \in Handler, End(h), handler[h].sess = none,
         UNCHANGED <<token, request, session, known>>
  PROVE  IInv'
<1> USE DEF IInv
<1>1. RequestsSound'
  <2>1. \A g \in Handler : handler'[g] = IF g = h THEN Idle ELSE handler[g] BY Ending
  <2> QED BY <2>1, SameRequests, RequestsStaySound DEF Idle
<1>2. NoStraySession' BY PairingAssumption DEF NoStraySession, End, TypeOK, Idle
<1> QED BY <1>1, <1>2, HandlerEnds

\* The session cannot be stored, or the device is marked as deleted.
LEMMA LastSteps ==
  ASSUME IInv, NEW h \in Handler, CreateSessionFails(h) \/ MarkIgnored(h)
  PROVE  IInv'
<1> USE DEF IInv
<1>1. /\ UNCHANGED <<token, request, session, known>>
      /\ handler[h].pc \in {"create", "ignore"}
      /\ End(h)
  BY DEF CreateSessionFails, MarkIgnored, Fails, mgr, db
<1>2. handler[h].sess = none /\ (handler[h].pc = "ignore" => handler[h].dev \in known)
  BY <1>1 DEF HandlersSound
<1>3. TypeOK'
  <2>1. handler' \in [Handler -> HandlerRecords]
    BY <1>1, Ending
  <2>2. CASE CreateSessionFails(h)
    BY <1>1, <2>1, <2>2, PhoneAnswered
    DEF CreateSessionFails, Fails, TypeOK, HandlerRecords, db
  <2>3. CASE MarkIgnored(h)
    BY <1>1, <1>2, <2>1, <2>3 DEF MarkIgnored, TypeOK, HandlerRecords
  <2> QED BY <2>2, <2>3
<1> QED BY <1>1, <1>2, <1>3, EndsWithNothing

\* Manager.Accept.
LEMMA MarkAcceptedStep ==
  ASSUME IInv, NEW h \in Handler, MarkAccepted(h)
  PROVE  IInv'
<1> USE DEF IInv
<1> DEFINE r == handler[h].req
           s == handler[h].sess
<1>1. UNCHANGED <<token, session, known, ignored>> /\ handler[h].pc = "mark"
  BY DEF MarkAccepted, db
<1>2. r \in Req /\ s \in Sess BY <1>1 DEF HandlersSound
<1>3. CASE /\ Acceptable(request[r])
           /\ request' = [request EXCEPT ![r].status = "accepted", ![r].sess = s]
           /\ End(h) /\ PhoneGets(h, r)
  <2>1. /\ \A q \in Req \ {r} : request'[q] = request[q]
        /\ request'[r].status = "accepted" /\ request'[r].sess = s
        /\ request'[r].dev = request[r].dev /\ request'[r].tok = request[r].tok
        /\ request[r].status = "waiting"
    BY <1>2, <1>3 DEF TypeOK, Acceptable
  <2>2. \A g \in Handler : handler'[g] = IF g = h THEN Idle ELSE handler[g]
    BY <1>3 DEF End, TypeOK
  <2>3. TypeOK'
    <3>1. request' \in [Req -> [status : {"none"} \cup Pending \cup Verdict,
                               dev : Dev \cup {none}, tok : Tok \cup {none},
                               sess : Sess \cup {none}]]
      BY <1>2, <1>3 DEF TypeOK, Verdict
    <3>2. phone' \in [Dev -> [doing : {"nothing", "asking", "polling"},
                             req : Req \cup {none}]]
      BY <1>2, <1>3, PhoneAnswered
    <3>3. handler' \in [Handler -> HandlerRecords]
      BY <1>3, Ending
    <3> QED BY <1>1, <3>1, <3>2, <3>3 DEF TypeOK, HandlerRecords
  <2>4. session[s].req \in {r, none}
    BY <1>2, PairingAssumption DEF SessionHolders
  <2>5. request[r].sess = none BY <1>2, <2>1 DEF RequestsSound
  <2> HIDE DEF r, s
  <2>6. RequestsSound'
    <3>1. \A g \in Handler : handler[g].pc = "request" =>
            handler[g].req \in Req /\ handler[g].req # r
      BY <2>1 DEF HandlersSound, RequestsSound, NoRequest
    <3>2. /\ \A q \in Req : request'[q].status # "none" => request'[q].dev \in Dev
          /\ \A q \in Req : request'[q].status # "accepted" => request'[q].sess = none
      BY <2>1 DEF RequestsSound
    <3>3. ASSUME NEW g \in Handler, handler'[g].pc = "request"
          PROVE  /\ request'[handler'[g].req] = NoRequest
                 /\ \A f \in Handler \ {g} : handler'[f].req # handler'[g].req
      <4>1. handler'[g] = handler[g] /\ handler[g].pc = "request"
        BY <2>2, <3>3 DEF Idle
      <4>2. handler[g].req \in Req /\ handler[g].req # r /\ handler[g].req # none
        BY <3>1, <4>1, PairingAssumption
      <4>3. /\ request[handler[g].req] = NoRequest
            /\ \A f \in Handler \ {g} : handler[f].req # handler[g].req
        BY <4>1 DEF RequestsSound
      <4>4. request'[handler'[g].req] = NoRequest BY <2>1, <4>1, <4>2, <4>3
      <4>5. \A f \in Handler \ {g} : handler'[f].req # handler'[g].req
        BY <2>2, <4>1, <4>2, <4>3 DEF Idle
      <4> QED BY <4>4, <4>5
    <3> QED BY <3>2, <3>3 DEF RequestsSound
  <2>7. NoStraySession'
    <3> SUFFICES ASSUME NEW z \in Sess, session[z].req # none
                 PROVE  \/ request'[session[z].req].sess = z
                        \/ \E g \in Handler : handler'[g].sess = z
      BY <1>1 DEF NoStraySession
    <3>1. session[z].req \in Req BY DEF TypeOK
    <3>2. CASE z = s BY <2>1, <2>4, <3>2
    <3>3. CASE z # s
      <4>1. \A g \in Handler : handler[g].sess = z => handler'[g].sess = z
        BY <2>2, <3>3 DEF s
      <4>2. request[session[z].req].sess = z => session[z].req # r
        BY <2>5, PairingAssumption
      <4> QED BY <2>1, <3>1, <4>1, <4>2 DEF NoStraySession
    <3> QED BY <3>2, <3>3
  <2> QED BY <1>1, <1>3, <2>1, <2>3, <2>6, <2>7, HandlerEnds
<1>4. CASE /\ request' = [request EXCEPT ![r] = Looked(request[r])]
           /\ Goto(h, "revoke") /\ UNCHANGED phone
  <2>1. StatusesMove BY <1>2, <1>4, LookedAtOne
  <2> HIDE DEF r, s
  <2>2. handler' \in [Handler -> HandlerRecords] BY <1>4, GoingOn
  <2>3. TypeOK' BY <1>1, <1>4, <2>1, <2>2 DEF TypeOK, StatusesMove, HandlerRecords
  <2>4. /\ \A g \in Handler \ {h} : handler'[g] = handler[g]
        /\ handler'[h].tok = handler[h].tok /\ handler'[h].req = handler[h].req
        /\ handler'[h].sess = handler[h].sess /\ handler'[h].pc = "revoke"
        /\ handler'[h].dev = handler[h].dev
    BY <1>4, GoingOn
  <2>5. HandlersSound' BY <1>1, <2>4 DEF HandlersSound
  <2>6. RequestsSound' BY <2>1, <2>4, RequestsStaySound DEF StatusesMove
  <2>7. \A q \in Req : /\ request'[q].tok = request[q].tok
                       /\ request'[q].sess = request[q].sess
    BY <2>1 DEF StatusesMove, Undecided
  <2> QED BY <1>1, <2>3, <2>4, <2>5, <2>6, <2>7, HandlerGoesOn
<1> QED BY <1>3, <1>4 DEF MarkAccepted

\* Session.Revoke of the session made for nothing.
LEMMA RevokeUnusedStep ==
  ASSUME IInv, NEW h \in Handler, RevokeUnused(h)
  PROVE  IInv'
<1> USE DEF IInv
<1> DEFINE s == handler[h].sess
<1>1. /\ UNCHANGED <<token, request, known, ignored>>
      /\ handler[h].pc = "revoke"
      /\ End(h)
  BY DEF RevokeUnused, Fails, mgr
<1>2. s \in Sess BY <1>1 DEF HandlersSound
<1>3. /\ session' \in [Sess -> [dev : Dev \cup {none}, req : Req \cup {none}]]
      /\ \A z \in Sess : session'[z].req = IF z = s THEN none ELSE session[z].req
  BY <1>2 DEF RevokeUnused, TypeOK, NoSession
<1>4. TypeOK'
  BY <1>1, <1>3, PhoneAnswered DEF TypeOK, RevokeUnused, Fails, End, Idle
<1> HIDE DEF s
<1>5. RequestsSound'
  <2>1. \A g \in Handler : handler'[g] = IF g = h THEN Idle ELSE handler[g]
    BY <1>1, Ending
  <2> QED BY <1>1, <2>1, SameRequests, RequestsStaySound DEF Idle
<1>6. NoStraySession'
  <2>1. \A g \in Handler : handler'[g] = IF g = h THEN Idle ELSE handler[g]
    BY <1>1 DEF End, TypeOK
  <2> QED BY <1>1, <1>3, <2>1 DEF NoStraySession, s
<1> QED BY <1>1, <1>3, <1>4, <1>5, <1>6, HandlerEnds

\* The user accepts a request.
LEMMA UiAcceptStep ==
  ASSUME IInv, NEW h \in Handler, NEW r \in Req, UiAccept(h, r)
  PROVE  IInv'
<1> USE DEF IInv
<1>1. /\ UNCHANGED <<token, session, known, ignored, phone>>
      /\ handler[h] = Idle
      /\ request[r].status # "none"
      /\ request' = [request EXCEPT ![r] = Looked(request[r])]
  BY DEF UiAccept, db
<1>2. PICK pc \in {"lookup", "clear"} :
        handler' = [handler EXCEPT ![h] =
                      [Idle EXCEPT !.op = "accept", !.pc = pc,
                                   !.dev = request[r].dev, !.req = r]]
  BY DEF UiAccept
<1>3. request[r].dev \in Dev BY <1>1 DEF RequestsSound
<1>4. /\ \A g \in Handler \ {h} : handler'[g] = handler[g]
      /\ handler'[h].pc = pc /\ handler'[h].dev = request[r].dev
      /\ handler'[h].req = r
      /\ handler'[h].tok = none /\ handler'[h].sess = none
  BY <1>2 DEF TypeOK, Idle
<1>5. handler[h].tok = none /\ handler[h].sess = none BY <1>1 DEF Idle
<1>6. StatusesMove BY <1>1, LookedAtOne
<1>7. \A q \in Req : /\ request'[q].tok = request[q].tok
                    /\ request'[q].sess = request[q].sess
  BY <1>6 DEF StatusesMove, Undecided
<1>8. TypeOK' BY <1>1, <1>2, <1>3, <1>6 DEF TypeOK, StatusesMove, Idle
<1>9. HandlersSound' BY <1>1, <1>3, <1>4 DEF HandlersSound
<1>10. RequestsSound'
  <2>1. \A g \in Handler : handler[g].pc = "request" =>
          handler[g].req \in Req /\ handler[g].req # r
    BY <1>1 DEF HandlersSound, RequestsSound, NoRequest
  <2>2. \A g \in Handler : handler'[g].pc = "request" => g # h BY <1>4
  <2>3. /\ \A q \in Req : request'[q].status # "none" => request'[q].dev \in Dev
        /\ \A q \in Req : request'[q].status # "accepted" => request'[q].sess = none
    BY <1>6 DEF RequestsSound, StatusesMove, Undecided
  <2>4. \A q \in Req \ {r} : request'[q] = request[q] BY <1>1
  <2> QED BY <1>4, <2>1, <2>2, <2>3, <2>4 DEF RequestsSound
<1>11. TokensApart'
  <2>1. \A p \in Pair : token[p].state = "new" => token[p].val # none
    BY PairingAssumption DEF TokensApart
  <2> QED BY <1>1, <1>4, <1>7, <2>1 DEF TokensApart
<1>12. TokenHolders' BY <1>4, <1>7 DEF TokenHolders
<1>13. OneRequestPerToken' BY <1>7 DEF OneRequestPerToken
<1>14. SessionHolders' BY <1>1, <1>4 DEF SessionHolders
<1>15. NoStraySession'
  <2>1. \A g \in Handler : handler[g].sess # none => handler'[g].sess = handler[g].sess
    BY <1>4, <1>5
  <2> QED BY <1>1, <1>7, <2>1, SessionsStayHeld
<1> QED BY <1>8, <1>9, <1>10, <1>11, <1>12, <1>13, <1>14, <1>15

\* The user deletes a device.
LEMMA UiDeleteStep ==
  ASSUME IInv, NEW h \in Handler, NEW d \in Dev, UiDelete(h, d)
  PROVE  IInv'
<1> USE DEF IInv
<1>1. /\ UNCHANGED <<token, request, known, ignored, phone>>
      /\ handler[h] = Idle /\ d \in known
      /\ session' = [s \in Sess |-> IF session[s].dev = d THEN NoSession
                                    ELSE session[s]]
  BY DEF UiDelete, mgr
<1>2. \A s \in Sess : session'[s].req \in {session[s].req, none}
  BY <1>1 DEF NoSession
<1>3. /\ handler' \in [Handler -> HandlerRecords]
      /\ \A g \in Handler :
           \/ handler'[g] = handler[g]
           \/ /\ g = h /\ handler'[g].pc = "ignore" /\ handler'[g].dev = d
              /\ handler'[g].req = none /\ handler'[g].tok = none
              /\ handler'[g].sess = none
  <2> DEFINE new == [Idle EXCEPT !.op = "delete", !.pc = "ignore", !.dev = d]
  <2>1. /\ new \in HandlerRecords
        /\ new.pc = "ignore" /\ new.dev = d /\ new.req = none /\ new.tok = none
        /\ new.sess = none
    BY DEF Idle, HandlerRecords
  <2>2. handler' = [handler EXCEPT ![h] = new] \/ UNCHANGED handler BY DEF UiDelete
  <2>3. handler \in [Handler -> HandlerRecords] BY DEF TypeOK, HandlerRecords
  <2> HIDE DEF new
  <2>4. handler' \in [Handler -> HandlerRecords] BY <2>1, <2>2, <2>3
  <2> QED BY <2>1, <2>2, <2>3, <2>4
<1>4. handler[h].sess = none BY <1>1 DEF Idle
<1>5. TypeOK'
  <2>1. session' \in [Sess -> [dev : Dev \cup {none}, req : Req \cup {none}]]
    BY <1>1 DEF TypeOK, NoSession
  <2> QED BY <1>1, <1>3, <2>1 DEF TypeOK, HandlerRecords
<1>6. HandlersSound' BY <1>1, <1>3 DEF HandlersSound
<1>7. RequestsSound'
  <2>1. \A g \in Handler : handler[g].pc = "request" => handler[g].req # none
    BY PairingAssumption DEF HandlersSound
  <2> QED BY <1>1, <1>3, <2>1 DEF RequestsSound
<1>8. TokensApart'
  <2>1. \A p \in Pair : token[p].state = "new" => token[p].val # none
    BY PairingAssumption DEF TokensApart
  <2> QED BY <1>1, <1>3, <2>1 DEF TokensApart
<1>9. TokenHolders' BY <1>1, <1>3 DEF TokenHolders
<1>10. OneRequestPerToken' BY <1>1 DEF OneRequestPerToken
<1>11. SessionHolders'
  <2>1. \A g \in Handler : handler[g].sess # none => handler[g].sess \in Sess
    BY DEF TypeOK
  <2> QED BY <1>2, <1>3, <2>1 DEF SessionHolders
<1>12. NoStraySession'
  <2>1. \A g \in Handler : handler[g].sess # none => handler'[g].sess = handler[g].sess
    BY <1>3, <1>4
  <2> QED BY <1>1, <1>2, <2>1, PairingAssumption DEF NoStraySession
<1> QED BY <1>5, <1>6, <1>7, <1>8, <1>9, <1>10, <1>11, <1>12

\* Manager.Cleanup.
LEMMA CleanupStep ==
  ASSUME IInv, NEW P \in SUBSET Pair, NEW R \in SUBSET Req, Cleanup(P, R)
  PROVE  IInv'
<1> USE DEF IInv
<1>1. /\ UNCHANGED <<known, ignored, handler, phone>>
      /\ \A p \in Pair : token'[p] \in {token[p], NoToken}
      /\ \A r \in Req : request'[r] = IF r \in R THEN NoRequest ELSE request[r]
      /\ \A s \in Sess : session'[s].req = IF session[s].req \in R THEN none
                                            ELSE session[s].req
  BY DEF Cleanup, TypeOK
<1>2. TypeOK'
  <2>1. token' \in [Pair -> [val : Tok \cup {none},
                            state : {"none", "new", "used", "late"},
                            failures : 0 .. MaxTokenFailures]]
    BY PairingAssumption DEF Cleanup, TypeOK, NoToken
  <2>2. request' \in [Req -> [status : {"none"} \cup Pending \cup Verdict,
                             dev : Dev \cup {none}, tok : Tok \cup {none},
                             sess : Sess \cup {none}]]
    BY DEF Cleanup, TypeOK, NoRequest
  <2>3. session' \in [Sess -> [dev : Dev \cup {none}, req : Req \cup {none}]]
    BY DEF Cleanup, TypeOK
  <2> QED BY <1>1, <2>1, <2>2, <2>3 DEF TypeOK
<1>3. HandlersSound' BY <1>1 DEF HandlersSound
<1>4. RequestsSound'
  <2>1. \A g \in Handler : handler[g].pc = "request" => handler[g].req \in Req
    BY DEF HandlersSound
  <2> QED BY <1>1, <2>1 DEF RequestsSound, NoRequest
<1>5. TokensApart'
  <2>1. \A p \in Pair : token'[p].state = "new" => token'[p] = token[p]
    BY <1>1 DEF NoToken
  <2>2. \A p \in Pair : token'[p].val # none => token'[p] = token[p]
    BY <1>1 DEF NoToken
  <2>3. \A p \in Pair : token[p].state = "new" => token[p].val # none
    BY PairingAssumption DEF TokensApart
  <2>4. \A r \in Req : request'[r].tok \in {request[r].tok, none}
    BY <1>1 DEF NoRequest
  <2> QED BY <1>1, <2>1, <2>2, <2>3, <2>4 DEF TokensApart
<1>6. TokenHolders' BY <1>1 DEF TokenHolders, NoRequest
<1>7. OneRequestPerToken' BY <1>1 DEF OneRequestPerToken, NoRequest
<1>8. SessionHolders'
  <2>1. \A g \in Handler : handler[g].sess # none => handler[g].sess \in Sess
    BY DEF TypeOK
  <2> QED BY <1>1, <2>1 DEF SessionHolders
<1>9. NoStraySession' BY <1>1, PairingAssumption DEF NoStraySession, TypeOK
<1> QED BY <1>2, <1>3, <1>4, <1>5, <1>6, <1>7, <1>8, <1>9

\* The process starts again.
LEMMA RestartStep ==
  ASSUME IInv, Restart
  PROVE  IInv'
<1> USE DEF IInv, Restart, NoToken, NoRequest, NoSession, Idle, AtRest
<1>1. TypeOK' BY PairingAssumption DEF TypeOK
<1>2. HandlersSound' BY DEF HandlersSound
<1>3. RequestsSound' BY DEF RequestsSound
<1>4. TokensApart' BY DEF TokensApart
<1>5. TokenHolders' BY DEF TokenHolders
<1>6. OneRequestPerToken' BY DEF OneRequestPerToken
<1>7. SessionHolders' BY DEF SessionHolders
<1>8. NoStraySession' BY DEF NoStraySession
<1> QED BY <1>1, <1>2, <1>3, <1>4, <1>5, <1>6, <1>7, <1>8

-----------------------------------------------------------------------------
(* The theorems. *)

LEMMA StutterInv == ASSUME IInv, UNCHANGED vars PROVE IInv'
BY DEF IInv, TypeOK, HandlersSound, RequestsSound, TokensApart, TokenHolders,
       OneRequestPerToken, SessionHolders, NoStraySession, vars

\* Every step keeps IInv.
LEMMA NextInv == ASSUME IInv, Next PROVE IInv'
<1>1. ASSUME NEW p \in Pair, NEW t \in Tok, Issue(p, t) \/ Refresh(p, t)
      PROVE IInv'
  BY <1>1, TokenSteps
<1>2. ASSUME NEW p \in Pair, TokenExpires(p) \/ PresentWrongToken(p) PROVE IInv'
  BY <1>2, TokenSteps
<1>3. ASSUME NEW h \in Handler, NEW d \in Dev, NEW p \in Pair, NEW r \in Req,
             PresentToken(h, d, p, r)
      PROVE IInv'
  BY <1>3, PresentTokenStep
<1>4. ASSUME NEW h \in Handler, NEW d \in Dev, NEW r \in Req, AskDirectly(h, d, r)
      PROVE IInv'
  BY <1>4, AskDirectlyStep
<1>5. ASSUME NEW h \in Handler, Step(h) PROVE IInv'
  BY <1>5, CreateRequestStep, CheckSteps, LookUpStep, CreateSessionStep, LastSteps,
     MarkAcceptedStep, RevokeUnusedStep DEF Step
<1>6. ASSUME NEW h \in Handler, NEW r \in Req, UiAccept(h, r) PROVE IInv'
  BY <1>6, UiAcceptStep
<1>7. ASSUME NEW r \in Req, UiReject(r) \/ RequestExpires(r) PROVE IInv'
  BY <1>7, RequestSteps
<1>8. CASE UiList BY <1>8, RequestSteps
<1>9. ASSUME NEW h \in Handler, NEW d \in Dev, UiDelete(h, d) PROVE IInv'
  BY <1>9, UiDeleteStep
<1>10. ASSUME NEW d \in Dev, UiRestore(d) \/ Poll(d) \/ PollFails(d) \/ StopAsking(d)
       PROVE IInv'
  BY <1>10, RequestSteps, QuietSteps
<1>11. ASSUME NEW s \in Sess, SessionEnds(s) PROVE IInv'
  BY <1>11, SessionEndsStep
<1>12. ASSUME NEW P \in SUBSET Pair, NEW R \in SUBSET Req, Cleanup(P, R) PROVE IInv'
  BY <1>12, CleanupStep
<1>13. CASE Restart BY <1>13, RestartStep
<1> QED BY <1>1, <1>2, <1>3, <1>4, <1>5, <1>6, <1>7, <1>8, <1>9, <1>10, <1>11,
           <1>12, <1>13 DEF Next

THEOREM Invariance == Spec => []IInv
<1>1. IInv /\ [Next]_vars => IInv' BY NextInv, StutterInv
<1> QED BY InitInv, <1>1, PTL DEF Spec

\* The records of the manager, the tables and the handlers keep their types; no
\* token takes more failures than lock it.
THEOREM TypeCorrect == Spec => []TypeOK
BY Invariance, PTL DEF IInv

\* A token makes one request, whatever refreshes and evictions come between
\* its consumption and the request.
THEOREM TokenMakesOneRequest == Spec => []OneRequestPerToken
BY Invariance, PTL DEF IInv

\* Of the sessions made for a request only one comes to stay with somebody.
THEOREM SessionsHaveOwners == Spec => []NoStraySession
BY Invariance, PTL DEF IInv

\* Only a request that waits is decided, and only Cleanup and a restart take the
\* decision away.
LEMMA StandingVerdict ==
  ASSUME IInv, Next, NEW r \in Req, request[r].status \in Verdict
  PROVE  \/ request'[r] = NoRequest
         \/ /\ request'[r].status = request[r].status
            /\ request'[r].sess = request[r].sess
<1> DEFINE Stands == request'[r] = request[r]
<1> USE DEF IInv, Verdict, Pending
<1>1. Looked(request[r]) = request[r] BY LookedAt
<1>2. \A q \in Req : request' = [request EXCEPT ![q] = Looked(request[q])] => Stands
  BY <1>1 DEF TypeOK
<1>3. ASSUME NEW h \in Handler, Step(h) PROVE Stands
  <2>1. CASE CreateRequest(h)
    <3>1. handler[h].pc = "request" => request[handler[h].req] = NoRequest
      BY DEF RequestsSound
    <3> QED BY <2>1, <3>1 DEF CreateRequest, TypeOK, NoRequest
  <2>2. CASE LookUp(h)
    BY <2>2, <1>2 DEF LookUp, HandlersSound
  <2>3. CASE MarkAccepted(h)
    BY <2>3, <1>2 DEF MarkAccepted, Acceptable, HandlersSound, TypeOK
  <2>4. CASE \/ DiscoverChecks(h) \/ ClearIgnoreOnManualAccept(h)
             \/ \E s \in Sess : CreateSession(h, s)
             \/ CreateSessionFails(h) \/ RevokeUnused(h) \/ MarkIgnored(h)
    BY <2>4 DEF DiscoverChecks, ClearIgnoreOnManualAccept, CreateSession,
                CreateSessionFails, RevokeUnused, MarkIgnored, mgr
  <2> QED BY <1>3, <2>1, <2>2, <2>3, <2>4 DEF Step
<1>4. ASSUME NEW p \in Pair, NEW t \in Tok, Issue(p, t) \/ Refresh(p, t) PROVE Stands
  BY <1>4 DEF Issue, Refresh
<1>5. ASSUME NEW p \in Pair, TokenExpires(p) \/ PresentWrongToken(p) PROVE Stands
  BY <1>5 DEF TokenExpires, PresentWrongToken
<1>6. ASSUME NEW h \in Handler, NEW d \in Dev, NEW q \in Req,
             \/ \E p \in Pair : PresentToken(h, d, p, q)
             \/ AskDirectly(h, d, q)
      PROVE  Stands
  BY <1>6 DEF PresentToken, AskDirectly, Starts, FreeReq, NoRequest, TypeOK
<1>7. ASSUME NEW h \in Handler, NEW q \in Req, UiAccept(h, q) PROVE Stands
  BY <1>7, <1>2 DEF UiAccept
<1>8. ASSUME NEW q \in Req, UiReject(q) \/ RequestExpires(q) PROVE Stands
  BY <1>8 DEF UiReject, RequestExpires, TypeOK
<1>9. CASE UiList BY <1>1, <1>9 DEF UiList
<1>10. ASSUME NEW h \in Handler, NEW d \in Dev, UiDelete(h, d) PROVE Stands
  BY <1>10 DEF UiDelete, mgr
<1>11. ASSUME NEW d \in Dev, Poll(d) PROVE Stands
  BY <1>1, <1>11 DEF Poll, TypeOK
<1>12. ASSUME NEW d \in Dev, UiRestore(d) \/ PollFails(d) \/ StopAsking(d) PROVE Stands
  BY <1>12 DEF UiRestore, PollFails, StopAsking, mgr
<1>13. ASSUME NEW s \in Sess, SessionEnds(s) PROVE Stands
  BY <1>13 DEF SessionEnds, mgr
<1>14. ASSUME NEW P \in SUBSET Pair, NEW R \in SUBSET Req, Cleanup(P, R)
       PROVE  Stands \/ request'[r] = NoRequest
  BY <1>14 DEF Cleanup
<1>15. CASE Restart BY <1>15 DEF Restart
<1> QED BY <1>3, <1>4, <1>5, <1>6, <1>7, <1>8, <1>9, <1>10, <1>11, <1>12, <1>13,
           <1>14, <1>15 DEF Next

\* However polls, lists, accepts, rejects and expiries are ordered, a decision
\* that one of them has seen is the one the others see.
THEOREM VerdictIsFinal == Spec => VerdictStands
<1>1. IInv /\ [Next]_vars =>
        [\A r \in Req : request[r].status \in Verdict =>
           \/ request'[r] = NoRequest
           \/ /\ request'[r].status = request[r].status
              /\ request'[r].sess = request[r].sess]_vars
  BY StandingVerdict DEF vars
<1> QED BY <1>1, Invariance, PTL DEF Spec, VerdictStands

-----------------------------------------------------------------------------
(* Whose requests and whose sessions they are. *)

\* The handler has a phone behind it, which waits for its answer.
Asks(h) == handler[h].op \in {"request", "discover"}

\* A handler and the phones act on the request of one device.
RequestOwners ==
    /\ \A h \in Handler : handler[h].req \in Req =>
         \/ request[handler[h].req] = NoRequest
         \/ request[handler[h].req].dev = handler[h].dev
    /\ \A d \in Dev : phone[d].doing # "nothing" =>
         /\ phone[d].req \in Req
         /\ \/ request[phone[d].req] = NoRequest
            \/ request[phone[d].req].dev = d
    /\ \A d \in Dev, h \in Handler :
         phone[d].doing # "nothing" /\ phone[d].req = handler[h].req =>
            handler[h].dev = d

\* A session is of the device of the handler that made it, and of the device of
\* the request it was accepted with.
SessionOwners ==
    /\ \A h \in Handler : handler[h].sess # none =>
         session[handler[h].sess].dev \in {handler[h].dev, none}
    /\ \A r \in Req : request[r].sess # none =>
         session[request[r].sess].dev \in {request[r].dev, none}

\* A handler that is done has let go of everything, and one that deletes a
\* device has no phone behind it.
HandlersShaped ==
    \A h \in Handler :
        /\ handler[h].pc = "ignore" => handler[h].op = "delete"
        /\ handler[h].pc = "idle" => handler[h] = Idle

\* The server still works for a phone that waits for an answer.
PhonesServed ==
    \A d \in Dev :
        /\ phone[d].doing = "nothing" => phone[d] = AtRest
        /\ phone[d].doing = "asking" =>
             \E h \in Handler : Asks(h) /\ handler[h].req = phone[d].req

OwnersInv == RequestOwners /\ SessionOwners /\ HandlersShaped /\ PhonesServed

\* What most steps do to a request: it goes, or stays the same device's with the
\* same session.
SameOwner(r) ==
    \/ request'[r] = NoRequest
    \/ request[r] # NoRequest /\ request'[r].dev = request[r].dev

RequestKept(r) ==
    \/ request'[r] = NoRequest
    \/ /\ request[r] # NoRequest
       /\ request'[r].dev = request[r].dev
       /\ request'[r].sess = request[r].sess

\* What most steps do to a session: it goes, or stays the same device's.
SessionKept(s) == session'[s].dev \in {session[s].dev, none}

\* What most steps do to a handler: it works on for the same request and device
\* with the session it has, or lets go.
WorksOn(g) ==
    handler'[g].req # none =>
      handler'[g].req = handler[g].req /\ handler'[g].dev = handler[g].dev

HoldsOn(g) ==
    handler'[g].sess # none =>
      handler'[g].sess = handler[g].sess /\ handler'[g].dev = handler[g].dev

\* What most steps do to a phone: it goes on with its request, or is at rest.
PhoneKept(d) ==
    \/ phone'[d] = AtRest
    \/ /\ phone[d].doing # "nothing"
       /\ phone'[d].doing # "nothing"
       /\ phone'[d].req = phone[d].req

\* A phone goes on waiting only while the handlers behind it go on.
PhoneServed(d) ==
    \/ phone'[d] = AtRest
    \/ phone'[d].doing = "polling"
    \/ /\ phone'[d] = phone[d]
       /\ phone[d].doing = "asking" =>
            \A g \in Handler : Asks(g) /\ handler[g].req = phone[d].req =>
              handler'[g].op = handler[g].op /\ handler'[g].req = handler[g].req

LEMMA OwnersStart == Init => OwnersInv
BY PairingAssumption DEF Init, OwnersInv, RequestOwners, SessionOwners, HandlersShaped, PhonesServed,
       Asks, NoRequest, NoSession, Idle, AtRest

\* Owners stay when requests, handlers and phones are kept.
LEMMA RequestsKeepOwners ==
  ASSUME RequestOwners, \A r \in Req : SameOwner(r),
         \A g \in Handler : WorksOn(g), \A d \in Dev : PhoneKept(d)
  PROVE  RequestOwners'
<1> USE PairingAssumption
<1>1. \A h \in Handler : handler'[h].req \in Req =>
         \/ request'[handler'[h].req] = NoRequest
         \/ request'[handler'[h].req].dev = handler'[h].dev
  BY DEF RequestOwners, SameOwner, WorksOn
<1>2. \A d \in Dev : phone'[d].doing # "nothing" =>
         /\ phone'[d].req \in Req
         /\ \/ request'[phone'[d].req] = NoRequest
            \/ request'[phone'[d].req].dev = d
  BY DEF RequestOwners, SameOwner, PhoneKept, AtRest
<1>3. \A d \in Dev, h \in Handler :
         phone'[d].doing # "nothing" /\ phone'[d].req = handler'[h].req =>
            handler'[h].dev = d
  <2> SUFFICES ASSUME NEW d \in Dev, NEW h \in Handler,
                      phone'[d].doing # "nothing", phone'[d].req = handler'[h].req
               PROVE  handler'[h].dev = d
    OBVIOUS
  <2>1. phone[d].doing # "nothing" /\ phone'[d].req = phone[d].req
    BY DEF PhoneKept, AtRest
  <2>2. phone[d].req \in Req BY <2>1 DEF RequestOwners
  <2>3. handler'[h].req = handler[h].req /\ handler'[h].dev = handler[h].dev
    BY <2>1, <2>2 DEF WorksOn
  <2> QED BY <2>1, <2>3 DEF RequestOwners
<1> QED BY <1>1, <1>2, <1>3 DEF RequestOwners

LEMMA SessionsKeepOwners ==
  ASSUME TypeOK, SessionOwners, \A r \in Req : RequestKept(r),
         \A g \in Handler : HoldsOn(g), \A s \in Sess : SessionKept(s)
  PROVE  SessionOwners'
<1> USE PairingAssumption
<1>1. \A h \in Handler : handler'[h].sess # none =>
         session'[handler'[h].sess].dev \in {handler'[h].dev, none}
  BY DEF SessionOwners, HoldsOn, SessionKept, TypeOK
<1>2. \A r \in Req : request'[r].sess # none =>
         session'[request'[r].sess].dev \in {request'[r].dev, none}
  BY DEF SessionOwners, RequestKept, SessionKept, TypeOK, NoRequest
<1> QED BY <1>1, <1>2 DEF SessionOwners

LEMMA PhonesStayServed ==
  ASSUME PhonesServed, \A d \in Dev : PhoneServed(d)
  PROVE  PhonesServed'
<1> SUFFICES ASSUME NEW d \in Dev
             PROVE  /\ phone'[d].doing = "nothing" => phone'[d] = AtRest
                    /\ phone'[d].doing = "asking" =>
                         \E h \in Handler : /\ handler'[h].op \in {"request", "discover"}
                                            /\ handler'[h].req = phone'[d].req
  BY DEF PhonesServed, Asks
<1>1. CASE phone'[d] = AtRest \/ phone'[d].doing = "polling" BY <1>1 DEF AtRest
<1>2. CASE ~(phone'[d] = AtRest \/ phone'[d].doing = "polling")
  BY <1>2 DEF PhoneServed, PhonesServed, Asks
<1> QED BY <1>1, <1>2

\* The handlers go on as they are.
LEMMA QuietOwners ==
  ASSUME TypeOK, OwnersInv, UNCHANGED handler,
         \A d \in Dev : phone'[d] \in {phone[d], AtRest},
         \A r \in Req : RequestKept(r) \/ request'[r] = request[r],
         \A s \in Sess : SessionKept(s)
  PROVE  OwnersInv'
<1> USE DEF OwnersInv
<1>1. \A r \in Req : RequestKept(r) /\ SameOwner(r) BY DEF RequestKept, SameOwner
<1>2. \A g \in Handler : WorksOn(g) /\ HoldsOn(g) BY DEF WorksOn, HoldsOn
<1>3. \A d \in Dev : PhoneKept(d) BY DEF PhoneKept, PhonesServed
<1>4. \A d \in Dev : PhoneServed(d) BY DEF PhoneServed
<1>5. HandlersShaped' BY DEF HandlersShaped
<1> QED BY <1>1, <1>2, <1>3, <1>4, <1>5, RequestsKeepOwners, SessionsKeepOwners,
           PhonesStayServed

LEMMA KeptByStatuses ==
  ASSUME StatusesMove
  PROVE  \A r \in Req : RequestKept(r)
BY DEF StatusesMove, Undecided, RequestKept, NoRequest

\* The steps of tokens, requests, sessions and phones.
LEMMA QuietStepOwners ==
  ASSUME IInv, OwnersInv,
         \/ \E p \in Pair, t \in Tok : Issue(p, t) \/ Refresh(p, t)
         \/ \E p \in Pair : TokenExpires(p) \/ PresentWrongToken(p)
         \/ \E r \in Req : UiReject(r) \/ RequestExpires(r)
         \/ UiList
         \/ \E d \in Dev : UiRestore(d) \/ Poll(d) \/ PollFails(d) \/ StopAsking(d)
         \/ \E s \in Sess : SessionEnds(s)
         \/ \E P \in SUBSET Pair, R \in SUBSET Req : Cleanup(P, R)
  PROVE  OwnersInv'
<1> USE DEF IInv
<1>1. UNCHANGED handler
  BY Zenon DEF Issue, Refresh, TokenExpires, PresentWrongToken, UiReject, RequestExpires,
       UiList, UiRestore, Poll, PollFails, StopAsking, SessionEnds, Cleanup
<1>2. \A d \in Dev : phone'[d] \in {phone[d], AtRest}
  BY DEF Issue, Refresh, TokenExpires, PresentWrongToken, UiReject, RequestExpires,
       UiList, UiRestore, Poll, PollFails, StopAsking, SessionEnds, Cleanup, TypeOK
<1> DEFINE Held == \A s \in Sess : SessionKept(s)
<1>3. Held
  <2>1. (UNCHANGED session) => Held BY DEF SessionKept
  <2>2. ASSUME NEW s \in Sess, SessionEnds(s) PROVE Held
    BY <2>2 DEF SessionEnds, SessionKept, TypeOK, NoSession
  <2>3. ASSUME NEW P \in SUBSET Pair, NEW R \in SUBSET Req, Cleanup(P, R) PROVE Held
    BY <2>3 DEF Cleanup, SessionKept, TypeOK
  <2> HIDE DEF Held
  <2>4. ASSUME NEW p \in Pair, NEW t \in Tok, Issue(p, t) \/ Refresh(p, t) PROVE Held
    BY <2>1, <2>4 DEF Issue, Refresh, db
  <2>5. ASSUME NEW p \in Pair, TokenExpires(p) \/ PresentWrongToken(p) PROVE Held
    BY <2>1, <2>5 DEF TokenExpires, PresentWrongToken, db
  <2>6. ASSUME NEW r \in Req, UiReject(r) \/ RequestExpires(r) PROVE Held
    BY <2>1, <2>6 DEF UiReject, RequestExpires, db
  <2>7. CASE UiList BY <2>1, <2>7 DEF UiList, db
  <2>8. ASSUME NEW d \in Dev, UiRestore(d) \/ Poll(d) \/ PollFails(d) \/ StopAsking(d)
        PROVE  Held
    BY <2>1, <2>8 DEF UiRestore, Poll, PollFails, StopAsking, db
  <2> QED BY <2>2, <2>3, <2>4, <2>5, <2>6, <2>7, <2>8
<1> DEFINE Kept == \A q \in Req : RequestKept(q) \/ request'[q] = request[q]
<1>4. Kept
  <2>1. ASSUME NEW r \in Req, UiReject(r) PROVE Kept
    BY <2>1 DEF UiReject, TypeOK, RequestKept, NoRequest, Pending
  <2>2. ASSUME NEW r \in Req, RequestExpires(r) PROVE Kept
    BY <2>2 DEF RequestExpires, TypeOK, RequestKept, NoRequest, Pending
  <2>3. CASE UiList
    <3>1. \A q \in Req : request'[q] = Looked(request[q]) BY <2>3 DEF UiList
    <3> QED BY <3>1, LookedAt DEF RequestKept, Undecided, NoRequest
  <2>4. ASSUME NEW d \in Dev, Poll(d) PROVE Kept
    <3>1. phone[d].req \in Req BY <2>4 DEF Poll, OwnersInv, RequestOwners
    <3>2. request' = [request EXCEPT ![phone[d].req] = Looked(request[phone[d].req])]
      BY <2>4 DEF Poll
    <3> QED BY <3>1, <3>2, LookedAtOne, KeptByStatuses
  <2>5. CASE \E P \in SUBSET Pair, R \in SUBSET Req : Cleanup(P, R)
    BY <2>5 DEF Cleanup, RequestKept
  <2>6. (UNCHANGED request) => Kept OBVIOUS
  <2> HIDE DEF Kept
  <2>7. ASSUME NEW p \in Pair, NEW t \in Tok, Issue(p, t) \/ Refresh(p, t) PROVE Kept
    BY <2>6, <2>7 DEF Issue, Refresh
  <2>8. ASSUME NEW p \in Pair, TokenExpires(p) \/ PresentWrongToken(p) PROVE Kept
    BY <2>6, <2>8 DEF TokenExpires, PresentWrongToken
  <2>9. ASSUME NEW d \in Dev, UiRestore(d) \/ PollFails(d) \/ StopAsking(d) PROVE Kept
    BY <2>6, <2>9 DEF UiRestore, PollFails, StopAsking, mgr
  <2>10. ASSUME NEW s \in Sess, SessionEnds(s) PROVE Kept
    BY <2>6, <2>10 DEF SessionEnds, mgr
  <2> QED BY <2>1, <2>2, <2>3, <2>4, <2>5, <2>7, <2>8, <2>9, <2>10
<1> QED BY <1>1, <1>2, <1>3, <1>4, QuietOwners

\* A handler ends with an answer to the phone behind it, if it has one.
LEMMA EndOwners ==
  ASSUME TypeOK, OwnersInv, NEW h \in Handler, End(h),
         \/ PhoneGets(h, none) \/ PhoneGets(h, handler[h].req)
         \/ ~Asks(h) /\ UNCHANGED phone
  PROVE  /\ \A g \in Handler : WorksOn(g) /\ HoldsOn(g)
         /\ \A d \in Dev : PhoneKept(d) /\ PhoneServed(d)
         /\ HandlersShaped'
<1> USE DEF OwnersInv
<1>1. \A g \in Handler : handler'[g] = IF g = h THEN Idle ELSE handler[g] BY Ending
<1>2. \A g \in Handler : WorksOn(g) /\ HoldsOn(g) BY <1>1 DEF WorksOn, HoldsOn, Idle
<1>3. HandlersShaped' BY <1>1 DEF HandlersShaped, Idle
<1>4. ASSUME NEW d \in Dev, phone'[d] # phone[d]
      PROVE  /\ phone[d].doing = "asking" /\ phone[d].req = handler[h].req
             /\ \/ phone'[d] = AtRest
                \/ phone'[d] = [doing |-> "polling", req |-> handler[h].req]
  BY <1>4 DEF PhoneGets, TypeOK
<1>5. \A d \in Dev : PhoneKept(d)
  BY <1>4 DEF PhoneKept, PhonesServed
<1>6. ASSUME NEW d \in Dev PROVE PhoneServed(d)
  <2>1. CASE phone'[d] # phone[d] BY <1>4, <2>1 DEF PhoneServed
  <2>2. CASE phone'[d] = phone[d] /\ phone[d].doing # "asking" BY <2>2 DEF PhoneServed
  <2>3. CASE phone'[d] = phone[d] /\ phone[d].doing = "asking"
    <3>1. ~(Asks(h) /\ handler[h].req = phone[d].req)
      <4> SUFFICES ASSUME Asks(h), handler[h].req = phone[d].req PROVE FALSE OBVIOUS
      <4>1. phone[d] = [doing |-> "asking", req |-> handler[h].req] BY <2>3 DEF TypeOK
      <4>2. PhoneGets(h, none) \/ PhoneGets(h, handler[h].req) OBVIOUS
      <4>3. phone'[d] # phone[d] BY <4>1, <4>2 DEF PhoneGets, Asks, AtRest
      <4> QED BY <4>3, <2>3
    <3> QED BY <1>1, <2>3, <3>1 DEF PhoneServed
  <2> QED BY <2>1, <2>2, <2>3
<1> QED BY <1>2, <1>3, <1>5, <1>6

\* A handler goes on to a later step and nobody is told.
LEMMA GoOwners ==
  ASSUME TypeOK, OwnersInv, NEW h \in Handler, UNCHANGED phone,
         \A g \in Handler \ {h} : handler'[g] = handler[g],
         handler'[h].pc \notin {"idle", "ignore"},
         handler'[h].op = handler[h].op,
         handler'[h].req = handler[h].req, handler'[h].dev = handler[h].dev
  PROVE  /\ \A g \in Handler : WorksOn(g)
         /\ \A g \in Handler \ {h} : HoldsOn(g)
         /\ handler'[h].sess = handler[h].sess => HoldsOn(h)
         /\ \A d \in Dev : PhoneKept(d) /\ PhoneServed(d)
         /\ HandlersShaped'
BY DEF OwnersInv, WorksOn, HoldsOn, PhoneKept, PhoneServed, PhonesServed, HandlersShaped

LEMMA KeepOwners ==
  ASSUME TypeOK, OwnersInv,
         \A r \in Req : RequestKept(r) \/ request'[r] = request[r],
         \A s \in Sess : SessionKept(s),
         \A g \in Handler : WorksOn(g) /\ HoldsOn(g),
         \A d \in Dev : PhoneKept(d) /\ PhoneServed(d),
         HandlersShaped'
  PROVE  OwnersInv'
<1>1. \A r \in Req : RequestKept(r) /\ SameOwner(r) BY DEF RequestKept, SameOwner
<1> QED BY <1>1, RequestsKeepOwners, SessionsKeepOwners, PhonesStayServed DEF OwnersInv

\* The steps of a handler that make neither a request nor a session.
LEMMA HandlerStepOwners ==
  ASSUME IInv, OwnersInv, NEW h \in Handler,
         \/ DiscoverChecks(h) \/ ClearIgnoreOnManualAccept(h) \/ LookUp(h)
         \/ CreateSessionFails(h) \/ RevokeUnused(h) \/ MarkIgnored(h)
  PROVE  OwnersInv'
<1> USE DEF IInv
<1>1. \A s \in Sess : SessionKept(s)
  BY DEF DiscoverChecks, ClearIgnoreOnManualAccept, LookUp, CreateSessionFails,
         RevokeUnused, MarkIgnored, db, SessionKept, NoSession, TypeOK
<1>2. \A r \in Req : RequestKept(r) \/ request'[r] = request[r]
  <2>1. CASE LookUp(h)
    <3>1. handler[h].req \in Req BY <2>1 DEF LookUp, HandlersSound
    <3>2. request' = [request EXCEPT ![handler[h].req] = Looked(request[handler[h].req])]
      BY <2>1 DEF LookUp
    <3> QED BY <3>1, <3>2, LookedAtOne, KeptByStatuses
  <2>2. CASE ~LookUp(h)
    BY <2>2 DEF DiscoverChecks, ClearIgnoreOnManualAccept, CreateSessionFails,
         RevokeUnused, MarkIgnored, mgr
  <2> QED BY <2>1, <2>2
<1>3. \/ /\ End(h)
         /\ \/ PhoneGets(h, none) \/ PhoneGets(h, handler[h].req)
            \/ ~Asks(h) /\ UNCHANGED phone
      \/ \E pc \in {"lookup", "create"} : Goto(h, pc) /\ UNCHANGED phone
  <2>1. CASE MarkIgnored(h)
    BY <2>1 DEF MarkIgnored, Asks, OwnersInv, HandlersShaped
  <2>2. CASE ~MarkIgnored(h)
    BY <2>2 DEF DiscoverChecks, ClearIgnoreOnManualAccept, LookUp, CreateSessionFails,
         RevokeUnused, Fails
  <2> QED BY <2>1, <2>2
<1>4. /\ \A g \in Handler : WorksOn(g) /\ HoldsOn(g)
      /\ \A d \in Dev : PhoneKept(d) /\ PhoneServed(d)
      /\ HandlersShaped'
  <2>1. CASE End(h) /\ \/ PhoneGets(h, none) \/ PhoneGets(h, handler[h].req)
                       \/ ~Asks(h) /\ UNCHANGED phone
    BY <2>1, EndOwners
  <2>2. ASSUME NEW pc \in {"lookup", "create"}, Goto(h, pc) /\ UNCHANGED phone
        PROVE  /\ \A g \in Handler : WorksOn(g) /\ HoldsOn(g)
               /\ \A d \in Dev : PhoneKept(d) /\ PhoneServed(d)
               /\ HandlersShaped'
    <3>1. /\ \A g \in Handler \ {h} : handler'[g] = handler[g]
          /\ handler'[h].pc = pc
          /\ handler'[h].dev = handler[h].dev /\ handler'[h].req = handler[h].req
          /\ handler'[h].sess = handler[h].sess
      BY <2>2, GoingOn
    <3>2. handler'[h].op = handler[h].op BY <2>2 DEF Goto, TypeOK
    <3> QED BY <2>2, <3>1, <3>2, GoOwners
  <2> QED BY <1>3, <2>1, <2>2
<1> QED BY <1>1, <1>2, <1>4, KeepOwners

LEMMA CreateRequestOwners ==
  ASSUME IInv, OwnersInv, NEW h \in Handler, CreateRequest(h)
  PROVE  OwnersInv'
<1> DEFINE r == handler[h].req
<1> USE DEF IInv
<1>1. /\ r \in Req /\ handler[h].dev \in Dev
      /\ request[r] = NoRequest
      /\ \A g \in Handler \ {h} : handler[g].req # r
  BY DEF CreateRequest, HandlersSound, RequestsSound
<1>2. UNCHANGED session BY DEF CreateRequest, db
<1>3. \A s \in Sess : SessionKept(s) BY <1>2 DEF SessionKept
<1>4. \/ /\ End(h)
         /\ PhoneGets(h, none) \/ PhoneGets(h, r)
      \/ /\ handler' = [handler EXCEPT ![h].pc = "lookup", ![h].tok = none,
                                       ![h].pair = none]
         /\ UNCHANGED phone
  BY DEF CreateRequest, Fails
<1>5. /\ \A g \in Handler : WorksOn(g) /\ HoldsOn(g)
      /\ \A d \in Dev : PhoneKept(d) /\ PhoneServed(d)
      /\ HandlersShaped'
  <2>1. CASE End(h) /\ (PhoneGets(h, none) \/ PhoneGets(h, r)) BY <2>1, EndOwners
  <2>2. CASE /\ handler' = [handler EXCEPT ![h].pc = "lookup", ![h].tok = none,
                                           ![h].pair = none]
             /\ UNCHANGED phone
    <3>1. /\ \A g \in Handler \ {h} : handler'[g] = handler[g]
          /\ handler'[h].pc = "lookup"
          /\ handler'[h].dev = handler[h].dev /\ handler'[h].req = handler[h].req
          /\ handler'[h].sess = handler[h].sess /\ handler'[h].op = handler[h].op
      BY <2>2 DEF TypeOK
    <3> QED BY <2>2, <3>1, GoOwners
  <2> QED BY <1>4, <2>1, <2>2
<1>6. CASE UNCHANGED request BY <1>3, <1>5, <1>6, KeepOwners
<1>7. CASE request' = [request EXCEPT ![r] = NewRequest(handler[h].dev, handler[h].tok)]
  <2>1. /\ request'[r].dev = handler[h].dev /\ request'[r].sess = none
        /\ \A q \in Req \ {r} : request'[q] = request[q]
    BY <1>1, <1>7 DEF TypeOK, NewRequest
  <2> HIDE DEF r
  <2>2. \A g \in Handler : handler'[g].req \in Req =>
          \/ request'[handler'[g].req] = NoRequest
          \/ request'[handler'[g].req].dev = handler'[g].dev
    <3> SUFFICES ASSUME NEW g \in Handler, handler'[g].req \in Req
                 PROVE  \/ request'[handler'[g].req] = NoRequest
                        \/ request'[handler'[g].req].dev = handler'[g].dev
      OBVIOUS
    <3>1. handler'[g].req = handler[g].req /\ handler'[g].dev = handler[g].dev
      BY <1>5, PairingAssumption DEF WorksOn
    <3>2. CASE g = h BY <2>1, <3>1, <3>2 DEF r
    <3>3. CASE g # h
      <4>1. handler[g].req # r BY <1>1, <3>3
      <4> QED BY <2>1, <3>1, <4>1 DEF OwnersInv, RequestOwners
    <3> QED BY <3>2, <3>3
  <2>3. \A d \in Dev : phone'[d].doing # "nothing" =>
          /\ phone'[d].req \in Req
          /\ \/ request'[phone'[d].req] = NoRequest
             \/ request'[phone'[d].req].dev = d
    <3> SUFFICES ASSUME NEW d \in Dev, phone'[d].doing # "nothing"
                 PROVE  /\ phone'[d].req \in Req
                        /\ \/ request'[phone'[d].req] = NoRequest
                           \/ request'[phone'[d].req].dev = d
      OBVIOUS
    <3>1. phone[d].doing # "nothing" /\ phone'[d].req = phone[d].req
      BY <1>5 DEF PhoneKept, AtRest
    <3>2. CASE phone[d].req = r
      BY <1>1, <2>1, <3>1, <3>2 DEF OwnersInv, RequestOwners, r
    <3>3. CASE phone[d].req # r BY <2>1, <3>1, <3>3 DEF OwnersInv, RequestOwners
    <3> QED BY <3>2, <3>3
  <2>4. \A d \in Dev, g \in Handler :
          phone'[d].doing # "nothing" /\ phone'[d].req = handler'[g].req =>
            handler'[g].dev = d
    BY <1>5, <2>3, PairingAssumption
    DEF WorksOn, PhoneKept, AtRest, OwnersInv, RequestOwners
  <2>5. RequestOwners' BY <2>2, <2>3, <2>4 DEF RequestOwners
  <2>6. SessionOwners'
    <3>1. \A g \in Handler : handler'[g].sess # none =>
            session'[handler'[g].sess].dev \in {handler'[g].dev, none}
      BY <1>2, <1>5 DEF HoldsOn, OwnersInv, SessionOwners
    <3>2. \A q \in Req : request'[q].sess # none =>
            session'[request'[q].sess].dev \in {request'[q].dev, none}
      BY <1>2, <2>1 DEF OwnersInv, SessionOwners
    <3> QED BY <3>1, <3>2 DEF SessionOwners
  <2> QED BY <1>5, <2>5, <2>6, PhonesStayServed DEF OwnersInv
<1> QED BY <1>6, <1>7 DEF CreateRequest

LEMMA CreateSessionOwners ==
  ASSUME IInv, OwnersInv, NEW h \in Handler, NEW s \in Sess, CreateSession(h, s)
  PROVE  OwnersInv'
<1> USE DEF IInv
<1>1. /\ handler[h].pc = "create" /\ FreeSess(s)
      /\ session' = [session EXCEPT ![s] = [dev |-> handler[h].dev, req |-> handler[h].req]]
      /\ handler' = [handler EXCEPT ![h].pc = "mark", ![h].sess = s]
      /\ UNCHANGED <<request, phone>>
  BY DEF CreateSession, mgr
<1>2. /\ \A g \in Handler \ {h} : handler'[g] = handler[g]
      /\ handler'[h].pc = "mark" /\ handler'[h].sess = s
      /\ handler'[h].dev = handler[h].dev /\ handler'[h].req = handler[h].req
      /\ handler'[h].op = handler[h].op
  BY <1>1 DEF TypeOK
<1>3. /\ \A g \in Handler : WorksOn(g)
      /\ \A d \in Dev : PhoneKept(d) /\ PhoneServed(d)
      /\ HandlersShaped'
  BY <1>1, <1>2, GoOwners
<1>4. /\ session'[s].dev = handler[h].dev
      /\ \A q \in Sess \ {s} : session'[q] = session[q]
  BY <1>1 DEF TypeOK
<1>5. \A r \in Req : SameOwner(r) BY <1>1 DEF SameOwner
<1>6. SessionOwners'
  <2>1. \A g \in Handler : handler'[g].sess # none =>
          session'[handler'[g].sess].dev \in {handler'[g].dev, none}
    <3>1. \A g \in Handler \ {h} : handler[g].sess # s /\ handler[g].sess \in Sess \cup {none}
      BY <1>1 DEF FreeSess, TypeOK
    <3> QED BY <1>2, <1>4, <3>1 DEF OwnersInv, SessionOwners
  <2>2. \A r \in Req : request'[r].sess # none =>
          session'[request'[r].sess].dev \in {request'[r].dev, none}
    <3>1. \A r \in Req : request[r].sess # s /\ request[r].sess \in Sess \cup {none}
      BY <1>1 DEF FreeSess, TypeOK
    <3> QED BY <1>1, <1>4, <3>1 DEF OwnersInv, SessionOwners
  <2> QED BY <2>1, <2>2 DEF SessionOwners
<1> QED BY <1>3, <1>5, <1>6, RequestsKeepOwners, PhonesStayServed DEF OwnersInv

LEMMA MarkAcceptedOwners ==
  ASSUME IInv, OwnersInv, NEW h \in Handler, MarkAccepted(h)
  PROVE  OwnersInv'
<1> DEFINE r == handler[h].req
<1> USE DEF IInv
<1>1. r \in Req /\ handler[h].sess \in Sess BY DEF MarkAccepted, HandlersSound
<1>2. UNCHANGED session BY DEF MarkAccepted, db
<1>3. \A s \in Sess : SessionKept(s) BY <1>2 DEF SessionKept
<1>4. CASE ~Acceptable(request[r])
  <2>1. request' = [request EXCEPT ![r] = Looked(request[r])] /\ Goto(h, "revoke")
        /\ UNCHANGED phone
    BY <1>4 DEF MarkAccepted
  <2>2. \A q \in Req : RequestKept(q) BY <1>1, <2>1, LookedAtOne, KeptByStatuses
  <2>3. /\ \A g \in Handler \ {h} : handler'[g] = handler[g]
        /\ handler'[h].pc = "revoke"
        /\ handler'[h].dev = handler[h].dev /\ handler'[h].req = handler[h].req
        /\ handler'[h].sess = handler[h].sess
    BY <2>1, GoingOn
  <2>4. handler'[h].op = handler[h].op BY <2>1 DEF Goto, TypeOK
  <2>5. /\ \A g \in Handler : WorksOn(g) /\ HoldsOn(g)
        /\ \A d \in Dev : PhoneKept(d) /\ PhoneServed(d)
        /\ HandlersShaped'
    BY <2>1, <2>3, <2>4, GoOwners
  <2> QED BY <1>3, <2>2, <2>5, KeepOwners
<1>5. CASE Acceptable(request[r])
  <2>1. /\ request' = [request EXCEPT ![r].status = "accepted", ![r].sess = handler[h].sess]
        /\ End(h) /\ PhoneGets(h, r)
    BY <1>5 DEF MarkAccepted
  <2>2. /\ \A g \in Handler : WorksOn(g) /\ HoldsOn(g)
        /\ \A d \in Dev : PhoneKept(d) /\ PhoneServed(d)
        /\ HandlersShaped'
    BY <2>1, EndOwners
  <2>3. /\ request'[r].dev = request[r].dev /\ request'[r].sess = handler[h].sess
        /\ request[r] # NoRequest
        /\ \A q \in Req \ {r} : request'[q] = request[q]
    BY <1>1, <1>5, <2>1 DEF TypeOK, Acceptable, NoRequest
  <2>4. \A q \in Req : SameOwner(q) BY <2>3 DEF SameOwner
  <2>5. request[r].dev = handler[h].dev
    BY <1>1, <2>3 DEF OwnersInv, RequestOwners
  <2>6. SessionOwners'
    <3>1. \A g \in Handler : handler'[g].sess # none =>
            session'[handler'[g].sess].dev \in {handler'[g].dev, none}
      BY <1>2, <2>2 DEF HoldsOn, OwnersInv, SessionOwners
    <3>2. \A q \in Req : request'[q].sess # none =>
            session'[request'[q].sess].dev \in {request'[q].dev, none}
      <4> HIDE DEF r
      <4>1. handler[h].sess # none BY <1>1, PairingAssumption
      <4>2. session[handler[h].sess].dev \in {handler[h].dev, none}
        BY <4>1 DEF OwnersInv, SessionOwners
      <4> QED BY <1>2, <2>3, <2>5, <4>2 DEF OwnersInv, SessionOwners
    <3> QED BY <3>1, <3>2 DEF SessionOwners
  <2> QED BY <2>2, <2>4, <2>6, RequestsKeepOwners, PhonesStayServed DEF OwnersInv
<1> QED BY <1>4, <1>5

\* A phone asks, and a handler takes up its request.
LEMMA StartOwners ==
  ASSUME TypeOK, OwnersInv, NEW h \in Handler, NEW d \in Dev, NEW r \in Req,
         NEW op \in {"request", "discover"}, NEW pc \in {"request", "check"},
         NEW p, Starts(h, d, r, op, pc, p)
  PROVE  /\ handler[h] = Idle /\ phone[d] = AtRest /\ request[r] = NoRequest
         /\ \A g \in Handler : handler[g].req # r
         /\ \A e \in Dev : phone[e].req # r
         /\ \A g \in Handler \ {h} : handler'[g] = handler[g]
         /\ handler'[h].op = op /\ handler'[h].pc = pc
         /\ handler'[h].dev = d /\ handler'[h].req = r /\ handler'[h].sess = none
         /\ \A e \in Dev \ {d} : phone'[e] = phone[e]
         /\ phone'[d] = [doing |-> "asking", req |-> r]
<1>1. handler' = [handler EXCEPT ![h] =
                     [op |-> op, pc |-> pc, dev |-> d, req |-> r, pair |-> p,
                      tok |-> IF p = none THEN none ELSE token[p].val,
                      sess |-> none]]
  BY DEF Starts
<1>2. phone' = [phone EXCEPT ![d] = [doing |-> "asking", req |-> r]] BY DEF Starts
<1> QED BY <1>1, <1>2 DEF Starts, FreeReq, TypeOK

\* A new request, handled or not, is of the phone that asks.
LEMMA AskingOwners ==
  ASSUME IInv, OwnersInv, NEW h \in Handler, NEW d \in Dev, NEW r \in Req,
         \/ \E p \in Pair : PresentToken(h, d, p, r)
         \/ AskDirectly(h, d, r)
  PROVE  OwnersInv'
<1> USE DEF IInv
<1>1. UNCHANGED session BY DEF PresentToken, AskDirectly, db
<1>2. /\ phone[d] = AtRest /\ request[r] = NoRequest
      /\ \A g \in Handler : handler[g].req # r
      /\ \A e \in Dev : phone[e].req # r
  BY StartOwners DEF PresentToken, AskDirectly, FreeReq, Starts
<1>3. /\ \A q \in Req \ {r} : request'[q] = request[q]
      /\ \/ request'[r] = NoRequest
         \/ request'[r].dev = d /\ request'[r].sess = none
  BY <1>2 DEF PresentToken, AskDirectly, NewRequest, TypeOK
<1>4. \/ /\ \A e \in Dev \ {d} : phone'[e] = phone[e]
         /\ phone'[d] = [doing |-> "polling", req |-> r]
         /\ UNCHANGED handler
      \/ /\ handler[h] = Idle
         /\ \A g \in Handler \ {h} : handler'[g] = handler[g]
         /\ handler'[h].op \in {"request", "discover"}
         /\ handler'[h].pc \in {"request", "check"}
         /\ handler'[h].dev = d /\ handler'[h].req = r /\ handler'[h].sess = none
         /\ \A e \in Dev \ {d} : phone'[e] = phone[e]
         /\ phone'[d] = [doing |-> "asking", req |-> r]
  <2>1. ASSUME NEW p \in Pair, PresentToken(h, d, p, r)
        PROVE  Starts(h, d, r, "request", "request", p)
    BY <2>1 DEF PresentToken
  <2>2. CASE AskDirectly(h, d, r)
    <3>1. CASE Starts(h, d, r, "discover", "check", none) BY <3>1, StartOwners
    <3>2. CASE ~Starts(h, d, r, "discover", "check", none)
      BY <2>2, <3>2 DEF AskDirectly, TypeOK
    <3> QED BY <3>1, <3>2
  <2>3. ASSUME NEW p \in Pair, PresentToken(h, d, p, r)
        PROVE  /\ handler[h] = Idle
               /\ \A g \in Handler \ {h} : handler'[g] = handler[g]
               /\ handler'[h].op \in {"request", "discover"}
               /\ handler'[h].pc \in {"request", "check"}
               /\ handler'[h].dev = d /\ handler'[h].req = r /\ handler'[h].sess = none
               /\ \A e \in Dev \ {d} : phone'[e] = phone[e]
               /\ phone'[d] = [doing |-> "asking", req |-> r]
    BY <2>1, <2>3, StartOwners
  <2> QED BY <2>2, <2>3
<1>5. /\ \A g \in Handler : handler'[g].sess # none => handler'[g] = handler[g]
      /\ \A g \in Handler : \/ handler'[g] = handler[g]
                            \/ handler'[g].req = r /\ handler'[g].dev = d
      /\ \A e \in Dev : \/ phone'[e] = phone[e]
                        \/ e = d /\ phone'[e].req = r
  BY <1>4
<1>6. RequestOwners'
  <2>1. \A g \in Handler : handler'[g].req \in Req =>
          \/ request'[handler'[g].req] = NoRequest
          \/ request'[handler'[g].req].dev = handler'[g].dev
    BY <1>2, <1>3, <1>5 DEF OwnersInv, RequestOwners
  <2>2. \A e \in Dev : phone'[e].doing # "nothing" =>
          /\ phone'[e].req \in Req
          /\ \/ request'[phone'[e].req] = NoRequest
             \/ request'[phone'[e].req].dev = e
    BY <1>2, <1>3, <1>5 DEF OwnersInv, RequestOwners
  <2>3. \A e \in Dev, g \in Handler :
          phone'[e].doing # "nothing" /\ phone'[e].req = handler'[g].req =>
            handler'[g].dev = e
    BY <1>2, <1>5 DEF OwnersInv, RequestOwners
  <2> QED BY <2>1, <2>2, <2>3 DEF RequestOwners
<1>7. SessionOwners' BY <1>1, <1>3, <1>5 DEF OwnersInv, SessionOwners, NoRequest
<1>8. HandlersShaped' BY <1>4 DEF OwnersInv, HandlersShaped
<1>9. PhonesServed'
  <2>1. CASE UNCHANGED handler BY <1>4, <2>1 DEF OwnersInv, PhonesServed, Asks, HandlersShaped, Idle
  <2>2. CASE /\ handler[h] = Idle
             /\ \A g \in Handler \ {h} : handler'[g] = handler[g]
             /\ handler'[h].op \in {"request", "discover"} /\ handler'[h].req = r
             /\ \A e \in Dev \ {d} : phone'[e] = phone[e]
             /\ phone'[d] = [doing |-> "asking", req |-> r]
    BY <2>2 DEF OwnersInv, PhonesServed, Asks, Idle
  <2> QED BY <1>4, <2>1, <2>2
<1> QED BY <1>6, <1>7, <1>8, <1>9 DEF OwnersInv

LEMMA UiAcceptOwners ==
  ASSUME IInv, OwnersInv, NEW h \in Handler, NEW r \in Req, UiAccept(h, r)
  PROVE  OwnersInv'
<1> USE DEF IInv
<1>1. UNCHANGED <<session, phone>> /\ handler[h] = Idle /\ request[r] # NoRequest
  BY DEF UiAccept, db, NoRequest
<1>2. \A q \in Req : RequestKept(q)
  BY LookedAtOne, KeptByStatuses DEF UiAccept
<1>3. /\ \A g \in Handler \ {h} : handler'[g] = handler[g]
      /\ handler'[h].op = "accept" /\ handler'[h].pc \in {"lookup", "clear"}
      /\ handler'[h].dev = request[r].dev /\ handler'[h].req = r
      /\ handler'[h].sess = none
  BY DEF UiAccept, TypeOK, Idle
<1>4. \A s \in Sess : SessionKept(s) BY <1>1 DEF SessionKept
<1>5. \A g \in Handler : HoldsOn(g) BY <1>3 DEF HoldsOn
<1>6. SessionOwners' BY <1>2, <1>4, <1>5, SessionsKeepOwners DEF OwnersInv
<1>7. RequestOwners'
  <2>1. \A g \in Handler : handler'[g].req \in Req =>
          \/ request'[handler'[g].req] = NoRequest
          \/ request'[handler'[g].req].dev = handler'[g].dev
    BY <1>2, <1>3 DEF OwnersInv, RequestOwners, RequestKept
  <2>2. \A d \in Dev : phone'[d].doing # "nothing" =>
          /\ phone'[d].req \in Req
          /\ \/ request'[phone'[d].req] = NoRequest
             \/ request'[phone'[d].req].dev = d
    BY <1>1, <1>2 DEF OwnersInv, RequestOwners, RequestKept
  <2>3. \A d \in Dev, g \in Handler :
          phone'[d].doing # "nothing" /\ phone'[d].req = handler'[g].req =>
            handler'[g].dev = d
    BY <1>1, <1>3 DEF OwnersInv, RequestOwners
  <2> QED BY <2>1, <2>2, <2>3 DEF RequestOwners
<1>8. HandlersShaped' BY <1>3 DEF OwnersInv, HandlersShaped
<1>9. PhonesServed' BY <1>1, <1>3 DEF OwnersInv, PhonesServed, Asks, Idle
<1> QED BY <1>6, <1>7, <1>8, <1>9 DEF OwnersInv

LEMMA UiDeleteOwners ==
  ASSUME IInv, OwnersInv, NEW h \in Handler, NEW d \in Dev, UiDelete(h, d)
  PROVE  OwnersInv'
<1> USE DEF IInv
<1>1. UNCHANGED <<request, phone>> /\ handler[h] = Idle BY DEF UiDelete, mgr
<1>2. \A s \in Sess : SessionKept(s) BY DEF UiDelete, SessionKept, NoSession, TypeOK
<1>3. /\ \A g \in Handler \ {h} : handler'[g] = handler[g]
      /\ \/ handler'[h] = handler[h]
         \/ /\ handler'[h].op = "delete" /\ handler'[h].pc = "ignore"
            /\ handler'[h].req = none /\ handler'[h].sess = none
  <2>1. CASE UNCHANGED handler BY <2>1
  <2>2. CASE handler' = [handler EXCEPT ![h] =
                           [Idle EXCEPT !.op = "delete", !.pc = "ignore", !.dev = d]]
    BY <2>2 DEF TypeOK, Idle
  <2> QED BY <2>1, <2>2 DEF UiDelete
<1>4. \A g \in Handler : WorksOn(g) /\ HoldsOn(g) BY <1>3 DEF WorksOn, HoldsOn
<1>5. HandlersShaped' BY <1>3 DEF OwnersInv, HandlersShaped
<1>6. \A e \in Dev : PhoneKept(e) /\ PhoneServed(e)
  BY <1>1, <1>3 DEF OwnersInv, PhoneKept, PhoneServed, PhonesServed, Asks, Idle
<1> QED BY <1>1, <1>2, <1>4, <1>5, <1>6, KeepOwners

LEMMA RestartOwners ==
  ASSUME IInv, OwnersInv, Restart
  PROVE  OwnersInv'
<1> USE DEF IInv
<1>1. /\ \A r \in Req : request'[r] = NoRequest
      /\ \A s \in Sess : session'[s] = NoSession
      /\ \A g \in Handler : handler'[g] = Idle
  BY DEF Restart
<1>2. \A d \in Dev : phone'[d] = AtRest \/ (phone'[d] = phone[d] /\ phone[d].doing # "asking")
  BY DEF Restart
<1>3. RequestOwners'
  BY <1>1, <1>2, PairingAssumption DEF OwnersInv, RequestOwners, Idle, AtRest
<1>4. SessionOwners' BY <1>1 DEF SessionOwners, NoRequest, Idle
<1>5. HandlersShaped' BY <1>1 DEF HandlersShaped, Idle
<1>6. PhonesServed' BY <1>2 DEF OwnersInv, PhonesServed, AtRest
<1> QED BY <1>3, <1>4, <1>5, <1>6 DEF OwnersInv

LEMMA NextOwners == ASSUME IInv, OwnersInv, Next PROVE OwnersInv'
<1>1. ASSUME NEW p \in Pair, NEW t \in Tok, Issue(p, t) \/ Refresh(p, t) PROVE OwnersInv'
  BY <1>1, QuietStepOwners
<1>2. ASSUME NEW p \in Pair, TokenExpires(p) \/ PresentWrongToken(p) PROVE OwnersInv'
  BY <1>2, QuietStepOwners
<1>3. ASSUME NEW h \in Handler, NEW d \in Dev, NEW p \in Pair, NEW r \in Req,
             PresentToken(h, d, p, r)
      PROVE OwnersInv'
  BY <1>3, AskingOwners
<1>4. ASSUME NEW h \in Handler, NEW d \in Dev, NEW r \in Req, AskDirectly(h, d, r)
      PROVE OwnersInv'
  BY <1>4, AskingOwners
<1>5. ASSUME NEW h \in Handler, Step(h) PROVE OwnersInv'
  BY <1>5, CreateRequestOwners, HandlerStepOwners, CreateSessionOwners,
     MarkAcceptedOwners DEF Step
<1>6. ASSUME NEW h \in Handler, NEW r \in Req, UiAccept(h, r) PROVE OwnersInv'
  BY <1>6, UiAcceptOwners
<1>7. ASSUME NEW r \in Req, UiReject(r) \/ RequestExpires(r) PROVE OwnersInv'
  BY <1>7, QuietStepOwners
<1>8. CASE UiList BY <1>8, QuietStepOwners
<1>9. ASSUME NEW h \in Handler, NEW d \in Dev, UiDelete(h, d) PROVE OwnersInv'
  BY <1>9, UiDeleteOwners
<1>10. ASSUME NEW d \in Dev, UiRestore(d) \/ Poll(d) \/ PollFails(d) \/ StopAsking(d)
       PROVE OwnersInv'
  BY <1>10, QuietStepOwners
<1>11. ASSUME NEW s \in Sess, SessionEnds(s) PROVE OwnersInv'
  BY <1>11, QuietStepOwners
<1>12. ASSUME NEW P \in SUBSET Pair, NEW R \in SUBSET Req, Cleanup(P, R) PROVE OwnersInv'
  BY <1>12, QuietStepOwners
<1>13. CASE Restart BY <1>13, RestartOwners
<1> QED BY <1>1, <1>2, <1>3, <1>4, <1>5, <1>6, <1>7, <1>8, <1>9, <1>10, <1>11,
           <1>12, <1>13 DEF Next

LEMMA StutterOwners == ASSUME OwnersInv, UNCHANGED vars PROVE OwnersInv'
BY DEF OwnersInv, RequestOwners, SessionOwners, HandlersShaped, PhonesServed, Asks, vars

LEMMA OwnersStay == Spec => []OwnersInv
<1>1. IInv /\ IInv' /\ OwnersInv /\ [Next]_vars => OwnersInv'
  BY NextOwners, StutterOwners
<1> QED BY OwnersStart, <1>1, Invariance, PTL DEF Spec

\* The session a phone is handed when it polls is of that phone.
OwnSession ==
    \A d \in Dev : phone[d].doing = "polling" =>
        LET s == request[phone[d].req].sess IN
        s # none => session[s].dev \in {d, none}

\* No phone is given the credentials of another one, although ids of requests
\* and sessions pass through the hands of the phone, of a handler and of the
\* desktop's window, and requests are evicted and a restart forgets them all
\* (handlePairStatus, acceptPairRequest).
THEOREM PhonesGetTheirOwnSession == Spec => []OwnSession
<1>1. OwnersInv => OwnSession
  <2> SUFFICES ASSUME OwnersInv, NEW d \in Dev, phone[d].doing = "polling",
                      request[phone[d].req].sess # none
               PROVE  session[request[phone[d].req].sess].dev \in {d, none}
    BY DEF OwnSession
  <2>1. phone[d].req \in Req /\ request[phone[d].req].dev = d
    BY DEF OwnersInv, RequestOwners, NoRequest
  <2> QED BY <2>1 DEF OwnersInv, SessionOwners
<1> QED BY <1>1, OwnersStay, PTL

\* While a phone waits, a handler works on its request, or the request can
\* expire, or the next poll ends the attempt.
AttemptGoesOn ==
    \A d \in Dev : phone[d] # AtRest =>
        \/ \E h \in Handler :
             Asks(h) /\ handler[h].req = phone[d].req /\ handler[h].pc # "idle"
        \/ /\ phone[d].doing = "polling"
           /\ \/ request[phone[d].req].status = "waiting"
              \/ Looked(request[phone[d].req]).status \notin Pending

\* No attempt to pair is ever left with nobody to move it: the steps named are
\* those that AttemptsEnd assumes to be taken (Step, RequestExpires, Poll).
THEOREM AttemptsNeverRest == Spec => []AttemptGoesOn
<1>1. IInv /\ OwnersInv => AttemptGoesOn
  <2> SUFFICES ASSUME IInv, OwnersInv, NEW d \in Dev, phone[d] # AtRest
               PROVE  \/ \E h \in Handler : /\ Asks(h) /\ handler[h].req = phone[d].req
                                            /\ handler[h].pc # "idle"
                      \/ /\ phone[d].doing = "polling"
                         /\ \/ request[phone[d].req].status = "waiting"
                            \/ Looked(request[phone[d].req]).status \notin Pending
    BY DEF AttemptGoesOn
  <2>1. CASE phone[d].doing = "asking"
    BY <2>1 DEF OwnersInv, PhonesServed, HandlersShaped, Asks, Idle
  <2>2. CASE phone[d].doing # "asking"
    <3>1. phone[d].doing = "polling"
      BY <2>2 DEF IInv, TypeOK, OwnersInv, PhonesServed
    <3>2. phone[d].req \in Req BY <3>1 DEF OwnersInv, RequestOwners
    <3> QED BY <3>1, <3>2 DEF IInv, TypeOK, Looked, Pending
  <2> QED BY <2>1, <2>2
<1> QED BY <1>1, Invariance, OwnersStay, PTL
=============================================================================
