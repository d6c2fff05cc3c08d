----------------------------- MODULE Scheduler ------------------------------
(***************************************************************************)
(* The slots a chunk PUT waits for (transfer.Scheduler): a monitor with    *)
(* three budgets, one condition variable, and for every waiting request a  *)
(* second goroutine that turns the cancellation of its context into a      *)
(* broadcast.                                                              *)
(*                                                                         *)
(* The mutex is held between two steps in one place only, in Acquire       *)
(* between the look at the context and the look at the budgets (control    *)
(* point "checked"); every other critical section is a single action that  *)
(* needs the mutex free.                                                   *)
(***************************************************************************)
EXTENDS Integers, FiniteSets

CONSTANTS
  Requests,       \* the chunk PUTs, one goroutine each
  Files,
  FileOf,         \* the file a request brings a chunk of
  MaxChunks,      \* maxChunksPerFile
  MaxFiles,       \* maxFiles
  MaxGlobal       \* maxGlobal

ASSUME RequestsAssumption == IsFiniteSet(Requests) /\ IsFiniteSet(Files)
ASSUME FileOfAssumption == FileOf \in [Requests -> Files]
\* NewScheduler replaces a budget that is not positive by its default.
ASSUME BudgetsAssumption == {MaxChunks, MaxFiles, MaxGlobal} \subseteq Nat \ {0}

VARIABLES
  pc,             \* where each request is
  cancelled,      \* its context is done
  watching,       \* its watcher goroutine still waits in its select
  fileChunks,     \* slots held per file
  files,          \* the counter of files with a slot
  global          \* the counter of slots

slots == <<fileChunks, files, global>>
vars  == <<pc, cancelled, watching, fileChunks, files, global>>

\* idle: not called yet; lock: at Lock, called or woken; checked: owns the mutex,
\* context looked at; asleep: in Wait; held: owns a slot; served: slot returned;
\* refused: left with the error of the context
Control == {"idle", "lock", "checked", "asleep", "held", "served", "refused"}

MuFree == \A r \in Requests : pc[r] # "checked"

TypeOK ==
  /\ pc \in [Requests -> Control]
  /\ cancelled \in [Requests -> BOOLEAN]
  /\ watching \in [Requests -> BOOLEAN]
  /\ fileChunks \in [Files -> Nat]
  /\ files \in Nat
  /\ global \in Nat

Init ==
  /\ pc = [r \in Requests |-> "idle"]
  /\ cancelled = [r \in Requests |-> FALSE]
  /\ watching = [r \in Requests |-> FALSE]
  /\ fileChunks = [f \in Files |-> 0]
  /\ files = 0
  /\ global = 0

-----------------------------------------------------------------------------

Busy == {f \in Files : fileChunks[f] > 0}    \* the keys of the map

CanAdmit_BusyFileAlways(f) ==
  /\ f \in Busy \/ (fileChunks[f] < MaxChunks /\ Cardinality(Busy) < MaxFiles)
  /\ global < MaxGlobal

CanAdmit(f) ==
  /\ fileChunks[f] < MaxChunks
  /\ f \in Busy \/ Cardinality(Busy) < MaxFiles
  /\ global < MaxGlobal

\* Everyone in Wait goes back to Lock.
Broadcast(control) ==
  [r \in Requests |-> IF control[r] = "asleep" THEN "lock" ELSE control[r]]

\* The caller starts its watcher and asks for the mutex.
Call(r) ==
  /\ pc[r] = "idle"
  /\ pc' = [pc EXCEPT ![r] = "lock"]
  /\ watching' = [watching EXCEPT ![r] = TRUE]
  /\ UNCHANGED <<cancelled, slots>>

\* The mutex is obtained and the context looked at; when it is done, the caller
\* gives the mutex back and leaves.
LockAndCheck(r) ==
  /\ pc[r] = "lock"
  /\ MuFree
  /\ pc' = [pc EXCEPT ![r] = IF cancelled[r] THEN "refused" ELSE "checked"]
  /\ UNCHANGED <<cancelled, watching, slots>>

Reserve_FileNotCounted(r) ==
  /\ pc[r] = "checked"
  /\ CanAdmit(FileOf[r])
  /\ fileChunks' = [fileChunks EXCEPT ![FileOf[r]] = @ + 1]
  /\ global' = global + 1
  /\ pc' = [pc EXCEPT ![r] = "held"]
  /\ UNCHANGED <<cancelled, watching, files>>

Reserve(r) ==
  /\ pc[r] = "checked"
  /\ LET f == FileOf[r]
     IN /\ CanAdmit(f)
        /\ fileChunks' = [fileChunks EXCEPT ![f] = @ + 1]
        /\ files' = IF fileChunks[f] = 0 THEN files + 1 ELSE files
  /\ global' = global + 1
  /\ pc' = [pc EXCEPT ![r] = "held"]
  /\ UNCHANGED <<cancelled, watching>>

Wait(r) ==
  /\ pc[r] = "checked"
  /\ ~CanAdmit(FileOf[r])
  /\ pc' = [pc EXCEPT ![r] = "asleep"]
  /\ UNCHANGED <<cancelled, watching, slots>>

Release_Signal(r) ==
  /\ pc[r] = "held"
  /\ MuFree
  /\ LET f == FileOf[r]
     IN /\ fileChunks' = [fileChunks EXCEPT ![f] = @ - 1]
        /\ files' = IF fileChunks[f] = 1 THEN files - 1 ELSE files
  /\ global' = global - 1
  /\ IF \E s \in Requests : pc[s] = "asleep"
     THEN \E s \in Requests : /\ pc[s] = "asleep"
                              /\ pc' = [pc EXCEPT ![r] = "served", ![s] = "lock"]
     ELSE pc' = [pc EXCEPT ![r] = "served"]
  /\ UNCHANGED <<cancelled, watching>>

Release_NotWhenCancelled(r) ==
  /\ pc[r] = "held"
  /\ MuFree
  /\ pc' = [Broadcast(pc) EXCEPT ![r] = "served"]
  /\ IF cancelled[r]
     THEN UNCHANGED slots
     ELSE /\ fileChunks' = [fileChunks EXCEPT ![FileOf[r]] = @ - 1]
          /\ files' = IF fileChunks[FileOf[r]] = 1 THEN files - 1 ELSE files
          /\ global' = global - 1
  /\ UNCHANGED <<cancelled, watching>>

Release_WithoutBroadcast(r) ==
  /\ pc[r] = "held"
  /\ MuFree
  /\ LET f == FileOf[r]
     IN /\ fileChunks' = [fileChunks EXCEPT ![f] = @ - 1]
        /\ files' = IF fileChunks[f] = 1 THEN files - 1 ELSE files
  /\ global' = global - 1
  /\ pc' = [pc EXCEPT ![r] = "served"]
  /\ UNCHANGED <<cancelled, watching>>

\* The handler returns, whether it stored the chunk or not, and its deferred
\* Release runs: a slot that is not there is not returned.
Release(r) ==
  /\ pc[r] = "held"
  /\ MuFree
  /\ LET f == FileOf[r]
     IN IF fileChunks[f] = 0
        THEN /\ pc' = [pc EXCEPT ![r] = "served"]
             /\ UNCHANGED slots
        ELSE /\ fileChunks' = [fileChunks EXCEPT ![f] = @ - 1]
             /\ files' = IF fileChunks[f] = 1 THEN files - 1 ELSE files
             /\ global' = global - 1
             /\ pc' = [Broadcast(pc) EXCEPT ![r] = "served"]
  /\ UNCHANGED <<cancelled, watching>>

\* The client goes away, or the server cancels the request.
CancelContext(r) ==
  /\ pc[r] \notin {"served", "refused"}
  /\ ~cancelled[r]
  /\ cancelled' = [cancelled EXCEPT ![r] = TRUE]
  /\ UNCHANGED <<pc, watching, slots>>

\* The watcher saw the context done; it broadcasts under the mutex.
WatcherBroadcast(r) ==
  /\ watching[r]
  /\ cancelled[r]
  /\ MuFree
  /\ watching' = [watching EXCEPT ![r] = FALSE]
  /\ pc' = Broadcast(pc)
  /\ UNCHANGED <<cancelled, slots>>

\* Acquire has returned and closed the watcher's channel.
WatcherExit(r) ==
  /\ watching[r]
  /\ pc[r] \in {"held", "served", "refused"}
  /\ watching' = [watching EXCEPT ![r] = FALSE]
  /\ UNCHANGED <<pc, cancelled, slots>>

Acquire(r) == Call(r) \/ LockAndCheck(r) \/ Reserve(r) \/ Wait(r)
Watcher(r) == WatcherBroadcast(r) \/ WatcherExit(r)

Next == \E r \in Requests : Acquire(r) \/ Release(r) \/ CancelContext(r) \/ Watcher(r)

Spec == Init /\ [][Next]_vars

\* Both goroutines of a request run.  A request need not be made, and none need
\* be cancelled.
Fairness ==
  \A r \in Requests :
    /\ WF_vars(LockAndCheck(r) \/ Reserve(r) \/ Wait(r) \/ Release(r))
    /\ WF_vars(Watcher(r))

FairSpec == Spec /\ Fairness

-----------------------------------------------------------------------------
(* Properties. *)

Holders(f) == {r \in Requests : pc[r] = "held" /\ FileOf[r] = f}
AllHolders == {r \in Requests : pc[r] = "held"}
HeldFiles  == {f \in Files : Holders(f) # {}}

\* Never more chunks of one file, files, or requests in flight than the budgets
\* allow, counted over the requests that really hold a slot.
Budgets ==
  /\ \A f \in Files : Cardinality(Holders(f)) <= MaxChunks
  /\ Cardinality(HeldFiles) <= MaxFiles
  /\ Cardinality(AllHolders) <= MaxGlobal

\* The three counters that Acquire and Release keep by hand agree with the slots
\* held: no path through cancellation, wake-up or return leaks or invents one.
Accounting ==
  /\ \A f \in Files : fileChunks[f] = Cardinality(Holders(f))
  /\ files = Cardinality(HeldFiles)
  /\ global = Cardinality(AllHolders)

\* Nobody sleeps who could go: a sleeping request has no room, and if its context
\* is done its watcher has yet to broadcast.
NoLostWakeup ==
  \A r \in Requests :
    pc[r] = "asleep" => ~CanAdmit(FileOf[r]) /\ (cancelled[r] => watching[r])

\* In the end every request that asked for a slot has been served or refused:
\* nobody is left in Wait once the slots are free again.
EveryRequestAnswered ==
  <>[](\A r \in Requests : pc[r] \in {"idle", "served", "refused"})

=============================================================================
