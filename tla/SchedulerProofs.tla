-------------------------- MODULE SchedulerProofs ---------------------------
(***************************************************************************)
(* Theorems about Scheduler for any finite set of requests and any         *)
(* positive budgets: the hand-kept counters are the slots really held, the *)
(* budgets are never exceeded, and nobody sleeps who could go.             *)
(***************************************************************************)
EXTENDS Scheduler, FiniteSetTheorems, TLAPS

\* The watcher of a request that may be asleep soon is there until it has
\* broadcast; a request back at Lock without one has a context that is done.
WatcherLives ==
  \A r \in Requests :
    /\ pc[r] \in {"checked", "asleep"} => watching[r]
    /\ pc[r] = "lock" => watching[r] \/ cancelled[r]

\* A sleeping request has no room.
NoRoom == \A r \in Requests : pc[r] = "asleep" => ~CanAdmit(FileOf[r])

IInv == TypeOK /\ Accounting /\ Budgets /\ WatcherLives /\ NoRoom

-----------------------------------------------------------------------------
(* The sets of holders. *)

\* The sets counted by Accounting are finite and their sizes are naturals.
LEMMA HoldersFinite ==
  /\ \A f : IsFiniteSet(Holders(f)) /\ Cardinality(Holders(f)) \in Nat
  /\ IsFiniteSet(AllHolders) /\ Cardinality(AllHolders) \in Nat
  /\ IsFiniteSet(HeldFiles) /\ Cardinality(HeldFiles) \in Nat
<1>1. ASSUME NEW f PROVE IsFiniteSet(Holders(f))
  <2>1. Holders(f) \in SUBSET Requests BY DEF Holders
  <2> QED BY <2>1, FS_Subset, RequestsAssumption
<1>2. IsFiniteSet(AllHolders)
  <2>1. AllHolders \in SUBSET Requests BY DEF AllHolders
  <2> QED BY <2>1, FS_Subset, RequestsAssumption
<1>3. IsFiniteSet(HeldFiles)
  <2>1. HeldFiles \in SUBSET Files BY DEF HeldFiles
  <2> QED BY <2>1, FS_Subset, RequestsAssumption
<1> QED BY <1>1, <1>2, <1>3, FS_CardinalityType

\* The files the map has an entry for are the files somebody holds a slot of.
LEMMA BusyIsHeld == Accounting => Busy = HeldFiles
<1> SUFFICES ASSUME Accounting PROVE Busy = HeldFiles OBVIOUS
<1>1. ASSUME NEW f \in Files PROVE fileChunks[f] > 0 <=> Holders(f) # {}
  <2>1. fileChunks[f] = Cardinality(Holders(f)) BY DEF Accounting
  <2>2. IsFiniteSet(Holders(f)) /\ Cardinality(Holders(f)) \in Nat BY HoldersFinite
  <2>3. Cardinality(Holders(f)) = 0 <=> Holders(f) = {} BY <2>2, FS_EmptySet
  <2> QED BY <2>1, <2>2, <2>3
<1> QED BY <1>1 DEF Busy, HeldFiles

\* The same two facts about the next state.
LEMMA NextState ==
  /\ (Accounting => Busy = HeldFiles)'
  /\ (IsFiniteSet(AllHolders) /\ Cardinality(AllHolders) \in Nat)'
  /\ (IsFiniteSet(HeldFiles) /\ Cardinality(HeldFiles) \in Nat)'
<1>1. IsFiniteSet(AllHolders) /\ Cardinality(AllHolders) \in Nat BY HoldersFinite
<1>2. IsFiniteSet(HeldFiles) /\ Cardinality(HeldFiles) \in Nat BY HoldersFinite
<1> QED BY <1>1, <1>2, BusyIsHeld, PTL

\* A step after which the same requests hold a slot changes none of the sets.
LEMMA SameHolders ==
  ASSUME \A s \in Requests : pc'[s] = "held" <=> pc[s] = "held"
  PROVE  /\ \A f : Holders(f)' = Holders(f)
         /\ AllHolders' = AllHolders
         /\ HeldFiles' = HeldFiles
<1>1. ASSUME NEW f PROVE Holders(f)' = Holders(f) BY DEF Holders
<1>2. AllHolders' = AllHolders BY DEF AllHolders
<1> QED BY <1>1, <1>2 DEF HeldFiles

\* One request more holds a slot.
LEMMA HolderJoins ==
  ASSUME NEW r \in Requests, FileOf[r] \in Files,
         pc[r] # "held", pc'[r] = "held",
         \A s \in Requests \ {r} : pc'[s] = "held" <=> pc[s] = "held"
  PROVE  /\ Cardinality(Holders(FileOf[r]))' = Cardinality(Holders(FileOf[r])) + 1
         /\ \A f \in Files \ {FileOf[r]} : Holders(f)' = Holders(f)
         /\ Cardinality(AllHolders)' = Cardinality(AllHolders) + 1
         /\ Cardinality(HeldFiles)' = IF Holders(FileOf[r]) = {} THEN Cardinality(HeldFiles) + 1
                                                           ELSE Cardinality(HeldFiles)
<1> DEFINE h == FileOf[r]
<1>1. Holders(h)' = Holders(h) \cup {r} /\ r \notin Holders(h) BY DEF Holders
<1>2. ASSUME NEW f \in Files \ {h} PROVE Holders(f)' = Holders(f) BY DEF Holders
<1>3. AllHolders' = AllHolders \cup {r} /\ r \notin AllHolders BY DEF AllHolders
<1>4. HeldFiles' = HeldFiles \cup {h} BY <1>1, <1>2 DEF HeldFiles
<1>5. h \in HeldFiles <=> Holders(h) # {} BY DEF HeldFiles
<1>6. Cardinality(Holders(h) \cup {r}) = Cardinality(Holders(h)) + 1
  BY <1>1, HoldersFinite, FS_AddElement
<1>7. Cardinality(AllHolders \cup {r}) = Cardinality(AllHolders) + 1
  BY <1>3, HoldersFinite, FS_AddElement
<1>8. Cardinality(HeldFiles \cup {h}) = IF h \in HeldFiles THEN Cardinality(HeldFiles)
                                                           ELSE Cardinality(HeldFiles) + 1
  BY HoldersFinite, FS_AddElement
<1> QED BY <1>1, <1>2, <1>3, <1>4, <1>5, <1>6, <1>7, <1>8

\* One request fewer holds a slot.
LEMMA HolderLeaves ==
  ASSUME NEW r \in Requests, FileOf[r] \in Files,
         pc[r] = "held", pc'[r] # "held",
         \A s \in Requests \ {r} : pc'[s] = "held" <=> pc[s] = "held"
  PROVE  /\ Cardinality(Holders(FileOf[r]))' = Cardinality(Holders(FileOf[r])) - 1
         /\ \A f \in Files \ {FileOf[r]} : Holders(f)' = Holders(f)
         /\ Cardinality(AllHolders)' = Cardinality(AllHolders) - 1
         /\ Cardinality(HeldFiles)' = IF Cardinality(Holders(FileOf[r])) = 1
                                      THEN Cardinality(HeldFiles) - 1
                                      ELSE Cardinality(HeldFiles)
         /\ Cardinality(Holders(FileOf[r])) > 0
<1> DEFINE h == FileOf[r]
<1>1. Holders(h)' = Holders(h) \ {r} /\ r \in Holders(h) BY DEF Holders
<1>2. ASSUME NEW f \in Files \ {h} PROVE Holders(f)' = Holders(f) BY DEF Holders
<1>3. AllHolders' = AllHolders \ {r} /\ r \in AllHolders BY DEF AllHolders
<1>4. Cardinality(Holders(h) \ {r}) = Cardinality(Holders(h)) - 1
  BY <1>1, HoldersFinite, FS_RemoveElement
<1>5. Cardinality(AllHolders \ {r}) = Cardinality(AllHolders) - 1
  BY <1>3, HoldersFinite, FS_RemoveElement
<1>6. IsFiniteSet(Holders(h)) /\ Cardinality(Holders(h)) \in Nat BY HoldersFinite
<1>7. IsFiniteSet(Holders(h) \ {r}) BY <1>6, FS_RemoveElement
<1>8. Cardinality(Holders(h)) > 0 BY <1>1, <1>6, FS_EmptySet
<1>9. Holders(h)' = {} <=> Cardinality(Holders(h)) = 1
  <2>1. Holders(h)' = {} <=> Cardinality(Holders(h) \ {r}) = 0 BY <1>1, <1>7, FS_EmptySet
  <2> QED BY <2>1, <1>4, <1>6
<1>10. h \in HeldFiles BY <1>1 DEF HeldFiles
<1>11. HeldFiles' = IF Holders(h)' = {} THEN HeldFiles \ {h} ELSE HeldFiles
  BY <1>2, <1>10 DEF HeldFiles
<1>12. Cardinality(HeldFiles \ {h}) = Cardinality(HeldFiles) - 1
  BY <1>10, HoldersFinite, FS_RemoveElement
<1> QED BY <1>1, <1>2, <1>3, <1>4, <1>5, <1>8, <1>9, <1>11, <1>12

-----------------------------------------------------------------------------
(* The invariant. *)

LEMMA InitEstablishes == Init => IInv
<1> SUFFICES ASSUME Init PROVE IInv OBVIOUS
<1>1. TypeOK BY DEF Init, TypeOK, Control
<1>2. \A f : Holders(f) = {} BY DEF Init, Holders
<1>3. AllHolders = {} /\ HeldFiles = {} BY <1>2 DEF Init, AllHolders, HeldFiles
<1>4. Cardinality({}) = 0 BY FS_EmptySet
<1>5. Accounting BY <1>2, <1>3, <1>4 DEF Accounting, Init
<1>6. Budgets BY <1>2, <1>3, <1>4, BudgetsAssumption DEF Budgets
<1>7. WatcherLives /\ NoRoom BY DEF Init, WatcherLives, NoRoom
<1> QED BY <1>1, <1>5, <1>6, <1>7 DEF IInv

\* A step that moves no slot and puts nobody to sleep keeps what IInv says of
\* slots and budgets.
LEMMA SlotsUntouched ==
  ASSUME IInv, UNCHANGED slots,
         \A s \in Requests : pc'[s] = "held" <=> pc[s] = "held",
         \A s \in Requests : pc'[s] = "asleep" => pc[s] = "asleep"
  PROVE  Accounting' /\ Budgets' /\ NoRoom'
<1>1. /\ \A f : Holders(f)' = Holders(f)
      /\ AllHolders' = AllHolders
      /\ HeldFiles' = HeldFiles
  BY SameHolders
<1>2. Accounting' BY <1>1 DEF IInv, Accounting, slots
<1>3. Budgets' BY <1>1 DEF IInv, Budgets
<1>4. NoRoom' BY DEF IInv, NoRoom, CanAdmit, Busy, slots
<1> QED BY <1>2, <1>3, <1>4

LEMMA StepPreserves == IInv /\ [Next]_vars => IInv'
<1> SUFFICES ASSUME IInv, [Next]_vars PROVE IInv' OBVIOUS
<1> USE FileOfAssumption, BudgetsAssumption
<1>1. ASSUME NEW r \in Requests, Call(r) PROVE IInv'
  <2>1. TypeOK' BY <1>1 DEF Call, slots, IInv, TypeOK, Control
  <2>2. WatcherLives' BY <1>1 DEF Call, IInv, WatcherLives, TypeOK
  <2>3. Accounting' /\ Budgets' /\ NoRoom'
    BY <1>1, SlotsUntouched DEF Call, IInv, TypeOK
  <2> QED BY <2>1, <2>2, <2>3 DEF IInv
<1>2. ASSUME NEW r \in Requests, LockAndCheck(r) PROVE IInv'
  <2>1. TypeOK' BY <1>2 DEF LockAndCheck, slots, IInv, TypeOK, Control
  <2>2. WatcherLives' BY <1>2 DEF LockAndCheck, IInv, WatcherLives, TypeOK
  <2>3. Accounting' /\ Budgets' /\ NoRoom'
    BY <1>2, SlotsUntouched DEF LockAndCheck, IInv, TypeOK
  <2> QED BY <2>1, <2>2, <2>3 DEF IInv
<1>3. ASSUME NEW r \in Requests, Reserve(r) PROVE IInv'
  <2> DEFINE h == FileOf[r]
  <2>1. h \in Files OBVIOUS
  <2>2. TypeOK' BY <1>3, <2>1 DEF Reserve, IInv, TypeOK, Control
  <2>3. WatcherLives' BY <1>3 DEF Reserve, IInv, WatcherLives, TypeOK
  <2>4. /\ Cardinality(Holders(h))' = Cardinality(Holders(h)) + 1
        /\ \A f \in Files \ {h} : Holders(f)' = Holders(f)
        /\ Cardinality(AllHolders)' = Cardinality(AllHolders) + 1
        /\ Cardinality(HeldFiles)' = IF Holders(h) = {} THEN Cardinality(HeldFiles) + 1
                                                      ELSE Cardinality(HeldFiles)
    BY <1>3, <2>1, HolderJoins DEF Reserve, IInv, TypeOK
  <2>5. Busy = HeldFiles BY BusyIsHeld DEF IInv
  <2>6. fileChunks[h] = 0 <=> Holders(h) = {}
    <3>1. fileChunks[h] = Cardinality(Holders(h)) BY <2>1 DEF IInv, Accounting
    <3> QED BY <3>1, HoldersFinite, FS_EmptySet
  <2>7. Accounting'
    <3>1. \A f \in Files : fileChunks'[f] = Cardinality(Holders(f))'
      BY <1>3, <2>1, <2>4 DEF Reserve, IInv, TypeOK, Accounting
    <3>2. files' = Cardinality(HeldFiles)'
      BY <1>3, <2>4, <2>6 DEF Reserve, IInv, Accounting
    <3>3. global' = Cardinality(AllHolders)'
      BY <1>3, <2>4 DEF Reserve, IInv, Accounting
    <3> QED BY <3>1, <3>2, <3>3 DEF Accounting
  <2>8. Budgets'
    <3>1. CanAdmit(h) BY <1>3 DEF Reserve
    <3>2. \A f \in Files : Cardinality(Holders(f))' <= MaxChunks
      <4>1. Cardinality(Holders(h))' <= MaxChunks
        BY <2>1, <2>4, <3>1, HoldersFinite DEF CanAdmit, IInv, Accounting
      <4>2. ASSUME NEW f \in Files \ {h} PROVE Cardinality(Holders(f))' <= MaxChunks
        BY <2>4 DEF IInv, Budgets
      <4> QED BY <4>1, <4>2
    <3>3. Cardinality(HeldFiles)' <= MaxFiles
      <4>1. Holders(h) = {} => h \notin Busy BY <2>5 DEF HeldFiles
      <4> QED BY <2>4, <2>5, <3>1, <4>1, HoldersFinite DEF CanAdmit, IInv, Budgets
    <3>4. Cardinality(AllHolders)' <= MaxGlobal
      BY <2>4, <3>1, HoldersFinite DEF CanAdmit, IInv, Accounting
    <3> QED BY <3>2, <3>3, <3>4 DEF Budgets
  <2>9. NoRoom'
    <3> SUFFICES ASSUME NEW s \in Requests, pc'[s] = "asleep" PROVE ~CanAdmit(FileOf[s])'
      BY DEF NoRoom
    <3>1. pc[s] = "asleep" /\ s # r BY <1>3 DEF Reserve, IInv, TypeOK
    <3>2. ~CanAdmit(FileOf[s]) BY <3>1 DEF IInv, NoRoom
    <3>3. FileOf[s] \in Files OBVIOUS
    <3>4. CanAdmit(h) BY <1>3 DEF Reserve
    <3>5. FileOf[s] # h BY <3>2, <3>4
    <3>6. fileChunks'[FileOf[s]] = fileChunks[FileOf[s]]
      BY <1>3, <3>3, <3>5 DEF Reserve, IInv, TypeOK
    <3>7. Cardinality(Busy)' >= Cardinality(Busy)
      <4>1. Busy' = HeldFiles' BY <2>7, NextState
      <4> QED BY <4>1, <2>4, <2>5, HoldersFinite
    <3>8. FileOf[s] \in Busy' <=> FileOf[s] \in Busy BY <3>3, <3>6 DEF Busy
    <3>9. global' > global BY <1>3 DEF Reserve, IInv, TypeOK
    <3>10. global \in Nat /\ global' \in Nat BY <2>2 DEF IInv, TypeOK
    <3>11. Cardinality(Busy) \in Nat /\ Cardinality(Busy)' \in Nat
      <4>1. Busy' = HeldFiles' BY <2>7, NextState
      <4> QED BY <4>1, <2>4, <2>5, HoldersFinite
    <3> QED BY <3>2, <3>6, <3>7, <3>8, <3>9, <3>10, <3>11 DEF CanAdmit
  <2> QED BY <2>2, <2>3, <2>7, <2>8, <2>9 DEF IInv
<1>4. ASSUME NEW r \in Requests, Wait(r) PROVE IInv'
  <2>1. TypeOK' BY <1>4 DEF Wait, slots, IInv, TypeOK, Control
  <2>2. WatcherLives' BY <1>4 DEF Wait, IInv, WatcherLives, TypeOK
  <2>3. \A s \in Requests : pc'[s] = "held" <=> pc[s] = "held"
    BY <1>4 DEF Wait, IInv, TypeOK
  <2>4. /\ \A f : Holders(f)' = Holders(f)
        /\ AllHolders' = AllHolders
        /\ HeldFiles' = HeldFiles
    BY <2>3, SameHolders
  <2>5. Accounting' /\ Budgets'
    BY <1>4, <2>4 DEF Wait, slots, IInv, Accounting, Budgets
  <2>6. NoRoom' BY <1>4 DEF Wait, slots, IInv, TypeOK, NoRoom, CanAdmit, Busy
  <2> QED BY <2>1, <2>2, <2>5, <2>6 DEF IInv
<1>5. ASSUME NEW r \in Requests, Release(r) PROVE IInv'
  <2> DEFINE h == FileOf[r]
  <2>1. h \in Files OBVIOUS
  <2>2. pc[r] = "held" /\ pc'[r] = "served" BY <1>5 DEF Release, Broadcast, IInv, TypeOK
  <2>3. \A s \in Requests \ {r} : pc'[s] = "held" <=> pc[s] = "held"
    BY <1>5 DEF Release, Broadcast, IInv, TypeOK
  <2>4. /\ Cardinality(Holders(h))' = Cardinality(Holders(h)) - 1
        /\ \A f \in Files \ {h} : Holders(f)' = Holders(f)
        /\ Cardinality(AllHolders)' = Cardinality(AllHolders) - 1
        /\ Cardinality(HeldFiles)' = IF Cardinality(Holders(h)) = 1
                                     THEN Cardinality(HeldFiles) - 1
                                     ELSE Cardinality(HeldFiles)
        /\ Cardinality(Holders(h)) > 0
    BY <2>1, <2>2, <2>3, HolderLeaves
  <2>5. fileChunks[h] = Cardinality(Holders(h)) BY <2>1 DEF IInv, Accounting
  <2>6. /\ fileChunks' = [fileChunks EXCEPT ![h] = @ - 1]
        /\ files' = IF fileChunks[h] = 1 THEN files - 1 ELSE files
        /\ global' = global - 1
        /\ pc' = [Broadcast(pc) EXCEPT ![r] = "served"]
        /\ UNCHANGED <<cancelled, watching>>
    BY <1>5, <2>4, <2>5, HoldersFinite DEF Release
  <2>7. Accounting'
    <3>1. \A f \in Files : fileChunks'[f] = Cardinality(Holders(f))'
      BY <2>1, <2>4, <2>6 DEF IInv, TypeOK, Accounting
    <3>2. files' = Cardinality(HeldFiles)' BY <2>4, <2>5, <2>6 DEF IInv, Accounting
    <3>3. global' = Cardinality(AllHolders)' BY <2>4, <2>6 DEF IInv, Accounting
    <3> QED BY <3>1, <3>2, <3>3 DEF Accounting
  <2>8. TypeOK'
    <3>1. \A f \in Files : fileChunks'[f] \in Nat
      <4>1. ASSUME NEW f \in Files PROVE Cardinality(Holders(f))' \in Nat
        BY HoldersFinite, <2>1, <2>4
      <4> QED BY <4>1, <2>7 DEF Accounting
    <3>2. fileChunks' \in [Files -> Nat] BY <3>1, <2>6 DEF IInv, TypeOK
    <3>3. Cardinality(HeldFiles)' \in Nat /\ Cardinality(AllHolders)' \in Nat
      BY NextState
    <3>4. files' \in Nat /\ global' \in Nat BY <3>3, <2>7 DEF Accounting
    <3>5. pc' \in [Requests -> Control] BY <2>6 DEF Broadcast, IInv, TypeOK, Control
    <3> QED BY <3>2, <3>4, <3>5, <2>6 DEF IInv, TypeOK
  <2>9. WatcherLives' BY <2>6 DEF Broadcast, IInv, WatcherLives, TypeOK
  <2>10. Budgets'
    <3>1. \A f \in Files : Cardinality(Holders(f))' <= MaxChunks
      BY <2>1, <2>4, HoldersFinite DEF IInv, Budgets
    <3>2. Cardinality(HeldFiles)' <= MaxFiles /\ Cardinality(AllHolders)' <= MaxGlobal
      BY <2>4, HoldersFinite DEF IInv, Budgets
    <3> QED BY <3>1, <3>2 DEF Budgets
  <2>11. NoRoom' BY <2>6 DEF Broadcast, NoRoom, IInv, TypeOK
  <2> QED BY <2>7, <2>8, <2>9, <2>10, <2>11 DEF IInv
<1>6. ASSUME NEW r \in Requests, CancelContext(r) PROVE IInv'
  <2>1. TypeOK' BY <1>6 DEF CancelContext, slots, IInv, TypeOK
  <2>2. WatcherLives' BY <1>6 DEF CancelContext, IInv, WatcherLives, TypeOK
  <2>3. Accounting' /\ Budgets' /\ NoRoom' BY <1>6, SlotsUntouched DEF CancelContext
  <2> QED BY <2>1, <2>2, <2>3 DEF IInv
<1>7. ASSUME NEW r \in Requests, WatcherBroadcast(r) PROVE IInv'
  <2>1. TypeOK' BY <1>7 DEF WatcherBroadcast, Broadcast, slots, IInv, TypeOK, Control
  <2>2. WatcherLives'
    BY <1>7 DEF WatcherBroadcast, MuFree, Broadcast, IInv, WatcherLives, TypeOK
  <2>3. Accounting' /\ Budgets' /\ NoRoom'
    BY <1>7, SlotsUntouched DEF WatcherBroadcast, Broadcast, IInv, TypeOK
  <2> QED BY <2>1, <2>2, <2>3 DEF IInv
<1>8. ASSUME NEW r \in Requests, WatcherExit(r) PROVE IInv'
  <2>1. TypeOK' BY <1>8 DEF WatcherExit, slots, IInv, TypeOK
  <2>2. WatcherLives' BY <1>8 DEF WatcherExit, IInv, WatcherLives, TypeOK
  <2>3. Accounting' /\ Budgets' /\ NoRoom' BY <1>8, SlotsUntouched DEF WatcherExit
  <2> QED BY <2>1, <2>2, <2>3 DEF IInv
<1>9. CASE UNCHANGED vars
  <2>1. TypeOK' BY <1>9 DEF vars, IInv, TypeOK
  <2>2. WatcherLives' BY <1>9 DEF vars, IInv, WatcherLives
  <2>3. Accounting' /\ Budgets' /\ NoRoom' BY <1>9, SlotsUntouched DEF vars, slots
  <2> QED BY <2>1, <2>2, <2>3 DEF IInv
<1> QED BY <1>1, <1>2, <1>3, <1>4, <1>5, <1>6, <1>7, <1>8, <1>9 DEF Next, Acquire, Watcher

LEMMA Invariance == Spec => []IInv
<1> QED BY InitEstablishes, StepPreserves, PTL DEF Spec

-----------------------------------------------------------------------------
(* Theorems. *)

\* The counters of the scheduler never leave the naturals, and every control
\* point is one of those named (Acquire and Release, scheduler.go:50-100).
THEOREM TypeCorrect == Spec => []TypeOK
<1>1. IInv => TypeOK BY DEF IInv
<1> QED BY <1>1, Invariance, PTL

\* The map and the two counters Acquire and Release keep by hand are, in every
\* reachable state, the slots really held.
THEOREM CountersAreSlots == Spec => []Accounting
<1>1. IInv => Accounting BY DEF IInv
<1> QED BY <1>1, Invariance, PTL

\* No reachable state has more slots held than a budget of NewScheduler allows.
THEOREM BudgetsHold == Spec => []Budgets
<1>1. IInv => Budgets BY DEF IInv
<1> QED BY <1>1, Invariance, PTL

\* No request is in Wait while it could be admitted, or with a context that is
\* done and no broadcast to come.
THEOREM NobodySleepsInVain == Spec => []NoLostWakeup
<1>1. IInv => NoLostWakeup BY DEF IInv, NoLostWakeup, NoRoom, WatcherLives
<1> QED BY <1>1, Invariance, PTL

\* One goroutine at a time owns the mutex between its look at the context and its
\* look at the budgets.
MutexInv ==
  \A q, r \in Requests : pc[q] = "checked" /\ pc[r] = "checked" => q = r

\* Whoever waits waits for somebody: a request sleeps only while another holds a slot,
\* whose Release will wake it, and until then the owner of the mutex or, when it is free,
\* some request at Lock or with a slot can take its next step.
SomebodyCanMove ==
  /\ \A r \in Requests : pc[r] = "asleep" => AllHolders # {}
  /\ \/ \A r \in Requests : pc[r] \in {"idle", "served", "refused"}
     \/ \E r \in Requests : pc[r] = "checked"
     \/ MuFree /\ \E r \in Requests : pc[r] \in {"lock", "held"}

\* No slot is left behind: with no request between its call and its end, the map is
\* empty and both counters are back at zero.
NothingLeaks ==
  (\A r \in Requests : pc[r] \in {"idle", "served", "refused"})
    => Busy = {} /\ files = 0 /\ global = 0

\* The look at the context and the look at the budgets are one critical section.
THEOREM MutexIsExclusive == Spec => []MutexInv
<1>1. Init => MutexInv BY DEF Init, MutexInv
<1>2. IInv /\ MutexInv /\ [Next]_vars => MutexInv'
  <2> SUFFICES ASSUME TypeOK, MutexInv, [Next]_vars PROVE MutexInv' BY DEF IInv
  <2>1. ASSUME NEW r \in Requests, Acquire(r) \/ Release(r) \/ CancelContext(r) \/ Watcher(r)
        PROVE  MutexInv'
    <3>1. CASE LockAndCheck(r)
      BY <3>1 DEF LockAndCheck, MuFree, MutexInv, TypeOK
    <3>2. CASE Call(r) \/ Reserve(r) \/ Wait(r) \/ Release(r) \/ WatcherBroadcast(r)
      <4>1. \A q \in Requests : pc'[q] = "checked" => pc[q] = "checked"
        BY <3>2 DEF Call, Reserve, Wait, Release, WatcherBroadcast, Broadcast, TypeOK
      <4> QED BY <4>1 DEF MutexInv
    <3>3. CASE CancelContext(r) \/ WatcherExit(r)
      BY <3>3 DEF CancelContext, WatcherExit, MutexInv
    <3> QED BY <2>1, <3>1, <3>2, <3>3 DEF Acquire, Watcher
  <2>2. CASE UNCHANGED vars BY <2>2 DEF vars, MutexInv
  <2> QED BY <2>1, <2>2 DEF Next
<1> QED BY <1>1, <1>2, Invariance, PTL DEF Spec

\* The requests cannot all be waiting for one another, whatever the budgets and however
\* calls, cancellations and returns interleave: what EveryRequestAnswered rests on
\* besides fairness.
THEOREM SchedulerNeverDeadlocks == Spec => []SomebodyCanMove
<1>1. ASSUME IInv, NEW r \in Requests, pc[r] = "asleep" PROVE AllHolders # {}
  <2> DEFINE h == FileOf[r]
  <2>1. h \in Files BY FileOfAssumption
  <2>2. ~CanAdmit(h) BY <1>1 DEF IInv, NoRoom
  <2>3. \A f \in Files : Holders(f) # {} => AllHolders # {} BY DEF Holders, AllHolders
  <2>4. Cardinality({}) = 0 BY FS_EmptySet
  <2>5. fileChunks[h] \in Nat /\ global \in Nat BY <1>1, <2>1 DEF IInv, TypeOK
  <2>6. CASE fileChunks[h] >= MaxChunks
    <3>1. Cardinality(Holders(h)) > 0 BY <1>1, <2>1, <2>5, <2>6, BudgetsAssumption DEF IInv, Accounting
    <3> QED BY <2>1, <2>3, <2>4, <3>1
  <2>7. CASE Cardinality(Busy) >= MaxFiles
    <3>1. Busy = HeldFiles BY <1>1, BusyIsHeld DEF IInv
    <3>2. HeldFiles # {} BY <2>4, <2>7, <3>1, BudgetsAssumption
    <3> QED BY <2>3, <3>2 DEF HeldFiles
  <2>8. CASE global >= MaxGlobal
    <3>1. Cardinality(AllHolders) > 0 BY <1>1, <2>5, <2>8, BudgetsAssumption DEF IInv, Accounting
    <3> QED BY <2>4, <3>1
  <2>9. Cardinality(Busy) \in Nat
    <3>1. Busy = HeldFiles BY <1>1, BusyIsHeld DEF IInv
    <3> QED BY <3>1, HoldersFinite
  <2> QED BY <2>2, <2>5, <2>6, <2>7, <2>8, <2>9, BudgetsAssumption DEF CanAdmit
<1>2. IInv => SomebodyCanMove
  <2> SUFFICES ASSUME IInv PROVE SomebodyCanMove OBVIOUS
  <2>1. \A r \in Requests : pc[r] = "asleep" => AllHolders # {} BY <1>1
  <2>2. pc \in [Requests -> Control] BY DEF IInv, TypeOK
  <2> QED BY <2>1, <2>2 DEF SomebodyCanMove, AllHolders, MuFree, Control
<1> QED BY <1>2, Invariance, PTL

\* Every slot that was taken has been given back when the last request has ended, also
\* by requests whose context was done meanwhile.
THEOREM NoSlotLeaks == Spec => []NothingLeaks
<1>1. IInv => NothingLeaks
  <2> SUFFICES ASSUME IInv, \A r \in Requests : pc[r] \in {"idle", "served", "refused"}
               PROVE  Busy = {} /\ files = 0 /\ global = 0
    BY DEF NothingLeaks
  <2>1. AllHolders = {} /\ HeldFiles = {} BY DEF AllHolders, HeldFiles, Holders
  <2>2. Busy = {} BY <2>1, BusyIsHeld DEF IInv
  <2> QED BY <2>1, <2>2, FS_EmptySet DEF IInv, Accounting
<1> QED BY <1>1, Invariance, PTL

=============================================================================
