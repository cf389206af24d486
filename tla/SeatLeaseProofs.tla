--------------------------- MODULE SeatLeaseProofs ---------------------------
(***************************************************************************)
(* Proofs about SeatLease for any number of processes, agents, harnesses,  *)
(* births and revisions.                                                   *)
(***************************************************************************)
EXTENDS SeatLease, TLAPS

\* An exclusive holder of the claim lock is alone on it; the body of a guard is
\* entered from guard_in and left through an update only.
ClaimLockInv ==
    /\ \A p, q \in Pid : p # q /\ HoldsClaim(p) => ~HoldsClaim(q) /\ ~SharesClaim(q)
    /\ \A p \in Pid : guarded[p] =>
         pc[p] \in {"guard_in", "update_wait", "update_read", "update_write"}

\* One holder of each agent's state lock.
StateLockInv ==
    \A p, q \in Pid : p # q /\ HoldsState(p) /\ HoldsState(q) =>
        seat[p].agent # seat[q].agent

\* Revisions are given out once, and a claim that has the lock has one left.
FreshInv ==
    /\ \A a \in Agent : lease[a].rev < nextRev
    /\ \A p \in Pid : rev[p] < nextRev
    /\ \A p \in Pid : pc[p] \in {"claim_scan", "claim_state", "claim_commit"} =>
         nextRev <= MaxRevision /\ ~own[p]
    /\ \A p \in Pid : pc[p] = "claim_wait" => ~own[p]
    /\ \A a, b \in Agent : a # b /\ lease[a].rev = lease[b].rev => lease[a].rev = 0

\* The lease of a running owner is its own, and records its harness.
OwnerInv ==
    \A p \in Pid : own[p] =>
        /\ pc[p] # "dead"
        /\ lease[seat[p].agent] # NoLease
        /\ lease[seat[p].agent].rev = rev[p]
        /\ lease[seat[p].agent].pid = p
        /\ lease[seat[p].agent].birth = birth[p]
        /\ lease[seat[p].agent].harness = seat[p].harness

\* What an update is about to write back is what the file holds.
SnapInv ==
    \A p \in Pid : pc[p] = "update_write" =>
        /\ snap[p] = lease[seat[p].agent]
        /\ snap[p] \in Lease
        /\ snap[p].activity < MaxActivity

\* Once scanned, no running session stands in the way of the claim.
ScannedInv ==
    \A p, q \in Pid : pc[p] \in {"claim_state", "claim_commit"} /\ own[q] =>
        seat[q].agent # seat[p].agent /\ seat[q].harness # seat[p].harness

IInv == /\ TypeOK
        /\ ClaimLockInv
        /\ StateLockInv
        /\ FreshInv
        /\ OwnerInv
        /\ SnapInv
        /\ ScannedInv
        /\ OneSessionPerSeat
        /\ GuardFixesSeat
        /\ LegacyExcludesLeases

-----------------------------------------------------------------------------
(* Steps *)

\* a step of one process
Step(p) == Spawn(p) \/ Die(p) \/ Raise(p) \/ Begin(p) \/ Continue(p)

\* The type invariant needs the snapshot of an update to be a lease.
LEMMA KeepTypeOK ==
    ASSUME IInv, NEW p \in Pid, Step(p)
    PROVE  TypeOK'
<1> USE BoundsAssumption DEF IInv, Goto, TypeOK, Place
<1>1. CASE Spawn(p)
  <2>1. birth' \in [Pid -> Nat] /\ births' \in 0..MaxBirths
    BY <1>1 DEF Spawn
  <2>2. seat' \in [Pid -> Seat] /\ rev' \in [Pid -> 0..MaxRevision]
    BY <1>1 DEF Spawn
  <2> QED
    BY <1>1, <2>1, <2>2 DEF Spawn
<1>2. CASE Die(p)
  BY <1>2 DEF Die
<1>3. CASE Raise(p)
  BY <1>3 DEF Raise
<1>4. CASE Begin(p)
  BY <1>4 DEF Begin, StartClaim, StartRelease, StartUpdate, StartGuard, StartLegacy
<1>5. CASE ClaimLock(p) \/ ClaimScan(p) \/ ClaimStateLock(p)
  BY <1>5 DEF ClaimLock, ClaimScan, ClaimStateLock
<1>6. CASE ClaimCommit(p)
  <2>1. CASE UNCHANGED <<rev, own, lease, nextRev>>
    BY <1>6, <2>1 DEF ClaimCommit
  <2>2. CASE ~UNCHANGED <<rev, own, lease, nextRev>>
    <3> DEFINE r == [harness |-> seat[p].harness, rev |-> nextRev, pid |-> p,
                     birth |-> birth[p], activity |-> 0]
    <3>1. /\ nextRev <= MaxRevision
          /\ lease' = [lease EXCEPT ![seat[p].agent] = r]
          /\ rev' = [rev EXCEPT ![p] = nextRev]
          /\ own' = [own EXCEPT ![p] = TRUE]
          /\ nextRev' = nextRev + 1
      BY <1>6, <2>2 DEF ClaimCommit, FreshInv
    <3>2. r \in Lease
      BY <3>1 DEF Seat, Lease
    <3>3. nextRev \in 0..MaxRevision /\ nextRev' \in 1..MaxRevision + 1
      BY <3>1
    <3> HIDE DEF r
    <3> QED
      BY <1>6, <3>1, <3>2, <3>3 DEF ClaimCommit
  <2> QED
    BY <2>1, <2>2
<1>7. CASE ReleaseLock(p) \/ ReleaseStateLock(p)
  BY <1>7 DEF ReleaseLock, ReleaseStateLock
<1>8. CASE ReleaseCommit(p)
  BY <1>8 DEF ReleaseCommit, NoLease
<1>9. CASE UpdateLock(p)
  BY <1>9 DEF UpdateLock
<1>10. CASE UpdateRead(p)
  BY <1>10 DEF UpdateRead, Seat
<1>11. CASE UpdateWrite(p)
  <2>1. [snap[p] EXCEPT !.activity = @ + 1] \in Lease
    BY <1>11 DEF UpdateWrite, SnapInv, Lease
  <2> QED
    BY <1>11, <2>1 DEF UpdateWrite, Return, NoLease
<1>12. CASE GuardLock(p) \/ GuardLoad(p) \/ GuardExit(p)
  BY <1>12 DEF GuardLock, GuardLoad, GuardExit
<1>13. CASE LegacyMeta(p) \/ LegacyLock(p) \/ LegacyScan(p) \/ LegacyExit(p)
  BY <1>13 DEF LegacyMeta, LegacyLock, LegacyScan, LegacyExit
<1> QED
  BY <1>1, <1>2, <1>3, <1>4, <1>5, <1>6, <1>7, <1>8, <1>9, <1>10, <1>11, <1>12, <1>13 DEF Step, Continue

\* Mutual exclusion on the claim lock: readers share it, a writer is alone.
LEMMA KeepClaimLockInv ==
    ASSUME IInv, NEW p \in Pid, Step(p)
    PROVE  ClaimLockInv'
<1> USE BoundsAssumption DEF IInv, Goto, TypeOK, ClaimLockInv, HoldsClaim, SharesClaim, ClaimFree, ClaimShareable
<1>1. CASE Spawn(p)
  BY <1>1 DEF Spawn
<1>2. CASE Die(p)
  BY <1>2 DEF Die
<1>3. CASE Raise(p)
  BY <1>3 DEF Raise
<1>4. CASE Begin(p)
  BY <1>4 DEF Begin, StartClaim, StartRelease, StartUpdate, StartGuard, StartLegacy
<1>5. CASE ClaimLock(p) \/ ClaimScan(p) \/ ClaimStateLock(p)
  BY <1>5 DEF ClaimLock, ClaimScan, ClaimStateLock
<1>6. CASE ClaimCommit(p)
  BY <1>6 DEF ClaimCommit
<1>7. CASE ReleaseLock(p) \/ ReleaseStateLock(p)
  BY <1>7 DEF ReleaseLock, ReleaseStateLock
<1>8. CASE ReleaseCommit(p)
  BY <1>8 DEF ReleaseCommit
<1>9. CASE UpdateLock(p)
  BY <1>9 DEF UpdateLock
<1>10. CASE UpdateRead(p)
  BY <1>10 DEF UpdateRead
<1>11. CASE UpdateWrite(p)
  BY <1>11 DEF UpdateWrite, Return
<1>12. CASE GuardLock(p) \/ GuardLoad(p) \/ GuardExit(p)
  BY <1>12 DEF GuardLock, GuardLoad, GuardExit
<1>13. CASE LegacyMeta(p) \/ LegacyLock(p) \/ LegacyScan(p) \/ LegacyExit(p)
  BY <1>13 DEF LegacyMeta, LegacyLock, LegacyScan, LegacyExit
<1> QED
  BY <1>1, <1>2, <1>3, <1>4, <1>5, <1>6, <1>7, <1>8, <1>9, <1>10, <1>11, <1>12, <1>13 DEF Step, Continue

\* Mutual exclusion on each agent's state lock.
LEMMA KeepStateLockInv ==
    ASSUME IInv, NEW p \in Pid, Step(p)
    PROVE  StateLockInv'
<1> USE BoundsAssumption DEF IInv, Goto, TypeOK, StateLockInv, HoldsState, StateFree
<1>1. CASE Spawn(p)
  BY <1>1 DEF Spawn
<1>2. CASE Die(p)
  BY <1>2 DEF Die
<1>3. CASE Raise(p)
  BY <1>3 DEF Raise
<1>4. CASE Begin(p)
  BY <1>4 DEF Begin, StartClaim, StartRelease, StartUpdate, StartGuard, StartLegacy
<1>5. CASE ClaimLock(p) \/ ClaimScan(p) \/ ClaimStateLock(p)
  BY <1>5 DEF ClaimLock, ClaimScan, ClaimStateLock
<1>6. CASE ClaimCommit(p)
  BY <1>6 DEF ClaimCommit
<1>7. CASE ReleaseLock(p) \/ ReleaseStateLock(p)
  BY <1>7 DEF ReleaseLock, ReleaseStateLock
<1>8. CASE ReleaseCommit(p)
  BY <1>8 DEF ReleaseCommit
<1>9. CASE UpdateLock(p)
  BY <1>9 DEF UpdateLock
<1>10. CASE UpdateRead(p)
  BY <1>10 DEF UpdateRead
<1>11. CASE UpdateWrite(p)
  BY <1>11 DEF UpdateWrite, Return
<1>12. CASE GuardLock(p) \/ GuardLoad(p) \/ GuardExit(p)
  BY <1>12 DEF GuardLock, GuardLoad, GuardExit
<1>13. CASE LegacyMeta(p) \/ LegacyLock(p) \/ LegacyScan(p) \/ LegacyExit(p)
  BY <1>13 DEF LegacyMeta, LegacyLock, LegacyScan, LegacyExit
<1> QED
  BY <1>1, <1>2, <1>3, <1>4, <1>5, <1>6, <1>7, <1>8, <1>9, <1>10, <1>11, <1>12, <1>13 DEF Step, Continue

\* A revision is never written twice.
LEMMA KeepFreshInv ==
    ASSUME IInv, NEW p \in Pid, Step(p)
    PROVE  FreshInv'
<1> USE BoundsAssumption DEF IInv, Goto, TypeOK, FreshInv, Lease, NoLease
<1>1. CASE Spawn(p)
  BY <1>1 DEF Spawn
<1>2. CASE Die(p)
  BY <1>2 DEF Die
<1>3. CASE Raise(p)
  BY <1>3 DEF Raise
<1>4. CASE Begin(p)
  BY <1>4 DEF Begin, StartClaim, StartRelease, StartUpdate, StartGuard, StartLegacy
<1>5. CASE ClaimLock(p) \/ ClaimScan(p) \/ ClaimStateLock(p)
  BY <1>5 DEF ClaimLock, ClaimScan, ClaimStateLock, ClaimLockInv, HoldsClaim, ClaimFree
<1>6. CASE ClaimCommit(p)
  <2>1. CASE UNCHANGED <<rev, own, lease, nextRev>>
    BY <1>6, <2>1 DEF ClaimCommit
  <2>2. CASE ~UNCHANGED <<rev, own, lease, nextRev>>
    <3>1. /\ nextRev' = nextRev + 1
          /\ rev' = [rev EXCEPT ![p] = nextRev]
          /\ own' = [own EXCEPT ![p] = TRUE]
          /\ pc' = [pc EXCEPT ![p] = "idle"]
      BY <1>6, <2>2 DEF ClaimCommit
    <3>2. \A a \in Agent : lease'[a].rev < nextRev'
      BY <1>6, <3>1 DEF ClaimCommit, Seat
    <3>3. \A q \in Pid : rev'[q] < nextRev'
      BY <3>1
    <3>4. \A q \in Pid : q # p => pc[q] \notin {"claim_scan", "claim_state", "claim_commit"}
      BY <1>6 DEF ClaimCommit, ClaimLockInv, HoldsClaim
    <3>5. \A a, b \in Agent :
            a # b /\ lease'[a].rev = lease'[b].rev => lease'[a].rev = 0
      BY <1>6, <3>1, SMTT(20) DEF ClaimCommit, Seat
    <3> QED
      BY <3>1, <3>2, <3>3, <3>4, <3>5
  <2> QED
    BY <2>1, <2>2
<1>7. CASE ReleaseLock(p) \/ ReleaseStateLock(p)
  BY <1>7 DEF ReleaseLock, ReleaseStateLock
<1>8. CASE ReleaseCommit(p)
  BY <1>8 DEF ReleaseCommit
<1>9. CASE UpdateLock(p)
  BY <1>9 DEF UpdateLock
<1>10. CASE UpdateRead(p)
  BY <1>10 DEF UpdateRead
<1>11. CASE UpdateWrite(p)
  BY <1>11 DEF UpdateWrite, SnapInv, Return
<1>12. CASE GuardLock(p) \/ GuardLoad(p) \/ GuardExit(p)
  BY <1>12 DEF GuardLock, GuardLoad, GuardExit
<1>13. CASE LegacyMeta(p) \/ LegacyLock(p) \/ LegacyScan(p) \/ LegacyExit(p)
  BY <1>13 DEF LegacyMeta, LegacyLock, LegacyScan, LegacyExit
<1> QED
  BY <1>1, <1>2, <1>3, <1>4, <1>5, <1>6, <1>7, <1>8, <1>9, <1>10, <1>11, <1>12, <1>13 DEF Step, Continue

\* Only a claim and a release change who a lease belongs to, and a claim that
\* has scanned finds no running owner at its seat.
LEMMA KeepOwnerInv ==
    ASSUME IInv, NEW p \in Pid, Step(p)
    PROVE  OwnerInv'
<1> USE BoundsAssumption DEF IInv, Goto, TypeOK, OwnerInv, Lease, NoLease
<1>1. CASE Spawn(p)
  BY <1>1 DEF Spawn
<1>2. CASE Die(p)
  BY <1>2 DEF Die
<1>3. CASE Raise(p)
  BY <1>3 DEF Raise
<1>4. CASE Begin(p)
  BY <1>4 DEF Begin, StartClaim, StartRelease, StartUpdate, StartGuard, StartLegacy
<1>5. CASE ClaimLock(p) \/ ClaimScan(p) \/ ClaimStateLock(p)
  BY <1>5 DEF ClaimLock, ClaimScan, ClaimStateLock
<1>6. CASE ClaimCommit(p)
  BY <1>6 DEF ClaimCommit, FreshInv, ScannedInv, Seat
<1>7. CASE ReleaseLock(p) \/ ReleaseStateLock(p)
  BY <1>7 DEF ReleaseLock, ReleaseStateLock
<1>8. CASE ReleaseCommit(p)
  <2>1. CASE UNCHANGED <<own, lease>>
    BY <1>8, <2>1 DEF ReleaseCommit
  <2>2. CASE ~UNCHANGED <<own, lease>>
    <3>1. /\ lease[seat[p].agent].rev = rev[p]
          /\ lease' = [lease EXCEPT ![seat[p].agent] = NoLease]
          /\ own' = [q \in Pid |-> own[q] /\ rev[q] # rev[p]]
          /\ pc' = [pc EXCEPT ![p] = "idle"]
          /\ UNCHANGED <<birth, seat, rev>>
      BY <1>8, <2>2 DEF ReleaseCommit, MayPassFence
    <3>2. \A q \in Pid : own'[q] => own[q] /\ seat[q].agent # seat[p].agent
      <4>1. ASSUME NEW q \in Pid, own'[q] PROVE own[q] /\ rev[q] # rev[p]
        BY <3>1, <4>1, Zenon
      <4>2. ASSUME NEW q \in Pid, own[q], rev[q] # rev[p]
            PROVE  seat[q].agent # seat[p].agent
        BY <3>1, <4>2
      <4> QED
        BY <4>1, <4>2
    <3>3. \A q \in Pid : own'[q] => lease'[seat[q].agent] = lease[seat[q].agent]
      BY <3>1, <3>2 DEF Seat
    <3> QED
      BY <3>1, <3>2, <3>3
  <2> QED
    BY <2>1, <2>2
<1>9. CASE UpdateLock(p)
  BY <1>9 DEF UpdateLock
<1>10. CASE UpdateRead(p)
  BY <1>10 DEF UpdateRead
<1>11. CASE UpdateWrite(p)
  BY <1>11 DEF UpdateWrite, SnapInv, Return
<1>12. CASE GuardLock(p) \/ GuardLoad(p) \/ GuardExit(p)
  BY <1>12 DEF GuardLock, GuardLoad, GuardExit
<1>13. CASE LegacyMeta(p) \/ LegacyLock(p) \/ LegacyScan(p) \/ LegacyExit(p)
  BY <1>13 DEF LegacyMeta, LegacyLock, LegacyScan, LegacyExit
<1> QED
  BY <1>1, <1>2, <1>3, <1>4, <1>5, <1>6, <1>7, <1>8, <1>9, <1>10, <1>11, <1>12, <1>13 DEF Step, Continue

\* Nobody writes the lease between the read and the write of an update.
LEMMA KeepSnapInv ==
    ASSUME IInv, NEW p \in Pid, Step(p)
    PROVE  SnapInv'
<1> USE BoundsAssumption DEF IInv, Goto, TypeOK, SnapInv, StateLockInv, HoldsState
<1>1. CASE Spawn(p)
  BY <1>1 DEF Spawn
<1>2. CASE Die(p)
  BY <1>2 DEF Die
<1>3. CASE Raise(p)
  BY <1>3 DEF Raise
<1>4. CASE Begin(p)
  BY <1>4 DEF Begin, StartClaim, StartRelease, StartUpdate, StartGuard, StartLegacy
<1>5. CASE ClaimLock(p) \/ ClaimScan(p) \/ ClaimStateLock(p)
  BY <1>5 DEF ClaimLock, ClaimScan, ClaimStateLock
<1>6. CASE ClaimCommit(p)
  <2>1. \A q \in Pid : q # p /\ pc[q] = "update_write" => seat[q].agent # seat[p].agent
    BY <1>6 DEF ClaimCommit
  <2>2. \A q \in Pid : q # p /\ pc[q] = "update_write" =>
          lease'[seat[q].agent] = lease[seat[q].agent]
    BY <1>6, <2>1 DEF ClaimCommit, Seat
  <2> QED
    BY <1>6, <2>2 DEF ClaimCommit
<1>7. CASE ReleaseLock(p) \/ ReleaseStateLock(p)
  BY <1>7 DEF ReleaseLock, ReleaseStateLock
<1>8. CASE ReleaseCommit(p)
  <2>1. \A q \in Pid : q # p /\ pc[q] = "update_write" => seat[q].agent # seat[p].agent
    BY <1>8 DEF ReleaseCommit
  <2>2. \A q \in Pid : q # p /\ pc[q] = "update_write" =>
          lease'[seat[q].agent] = lease[seat[q].agent]
    BY <1>8, <2>1 DEF ReleaseCommit, Seat
  <2> QED
    BY <1>8, <2>2 DEF ReleaseCommit
<1>9. CASE UpdateLock(p)
  BY <1>9 DEF UpdateLock
<1>10. CASE UpdateRead(p)
  BY <1>10 DEF UpdateRead, MayPassFence, Seat
<1>11. CASE UpdateWrite(p)
  BY <1>11 DEF UpdateWrite, Return
<1>12. CASE GuardLock(p) \/ GuardLoad(p) \/ GuardExit(p)
  BY <1>12 DEF GuardLock, GuardLoad, GuardExit
<1>13. CASE LegacyMeta(p) \/ LegacyLock(p) \/ LegacyScan(p) \/ LegacyExit(p)
  BY <1>13 DEF LegacyMeta, LegacyLock, LegacyScan, LegacyExit
<1> QED
  BY <1>1, <1>2, <1>3, <1>4, <1>5, <1>6, <1>7, <1>8, <1>9, <1>10, <1>11, <1>12, <1>13 DEF Step, Continue

\* A session that runs keeps its lease active, so the scan finds it; no session
\* starts to own a seat while the claimer holds the claim lock.
LEMMA KeepScannedInv ==
    ASSUME IInv, NEW p \in Pid, Step(p)
    PROVE  ScannedInv'
<1> USE BoundsAssumption DEF IInv, Goto, TypeOK, ScannedInv, OwnerInv, Seat
<1>1. CASE Spawn(p)
  BY <1>1 DEF Spawn
<1>2. CASE Die(p)
  BY <1>2 DEF Die
<1>3. CASE Raise(p)
  BY <1>3 DEF Raise
<1>4. CASE Begin(p)
  BY <1>4 DEF Begin, StartClaim, StartRelease, StartUpdate, StartGuard, StartLegacy
<1>5. CASE ClaimLock(p) \/ ClaimScan(p) \/ ClaimStateLock(p)
  BY <1>5 DEF ClaimLock, ClaimScan, ClaimStateLock, Contends, Liveness, OwnerRuns
<1>6. CASE ClaimCommit(p)
  BY <1>6 DEF ClaimCommit, ClaimLockInv, HoldsClaim
<1>7. CASE ReleaseLock(p) \/ ReleaseStateLock(p)
  BY <1>7 DEF ReleaseLock, ReleaseStateLock
<1>8. CASE ReleaseCommit(p)
  BY <1>8 DEF ReleaseCommit
<1>9. CASE UpdateLock(p)
  BY <1>9 DEF UpdateLock
<1>10. CASE UpdateRead(p)
  BY <1>10 DEF UpdateRead
<1>11. CASE UpdateWrite(p)
  BY <1>11 DEF UpdateWrite, Return
<1>12. CASE GuardLock(p) \/ GuardLoad(p) \/ GuardExit(p)
  BY <1>12 DEF GuardLock, GuardLoad, GuardExit
<1>13. CASE LegacyMeta(p) \/ LegacyLock(p) \/ LegacyScan(p) \/ LegacyExit(p)
  BY <1>13 DEF LegacyMeta, LegacyLock, LegacyScan, LegacyExit
<1> QED
  BY <1>1, <1>2, <1>3, <1>4, <1>5, <1>6, <1>7, <1>8, <1>9, <1>10, <1>11, <1>12, <1>13 DEF Step, Continue

\* A new owner has passed the scan.
LEMMA KeepOneSessionPerSeat ==
    ASSUME IInv, NEW p \in Pid, Step(p)
    PROVE  OneSessionPerSeat'
<1> USE BoundsAssumption DEF IInv, Goto, TypeOK, OneSessionPerSeat, OwnerInv, Seat
<1>1. CASE Spawn(p)
  BY <1>1 DEF Spawn
<1>2. CASE Die(p)
  BY <1>2 DEF Die
<1>3. CASE Raise(p)
  BY <1>3 DEF Raise
<1>4. CASE Begin(p)
  BY <1>4 DEF Begin, StartClaim, StartRelease, StartUpdate, StartGuard, StartLegacy
<1>5. CASE ClaimLock(p) \/ ClaimScan(p) \/ ClaimStateLock(p)
  BY <1>5 DEF ClaimLock, ClaimScan, ClaimStateLock
<1>6. CASE ClaimCommit(p)
  BY <1>6 DEF ClaimCommit, ScannedInv
<1>7. CASE ReleaseLock(p) \/ ReleaseStateLock(p)
  BY <1>7 DEF ReleaseLock, ReleaseStateLock
<1>8. CASE ReleaseCommit(p)
  BY <1>8 DEF ReleaseCommit
<1>9. CASE UpdateLock(p)
  BY <1>9 DEF UpdateLock
<1>10. CASE UpdateRead(p)
  BY <1>10 DEF UpdateRead
<1>11. CASE UpdateWrite(p)
  BY <1>11 DEF UpdateWrite
<1>12. CASE GuardLock(p) \/ GuardLoad(p) \/ GuardExit(p)
  BY <1>12 DEF GuardLock, GuardLoad, GuardExit
<1>13. CASE LegacyMeta(p) \/ LegacyLock(p) \/ LegacyScan(p) \/ LegacyExit(p)
  BY <1>13 DEF LegacyMeta, LegacyLock, LegacyScan, LegacyExit
<1> QED
  BY <1>1, <1>2, <1>3, <1>4, <1>5, <1>6, <1>7, <1>8, <1>9, <1>10, <1>11, <1>12, <1>13 DEF Step, Continue

\* Claims and releases wait for the guard; updates keep the revision.
LEMMA KeepGuardFixesSeat ==
    ASSUME IInv, NEW p \in Pid, Step(p)
    PROVE  GuardFixesSeat'
<1> USE BoundsAssumption DEF IInv, Goto, TypeOK, GuardFixesSeat, ClaimLockInv, HoldsClaim, SharesClaim
<1>1. CASE Spawn(p)
  BY <1>1 DEF Spawn
<1>2. CASE Die(p)
  BY <1>2 DEF Die
<1>3. CASE Raise(p)
  BY <1>3 DEF Raise
<1>4. CASE Begin(p)
  BY <1>4 DEF Begin, StartClaim, StartRelease, StartUpdate, StartGuard, StartLegacy
<1>5. CASE ClaimLock(p) \/ ClaimScan(p) \/ ClaimStateLock(p)
  BY <1>5 DEF ClaimLock, ClaimScan, ClaimStateLock
<1>6. CASE ClaimCommit(p)
  BY <1>6 DEF ClaimCommit
<1>7. CASE ReleaseLock(p) \/ ReleaseStateLock(p)
  BY <1>7 DEF ReleaseLock, ReleaseStateLock
<1>8. CASE ReleaseCommit(p)
  BY <1>8 DEF ReleaseCommit, NoLease
<1>9. CASE UpdateLock(p)
  BY <1>9 DEF UpdateLock
<1>10. CASE UpdateRead(p)
  BY <1>10 DEF UpdateRead
<1>11. CASE UpdateWrite(p)
  BY <1>11 DEF UpdateWrite, SnapInv, Return
<1>12. CASE GuardLock(p) \/ GuardLoad(p) \/ GuardExit(p)
  BY <1>12 DEF GuardLock, GuardLoad, GuardExit, MayPassFence
<1>13. CASE LegacyMeta(p) \/ LegacyLock(p) \/ LegacyScan(p) \/ LegacyExit(p)
  BY <1>13 DEF LegacyMeta, LegacyLock, LegacyScan, LegacyExit
<1> QED
  BY <1>1, <1>2, <1>3, <1>4, <1>5, <1>6, <1>7, <1>8, <1>9, <1>10, <1>11, <1>12, <1>13 DEF Step, Continue

\* Claims wait for the guard.
LEMMA KeepLegacyExcludesLeases ==
    ASSUME IInv, NEW p \in Pid, Step(p)
    PROVE  LegacyExcludesLeases'
<1> USE BoundsAssumption DEF IInv, Goto, TypeOK, LegacyExcludesLeases, ClaimLockInv, HoldsClaim, SharesClaim
<1>1. CASE Spawn(p)
  BY <1>1 DEF Spawn
<1>2. CASE Die(p)
  BY <1>2 DEF Die
<1>3. CASE Raise(p)
  BY <1>3 DEF Raise
<1>4. CASE Begin(p)
  BY <1>4 DEF Begin, StartClaim, StartRelease, StartUpdate, StartGuard, StartLegacy
<1>5. CASE ClaimLock(p) \/ ClaimScan(p) \/ ClaimStateLock(p)
  BY <1>5 DEF ClaimLock, ClaimScan, ClaimStateLock
<1>6. CASE ClaimCommit(p)
  BY <1>6 DEF ClaimCommit, Seat
<1>7. CASE ReleaseLock(p) \/ ReleaseStateLock(p)
  BY <1>7 DEF ReleaseLock, ReleaseStateLock
<1>8. CASE ReleaseCommit(p)
  BY <1>8 DEF ReleaseCommit
<1>9. CASE UpdateLock(p)
  BY <1>9 DEF UpdateLock
<1>10. CASE UpdateRead(p)
  BY <1>10 DEF UpdateRead
<1>11. CASE UpdateWrite(p)
  <2>1. /\ snap[p] = lease[seat[p].agent]
        /\ snap[p] \in Lease
    BY <1>11 DEF UpdateWrite, SnapInv
  <2>2. /\ [snap[p] EXCEPT !.activity = @ + 1].harness = lease[seat[p].agent].harness
        /\ lease[seat[p].agent] # NoLease
    BY <2>1 DEF Lease, NoLease
  <2>3. \A a \in Agent : lease'[a] # NoLease =>
          lease[a] # NoLease /\ lease'[a].harness = lease[a].harness
    BY <1>11, <2>2 DEF UpdateWrite, Seat
  <2>4. \A q \in Pid : pc'[q] = "legacy_in" => pc[q] = "legacy_in"
    BY <1>11 DEF UpdateWrite, Return
  <2>5. seat' = seat
    BY <1>11 DEF UpdateWrite
  <2> QED
    BY <2>3, <2>4, <2>5
<1>12. CASE GuardLock(p) \/ GuardLoad(p) \/ GuardExit(p)
  BY <1>12 DEF GuardLock, GuardLoad, GuardExit
<1>13. CASE LegacyMeta(p) \/ LegacyLock(p) \/ LegacyScan(p) \/ LegacyExit(p)
  BY <1>13 DEF LegacyMeta, LegacyLock, LegacyScan, LegacyExit, HarnessUnleased
<1> QED
  BY <1>1, <1>2, <1>3, <1>4, <1>5, <1>6, <1>7, <1>8, <1>9, <1>10, <1>11, <1>12, <1>13 DEF Step, Continue

-----------------------------------------------------------------------------
(* Theorems *)

\* The initial launchers hold nothing.
LEMMA InitIInv == Init => IInv
<1> SUFFICES ASSUME Init PROVE IInv
  OBVIOUS
<1> USE BoundsAssumption DEF Init
<1>1. TypeOK
  BY DEF TypeOK, Place
<1>2. ClaimLockInv /\ StateLockInv
  BY DEF ClaimLockInv, StateLockInv, HoldsClaim, SharesClaim, HoldsState
<1>3. FreshInv
  BY DEF FreshInv, NoLease
<1>4. OwnerInv /\ SnapInv /\ ScannedInv
  BY DEF OwnerInv, SnapInv, ScannedInv
<1>5. OneSessionPerSeat /\ GuardFixesSeat /\ LegacyExcludesLeases
  BY DEF OneSessionPerSeat, GuardFixesSeat, LegacyExcludesLeases
<1> QED
  BY <1>1, <1>2, <1>3, <1>4, <1>5 DEF IInv

\* The invariant is inductive: every step of every process keeps each part.
LEMMA NextIInv == IInv /\ [Next]_vars => IInv'
<1> SUFFICES ASSUME IInv, [Next]_vars PROVE IInv'
  OBVIOUS
<1>1. CASE Next
  <2>1. PICK p \in Pid : Step(p)
    BY <1>1 DEF Next, Step
  <2> QED
    BY <2>1, KeepTypeOK, KeepClaimLockInv, KeepStateLockInv, KeepFreshInv,
       KeepOwnerInv, KeepSnapInv, KeepScannedInv, KeepOneSessionPerSeat,
       KeepGuardFixesSeat, KeepLegacyExcludesLeases DEF IInv
<1>2. CASE UNCHANGED vars
  BY <1>2 DEF vars, IInv, TypeOK, ClaimLockInv, StateLockInv, FreshInv, OwnerInv,
     SnapInv, ScannedInv, OneSessionPerSeat, GuardFixesSeat, LegacyExcludesLeases,
     HoldsClaim, SharesClaim, HoldsState
<1> QED
  BY <1>1, <1>2

\* The inductive invariant holds of every behaviour of the store.
THEOREM Invariant == Spec => []IInv
<1>1. Init => IInv
  BY InitIInv
<1>2. IInv /\ [Next]_vars => IInv'
  BY NextIInv
<1> QED
  BY <1>1, <1>2, PTL DEF Spec

\* The variables keep their types: bin/_rtruntime.py writes well-formed leases.
THEOREM TypeCorrect == Spec => []TypeOK
<1>1. IInv => TypeOK
  BY DEF IInv
<1> QED
  BY <1>1, Invariant, PTL

\* At most one running session for each seat and each harness of the project.
THEOREM SeatsExclusive == Spec => []OneSessionPerSeat
<1>1. IInv => OneSessionPerSeat
  BY DEF IInv
<1> QED
  BY <1>1, Invariant, PTL

\* A running session that has not been released keeps its lease.
THEOREM OwnersKeepSeats == Spec => []LiveOwnerKeepsSeat
<1>1. IInv => LiveOwnerKeepsSeat
  BY DEF IInv, OwnerInv, LiveOwnerKeepsSeat
<1> QED
  BY <1>1, Invariant, PTL

\* The body of a guard runs against one and the same lease, or against none.
THEOREM GuardsExclude == Spec => []GuardsHold
<1>1. IInv => GuardsHold
  BY DEF IInv, GuardsHold
<1> QED
  BY <1>1, Invariant, PTL

\* A holder of a state lock waits for nothing.
LEMMA StateHolderGoesOn ==
    ASSUME IInv, NEW p \in Pid, ~StateFree(seat[p].agent)
    PROVE  \E q \in Pid : HoldsState(q) /\ ~Waits(q)
<1>1. PICK q \in Pid : HoldsState(q)
  BY DEF StateFree
<1>2. ~Waits(q)
  BY <1>1 DEF HoldsState, Waits
<1> QED
  BY <1>1, <1>2

\* A holder of the claim lock waits for nothing, or for a state lock.
LEMMA ClaimHolderGoesOn ==
    ASSUME IInv, NEW p \in Pid, HoldsClaim(p) \/ SharesClaim(p), Waits(p)
    PROVE  ~StateFree(seat[p].agent)
BY DEF IInv, ClaimLockInv, HoldsClaim, SharesClaim, Waits

\* The lock order admits no cycle, with any number of processes.
THEOREM NoDeadlock == Spec => []NobodyLockedIn
<1>1. ASSUME IInv, NEW p \in Pid, Waits(p)
      PROVE  \E q \in Pid : (HoldsClaim(q) \/ SharesClaim(q) \/ HoldsState(q)) /\ ~Waits(q)
  <2>1. CASE ~StateFree(seat[p].agent)
    BY <1>1, <2>1, StateHolderGoesOn
  <2>2. CASE \E q \in Pid : HoldsClaim(q) \/ SharesClaim(q)
    <3>1. PICK q \in Pid : HoldsClaim(q) \/ SharesClaim(q)
      BY <2>2
    <3>2. CASE Waits(q)
      BY <1>1, <3>1, <3>2, ClaimHolderGoesOn, StateHolderGoesOn
    <3> QED
      BY <3>1, <3>2
  <2> QED
    BY <1>1, <2>1, <2>2 DEF Waits, ClaimFree, ClaimShareable
<1>2. IInv => NobodyLockedIn
  BY <1>1 DEF NobodyLockedIn
<1> QED
  BY <1>2, Invariant, PTL

\* What one step may do to the lease of agent a.
LEMMA LeaseStep ==
    ASSUME IInv, NEW p \in Pid, Step(p), NEW a \in Agent
    PROVE  /\ lease'[a].rev \in {0, lease[a].rev} \/ lease'[a].rev = nextRev
           /\ lease[a] # NoLease /\ lease'[a].rev = lease[a].rev =>
                lease'[a].activity >= lease[a].activity
<1> USE DEF IInv, TypeOK
<1>0. lease[a] # NoLease => lease[a].activity \in Nat /\ lease[a].rev # 0
  BY BoundsAssumption DEF Lease, NoLease
<1>1. CASE ClaimCommit(p)
  <2>1. CASE lease' = lease
    BY <1>0, <2>1
  <2>2. CASE lease' # lease
    <3>1. lease' = [lease EXCEPT ![seat[p].agent] =
                      [harness |-> seat[p].harness, rev |-> nextRev, pid |-> p,
                       birth |-> birth[p], activity |-> 0]]
      BY <1>1, <2>2 DEF ClaimCommit
    <3>2. CASE a = seat[p].agent
      BY <3>1, <3>2 DEF FreshInv
    <3>3. CASE a # seat[p].agent
      BY <1>0, <3>1, <3>3
    <3> QED
      BY <3>2, <3>3
  <2> QED
    BY <2>1, <2>2
<1>2. CASE ReleaseCommit(p)
  <2>1. lease'[a] \in {lease[a], NoLease}
    BY <1>2 DEF ReleaseCommit
  <2> QED
    BY <1>0, <2>1 DEF NoLease
<1>3. CASE UpdateWrite(p)
  <2>1. CASE a = seat[p].agent
    <3>1. snap[p] = lease[a] /\ lease[a] \in Lease
      BY <1>3, <2>1 DEF UpdateWrite, SnapInv
    <3>2. lease'[a] = [lease[a] EXCEPT !.activity = @ + 1]
      BY <1>3, <2>1, <3>1 DEF UpdateWrite
    <3>3. lease'[a].rev = lease[a].rev /\ lease'[a].activity = lease[a].activity + 1
      BY <3>1, <3>2 DEF Lease
    <3> QED
      BY <1>0, <3>1, <3>3 DEF Lease
  <2>2. CASE a # seat[p].agent
    BY <1>0, <1>3, <2>2 DEF UpdateWrite
  <2> QED
    BY <2>1, <2>2
<1>4. CASE ~(ClaimCommit(p) \/ ReleaseCommit(p) \/ UpdateWrite(p))
  <2>1. lease' = lease
    BY <1>4 DEF Step, Begin, Continue, Spawn, Die, Raise, StartClaim, StartRelease,
       StartUpdate, StartGuard, StartLegacy, ClaimLock, ClaimScan, ClaimStateLock,
       ReleaseLock, ReleaseStateLock, UpdateLock, UpdateRead, GuardLock, GuardLoad,
       GuardExit, LegacyMeta, LegacyLock, LegacyScan, LegacyExit
  <2> QED
    BY <1>0, <2>1
<1> QED
  BY <1>1, <1>2, <1>3, <1>4

\* No lease comes back and no activity update is lost.
THEOREM ForwardOnly == Spec => LeasesMoveForward
<1>1. IInv /\ [Next]_vars =>
        [\A a \in Agent :
            /\ lease'[a].rev \in {0, lease[a].rev} \/ lease'[a].rev = nextRev
            /\ lease[a] # NoLease /\ lease'[a].rev = lease[a].rev =>
                 lease'[a].activity >= lease[a].activity]_vars
  BY LeaseStep DEF Next, Step
<1> QED
  BY <1>1, Invariant, PTL DEF Spec, LeasesMoveForward

-----------------------------------------------------------------------------
(* The store implements the register of seats *)

\* The owner of a seat is unique, so the refinement mapping shows it.
LEMMA HolderIs ==
    ASSUME OneSessionPerSeat, NEW p \in Pid, own[p]
    PROVE  HolderOf(seat[p].agent) = [pid |-> p, harness |-> seat[p].harness]
<1> DEFINE P(q) == q \in Pid /\ own[q] /\ seat[q].agent = seat[p].agent
<1>1. \A q \in Pid : own[q] /\ seat[q].agent = seat[p].agent => q = p
  BY DEF OneSessionPerSeat
<1>2. (CHOOSE q \in Pid : own[q] /\ seat[q].agent = seat[p].agent) = p
  BY <1>1
<1> QED
  BY <1>2 DEF HolderOf

LEMMA NobodyHolds ==
    ASSUME NEW a, ~ \E p \in Pid : own[p] /\ seat[p].agent = a
    PROVE  HolderOf(a) = Register!Nobody
BY DEF HolderOf, Register!Nobody

\* A seat is held in the register exactly when a running session owns it.
LEMMA HeldIs ==
    ASSUME OneSessionPerSeat, NEW a \in Agent
    PROVE  HolderOf(a) # Register!Nobody <=> \E p \in Pid : own[p] /\ seat[p].agent = a
<1>1. ASSUME NEW p \in Pid, own[p], seat[p].agent = a
      PROVE  HolderOf(a) # Register!Nobody
  <2>1. HolderOf(a) = [pid |-> p, harness |-> seat[p].harness]
    BY <1>1, HolderIs
  <2>2. [pid |-> p, harness |-> seat[p].harness] # [pid |-> "nobody"]
    OBVIOUS
  <2> QED
    BY <2>1, <2>2 DEF Register!Nobody
<1> QED
  BY <1>1, NobodyHolds

\* A step that does not change who owns a seat leaves the register's entry.
LEMMA HolderStays ==
    ASSUME OneSessionPerSeat, NEW a \in Agent,
           \A q \in Pid : own'[q] /\ seat'[q].agent = a <=> own[q] /\ seat[q].agent = a,
           \A q \in Pid : own[q] => seat'[q] = seat[q]
    PROVE  HolderOf(a)' = HolderOf(a)
<1>1. CASE \E p \in Pid : own[p] /\ seat[p].agent = a
  <2>1. PICK p \in Pid : own[p] /\ seat[p].agent = a
    BY <1>1
  <2>2. HolderOf(a) = [pid |-> p, harness |-> seat[p].harness]
    BY <2>1, HolderIs
  <2>3. \A q \in Pid : own'[q] /\ seat'[q].agent = a => q = p
    BY <2>1 DEF OneSessionPerSeat
  <2>4. own'[p] /\ seat'[p].agent = a /\ seat'[p].harness = seat[p].harness
    BY <2>1
  <2>5. (CHOOSE q \in Pid : own'[q] /\ seat'[q].agent = a) = p
    BY <2>3, <2>4
  <2> QED
    BY <2>2, <2>4, <2>5 DEF HolderOf
<1>2. CASE ~ \E p \in Pid : own[p] /\ seat[p].agent = a
  BY <1>2 DEF HolderOf
<1> QED
  BY <1>1, <1>2

\* A holder of the claim lock excludes every guarded side effect.
LEMMA NoUsers ==
    ASSUME IInv, NEW p \in Pid, HoldsClaim(p)
    PROVE  Users = {}
BY DEF IInv, ClaimLockInv, HoldsClaim, SharesClaim, Users

\* A successful claim takes a free seat of a free harness.
LEMMA ClaimTakes ==
    ASSUME IInv, IInv', NEW p \in Pid, ClaimCommit(p), own' # own,
           NEW a \in Agent, a = seat[p].agent
    PROVE  Register!Take(p, a, seat[p].harness)
<1> USE DEF IInv, TypeOK
<1>1. /\ own' = [own EXCEPT ![p] = TRUE]
      /\ pc' = [pc EXCEPT ![p] = "idle"]
      /\ seat' = seat /\ guarded' = guarded
      /\ pc[p] = "claim_commit"
  BY DEF ClaimCommit, Goto
<1>2. Users = {} /\ Users' = {}
  <2>1. Users = {}
    BY <1>1, NoUsers DEF HoldsClaim
  <2> QED
    BY <1>1, <2>1 DEF Users
<1>3. \A q \in Pid : own[q] =>
        q # p /\ seat[q].agent # a /\ seat[q].harness # seat[p].harness
  BY <1>1 DEF ScannedInv, FreshInv
<1>4. HolderOf(a) = Register!Nobody
  BY <1>3, NobodyHolds
<1>5. ASSUME NEW b \in Agent, HolderOf(b) # Register!Nobody
      PROVE  HolderOf(b).harness # seat[p].harness /\ HolderOf(b).pid # p
  <2>1. PICK q \in Pid : own[q] /\ seat[q].agent = b
    BY <1>5, HeldIs
  <2>2. HolderOf(b) = [pid |-> q, harness |-> seat[q].harness]
    BY <2>1, HolderIs
  <2> QED
    BY <1>3, <2>1, <2>2
<1>6. HolderOf(a)' = [pid |-> p, harness |-> seat[p].harness]
  <2>1. \A q \in Pid : own'[q] /\ seat'[q].agent = a => q = p
    BY <1>1, <1>3
  <2>2. own'[p] /\ seat'[p].agent = a
    BY <1>1
  <2>3. (CHOOSE q \in Pid : own'[q] /\ seat'[q].agent = a) = p
    BY <2>1, <2>2
  <2> QED
    BY <1>1, <2>2, <2>3 DEF HolderOf
<1>7. ASSUME NEW b \in Agent, b # a
      PROVE  HolderOf(b)' = HolderOf(b)
  BY <1>1, <1>7, HolderStays
<1>8. [b \in Agent |-> HolderOf(b)]' =
        [[b \in Agent |-> HolderOf(b)] EXCEPT ![a] =
            [pid |-> p, harness |-> seat[p].harness]]
  BY <1>6, <1>7
<1> QED
  BY <1>2, <1>4, <1>5, <1>8 DEF Register!Take, Register!Held

\* A release gives up the seat of the session that was released, if it runs.
LEMMA ReleaseGivesUp ==
    ASSUME IInv, IInv', NEW p \in Pid, ReleaseCommit(p), own' # own,
           NEW a \in Agent, a = seat[p].agent
    PROVE  Register!GiveUp(a)
<1> USE DEF IInv, TypeOK
<1>1. /\ own' = [q \in Pid |-> own[q] /\ rev[q] # rev[p]]
      /\ pc' = [pc EXCEPT ![p] = "idle"]
      /\ seat' = seat /\ guarded' = guarded
      /\ pc[p] = "release_commit"
      /\ lease[a] # NoLease /\ lease[a].rev = rev[p]
  BY DEF ReleaseCommit, MayPassFence, Goto
<1>2. Users = {} /\ Users' = {}
  <2>1. Users = {}
    BY <1>1, NoUsers DEF HoldsClaim
  <2> QED
    BY <1>1, <2>1 DEF Users
<1>3. ASSUME NEW q \in Pid, own[q] PROVE own'[q] <=> seat[q].agent # a
  <2>1. lease[seat[q].agent].rev = rev[q] /\ seat[q].agent \in Agent
    BY <1>3 DEF OwnerInv, Seat
  <2>2. rev[p] # 0
    BY <1>1, BoundsAssumption DEF Lease
  <2>3. rev[q] # rev[p] <=> seat[q].agent # a
    BY <1>1, <2>1, <2>2 DEF FreshInv
  <2>4. own'[q] <=> rev[q] # rev[p]
    BY <1>1, <1>3, Zenon
  <2> QED
    BY <2>3, <2>4
<1>4. ASSUME NEW q \in Pid, own'[q] PROVE own[q] /\ seat[q].agent # a
  <2>1. own[q]
    BY <1>1, <1>4, Zenon
  <2> QED
    BY <1>3, <1>4, <2>1
<1>5. \E q \in Pid : own[q] /\ seat[q].agent = a
  <2>1. SUFFICES ASSUME \A q \in Pid : own[q] => seat[q].agent # a
                 PROVE  own' = own
    OBVIOUS
  <2>2. \A q \in Pid : own'[q] = own[q]
    <3>1. ASSUME NEW q \in Pid PROVE own'[q] <=> own[q]
      BY <1>3, <1>4, <2>1
    <3>2. \A q \in Pid : own'[q] \in BOOLEAN /\ own[q] \in BOOLEAN
      OBVIOUS
    <3> QED
      BY <3>1, <3>2, Zenon
  <2> QED
    BY <2>2
<1>6. HolderOf(a) # Register!Nobody
  BY <1>5, HeldIs
<1>7. HolderOf(a)' = Register!Nobody
  <2>1. ~ \E q \in Pid : own'[q] /\ seat'[q].agent = a
    BY <1>1, <1>4
  <2> QED
    BY <2>1 DEF HolderOf, Register!Nobody
<1>8. ASSUME NEW b \in Agent, b # a
      PROVE  HolderOf(b)' = HolderOf(b)
  BY <1>1, <1>3, <1>4, <1>8, HolderStays
<1>9. [b \in Agent |-> HolderOf(b)]' =
        [[b \in Agent |-> HolderOf(b)] EXCEPT ![a] = Register!Nobody]
  BY <1>7, <1>8
<1> QED
  BY <1>2, <1>6, <1>9 DEF Register!GiveUp, Register!Held

\* A death vacates the seats of the dead process and ends its side effect.
LEMMA DeathEnds ==
    ASSUME IInv, IInv', NEW p \in Pid, Die(p)
    PROVE  Register!End(p)
<1> USE DEF IInv, TypeOK
<1>1. /\ own' = [own EXCEPT ![p] = FALSE]
      /\ guarded' = [guarded EXCEPT ![p] = FALSE]
      /\ pc' = [pc EXCEPT ![p] = "dead"]
      /\ seat' = seat
  BY DEF Die, Goto
<1>2. Users' = Users \ {p}
  BY <1>1 DEF Users
<1>3. ASSUME NEW a \in Agent
      PROVE  HolderOf(a)' =
               IF HolderOf(a) # Register!Nobody /\ HolderOf(a).pid = p
               THEN Register!Nobody ELSE HolderOf(a)
  <2>1. CASE \E q \in Pid : own[q] /\ seat[q].agent = a /\ q # p
    <3>1. PICK q \in Pid : own[q] /\ seat[q].agent = a /\ q # p
      BY <2>1
    <3>2. HolderOf(a) = [pid |-> q, harness |-> seat[q].harness]
      BY <3>1, HolderIs
    <3>3. ~(own[p] /\ seat[p].agent = a)
      BY <3>1 DEF OneSessionPerSeat
    <3>4. HolderOf(a)' = HolderOf(a)
      BY <1>1, <3>3, HolderStays
    <3> QED
      BY <3>1, <3>2, <3>4
  <2>2. CASE own[p] /\ seat[p].agent = a
    <3>1. HolderOf(a) = [pid |-> p, harness |-> seat[p].harness]
      BY <2>2, HolderIs
    <3>2. HolderOf(a) # Register!Nobody
      BY <2>2, HeldIs
    <3>3. ~ \E q \in Pid : own'[q] /\ seat'[q].agent = a
      BY <1>1, <2>2 DEF OneSessionPerSeat
    <3>4. HolderOf(a)' = Register!Nobody
      BY <3>3 DEF HolderOf, Register!Nobody
    <3> QED
      BY <3>1, <3>2, <3>4
  <2>3. CASE ~ \E q \in Pid : own[q] /\ seat[q].agent = a
    <3>1. ~ \E q \in Pid : own'[q] /\ seat'[q].agent = a
      BY <1>1, <2>3
    <3>2. HolderOf(a) = Register!Nobody
      BY <2>3, NobodyHolds
    <3>3. HolderOf(a)' = Register!Nobody
      BY <3>1 DEF HolderOf, Register!Nobody
    <3> QED
      BY <3>2, <3>3
  <2> QED
    BY <2>1, <2>2, <2>3
<1> QED
  BY <1>2, <1>3 DEF Register!End, Register!Held

\* Every step of the store is a step of the register, or none.
LEMMA RegisterStep ==
    ASSUME IInv, IInv', NEW p \in Pid, Step(p)
    PROVE  [Register!Next]_(Register!vars)
<1> USE DEF IInv, TypeOK
<1>1. CASE ClaimCommit(p) /\ own' # own
  <2>1. PICK a \in Agent : a = seat[p].agent
    BY DEF Seat
  <2>2. seat[p].harness \in Harness
    BY DEF Seat
  <2> QED
    BY <1>1, <2>1, <2>2, ClaimTakes DEF Register!Next
<1>2. CASE ReleaseCommit(p) /\ own' # own
  <2>1. PICK a \in Agent : a = seat[p].agent
    BY DEF Seat
  <2> QED
    BY <1>2, <2>1, ReleaseGivesUp DEF Register!Next
<1>3. CASE Die(p)
  BY <1>3, DeathEnds DEF Register!Next
<1>4. CASE ~Die(p) /\ own' = own
  <2>1. \A q \in Pid : own[q] => seat'[q] = seat[q]
    <3>1. CASE Spawn(p)
      BY <3>1 DEF Spawn, OwnerInv
    <3>2. CASE ~Spawn(p)
      BY <1>4, <3>2 DEF Step, Begin, Continue, Raise, StartClaim, StartRelease,
         StartUpdate, StartGuard, StartLegacy, ClaimLock, ClaimScan, ClaimStateLock,
         ClaimCommit, ReleaseLock, ReleaseStateLock, ReleaseCommit, UpdateLock,
         UpdateRead, UpdateWrite, GuardLock, GuardLoad, GuardExit, LegacyMeta,
         LegacyLock, LegacyScan, LegacyExit
    <3> QED
      BY <3>1, <3>2
  <2>2. \A q \in Pid : own[q] <=> own'[q]
    BY <1>4
  <2>3. ASSUME NEW a \in Agent PROVE HolderOf(a)' = HolderOf(a)
    BY <2>1, <2>2, HolderStays
  <2>4. [a \in Agent |-> HolderOf(a)]' = [a \in Agent |-> HolderOf(a)]
    BY <2>3
  <2>5. \A q \in Pid : q # p => pc'[q] = pc[q] /\ guarded'[q] = guarded[q]
    BY <1>4 DEF Step, Begin, Continue, Spawn, Raise, StartClaim, StartRelease,
       StartUpdate, StartGuard, StartLegacy, ClaimLock, ClaimScan, ClaimStateLock,
       ClaimCommit, ReleaseLock, ReleaseStateLock, ReleaseCommit, UpdateLock,
       UpdateRead, UpdateWrite, GuardLock, GuardLoad, GuardExit, LegacyMeta,
       LegacyLock, LegacyScan, LegacyExit, Goto, Return
  <2>6. Users' = Users \cup {p} \/ Users' = Users \ {p}
    <3>1. CASE p \in Users'
      BY <2>5, <3>1 DEF Users
    <3>2. CASE p \notin Users'
      BY <2>5, <3>2 DEF Users
    <3> QED
      BY <3>1, <3>2
  <2> QED
    BY <2>4, <2>6 DEF Register!Next, Register!Enter, Register!Exit
<1>5. own' = own \/ Die(p) \/ ClaimCommit(p) \/ ReleaseCommit(p)
  BY DEF Step, Begin, Continue, Spawn, Raise, StartClaim, StartRelease,
     StartUpdate, StartGuard, StartLegacy, ClaimLock, ClaimScan, ClaimStateLock,
     ReleaseLock, ReleaseStateLock, UpdateLock, UpdateRead, UpdateWrite, GuardLock,
     GuardLoad, GuardExit, LegacyMeta, LegacyLock, LegacyScan, LegacyExit
<1> QED
  BY <1>1, <1>2, <1>3, <1>4, <1>5

\* The store with its locks, files and fences implements the register of seats.
THEOREM Refinement == Spec => ImplementsRegister
<1>1. Init => Register!Init
  <2> SUFFICES ASSUME Init PROVE Register!Init
    OBVIOUS
  <2>1. \A a \in Agent : HolderOf(a) = Register!Nobody
    BY NobodyHolds DEF Init
  <2>2. Users = {}
    BY DEF Init, Users
  <2> QED
    BY <2>1, <2>2 DEF Register!Init
<1>2. IInv /\ IInv' /\ [Next]_vars => [Register!Next]_(Register!vars)
  <2> SUFFICES ASSUME IInv, IInv', [Next]_vars
               PROVE  [Register!Next]_(Register!vars)
    OBVIOUS
  <2>1. CASE Next
    BY <2>1, RegisterStep DEF Next, Step
  <2>2. CASE UNCHANGED vars
    BY <2>2 DEF vars, Register!vars, HolderOf, Users
  <2> QED
    BY <2>1, <2>2
<1> QED
  BY <1>1, <1>2, Invariant, PTL DEF Spec, ImplementsRegister, Register!Spec
=============================================================================
