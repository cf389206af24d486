------------------------------ MODULE SeatLease ------------------------------
(***************************************************************************)
(* The host-local lease store of bin/_rtruntime.py for one project: which  *)
(* process owns which seat (agent), and who may act for it.                *)
(*                                                                         *)
(* The processes are the launchers that claim a seat and then exec the     *)
(* harness (the PID survives the exec), and the hooks, watchers and        *)
(* bridges that inherit a session's token.  The store is one claim lock    *)
(* for the project, one state lock and one lease file for each agent.      *)
(* Both locks are flock(2) locks: a process holds one exactly while it is  *)
(* inside the `with` block, and loses it when the block unwinds or the     *)
(* process dies, so who holds a lock is read off the program counters.     *)
(***************************************************************************)
EXTENDS Naturals, FiniteSets

CONSTANTS
    Pid,           \* the process ids of the host
    Agent,         \* the configured instances (seats) of the project
    Harness,       \* claude, codex, hermes, ...
    MaxBirths,     \* bound: processes started after the first ones die
    MaxRevision,   \* bound: leases ever written
    MaxActivity    \* bound: activity updates of one lease

ASSUME BoundsAssumption == /\ MaxBirths \in Nat
                           /\ MaxRevision \in Nat
                           /\ MaxActivity \in Nat

VARIABLES
    pc,        \* pc[p]: where process p is; "dead" when there is no p
    birth,     \* birth[p]: start fingerprint of the last process with pid p
    seat,      \* seat[p]: RT_FROM and harness of p, [agent, harness]
    rev,       \* rev[p]: RT_LEASE_REVISION of p, 0 when it carries no token
    own,       \* own[p]: p itself is the session that claimed revision rev[p]
    guarded,   \* guarded[p]: p is inside the body of seat_shared_guard
    snap,      \* snap[p]: the record p has read and will write back
    lease,     \* lease[a]: the lease file of agent a
    nextRev,   \* the next revision uuid
    births     \* processes started so far

vars == <<pc, birth, seat, rev, own, guarded, snap, lease, nextRev, births>>

Seat == [agent: Agent, harness: Harness]

Lease == [harness: Harness, rev: 1..MaxRevision, pid: Pid, birth: Nat,
          activity: 0..MaxActivity]

NoLease == [rev |-> 0]          \* the file does not exist

\* Places inside claim(), release(), a fenced update, seat_shared_guard() and
\* legacy_harness_guard(); the _wait, _state and _lock places hold nothing new.
Place == {"dead", "idle",
          "claim_wait", "claim_scan", "claim_state", "claim_commit",
          "release_wait", "release_state", "release_commit",
          "update_wait", "update_read", "update_write",
          "guard_wait", "guard_load", "guard_in",
          "legacy_meta", "legacy_wait", "legacy_scan", "legacy_in"}

TypeOK ==
    /\ pc \in [Pid -> Place]
    /\ birth \in [Pid -> Nat]
    /\ seat \in [Pid -> Seat]
    /\ rev \in [Pid -> 0..MaxRevision]
    /\ own \in [Pid -> BOOLEAN]
    /\ guarded \in [Pid -> BOOLEAN]
    /\ snap \in [Pid -> Lease \cup {NoLease}]
    /\ lease \in [Agent -> Lease \cup {NoLease}]
    /\ nextRev \in 1..MaxRevision + 1
    /\ births \in 0..MaxBirths

-----------------------------------------------------------------------------
(* Locks *)

\* claim_lock held with LOCK_EX
HoldsClaim(p) == pc[p] \in {"claim_scan", "claim_state", "claim_commit",
                            "release_state", "release_commit"}

\* mutant: the guard drops the lock once the lease is validated
SharesClaimBriefly(p) == pc[p] \in {"guard_load", "legacy_scan", "legacy_in"}

\* claim_lock held with LOCK_SH
SharesClaim(p) == guarded[p] \/ pc[p] \in {"guard_load", "legacy_scan", "legacy_in"}

\* state_lock of p's agent held with LOCK_EX
HoldsState(p) == pc[p] \in {"claim_commit", "release_commit",
                            "update_read", "update_write"}

ClaimFree == \A q \in Pid : ~HoldsClaim(q) /\ ~SharesClaim(q)

ClaimShareable == \A q \in Pid : ~HoldsClaim(q)

StateFree(a) == \A q \in Pid : HoldsState(q) => seat[q].agent # a

-----------------------------------------------------------------------------
(* What a process can tell about a lease *)

\* os.kill(pid, 0) and the start fingerprint agree with the record
OwnerRuns(r) == pc[r.pid] # "dead" /\ birth[r.pid] = r.birth

\* the answers _owner_liveness can give: a pid that runs may be impossible to
\* inspect (EPERM, no fingerprint), a pid that does not run is always seen so
Liveness(r) ==
    IF OwnerRuns(r) THEN {"active", "ambiguous"}
    ELSE IF pc[r.pid] # "dead" THEN {"stale", "ambiguous"}
    ELSE {"stale"}

\* _load_fenced_record may return the record.  It may always raise: the fence does
\* not match, or the owner cannot be inspected.
MayPassFence(p) ==
    LET r == lease[seat[p].agent]
    IN  r # NoLease /\ r.rev = rev[p] /\ "active" \in Liveness(r)

\* mutant: only the seat itself is looked at
ContendsBySeat(p, a) == lease[a] # NoLease /\ a = seat[p].agent

\* the leases that stand in the way of p's claim: same agent or same harness
Contends(p, a) ==
    lease[a] # NoLease /\ (a = seat[p].agent \/ lease[a].harness = seat[p].harness)

-----------------------------------------------------------------------------
(* Processes *)

Goto(p, place) == pc' = [pc EXCEPT ![p] = place]

\* A `with` block ends: back to the guard's body if the caller is inside one
Return(p) == Goto(p, IF guarded[p] THEN "guard_in" ELSE "idle")

\* A new process gets a free pid, with a configured seat to claim or with the
\* environment, token included, of a process that runs.  Two processes with the
\* same pid may have the same fingerprint: `ps -o lstart` counts seconds.
Spawn(p) ==
    /\ pc[p] = "dead"
    /\ births < MaxBirths
    /\ births' = births + 1
    /\ \E b \in {birth[p], birth[p] + 1} : birth' = [birth EXCEPT ![p] = b]
    /\ Goto(p, "idle")
    /\ \/ /\ \E s \in Seat : seat' = [seat EXCEPT ![p] = s]
          /\ rev' = [rev EXCEPT ![p] = 0]
       \/ \E q \in Pid :
            /\ pc[q] # "dead"
            /\ seat' = [seat EXCEPT ![p] = seat[q]]
            /\ rev' = [rev EXCEPT ![p] = rev[q]]
    /\ UNCHANGED <<own, guarded, snap, lease, nextRev>>

\* Any process may die anywhere; the kernel drops its locks.
Die(p) ==
    /\ pc[p] # "dead"
    /\ Goto(p, "dead")
    /\ rev' = [rev EXCEPT ![p] = 0]
    /\ own' = [own EXCEPT ![p] = FALSE]
    /\ guarded' = [guarded EXCEPT ![p] = FALSE]
    /\ snap' = [snap EXCEPT ![p] = NoLease]
    /\ UNCHANGED <<birth, seat, lease, nextRev, births>>

\* An OSError or a RuntimeStateError unwinds every `with` block p is in.
Raise(p) ==
    /\ pc[p] \notin {"dead", "idle"}
    /\ Goto(p, "idle")
    /\ guarded' = [guarded EXCEPT ![p] = FALSE]
    /\ snap' = [snap EXCEPT ![p] = NoLease]
    /\ UNCHANGED <<birth, seat, rev, own, lease, nextRev, births>>

-----------------------------------------------------------------------------
(* claim(): owner_pid is the caller, which later execs the harness *)

StartClaim(p) ==
    /\ pc[p] = "idle" /\ ~own[p]
    /\ Goto(p, "claim_wait")
    /\ UNCHANGED <<birth, seat, rev, own, guarded, snap, lease, nextRev, births>>

ClaimLock(p) ==
    /\ pc[p] = "claim_wait"
    /\ ClaimFree
    /\ nextRev <= MaxRevision
    /\ Goto(p, "claim_scan")
    /\ UNCHANGED <<birth, seat, rev, own, guarded, snap, lease, nextRev, births>>

\* Every lease of the same agent or harness must be stale; else SeatOccupied or
\* SeatAmbiguous.  The records are read one after the other, but only their
\* owners' deaths can happen meanwhile, and no death makes a stale lease active.
ClaimScan(p) ==
    /\ pc[p] = "claim_scan"
    /\ \/ /\ \E a \in Agent : Contends(p, a) /\ Liveness(lease[a]) # {"stale"}
          /\ Goto(p, "idle")
       \/ /\ \A a \in Agent : Contends(p, a) => "stale" \in Liveness(lease[a])
          /\ Goto(p, "claim_state")
    /\ UNCHANGED <<birth, seat, rev, own, guarded, snap, lease, nextRev, births>>

\* mutant: the claim lock alone is thought to protect the lease file
ClaimNoStateLock(p) ==
    /\ pc[p] = "claim_state"
    /\ Goto(p, "claim_commit")
    /\ UNCHANGED <<birth, seat, rev, own, guarded, snap, lease, nextRev, births>>

ClaimStateLock(p) ==
    /\ pc[p] = "claim_state"
    /\ StateFree(seat[p].agent)
    /\ Goto(p, "claim_commit")
    /\ UNCHANGED <<birth, seat, rev, own, guarded, snap, lease, nextRev, births>>

\* Under both locks the target is read again, then replaced.
ClaimCommit(p) ==
    LET a == seat[p].agent
    IN  /\ pc[p] = "claim_commit"
        /\ Goto(p, "idle")
        /\ \/ /\ lease[a] # NoLease /\ Liveness(lease[a]) # {"stale"}
              /\ UNCHANGED <<rev, own, lease, nextRev>>
           \/ /\ lease[a] # NoLease => "stale" \in Liveness(lease[a])
              /\ lease' = [lease EXCEPT ![a] =
                    [harness |-> seat[p].harness, rev |-> nextRev, pid |-> p,
                     birth |-> birth[p], activity |-> 0]]
              /\ rev' = [rev EXCEPT ![p] = nextRev]
              /\ own' = [own EXCEPT ![p] = TRUE]
              /\ nextRev' = nextRev + 1
        /\ UNCHANGED <<birth, seat, guarded, snap, births>>

-----------------------------------------------------------------------------
(* release(token): by any process that has the token *)

\* mutant: the token is released inside the body of a guard
StartReleaseGuarded(p) ==
    /\ pc[p] \in {"idle", "guard_in"} /\ rev[p] # 0
    /\ Goto(p, "release_wait")
    /\ UNCHANGED <<birth, seat, rev, own, guarded, snap, lease, nextRev, births>>

StartRelease(p) ==
    /\ pc[p] = "idle" /\ rev[p] # 0
    /\ Goto(p, "release_wait")
    /\ UNCHANGED <<birth, seat, rev, own, guarded, snap, lease, nextRev, births>>

ReleaseLock(p) ==
    /\ pc[p] = "release_wait"
    /\ ClaimFree
    /\ Goto(p, "release_state")
    /\ UNCHANGED <<birth, seat, rev, own, guarded, snap, lease, nextRev, births>>

ReleaseStateLock(p) ==
    /\ pc[p] = "release_state"
    /\ StateFree(seat[p].agent)
    /\ Goto(p, "release_commit")
    /\ UNCHANGED <<birth, seat, rev, own, guarded, snap, lease, nextRev, births>>

\* FenceRejected: nothing to release.  Otherwise the file is unlinked, and
\* whoever owned the seat has given it up.
ReleaseCommit(p) ==
    /\ pc[p] = "release_commit"
    /\ Goto(p, "idle")
    /\ \/ UNCHANGED <<own, lease>>
       \/ /\ MayPassFence(p)
          /\ lease' = [lease EXCEPT ![seat[p].agent] = NoLease]
          /\ own' = [q \in Pid |-> own[q] /\ rev[q] # rev[p]]
    /\ UNCHANGED <<birth, seat, rev, guarded, snap, nextRev, births>>

-----------------------------------------------------------------------------
(* A fenced update: update_activity here; update_wake and clear_wake take *)
(* the same lock, fence and atomic replacement                            *)

StartUpdate(p) ==
    /\ pc[p] \in {"idle", "guard_in"} /\ rev[p] # 0
    /\ Goto(p, "update_wait")
    /\ UNCHANGED <<birth, seat, rev, own, guarded, snap, lease, nextRev, births>>

\* mutant: the update does not wait for the state lock
UpdateNoLock(p) ==
    /\ pc[p] = "update_wait"
    /\ Goto(p, "update_read")
    /\ UNCHANGED <<birth, seat, rev, own, guarded, snap, lease, nextRev, births>>

UpdateLock(p) ==
    /\ pc[p] = "update_wait"
    /\ StateFree(seat[p].agent)
    /\ Goto(p, "update_read")
    /\ UNCHANGED <<birth, seat, rev, own, guarded, snap, lease, nextRev, births>>

UpdateRead(p) ==
    /\ pc[p] = "update_read"
    /\ \/ /\ Goto(p, "idle")
          /\ guarded' = [guarded EXCEPT ![p] = FALSE]
          /\ UNCHANGED snap
       \/ /\ MayPassFence(p)
          /\ lease[seat[p].agent].activity < MaxActivity
          /\ Goto(p, "update_write")
          /\ snap' = [snap EXCEPT ![p] = lease[seat[p].agent]]
          /\ UNCHANGED guarded
    /\ UNCHANGED <<birth, seat, rev, own, lease, nextRev, births>>

UpdateWrite(p) ==
    /\ pc[p] = "update_write"
    /\ lease' = [lease EXCEPT ![seat[p].agent] =
                    [snap[p] EXCEPT !.activity = @ + 1]]
    /\ snap' = [snap EXCEPT ![p] = NoLease]
    /\ Return(p)
    /\ UNCHANGED <<birth, seat, rev, own, guarded, nextRev, births>>

-----------------------------------------------------------------------------
(* seat_shared_guard(): bind and wake operations *)

StartGuard(p) ==
    /\ pc[p] = "idle" /\ rev[p] # 0
    /\ Goto(p, "guard_wait")
    /\ UNCHANGED <<birth, seat, rev, own, guarded, snap, lease, nextRev, births>>

GuardLock(p) ==
    /\ pc[p] = "guard_wait"
    /\ ClaimShareable
    /\ Goto(p, "guard_load")
    /\ UNCHANGED <<birth, seat, rev, own, guarded, snap, lease, nextRev, births>>

\* load_validated_lease under the shared state lock
GuardLoad(p) ==
    /\ pc[p] = "guard_load"
    /\ StateFree(seat[p].agent)
    /\ \/ /\ Goto(p, "idle")
          /\ UNCHANGED guarded
       \/ /\ MayPassFence(p)
          /\ Goto(p, "guard_in")
          /\ guarded' = [guarded EXCEPT ![p] = TRUE]
    /\ UNCHANGED <<birth, seat, rev, own, snap, lease, nextRev, births>>

GuardExit(p) ==
    /\ pc[p] = "guard_in"
    /\ Goto(p, "idle")
    /\ guarded' = [guarded EXCEPT ![p] = FALSE]
    /\ UNCHANGED <<birth, seat, rev, own, snap, lease, nextRev, births>>

-----------------------------------------------------------------------------
(* legacy_harness_guard(): a side effect for a harness that has no lease *)

StartLegacy(p) ==
    /\ pc[p] = "idle"
    /\ Goto(p, "legacy_meta")
    /\ UNCHANGED <<birth, seat, rev, own, guarded, snap, lease, nextRev, births>>

\* the project metadata is written under the exclusive lock, which is dropped
LegacyMeta(p) ==
    /\ pc[p] = "legacy_meta"
    /\ ClaimFree
    /\ Goto(p, "legacy_wait")
    /\ UNCHANGED <<birth, seat, rev, own, guarded, snap, lease, nextRev, births>>

LegacyLock(p) ==
    /\ pc[p] = "legacy_wait"
    /\ ClaimShareable
    /\ Goto(p, "legacy_scan")
    /\ UNCHANGED <<birth, seat, rev, own, guarded, snap, lease, nextRev, births>>

\* mutant: only a lease whose owner runs is a conflict
HarnessInactive(h) ==
    \A a \in Agent : lease[a] # NoLease /\ lease[a].harness = h =>
        ~OwnerRuns(lease[a])

\* any record of the harness, stale ones included, is a conflict
HarnessUnleased(h) ==
    \A a \in Agent : lease[a] # NoLease => lease[a].harness # h

LegacyScan(p) ==
    /\ pc[p] = "legacy_scan"
    /\ Goto(p, IF HarnessUnleased(seat[p].harness) THEN "legacy_in" ELSE "idle")
    /\ UNCHANGED <<birth, seat, rev, own, guarded, snap, lease, nextRev, births>>

LegacyExit(p) ==
    /\ pc[p] = "legacy_in"
    /\ Goto(p, "idle")
    /\ UNCHANGED <<birth, seat, rev, own, guarded, snap, lease, nextRev, births>>

-----------------------------------------------------------------------------

\* launchers about to claim: no lease has been written yet
Init ==
    /\ pc = [p \in Pid |-> "idle"]
    /\ birth = [p \in Pid |-> 0]
    /\ seat \in [Pid -> Seat]
    /\ rev = [p \in Pid |-> 0]
    /\ own = [p \in Pid |-> FALSE]
    /\ guarded = [p \in Pid |-> FALSE]
    /\ snap = [p \in Pid |-> NoLease]
    /\ lease = [a \in Agent |-> NoLease]
    /\ nextRev = 1
    /\ births = 0

Begin(p) == StartClaim(p) \/ StartRelease(p) \/ StartUpdate(p) \/ StartGuard(p)
              \/ StartLegacy(p)

\* the steps a process takes once it has called an operation
Continue(p) ==
    \/ ClaimLock(p) \/ ClaimScan(p) \/ ClaimStateLock(p) \/ ClaimCommit(p)
    \/ ReleaseLock(p) \/ ReleaseStateLock(p) \/ ReleaseCommit(p)
    \/ UpdateLock(p) \/ UpdateRead(p) \/ UpdateWrite(p)
    \/ GuardLock(p) \/ GuardLoad(p) \/ GuardExit(p)
    \/ LegacyMeta(p) \/ LegacyLock(p) \/ LegacyScan(p) \/ LegacyExit(p)

Next == \E p \in Pid : Spawn(p) \/ Die(p) \/ Raise(p) \/ Begin(p) \/ Continue(p)

Spec == Init /\ [][Next]_vars

-----------------------------------------------------------------------------
(* Properties *)

\* No two running sessions hold the same seat, and no two hold seats of the
\* same harness in the project: claim() under the project claim lock.
OneSessionPerSeat ==
    \A p, q \in Pid : p # q /\ own[p] /\ own[q] =>
        seat[p].agent # seat[q].agent /\ seat[p].harness # seat[q].harness

\* The lease of a session that runs and has not been released stays in the
\* file as that session's: no claim, update or guard of another takes it away.
LiveOwnerKeepsSeat ==
    \A p \in Pid : own[p] =>
        LET r == lease[seat[p].agent]
        IN  r # NoLease /\ r.rev = rev[p] /\ r.pid = p /\ r.birth = birth[p]

\* Inside seat_shared_guard the validated lease cannot be replaced or removed,
\* even after its owner has died.
GuardFixesSeat ==
    \A p \in Pid : guarded[p] => lease[seat[p].agent].rev = rev[p]

\* Inside legacy_harness_guard no lease of the harness exists.
LegacyExcludesLeases ==
    \A p \in Pid, a \in Agent :
        pc[p] = "legacy_in" /\ lease[a] # NoLease =>
            lease[a].harness # seat[p].harness

\* What a guard found when it was entered stays so for the whole of its body: the
\* validated lease in seat_shared_guard, the absence of leases in
\* legacy_harness_guard.
GuardsHold == GuardFixesSeat /\ LegacyExcludesLeases

\* A write to a lease file, whoever makes it and whatever it has read before, goes
\* forward: a lease that was replaced or released never comes back, because what
\* _atomic_json writes is the current lease or one with a revision never written
\* before; and of two updates of one lease neither is lost, because its activity
\* revision, by which the watchers see that the agent has worked, never goes back.
LeasesMoveForward ==
    [][\A a \in Agent :
        /\ lease'[a].rev \in {0, lease[a].rev} \/ lease'[a].rev = nextRev
        /\ lease[a] # NoLease /\ lease'[a].rev = lease[a].rev =>
             lease'[a].activity >= lease[a].activity]_vars

\* p is inside an operation and waits for a lock that somebody holds, itself included
Waits(p) ==
    \/ pc[p] \in {"claim_wait", "release_wait", "legacy_meta"} /\ ~ClaimFree
    \/ pc[p] \in {"guard_wait", "legacy_wait"} /\ ~ClaimShareable
    \/ pc[p] \in {"claim_state", "release_state", "update_wait", "guard_load"}
         /\ ~StateFree(seat[p].agent)

\* Nobody is locked in: whenever a process waits, some process has a lock and waits
\* for none.  The order of the locks (claim lock, then a state lock, also for the
\* update a guard's body makes) admits no cycle, not even of one process.
NobodyLockedIn ==
    \A p \in Pid : Waits(p) =>
        \E q \in Pid : (HoldsClaim(q) \/ SharesClaim(q) \/ HoldsState(q)) /\ ~Waits(q)

\* The session that holds seat a, as the register of seats sees it.
HolderOf(a) ==
    IF \E p \in Pid : own[p] /\ seat[p].agent = a
    THEN LET p == CHOOSE q \in Pid : own[q] /\ seat[q].agent = a
         IN  [pid |-> p, harness |-> seat[p].harness]
    ELSE [pid |-> "nobody"]

\* The processes inside the body of a guard.
Users == {p \in Pid : guarded[p] \/ pc[p] = "legacy_in"}

Register == INSTANCE SeatRegister
            WITH holder <- [a \in Agent |-> HolderOf(a)], users <- Users

\* The locks, files and fences of the store implement the atomic register: a
\* seat changes hands only while no guarded side effect is under way.
ImplementsRegister == Register!Spec
=============================================================================
