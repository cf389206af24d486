---------------------------- MODULE TripwireWatcher ----------------------------
(***************************************************************************)
(* rt-wait-inbox as a Claude hook: the SessionStart and Stop hooks of a    *)
(* claimed seat start watchers that share one wake slot in the lease, beat *)
(* while they poll new/, record what they wake for, and wake the session   *)
(* by exit code 2. A watcher of a replaced lease, or one that was          *)
(* superseded while it stalled, must not harm its successor.               *)
(*                                                                         *)
(* Every step that reads or writes the lease holds its state lock, so a    *)
(* watcher is a sequence of such steps. Claude itself is external: a turn  *)
(* ends with a Stop hook, and exit code 2 wakes it when it is idle.        *)
(***************************************************************************)
EXTENDS Naturals, Functions

CONSTANTS
    Watcher,      \* process ids of hooks
    Mail,         \* the messages that may arrive, without quiet acknowledgements
    MaxLease,     \* bound: leases of the seat
    MaxEvent      \* bound: user turns, compactions, turns without a Stop hook, stalls of a
                  \* live watcher and signals, all together

VARIABLES
    lease,        \* the revision of the live lease, 0 before the first
    slot,         \* the wake state in the lease
    new,          \* the mail in new/
    arrived,      \* the mail that has arrived
    watcher,      \* watcher[p]: the hook process p
    agent,        \* the Claude session
    paused,       \* history: the generation of the last pause, {} in a turn
    woken,        \* history: the last generation the session was woken for, and how often
    spent         \* user turns, compactions, interrupts, stalls and signals so far

vars == <<lease, slot, new, arrived, watcher, agent, paused, woken, spent>>

Generation == SUBSET Mail

NoPid == "none"

ASSUME WatcherAssumption ==
    /\ {MaxLease, MaxEvent} \subseteq Nat
    /\ NoPid \notin Watcher

Slot == [pid: Watcher \cup {NoPid}, beat: {"none", "fresh", "stale"},
         last: Generation, attempts: Nat]

EmptySlot == [pid |-> NoPid, beat |-> "none", last |-> {}, attempts |-> 0]

\* Where a hook is, and what its exit says: mail and beat are recorded wakes, error is
\* an uncaught FenceRejected, all three are exit code 2
Place == {"off", "load", "list", "claim", "recheck", "look", "wait", "found", "timeout",
          "clear"}
Outcome == {"quiet", "mail", "beat", "error"}

(* stop, active: the kind of hook and stop_hook_active; mail, last, attempts: what it
   has read *)
Process == [at: Place, rev: 0..MaxLease, stop: BOOLEAN, active: BOOLEAN,
            mail: Generation, last: Generation, attempts: Nat, out: Outcome]

Off == [at |-> "off", rev |-> 0, stop |-> FALSE, active |-> FALSE, mail |-> {},
        last |-> {}, attempts |-> 0, out |-> "quiet"]

Kinds == {"user", "compact", "interrupt", "stall", "kill"}

\* The types, and a slot that names a watcher has a heartbeat
TypeOK ==
    /\ lease \in 0..MaxLease
    /\ slot \in Slot /\ (slot.pid = NoPid <=> slot.beat = "none")
    /\ new \subseteq arrived /\ arrived \subseteq Mail
    /\ watcher \in [Watcher -> Process]
    /\ agent \in [turn: BOOLEAN, active: BOOLEAN]
    /\ paused \in Generation
    /\ woken \in [mail: Generation, times: Nat]
    /\ spent \in [Kinds -> Nat]

Nothing == [mail |-> {}, times |-> 0]

Init ==
    /\ lease = 0 /\ slot = EmptySlot
    /\ new = {} /\ arrived = {}
    /\ watcher = [p \in Watcher |-> Off]
    /\ agent = [turn |-> FALSE, active |-> FALSE]
    /\ paused = {} /\ woken = Nothing
    /\ spent = [k \in Kinds |-> 0]

-----------------------------------------------------------------------------
(* The session and its hooks *)

Spend(k) ==
    /\ SumFunctionOnSet(spent, Kinds) < MaxEvent
    /\ spent' = [spent EXCEPT ![k] = @ + 1]

\* A pid does not come back while the heartbeat of its last owner is fresh
StartHook(p, rev, stop, active) ==
    /\ watcher[p].at = "off"
    /\ ~(slot.pid = p /\ slot.beat = "fresh")
    /\ watcher' = [watcher EXCEPT ![p] =
            [at |-> "load", rev |-> rev, stop |-> stop, active |-> active,
             mail |-> {}, last |-> {}, attempts |-> 0, out |-> "quiet"]]

\* claim by a new launcher, and the first SessionStart of its Claude
NewSession(p) ==
    /\ lease < MaxLease
    /\ lease' = lease + 1 /\ slot' = EmptySlot
    /\ agent' = [turn |-> FALSE, active |-> FALSE]
    /\ StartHook(p, lease + 1, FALSE, FALSE)
    /\ paused' = {} /\ woken' = Nothing
    /\ UNCHANGED <<new, arrived, spent>>

Compact(p) ==
    /\ agent.turn
    /\ Spend("compact")
    /\ StartHook(p, lease, FALSE, FALSE)
    /\ UNCHANGED <<lease, slot, new, arrived, agent, paused, woken>>

\* A turn ends and runs the Stop hook
EndTurn(p) ==
    /\ agent.turn
    /\ agent' = [turn |-> FALSE, active |-> FALSE]
    /\ StartHook(p, lease, TRUE, agent.active)
    /\ UNCHANGED <<lease, slot, new, arrived, paused, woken, spent>>

\* A user interrupt or an API failure: no Stop hook runs
Interrupt ==
    /\ agent.turn
    /\ Spend("interrupt")
    /\ agent' = [turn |-> FALSE, active |-> FALSE]
    /\ UNCHANGED <<lease, slot, new, arrived, watcher, paused, woken>>

UserTurn ==
    /\ lease # 0 /\ ~agent.turn
    /\ Spend("user")
    /\ agent' = [turn |-> TRUE, active |-> FALSE]
    /\ paused' = {}
    /\ UNCHANGED <<lease, slot, new, arrived, watcher, woken>>

\* The session archives some of its mail in a turn
Drain ==
    /\ agent.turn
    /\ \E m \in new : new' = new \ {m}
    /\ UNCHANGED <<lease, slot, arrived, watcher, agent, paused, woken, spent>>

Arrive ==
    /\ \E m \in Mail \ arrived : new' = new \cup {m} /\ arrived' = arrived \cup {m}
    /\ UNCHANGED <<lease, slot, watcher, agent, paused, woken, spent>>

-----------------------------------------------------------------------------
(* The slot *)

\* watcher_is_live, and not _watcher_can_be_replaced
Lives == slot.pid # NoPid /\ slot.beat = "fresh" /\ watcher[slot.pid].at # "off"

\* The fence of update_wake and clear_wake with expected_watcher_pid
Owns(p) == watcher[p].rev = lease /\ slot.pid = p

SessionSame == UNCHANGED <<lease, new, arrived, agent, woken, spent>>

Go(p, place) == watcher' = [watcher EXCEPT ![p].at = place]

\* The finally clause of run is next
Ends(p, outcome) == watcher' = [watcher EXCEPT ![p].at = "clear", ![p].out = outcome]

\* The process ends; exit code 2 wakes an idle session of its lease
Exits(p, outcome) ==
    /\ watcher' = [watcher EXCEPT ![p] = Off]
    /\ IF outcome # "quiet" /\ watcher[p].rev = lease /\ ~agent.turn
       THEN /\ agent' = [turn |-> TRUE, active |-> watcher[p].stop]
            /\ paused' = {}
            /\ woken' = IF outcome # "mail" THEN woken
                        ELSE [mail |-> watcher[p].mail,
                              times |-> IF woken.mail = watcher[p].mail
                                        THEN woken.times + 1 ELSE 1]
       ELSE UNCHANGED <<agent, paused, woken>>
    /\ UNCHANGED <<lease, new, arrived, spent>>

-----------------------------------------------------------------------------
(* run *)

\* load_validated_lease; another live watcher makes the hook stand down
Load(p) ==
    /\ watcher[p].at = "load"
    /\ \/ /\ watcher[p].rev = lease /\ ~Lives
          /\ watcher' = [watcher EXCEPT ![p].at = "list", ![p].last = slot.last,
                                        ![p].attempts = slot.attempts]
          /\ SessionSame /\ UNCHANGED paused
       \/ watcher[p].rev = lease /\ Lives /\ Exits(p, "quiet")
       \/ watcher[p].rev # lease /\ Exits(p, "error")
    /\ UNCHANGED slot

\* mutant: every generation is tried again
PausesNever(p) == FALSE

\* mutant: a hook of a turn that a hook has started never waits
PausesActive(p) == watcher[p].stop /\ watcher[p].active

\* The same generation was already retried
Pauses(p) == /\ watcher[p].stop /\ watcher[p].active
             /\ new = watcher[p].last /\ watcher[p].attempts >= 2

List(p) ==
    /\ watcher[p].at = "list"
    /\ IF Pauses(p)
       THEN /\ paused' = new
            /\ watcher' = [watcher EXCEPT ![p] = Off]
       ELSE Go(p, "claim") /\ UNCHANGED paused
    /\ SessionSame /\ UNCHANGED slot

\* mutant: the slot is taken from whoever has it
MayClaimAny(p) == watcher[p].rev = lease

MayClaim(p) == watcher[p].rev = lease /\ (slot.pid = p \/ ~Lives)

ClaimSlot(p) ==
    /\ watcher[p].at = "claim"
    /\ IF MayClaim(p)
       THEN /\ slot' = [slot EXCEPT !.pid = p, !.beat = "fresh"]
            /\ watcher' = [watcher EXCEPT ![p].at = "look", ![p].last = slot.last,
                                          ![p].attempts = slot.attempts]
       ELSE Go(p, "recheck") /\ UNCHANGED slot
    /\ SessionSame /\ UNCHANGED paused

\* The slot was refused: is there still a live watcher?
Recheck(p) ==
    /\ watcher[p].at = "recheck"
    /\ Ends(p, IF watcher[p].rev = lease /\ Lives THEN "quiet" ELSE "error")
    /\ SessionSame /\ UNCHANGED <<slot, paused>>

\* The loop ends with mail or after its last tick
Look(p) ==
    /\ watcher[p].at = "look"
    /\ \/ /\ new # {}
          /\ watcher' = [watcher EXCEPT ![p].at = "found", ![p].mail = new]
       \/ new = {} /\ (Go(p, "wait") \/ Go(p, "timeout"))
    /\ SessionSame /\ UNCHANGED <<slot, paused>>

\* A tick: the heartbeat, unless another watcher or lease took over
Beat(p) ==
    /\ watcher[p].at = "wait"
    /\ IF Owns(p)
       THEN slot' = [slot EXCEPT !.beat = "fresh"] /\ Go(p, "look")
       ELSE Ends(p, "quiet") /\ UNCHANGED slot
    /\ SessionSame /\ UNCHANGED paused

NextAttempt(p) == IF watcher[p].mail = watcher[p].last THEN watcher[p].attempts + 1 ELSE 1

\* The wake is recorded before the session is woken
Found(p) ==
    /\ watcher[p].at = "found"
    /\ IF Owns(p)
       THEN /\ slot' = [slot EXCEPT !.beat = "fresh", !.last = watcher[p].mail,
                                    !.attempts = NextAttempt(p)]
            /\ Ends(p, "mail")
       ELSE Ends(p, "error") /\ UNCHANGED slot
    /\ SessionSame /\ UNCHANGED paused

TimedOut(p) ==
    /\ watcher[p].at = "timeout"
    /\ IF Owns(p)
       THEN slot' = [slot EXCEPT !.beat = "fresh"] /\ Ends(p, "beat")
       ELSE Ends(p, "error") /\ UNCHANGED slot
    /\ SessionSame /\ UNCHANGED paused

\* mutant: the slot is cleared whoever has it
ClearAny(p) ==
    /\ watcher[p].at = "clear"
    /\ slot' = IF watcher[p].rev = lease THEN [slot EXCEPT !.pid = NoPid, !.beat = "none"]
               ELSE slot
    /\ Exits(p, watcher[p].out)

\* The finally clause, and the exit
Clear(p) ==
    /\ watcher[p].at = "clear"
    /\ slot' = IF Owns(p) THEN [slot EXCEPT !.pid = NoPid, !.beat = "none"] ELSE slot
    /\ Exits(p, watcher[p].out)

WatcherStep(p) == \/ Load(p) \/ List(p) \/ ClaimSlot(p) \/ Recheck(p) \/ Look(p)
                  \/ Beat(p) \/ Found(p) \/ TimedOut(p) \/ Clear(p)

-----------------------------------------------------------------------------
(* Time and signals *)

\* More than 30 s without a beat: the watcher is gone, or it, or the host, was suspended
Stale ==
    /\ slot.beat = "fresh"
    /\ slot' = [slot EXCEPT !.beat = "stale"]
    /\ IF watcher[slot.pid].at = "off" THEN UNCHANGED spent ELSE Spend("stall")
    /\ UNCHANGED <<lease, new, arrived, watcher, agent, paused, woken>>

\* SIGTERM or SIGINT raises StopRequested
Signal(p) ==
    /\ watcher[p].at \in {"claim", "recheck", "look", "wait", "found", "timeout"}
    /\ Spend("kill")
    /\ Ends(p, "quiet")
    /\ UNCHANGED <<lease, slot, new, arrived, agent, paused, woken>>

\* SIGKILL, or a signal outside of the try statement
Kill(p) ==
    /\ watcher[p].at # "off"
    /\ Spend("kill")
    /\ watcher' = [watcher EXCEPT ![p] = Off]
    /\ UNCHANGED <<lease, slot, new, arrived, agent, paused, woken>>

-----------------------------------------------------------------------------
Next ==
    \/ \E p \in Watcher : \/ NewSession(p) \/ Compact(p) \/ EndTurn(p)
                          \/ WatcherStep(p) \/ Signal(p) \/ Kill(p)
    \/ Interrupt \/ UserTurn \/ Drain \/ Arrive \/ Stale

Spec == Init /\ [][Next]_vars

\* A hook that is not suspended goes on; a turn ends
FairSpec ==
    /\ Spec
    /\ \A p \in Watcher : WF_vars(WatcherStep(p))
    /\ SF_vars(\E p \in Watcher : EndTurn(p))

-----------------------------------------------------------------------------
(* Properties *)

\* Under the same lease the slot is cleared by its owner only: a watcher that was
\* superseded while it stalled, or one of an older lease, never takes the slot from its
\* successor (the finally clause of run).
SuccessorStays ==
    [][(slot.pid # NoPid /\ slot'.pid = NoPid /\ lease' = lease)
            => watcher[slot.pid].at = "clear" /\ watcher[slot.pid].rev = lease]_vars

\* As long as the user starts no turn and none is compacted, one generation wakes the
\* session at most twice, whatever stalls, dies or overlaps (docs/compatibility.md: "one
\* initial wake and at most one Stop-hook retry").
FewWakes == spent["user"] + spent["compact"] = 0 => woken.times <= 2

\* Two hooks that are both in the poll loop: all but one have lost the slot or stalled
OnePoller ==
    \A p, q \in Watcher :
        (p # q /\ {watcher[p].at, watcher[q].at} \subseteq {"look", "wait"}
         /\ watcher[p].rev = watcher[q].rev) => spent["stall"] > 0

\* Mail that waits gets the session into a turn, unless a hook has paused: stand-downs,
\* refused slots and stalled watchers never leave the seat without a watcher or a wake.
\* A signal, or a turn without a Stop hook, may (docs/compatibility.md).
MailWakes ==
    \A m \in Mail : (m \in new /\ lease # 0) ~>
        (m \notin new \/ agent.turn \/ paused # {} \/ spent["kill"] + spent["interrupt"] > 0)

=============================================================================
