----------------------------- MODULE CodexBinding -----------------------------
(***************************************************************************)
(* How a Codex thread becomes the one that is woken for a seat: rt-codex   *)
(* arms a launch intent, SessionStart hooks advance it and publish a bind  *)
(* request, the wake bridge validates the requests, binds the thread,      *)
(* consumes what it has read, and wakes the thread that is bound.          *)
(*                                                                         *)
(* Three locks order them: the bind-request guard (hooks, consumption),    *)
(* the claim lock of the project (exclusive for the intent and the lease,  *)
(* shared while a request is validated and bound and while a thread is     *)
(* woken), and the lock of the binding store, held for one step at a time. *)
(***************************************************************************)
EXTENDS Naturals

CONSTANTS
    Hook,         \* the SessionStart hook processes
    Thread,       \* native thread ids
    Unfit,        \* the threads validate_thread refuses (sub-agents, ephemeral ones)
    MaxLease,     \* bound: leases of the seat
    MaxEvent,     \* bound: SessionStart events
    MaxCommand,   \* bound: rt-codex-wake bind and unbind
    MaxFault,     \* bound: hooks that die or fail half-way
    MaxRestart    \* bound: restarts of the bridge

ASSUME BindingAssumption ==
    /\ Unfit \subseteq Thread /\ "none" \notin Thread
    /\ {MaxLease, MaxEvent, MaxCommand, MaxFault, MaxRestart} \subseteq Nat

VARIABLES
    lease,        \* the revision of the seat's live lease, 0 for none
    leases,       \* leases claimed so far
    intent,       \* codex-launch-intent.json
    queue,        \* queue[r]: the bind request of lease r
    hook,         \* hook[h]: the hook process h
    events,       \* SessionStart events so far; the number of a request
    binding,      \* the binding of the project in the store
    binds,        \* bindings written so far; a binding revision
    bridge,       \* the bridge: its place and local variables
    quarantined,  \* the project is in bind_quarantined, the bridge's memory
    newest,       \* history: the last request that was bound
    seen,         \* history: the last request that put a thread into quarantine
    spent         \* started hooks, commands, faults and restarts so far

vars == <<lease, leases, intent, queue, hook, events, binding, binds, bridge,
          quarantined, newest, seen, spent>>

Source == {"startup", "resume", "clear"}

NoThread == "none"

Request == [thread: Thread, source: Source, ino: 1..MaxEvent]

NoRequest == [ino |-> 0]

Intent == [rev: 1..MaxLease, active: Thread \cup {NoThread}]

NoIntent == [rev |-> 0]

\* ino: the request it was made from, 0 for rt-codex-wake bind
Binding == [thread: Thread, rev: 1..MaxLease, ino: 0..MaxEvent, id: Nat]

NoBinding == [id |-> 0]

HookAt == {"idle", "start", "resolve", "publish"}

BridgeAt == {"drain", "open", "guard", "bind", "native", "consume", "replaced", "reject",
             "wake", "wake_guard", "wake_start"}

\* The bridge works on a request it has read
WithRequest == {"guard", "bind", "native", "consume", "replaced", "reject"}

(* todo: paths of this pass; rev, req: the request at hand; got: the binding that
   bind_from_request returned, or the one a wake is for *)
Bridge == [at: BridgeAt, todo: SUBSET (1..MaxLease), rev: 0..MaxLease,
           req: Request \cup {NoRequest}, got: Binding \cup {NoBinding}]

Kinds == {"hook", "command", "fault", "restart"}

\* The types, and no work on a request that is not there
TypeOK ==
    /\ lease \in 0..leases /\ leases \in 0..MaxLease
    /\ intent \in Intent \cup {NoIntent}
    /\ queue \in [1..MaxLease -> Request \cup {NoRequest}]
    /\ hook \in [Hook -> [at: HookAt, thread: Thread \cup {NoThread}, source: Source,
                          rev: 0..MaxLease]]
    /\ events \in 0..MaxEvent
    /\ binding \in Binding \cup {NoBinding}
    /\ binds \in Nat /\ binding.id <= binds
    /\ bridge \in Bridge
    /\ bridge.at \in WithRequest => bridge.req # NoRequest
    /\ quarantined \in BOOLEAN
    /\ newest \in 0..MaxEvent /\ seen \in 0..MaxEvent
    /\ spent \in [Kinds -> Nat]

IdleHook == [at |-> "idle", thread |-> NoThread, source |-> "startup", rev |-> 0]

BridgeStart == [at |-> "drain", todo |-> {}, rev |-> 0, req |-> NoRequest, got |-> NoBinding]

Init ==
    /\ lease = 0 /\ leases = 0
    /\ intent = NoIntent
    /\ queue = [r \in 1..MaxLease |-> NoRequest]
    /\ hook = [h \in Hook |-> IdleHook]
    /\ events = 0
    /\ binding = NoBinding /\ binds = 0
    /\ bridge = BridgeStart
    /\ quarantined = FALSE
    /\ newest = 0 /\ seen = 0
    /\ spent = [k \in Kinds |-> 0]

-----------------------------------------------------------------------------
(* Locks *)

\* mutant: the request is consumed before the seat guard is left
SharesClaimLong ==
    bridge.at \in {"bind", "native", "consume", "replaced", "reject", "wake_start"}

\* The bridge is inside seat_shared_guard
SharesClaim == bridge.at \in {"bind", "native", "wake_start"}

\* mutant: the hook takes the guard for the publication only
HoldsGuardLate(h) == hook[h].at = "publish"

\* h is inside bind_request_guard
HoldsGuard(h) == hook[h].at \in {"resolve", "publish"}

GuardFree == \A h \in Hook : ~HoldsGuard(h)

-----------------------------------------------------------------------------
(* The launcher *)

Spend(k, bound) ==
    /\ spent[k] < bound
    /\ spent' = [spent EXCEPT ![k] = @ + 1]

BridgeSame == UNCHANGED <<binding, binds, bridge, quarantined, newest, seen>>

\* claim: the owner of the last lease is gone
Claim ==
    /\ leases < MaxLease
    /\ ~SharesClaim
    /\ leases' = leases + 1 /\ lease' = leases + 1
    /\ UNCHANGED <<intent, queue, hook, events, spent>> /\ BridgeSame

\* release, or the death of the owner, which validates no lease any more
Release ==
    /\ lease # 0
    /\ lease' = 0
    /\ UNCHANGED <<leases, intent, queue, hook, events, spent>> /\ BridgeSame

\* arm_codex_launch_intent, once for every lease
Arm ==
    /\ lease # 0 /\ intent.rev # lease
    /\ ~SharesClaim
    /\ intent' = [rev |-> lease, active |-> NoThread]
    /\ UNCHANGED <<lease, leases, queue, hook, events, spent>> /\ BridgeSame

-----------------------------------------------------------------------------
(* The SessionStart hook *)

SetHook(h, place) == hook' = [hook EXCEPT ![h].at = place]

EndHook(h) == hook' = [hook EXCEPT ![h] = IdleHook]

\* A root thread starts, is resumed or replaces the cleared one, in this TUI or in
\* another one of the same folder
StartHook(h) ==
    /\ hook[h].at = "idle"
    /\ Spend("hook", MaxEvent)
    /\ \E t \in Thread, s \in Source :
        hook' = [hook EXCEPT ![h] = [at |-> "start", thread |-> t, source |-> s, rev |-> 0]]
    /\ UNCHANGED <<lease, leases, intent, queue, events>> /\ BridgeSame

TakeGuard(h) ==
    /\ hook[h].at = "start"
    /\ GuardFree
    /\ SetHook(h, "resolve")
    /\ UNCHANGED <<lease, leases, intent, queue, events, spent>> /\ BridgeSame

\* resolve_codex_launch_intent finds the intent of a live lease, and the event is the
\* first of it, or of its thread, or a clear
Accepts(h) ==
    /\ intent # NoIntent /\ intent.rev = lease
    /\ IF intent.active = NoThread THEN hook[h].source # "clear"
       ELSE hook[h].source = "clear" \/ hook[h].thread = intent.active

\* The claim lock is held for the whole of it
Resolve(h) ==
    /\ hook[h].at = "resolve"
    /\ ~SharesClaim
    /\ Accepts(h)
    /\ intent' = [intent EXCEPT !.active = hook[h].thread]
    /\ hook' = [hook EXCEPT ![h].at = "publish", ![h].rev = intent.rev]
    /\ UNCHANGED <<lease, leases, queue, events, spent>> /\ BridgeSame

\* Not this lease's event, or it comes too late after the launch
Ignore(h) ==
    /\ hook[h].at = "resolve"
    /\ ~SharesClaim
    /\ ~Accepts(h) \/ (intent # NoIntent /\ intent.active = NoThread)
    /\ EndHook(h)
    /\ UNCHANGED <<lease, leases, intent, queue, events, spent>> /\ BridgeSame

\* mutant: no source replaces the request that waits
PublishKeeps(h) ==
    /\ hook[h].at = "publish"
    /\ events' = events + 1
    /\ queue' = IF queue[hook[h].rev] = NoRequest
                THEN [queue EXCEPT ![hook[h].rev] = [thread |-> hook[h].thread,
                                        source |-> hook[h].source, ino |-> events + 1]]
                ELSE queue
    /\ EndHook(h)
    /\ UNCHANGED <<lease, leases, intent, spent>> /\ BridgeSame

\* _atomic_request_locked: clear replaces the request that waits, startup and resume
\* are dropped when there is one
Publish(h) ==
    /\ hook[h].at = "publish"
    /\ events' = events + 1
    /\ queue' = IF hook[h].source = "clear" \/ queue[hook[h].rev] = NoRequest
                THEN [queue EXCEPT ![hook[h].rev] = [thread |-> hook[h].thread,
                                        source |-> hook[h].source, ino |-> events + 1]]
                ELSE queue
    /\ EndHook(h)
    /\ UNCHANGED <<lease, leases, intent, spent>> /\ BridgeSame

\* The hook is killed, times out or cannot write its request
HookFault(h) ==
    /\ hook[h].at # "idle"
    /\ Spend("fault", MaxFault)
    /\ EndHook(h)
    /\ UNCHANGED <<lease, leases, intent, queue, events>> /\ BridgeSame

HookStep(h) == TakeGuard(h) \/ Resolve(h) \/ Ignore(h) \/ Publish(h)

-----------------------------------------------------------------------------
(* The bridge: drain_bind_requests *)

OthersSame == UNCHANGED <<lease, leases, intent, hook, events>>
StoreSame == UNCHANGED <<binding, binds, quarantined, newest, seen>>

GoOn(place) == bridge' = [bridge EXCEPT !.at = place]

\* The request at hand is done with
NextPath == bridge' = [bridge EXCEPT !.at = "open", !.rev = 0, !.req = NoRequest,
                                     !.got = NoBinding]

ListQueue ==
    /\ bridge.at = "drain"
    /\ bridge' = [BridgeStart EXCEPT !.at = "open",
                                     !.todo = {r \in 1..MaxLease : queue[r] # NoRequest}]
    /\ UNCHANGED <<queue, spent>> /\ StoreSame /\ OthersSame

\* _read_bind_request, with no lock: the inode and the text of the request
Open ==
    /\ bridge.at = "open"
    /\ \E r \in bridge.todo :
        bridge' = [bridge EXCEPT !.at = "guard", !.todo = @ \ {r}, !.rev = r,
                                 !.req = queue[r]]
    /\ UNCHANGED <<queue, spent>> /\ StoreSame /\ OthersSame

\* mutant: the request is taken at its word
GuardSkipped ==
    /\ bridge.at = "guard"
    /\ GoOn("bind")
    /\ UNCHANGED <<queue, spent>> /\ StoreSame /\ OthersSame

\* seat_shared_guard: the request is for the live lease, or it is refused
Guard ==
    /\ bridge.at = "guard"
    /\ GoOn(IF bridge.rev = lease THEN "bind" ELSE "reject")
    /\ UNCHANGED <<queue, spent>> /\ StoreSame /\ OthersSame

\* A lease for which bind_from_request raises IdentityError: it has another thread
\* and this is no clear
Refuses ==
    /\ binding # NoBinding /\ binding.rev = bridge.rev
    /\ binding.thread # bridge.req.thread /\ bridge.req.source # "clear"

\* An exact replay
Replays == /\ binding # NoBinding /\ binding.rev = bridge.rev
           /\ binding.thread = bridge.req.thread

\* validate_thread and bind_from_request
Bind ==
    /\ bridge.at = "bind"
    /\ IF bridge.req.thread \in Unfit \/ Refuses
       THEN GoOn("reject") /\ StoreSame
       ELSE IF Replays
       THEN bridge' = [bridge EXCEPT !.at = "native", !.got = binding] /\ StoreSame
       ELSE /\ binds' = binds + 1
            /\ binding' = [thread |-> bridge.req.thread, rev |-> bridge.rev,
                           ino |-> bridge.req.ino, id |-> binds + 1]
            /\ newest' = bridge.req.ino
            /\ bridge' = [bridge EXCEPT !.at = "native", !.got = binding']
            /\ UNCHANGED <<quarantined, seen>>
    /\ UNCHANGED <<queue, spent>> /\ OthersSame

\* update_wake of the native thread id; the seat guard is left
Native ==
    /\ bridge.at = "native"
    /\ GoOn("consume")
    /\ UNCHANGED <<queue, spent>> /\ StoreSame /\ OthersSame

\* thread/read or update_wake fails: the request is kept for the next pass, or, on a
\* runtime state error after the bind, refused
Defer ==
    /\ bridge.at \in {"bind", "native"}
    /\ Spend("fault", MaxFault)
    /\ NextPath \/ (bridge.at = "native" /\ GoOn("reject"))
    /\ UNCHANGED queue /\ StoreSame /\ OthersSame

\* _consume_bind_request: only the inode that was read is unlinked
Consume ==
    /\ bridge.at = "consume"
    /\ GuardFree
    /\ IF queue[bridge.rev] = bridge.req
       THEN /\ queue' = [queue EXCEPT ![bridge.rev] = NoRequest]
            /\ quarantined' = FALSE
            /\ NextPath
       ELSE /\ quarantined' = TRUE
            /\ GoOn("replaced")
            /\ UNCHANGED queue
    /\ UNCHANGED <<binding, binds, newest, seen, spent>> /\ OthersSame

\* mutant: the quarantine is in the bridge's memory only
QuarantineInMemory ==
    /\ bridge.at = "replaced"
    /\ seen' = queue[bridge.rev].ino
    /\ NextPath
    /\ UNCHANGED <<queue, binding, binds, quarantined, newest, spent>> /\ OthersSame

\* mutant: whatever is bound is removed
QuarantineAny ==
    /\ bridge.at = "replaced"
    /\ binding' = NoBinding
    /\ seen' = queue[bridge.rev].ino
    /\ NextPath
    /\ UNCHANGED <<queue, binds, quarantined, newest, spent>> /\ OthersSame

\* quarantine_binding_if_revision
Quarantine ==
    /\ bridge.at = "replaced"
    /\ binding' = IF binding = bridge.got THEN NoBinding ELSE binding
    /\ seen' = queue[bridge.rev].ino
    /\ NextPath
    /\ UNCHANGED <<queue, binds, quarantined, newest, spent>> /\ OthersSame

\* The exception handler: the request that was read is unlinked, a newer one is not
Reject ==
    /\ bridge.at = "reject"
    /\ GuardFree
    /\ queue' = IF queue[bridge.rev] = bridge.req
                THEN [queue EXCEPT ![bridge.rev] = NoRequest] ELSE queue
    /\ NextPath
    /\ UNCHANGED spent /\ StoreSame /\ OthersSame

\* The queue is done: the project is stepped unless it is in quarantine
Drained ==
    /\ bridge.at = "open" /\ bridge.todo = {}
    /\ bridge' = [BridgeStart EXCEPT !.at = IF quarantined THEN "drain" ELSE "wake"]
    /\ UNCHANGED <<queue, spent>> /\ StoreSame /\ OthersSame

-----------------------------------------------------------------------------
(* The bridge: a wake *)

\* step_project: there is a binding, and maybe mail
WakeRead ==
    /\ bridge.at = "wake"
    /\ \/ /\ binding # NoBinding
          /\ bridge' = [bridge EXCEPT !.at = "wake_guard", !.got = binding]
       \/ bridge' = BridgeStart
    /\ UNCHANGED <<queue, spent>> /\ StoreSame /\ OthersSame

WakeGuard ==
    /\ bridge.at = "wake_guard"
    /\ IF bridge.got.rev = lease THEN GoOn("wake_start") ELSE bridge' = BridgeStart
    /\ UNCHANGED <<queue, spent>> /\ StoreSame /\ OthersSame

\* The bound thread is woken in the store transaction, unless the binding changed
Wakes == bridge.at = "wake_start" /\ binding = bridge.got

WakeStart ==
    /\ bridge.at = "wake_start"
    /\ bridge' = BridgeStart
    /\ UNCHANGED <<queue, spent>> /\ StoreSame /\ OthersSame

\* The bridge dies and is started again, or reconnects to its app-server
Restart ==
    /\ Spend("restart", MaxRestart)
    /\ bridge' = BridgeStart
    /\ quarantined' = FALSE
    /\ UNCHANGED <<queue, binding, binds, newest, seen>> /\ OthersSame

BridgeStep == \/ ListQueue \/ Open \/ Guard \/ Bind \/ Native \/ Consume \/ Quarantine
              \/ Reject \/ Drained \/ WakeRead \/ WakeGuard \/ WakeStart

-----------------------------------------------------------------------------
(* rt-codex-wake bind and unbind, run in a turn of thread t *)

CommandBind ==
    /\ lease # 0
    /\ Spend("command", MaxCommand)
    /\ \E t \in Thread \ Unfit :
        binding' = [thread |-> t, rev |-> lease, ino |-> 0, id |-> binds + 1]
    /\ binds' = binds + 1
    /\ UNCHANGED <<queue, bridge, quarantined, newest, seen>> /\ OthersSame

CommandUnbind ==
    /\ binding # NoBinding
    /\ Spend("command", MaxCommand)
    /\ binding' = NoBinding
    /\ UNCHANGED <<queue, binds, bridge, quarantined, newest, seen>> /\ OthersSame

-----------------------------------------------------------------------------
Next ==
    \/ Claim \/ Release \/ Arm
    \/ \E h \in Hook : StartHook(h) \/ HookStep(h) \/ HookFault(h)
    \/ BridgeStep \/ Defer \/ Restart
    \/ CommandBind \/ CommandUnbind

Spec == Init /\ [][Next]_vars

\* flock(2) does not pass over a waiter for ever; the bridge runs while it is installed
FairSpec == Spec /\ WF_vars(BridgeStep) /\ \A h \in Hook : SF_vars(HookStep(h))

-----------------------------------------------------------------------------
(* Properties *)

\* The thread of an older request never replaces the thread of a younger one, whatever
\* the order in which hooks publish, leases change and the bridge reads, restarts and
\* replays (drain_bind_requests, bind_from_request).
BindsInOrder == [][newest' >= newest]_vars

\* A wake goes to the thread bound under the newest lease, and never to a thread that was
\* put into quarantine because its request had been replaced, not even after a restart
\* of the bridge (the comment on the one-iteration handoff in drain_bind_requests).
WakesNoReplacedThread ==
    Wakes => /\ binding.rev = leases
             /\ binding.ino # 0 => binding.ino >= seen

\* Without a command only the thread of the replaced request is unbound: what
\* rt-codex-wake bind writes for another thread between the bind and the quarantine
\* stays (quarantine_binding_if_revision).
OtherThreadStays ==
    [][binding # NoBinding /\ binding' = NoBinding /\ spent'["command"] = spent["command"] =>
            binding.thread = bridge.req.thread]_vars

\* A request that waits for the lease of the intent names the thread that is active in
\* the intent: the hooks publish in the order of their intent updates (run of
\* rt-codex-session-start).
QueueFollowsIntent ==
    (intent # NoIntent /\ GuardFree) =>
        LET r == queue[intent.rev]
        IN  r # NoRequest => r.thread = intent.active

\* The active thread of a launch is bound in the end, or the launch is over
SessionIsBound ==
    \A t \in Thread \ Unfit :
        (intent # NoIntent /\ intent.rev = lease /\ intent.active = t) ~>
            \/ binding # NoBinding /\ binding.rev = lease /\ binding.thread = t
               /\ ~quarantined
            \/ intent.rev # lease
            \/ intent # NoIntent /\ intent.active # t

\* Neither a hook nor the bridge waits for ever
NobodyWaits ==
    /\ []<>(bridge.at = "drain")
    /\ \A h \in Hook : hook[h].at # "idle" ~> hook[h].at = "idle"

\* A thread that stays bound does not stay in quarantine
BoundIsRouted == ~<>[](binding # NoBinding /\ binding.rev = lease /\ quarantined)

=============================================================================
