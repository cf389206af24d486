-------------------------- MODULE CodexBindingProofs --------------------------
(***************************************************************************)
(* Proofs about CodexBinding for any number of hooks, threads, leases,     *)
(* events, commands, faults and restarts: requests are bound in the order  *)
(* in which they were made, and no replaced thread is woken.               *)
(***************************************************************************)
EXTENDS CodexBinding, FiniteSetTheorems, TLAPS

\* Intents and hooks are of leases that were claimed, and a running hook has a thread.
RevisionInv ==
    /\ lease \in {0, leases}
    /\ intent.rev <= leases
    /\ \A h \in Hook : /\ hook[h].rev <= leases
                       /\ hook[h].at = "publish" => hook[h].rev >= 1
                       /\ hook[h].at # "idle" => hook[h].thread \in Thread

Running == {h \in Hook : hook[h].at # "idle"}

\* A hook makes one request at most.
CountInv ==
    /\ IsFiniteSet(Running)
    /\ events + Cardinality(Running) <= spent["hook"]
    /\ spent["hook"] <= MaxEvent

\* One hook is inside the guard, and no later lease has a request by then.
GuardInv ==
    \A h \in Hook :
        /\ HoldsGuard(h) => \A g \in Hook \ {h} : ~HoldsGuard(g)
        /\ hook[h].at = "publish" =>
             \A r \in 1..MaxLease : r > hook[h].rev => queue[r] = NoRequest

\* Requests are numbered in the order of their leases, and the one of the newest lease
\* is younger than all that was bound or put into quarantine.
QueueInv ==
    /\ newest <= events /\ seen <= events
    /\ \A r \in 1..MaxLease : queue[r] # NoRequest =>
         /\ r <= leases
         /\ queue[r].ino <= events
         /\ r = leases => queue[r].ino >= newest /\ queue[r].ino >= seen
         /\ \A s \in 1..MaxLease : s > r /\ queue[s] # NoRequest =>
              queue[r].ino < queue[s].ino

\* The same of the request the bridge has read, which was the one in the queue.
BridgeInv ==
    /\ \A r \in bridge.todo : queue[r] # NoRequest
    /\ bridge.at \in WithRequest =>
         /\ bridge.rev \in 1..leases /\ bridge.rev \notin bridge.todo
         /\ bridge.req.ino <= events
         /\ bridge.rev = leases => bridge.req.ino >= newest /\ bridge.req.ino >= seen
         /\ queue[bridge.rev] # NoRequest => queue[bridge.rev].ino >= bridge.req.ino
    /\ bridge.at \in {"bind", "native"} => bridge.rev = leases

\* Until the bridge has consumed its request, only a command changes the binding; and
\* no request older than the one that caused a quarantine stays bound.
BindingInv ==
    /\ bridge.at \in {"native", "consume", "replaced"} =>
         /\ bridge.got.thread = bridge.req.thread
         /\ binding = bridge.got \/ binding = NoBinding \/ binding.ino = 0
    /\ bridge.at \in {"wake_guard", "wake_start"} => bridge.got # NoBinding
    /\ bridge.at = "wake_start" => bridge.got.rev = leases
    /\ binding # NoBinding /\ binding.ino # 0 => binding.ino >= seen

IInv == /\ TypeOK
        /\ RevisionInv
        /\ CountInv
        /\ GuardInv
        /\ QueueInv
        /\ BridgeInv
        /\ BindingInv

-----------------------------------------------------------------------------
(* Steps *)

\* The steps of the launcher, of one hook, of the bridge, and of a command
LauncherStep == Claim \/ Release \/ Arm
AnyHookStep(h) == StartHook(h) \/ HookStep(h) \/ HookFault(h)
AnyBridgeStep == BridgeStep \/ Defer \/ Restart
CommandStep == CommandBind \/ CommandUnbind

\* No record stands for nothing by mistake.
LEMMA NothingIsNothing ==
    /\ NoRequest \notin Request /\ NoRequest.ino = 0
    /\ NoBinding \notin Binding /\ NoBinding.id = 0
    /\ NoIntent \notin Intent /\ NoIntent.rev = 0
BY DEF NoRequest, Request, NoBinding, Binding, NoIntent, Intent

\* The number of running hooks changes by one when a hook starts or ends.
LEMMA RunningCount ==
    ASSUME TypeOK, CountInv, NEW h \in Hook
    PROVE  /\ Cardinality(Running) \in Nat
           /\ hook[h].at = "idle" => /\ IsFiniteSet(Running \cup {h})
                                     /\ Cardinality(Running \cup {h}) = Cardinality(Running) + 1
           /\ hook[h].at # "idle" => /\ IsFiniteSet(Running \ {h})
                                     /\ Cardinality(Running \ {h}) = Cardinality(Running) - 1
<1>1. Cardinality(Running) \in Nat
  BY FS_CardinalityType DEF CountInv
<1>2. h \in Running <=> hook[h].at # "idle"
  BY DEF Running
<1> QED
  BY <1>1, <1>2, FS_AddElement, FS_RemoveElement DEF CountInv

\* The counters of the bounds stay natural numbers.
LEMMA SpendTypes ==
    ASSUME TypeOK, NEW k \in Kinds, NEW bound, Spend(k, bound)
    PROVE  spent' \in [Kinds -> Nat]
BY DEF Spend, TypeOK

\* Launcher and commands keep the types.
LEMMA TypesLauncher ==
    ASSUME IInv, LauncherStep \/ CommandStep
    PROVE  TypeOK'
<1> USE BindingAssumption, NothingIsNothing DEF IInv, TypeOK, RevisionInv
<1>1. CASE Claim \/ Release
  BY <1>1 DEF Claim, Release, BridgeSame
<1>2. CASE Arm
  BY <1>2 DEF Arm, BridgeSame, Intent
<1>3. CASE CommandBind
  <2>1. binding' \in Binding /\ binding'.id = binds + 1
    BY <1>3 DEF CommandBind, Binding
  <2>2. spent' \in [Kinds -> Nat]
    BY <1>3 DEF CommandBind, Spend, Kinds
  <2> QED
    BY <1>3, <2>1, <2>2 DEF CommandBind, OthersSame
<1>4. CASE CommandUnbind
  BY <1>4 DEF CommandUnbind, Spend, Kinds, OthersSame
<1> QED
  BY <1>1, <1>2, <1>3, <1>4 DEF LauncherStep, CommandStep

\* Hooks keep the types; the bound on the events is CountInv.
LEMMA TypesHook ==
    ASSUME IInv, NEW h \in Hook, AnyHookStep(h)
    PROVE  TypeOK'
<1> USE BindingAssumption, NothingIsNothing DEF IInv, TypeOK, RevisionInv, HookAt, Source, Kinds
<1>1. CASE StartHook(h)
  BY <1>1 DEF StartHook, Spend, BridgeSame
<1>2. CASE TakeGuard(h)
  BY <1>2, ZenonT(30) DEF TakeGuard, SetHook, BridgeSame
<1>3. CASE Ignore(h)
  BY <1>3 DEF Ignore, EndHook, IdleHook, BridgeSame
<1>4. CASE HookFault(h)
  <2>1. spent' \in [Kinds -> Nat]
    BY <1>4, SpendTypes DEF HookFault
  <2>2. hook' \in [Hook -> [at: HookAt, thread: Thread \cup {NoThread}, source: Source,
                          rev: 0..MaxLease]]
    BY <1>4 DEF HookFault, EndHook, IdleHook
  <2> QED
    BY <1>4, <2>1, <2>2 DEF HookFault, BridgeSame
<1>5. CASE Resolve(h)
  <2>1. intent \in Intent
    BY <1>5 DEF Resolve, Accepts
  <2>2. intent' \in Intent
    BY <1>5, <2>1 DEF Resolve, Intent
  <2>3. intent.rev \in 0..MaxLease
    BY <2>1 DEF Intent
  <2>4. hook' \in [Hook -> [at: HookAt, thread: Thread \cup {NoThread}, source: Source,
                          rev: 0..MaxLease]]
    BY <1>5, <2>3, ZenonT(30) DEF Resolve
  <2> QED
    BY <1>5, <2>2, <2>4 DEF Resolve, BridgeSame
<1>6. CASE Publish(h)
  <2>1. events + 1 <= MaxEvent
    <3>1. /\ Cardinality(Running) \in Nat /\ Cardinality(Running \ {h}) \in Nat
          /\ Cardinality(Running \ {h}) = Cardinality(Running) - 1
      BY <1>6, RunningCount, FS_CardinalityType DEF Publish
    <3>2. /\ events + Cardinality(Running) <= spent["hook"]
          /\ spent["hook"] <= MaxEvent /\ spent["hook"] \in Nat /\ events \in Nat
      BY DEF CountInv
    <3> QED
      BY <3>1, <3>2
  <2>2. hook' \in [Hook -> [at: HookAt, thread: Thread \cup {NoThread}, source: Source,
                          rev: 0..MaxLease]]
    BY <1>6 DEF Publish, EndHook, IdleHook
  <2>3. [thread |-> hook[h].thread, source |-> hook[h].source, ino |-> events + 1] \in Request
    <3>1. hook[h].thread \in Thread
      BY <1>6 DEF Publish
    <3> QED
      BY <3>1, <2>1 DEF Request
  <2>4. queue' \in [1..MaxLease -> Request \cup {NoRequest}]
    BY <1>6, <2>3 DEF Publish
  <2> QED
    BY <1>6, <2>1, <2>2, <2>4 DEF Publish, BridgeSame
<1> QED
  BY <1>1, <1>2, <1>3, <1>4, <1>5, <1>6 DEF AnyHookStep, HookStep

\* What the three ways to move the bridge do to its record.
LEMMA BridgeGoesOn ==
    ASSUME bridge \in Bridge, NEW a \in BridgeAt, GoOn(a)
    PROVE  /\ bridge' \in Bridge /\ bridge'.at = a
           /\ bridge'.todo = bridge.todo /\ bridge'.rev = bridge.rev
           /\ bridge'.req = bridge.req /\ bridge'.got = bridge.got
BY DEF GoOn, Bridge

LEMMA BridgeNextPath ==
    ASSUME bridge \in Bridge, NextPath
    PROVE  bridge' \in Bridge /\ bridge'.at = "open" /\ bridge'.todo = bridge.todo
<1>1. bridge' = [at |-> "open", todo |-> bridge.todo, rev |-> 0, req |-> NoRequest,
                got |-> NoBinding]
  BY DEF NextPath, Bridge
<1> QED
  BY <1>1, BindingAssumption DEF Bridge, BridgeAt

LEMMA BridgeStarts ==
    ASSUME NEW a \in BridgeAt, NEW S \in SUBSET (1..MaxLease)
    PROVE  /\ BridgeStart \in Bridge /\ BridgeStart.at = "drain" /\ BridgeStart.todo = {}
           /\ LET b == [BridgeStart EXCEPT !.at = a]
              IN  b \in Bridge /\ b.at = a /\ b.todo = {}
           /\ LET b == [BridgeStart EXCEPT !.at = a, !.todo = S]
              IN  b \in Bridge /\ b.at = a /\ b.todo = S
<1> USE BindingAssumption
<1>1. \A b : b = BridgeStart => b \in Bridge /\ b.at = "drain" /\ b.todo = {}
  BY DEF Bridge, BridgeAt, BridgeStart
<1>2. \A b : b = [BridgeStart EXCEPT !.at = a] => b \in Bridge /\ b.at = a /\ b.todo = {}
  BY DEF Bridge, BridgeStart
<1>3. ASSUME NEW b, b = [BridgeStart EXCEPT !.at = a, !.todo = S]
      PROVE  b \in Bridge /\ b.at = a /\ b.todo = S
  <2>1. b = [at |-> a, todo |-> S, rev |-> 0, req |-> NoRequest, got |-> NoBinding]
    BY <1>3 DEF BridgeStart
  <2> QED
    BY <2>1 DEF Bridge
<1> QED
  BY <1>1, <1>2, <1>3

\* The bridge keeps the types.
LEMMA TypesBridge ==
    ASSUME IInv, AnyBridgeStep
    PROVE  TypeOK'
<1> USE BindingAssumption, NothingIsNothing DEF IInv, TypeOK
<1>1. CASE ListQueue \/ Drained \/ WakeStart \/ Restart
  <2> DEFINE S == {r \in 1..MaxLease : queue[r] # NoRequest}
  <2>1. /\ {"open", "drain", "wake"} \subseteq BridgeAt
        /\ S \in SUBSET (1..MaxLease)
    BY DEF BridgeAt
  <2>2. bridge' \in {[BridgeStart EXCEPT !.at = "open", !.todo = S], BridgeStart,
                    [BridgeStart EXCEPT !.at = "drain"], [BridgeStart EXCEPT !.at = "wake"]}
    BY <1>1 DEF ListQueue, Drained, WakeStart, Restart
  <2> HIDE DEF S
  <2>3. \A a \in {"open", "drain", "wake"} :
          /\ BridgeStart \in Bridge /\ BridgeStart.at = "drain"
          /\ LET b == [BridgeStart EXCEPT !.at = a] IN b \in Bridge /\ b.at = a
          /\ LET b == [BridgeStart EXCEPT !.at = a, !.todo = S] IN b \in Bridge /\ b.at = a
    BY <2>1, BridgeStarts
  <2>4. bridge' \in Bridge /\ bridge'.at \in {"open", "drain", "wake"}
    BY <2>2, <2>3
  <2>5. spent' \in [Kinds -> Nat] /\ quarantined' \in BOOLEAN
    BY <1>1, SpendTypes DEF ListQueue, Drained, WakeStart, Restart, Kinds, StoreSame
  <2> QED
    BY <1>1, <2>4, <2>5 DEF ListQueue, Drained, WakeStart, Restart, StoreSame, OthersSame,
                            WithRequest
<1>2. CASE Open
  <2>1. PICK r \in bridge.todo : bridge' = [bridge EXCEPT !.at = "guard", !.todo = @ \ {r},
                                                         !.rev = r, !.req = queue[r]]
    BY <1>2 DEF Open
  <2>2. r \in 1..MaxLease /\ queue[r] \in Request
    BY <2>1 DEF BridgeInv, Bridge
  <2>3. bridge' = [at |-> "guard", todo |-> bridge.todo \ {r}, rev |-> r, req |-> queue[r],
                  got |-> bridge.got]
    BY <2>1 DEF Bridge
  <2>4. bridge' \in Bridge /\ bridge'.req # NoRequest
    BY <2>2, <2>3 DEF Bridge, BridgeAt
  <2> QED
    BY <1>2, <2>4 DEF Open, StoreSame, OthersSame
<1>3. CASE Guard \/ Native
  <2>1. bridge.at \in WithRequest /\ \E a \in {"bind", "reject", "consume"} : GoOn(a)
    BY <1>3 DEF Guard, Native, WithRequest
  <2>2. bridge' \in Bridge /\ bridge'.req = bridge.req
    BY <2>1, BridgeGoesOn DEF BridgeAt
  <2> QED
    BY <1>3, <2>1, <2>2 DEF Guard, Native, StoreSame, OthersSame
<1>4. CASE Bind
  <2>1. bridge.at \in WithRequest /\ bridge.rev \in 1..MaxLease /\ bridge.req \in Request
    BY <1>4 DEF Bind, Bridge, WithRequest, BridgeInv
  <2>2. CASE bridge.req.thread \in Unfit \/ Refuses
    <3>1. GoOn("reject") /\ StoreSame
      BY <1>4, <2>2 DEF Bind
    <3>2. bridge' \in Bridge /\ bridge'.req = bridge.req
      BY <3>1, BridgeGoesOn DEF BridgeAt
    <3> QED
      BY <1>4, <2>1, <3>1, <3>2 DEF Bind, StoreSame, OthersSame
  <2>3. CASE ~(bridge.req.thread \in Unfit \/ Refuses) /\ Replays
    <3>1. bridge' = [bridge EXCEPT !.at = "native", !.got = binding] /\ StoreSame
      BY <1>4, <2>3 DEF Bind
    <3>2. bridge' = [at |-> "native", todo |-> bridge.todo, rev |-> bridge.rev,
                    req |-> bridge.req, got |-> binding]
      BY <3>1 DEF Bridge
    <3>3. bridge' \in Bridge /\ bridge'.req = bridge.req
      BY <3>2 DEF Bridge, BridgeAt
    <3> QED
      BY <1>4, <2>1, <3>1, <3>3 DEF Bind, StoreSame, OthersSame
  <2>4. CASE ~(bridge.req.thread \in Unfit \/ Refuses) /\ ~Replays
    <3>1. /\ binds' = binds + 1
          /\ binding' = [thread |-> bridge.req.thread, rev |-> bridge.rev,
                         ino |-> bridge.req.ino, id |-> binds + 1]
          /\ newest' = bridge.req.ino
          /\ bridge' = [bridge EXCEPT !.at = "native", !.got = binding']
          /\ UNCHANGED <<quarantined, seen>>
      BY <1>4, <2>4 DEF Bind
    <3>2. binding' \in Binding /\ binding'.id = binds + 1 /\ newest' \in 0..MaxEvent
      BY <2>1, <3>1 DEF Binding, Request
    <3>3. bridge' = [at |-> "native", todo |-> bridge.todo, rev |-> bridge.rev,
                    req |-> bridge.req, got |-> binding']
      BY <3>1 DEF Bridge
    <3>4. bridge' \in Bridge /\ bridge'.req = bridge.req
      BY <3>2, <3>3 DEF Bridge, BridgeAt
    <3> QED
      BY <1>4, <2>1, <3>1, <3>2, <3>4 DEF Bind, OthersSame
  <2> QED
    BY <2>2, <2>3, <2>4
<1>5. CASE Defer
  <2>1. bridge.at \in WithRequest /\ (NextPath \/ GoOn("reject"))
    BY <1>5 DEF Defer, WithRequest
  <2>2. bridge' \in Bridge /\ (bridge'.at = "open" \/ bridge'.req = bridge.req)
    BY <2>1, BridgeGoesOn, BridgeNextPath DEF BridgeAt
  <2>3. spent' \in [Kinds -> Nat]
    BY <1>5, SpendTypes DEF Defer, Kinds
  <2> QED
    BY <1>5, <2>1, <2>2, <2>3 DEF Defer, StoreSame, OthersSame, WithRequest
<1>6. CASE Consume \/ Reject
  <2>1. bridge.at \in WithRequest /\ (NextPath \/ GoOn("replaced"))
    BY <1>6 DEF Consume, Reject, WithRequest
  <2>2. bridge' \in Bridge /\ (bridge'.at = "open" \/ bridge'.req = bridge.req)
    BY <2>1, BridgeGoesOn, BridgeNextPath DEF BridgeAt
  <2>3. queue' \in [1..MaxLease -> Request \cup {NoRequest}] /\ quarantined' \in BOOLEAN
    BY <1>6 DEF Consume, Reject, StoreSame
  <2> QED
    BY <1>6, <2>1, <2>2, <2>3 DEF Consume, Reject, StoreSame, OthersSame, WithRequest
<1>7. CASE Quarantine
  <2>1. bridge' \in Bridge /\ bridge'.at = "open"
    BY <1>7, BridgeNextPath DEF Quarantine
  <2>2. bridge.rev \in 1..MaxLease
    BY <1>7 DEF Quarantine, BridgeInv, WithRequest, Bridge
  <2>3. seen' \in 0..MaxEvent
    BY <1>7, <2>2 DEF Quarantine, Request
  <2> QED
    BY <1>7, <2>1, <2>3 DEF Quarantine, OthersSame, WithRequest
<1>8. CASE WakeRead
  <2>1. bridge' = BridgeStart \/
        /\ binding # NoBinding
        /\ bridge' = [bridge EXCEPT !.at = "wake_guard", !.got = binding]
    BY <1>8 DEF WakeRead
  <2>2. bridge' \in Bridge /\ bridge'.at \notin WithRequest
    <3>1. CASE bridge' = BridgeStart
      BY <3>1, BridgeStarts DEF BridgeStart, WithRequest, BridgeAt
    <3>2. CASE bridge' = [bridge EXCEPT !.at = "wake_guard", !.got = binding]
      <4>1. bridge' = [at |-> "wake_guard", todo |-> bridge.todo, rev |-> bridge.rev,
                      req |-> bridge.req, got |-> binding]
        BY <3>2 DEF Bridge
      <4> QED
        BY <4>1 DEF Bridge, BridgeAt, WithRequest
    <3> QED
      BY <2>1, <3>1, <3>2
  <2> QED
    BY <1>8, <2>2 DEF WakeRead, StoreSame, OthersSame
<1>9. CASE WakeGuard
  <2>1. bridge' = BridgeStart \/ GoOn("wake_start")
    BY <1>9 DEF WakeGuard
  <2>2. bridge' \in Bridge /\ bridge'.at \in {"drain", "wake_start"}
    <3>1. CASE bridge' = BridgeStart
      BY <3>1, BridgeStarts DEF BridgeAt
    <3>2. CASE GoOn("wake_start")
      BY <3>2, BridgeGoesOn DEF BridgeAt
    <3> QED
      BY <2>1, <3>1, <3>2
  <2> QED
    BY <1>9, <2>2 DEF WakeGuard, StoreSame, OthersSame, WithRequest
<1> QED
  BY <1>1, <1>2, <1>3, <1>4, <1>5, <1>6, <1>7, <1>8, <1>9 DEF AnyBridgeStep, BridgeStep

\* Any step
Step == LauncherStep \/ (\E h \in Hook : AnyHookStep(h)) \/ AnyBridgeStep \/ CommandStep

LEMMA KeepTypeOK == ASSUME IInv, Step PROVE TypeOK'
BY TypesLauncher, TypesHook, TypesBridge DEF Step

\* What a step of the bridge or of a command leaves alone.
LEMMA OthersKept ==
    ASSUME AnyBridgeStep \/ CommandStep
    PROVE  UNCHANGED <<lease, leases, intent, hook, events>>
BY DEF AnyBridgeStep, CommandStep, BridgeStep, ListQueue, Open, Guard, Bind, Native, Consume,
       Quarantine, Reject, Drained, WakeRead, WakeGuard, WakeStart, Defer, Restart,
       CommandBind, CommandUnbind, OthersSame

\* What a step of the launcher or of a hook leaves alone.
LEMMA BridgeKept ==
    ASSUME LauncherStep \/ \E h \in Hook : AnyHookStep(h)
    PROVE  UNCHANGED <<binding, binds, bridge, quarantined, newest, seen>>
BY DEF LauncherStep, AnyHookStep, HookStep, Claim, Release, Arm, StartHook, TakeGuard, Resolve,
       Ignore, Publish, HookFault, BridgeSame

LEMMA KeepRevisionInv == ASSUME IInv, Step PROVE RevisionInv'
<1> USE BindingAssumption, NothingIsNothing DEF IInv, TypeOK, RevisionInv
<1>1. CASE LauncherStep
  BY <1>1 DEF LauncherStep, Claim, Release, Arm, Intent
<1>2. CASE \E h \in Hook : AnyHookStep(h)
  <2>1. PICK h \in Hook : AnyHookStep(h)
    BY <1>2
  <2>2. CASE StartHook(h)
    BY <2>2 DEF StartHook
  <2>3. CASE TakeGuard(h)
    BY <2>3 DEF TakeGuard, SetHook
  <2>4. CASE Ignore(h) \/ Publish(h) \/ HookFault(h)
    <3>1. hook' = [hook EXCEPT ![h] = IdleHook]
      BY <2>4 DEF Ignore, Publish, HookFault, EndHook
    <3>2. IdleHook.rev = 0 /\ IdleHook.at = "idle"
      BY DEF IdleHook
    <3>3. UNCHANGED <<lease, leases, intent>>
      BY <2>4 DEF Ignore, Publish, HookFault
    <3> QED
      BY <3>1, <3>2, <3>3
  <2>5. CASE Resolve(h)
    <3>1. intent \in Intent /\ intent.rev = lease
      BY <2>5 DEF Resolve, Accepts
    <3>2. intent.rev >= 1 /\ intent.rev <= leases /\ intent'.rev = intent.rev
      BY <2>5, <3>1 DEF Resolve, Intent
    <3> QED
      BY <2>5, <3>2 DEF Resolve
  <2> QED
    BY <2>1, <2>2, <2>3, <2>4, <2>5 DEF AnyHookStep, HookStep
<1>3. CASE AnyBridgeStep \/ CommandStep
  BY <1>3, OthersKept
<1> QED
  BY <1>1, <1>2, <1>3 DEF Step

LEMMA KeepCountInv == ASSUME IInv, Step PROVE CountInv'
<1> USE BindingAssumption DEF IInv
<1>1. CASE \E h \in Hook : StartHook(h)
  <2>1. PICK h \in Hook : StartHook(h)
    BY <1>1
  <2>2. Running' = Running \cup {h}
    BY <2>1 DEF StartHook, Running, TypeOK
  <2>3. /\ IsFiniteSet(Running') /\ Cardinality(Running) \in Nat
        /\ Cardinality(Running') = Cardinality(Running) + 1
    BY <2>1, <2>2, RunningCount DEF StartHook
  <2>4. /\ events' = events /\ spent'["hook"] = spent["hook"] + 1
        /\ spent["hook"] < MaxEvent /\ spent["hook"] \in Nat
    BY <2>1 DEF StartHook, Spend, TypeOK, Kinds
  <2> QED
    BY <2>3, <2>4 DEF CountInv, TypeOK
<1>2. CASE \E h \in Hook : Ignore(h) \/ Publish(h) \/ HookFault(h)
  <2>1. PICK h \in Hook : Ignore(h) \/ Publish(h) \/ HookFault(h)
    BY <1>2
  <2>2. Running' = Running \ {h} /\ hook[h].at # "idle"
    BY <2>1 DEF Ignore, Publish, HookFault, EndHook, IdleHook, Running, TypeOK
  <2>3. /\ IsFiniteSet(Running') /\ Cardinality(Running) \in Nat
        /\ Cardinality(Running') = Cardinality(Running) - 1
    BY <2>2, RunningCount
  <2>4. /\ events' \in {events, events + 1} /\ spent'["hook"] = spent["hook"]
        /\ spent["hook"] \in Nat
    BY <2>1 DEF Ignore, Publish, HookFault, Spend, TypeOK, Kinds
  <2> QED
    BY <2>3, <2>4 DEF CountInv, TypeOK
<1>3. CASE \E h \in Hook : TakeGuard(h) \/ Resolve(h)
  <2>1. Running' = Running
    BY <1>3 DEF TakeGuard, Resolve, SetHook, Running, TypeOK
  <2> QED
    BY <1>3, <2>1 DEF TakeGuard, Resolve, CountInv
<1>4. CASE LauncherStep \/ AnyBridgeStep \/ CommandStep
  <2>1. hook' = hook /\ events' = events /\ Running' = Running
    BY <1>4, OthersKept DEF LauncherStep, Claim, Release, Arm, Running
  <2>2. spent'["hook"] = spent["hook"]
    BY <1>4 DEF LauncherStep, Claim, Release, Arm, AnyBridgeStep, CommandStep, BridgeStep,
       ListQueue, Open, Guard, Bind, Native, Consume, Quarantine, Reject, Drained, WakeRead,
       WakeGuard, WakeStart, Defer, Restart, CommandBind, CommandUnbind, Spend, TypeOK, Kinds
  <2> QED
    BY <2>1, <2>2 DEF CountInv
<1> QED
  BY <1>1, <1>2, <1>3, <1>4 DEF Step, AnyHookStep, HookStep

\* The bridge and the commands only take requests away.
LEMMA QueueShrinks ==
    ASSUME TypeOK, AnyBridgeStep \/ CommandStep, NEW r \in 1..MaxLease
    PROVE  queue'[r] \in {queue[r], NoRequest}
<1>1. queue' = queue \/ queue' = [queue EXCEPT ![bridge.rev] = NoRequest]
  BY DEF AnyBridgeStep, CommandStep, BridgeStep, ListQueue, Open, Guard, Bind, Native, Consume,
       Quarantine, Reject, Drained, WakeRead, WakeGuard, WakeStart, Defer, Restart,
       CommandBind, CommandUnbind
<1> QED
  BY <1>1 DEF TypeOK

LEMMA KeepGuardInv == ASSUME IInv, Step PROVE GuardInv'
<1> USE DEF IInv, TypeOK, GuardInv, HoldsGuard
<1>1. CASE LauncherStep
  BY <1>1 DEF LauncherStep, Claim, Release, Arm
<1>2. CASE AnyBridgeStep \/ CommandStep
  BY <1>2, OthersKept, QueueShrinks
<1>3. ASSUME NEW h \in Hook, AnyHookStep(h)
      PROVE  GuardInv'
  <2>1. CASE StartHook(h)
    BY <2>1 DEF StartHook
  <2>2. CASE TakeGuard(h)
    BY <2>2 DEF TakeGuard, SetHook, GuardFree
  <2>3. CASE Ignore(h) \/ HookFault(h)
    <3>1. /\ hook' = [hook EXCEPT ![h] = IdleHook] /\ IdleHook.at = "idle"
          /\ queue' = queue
      BY <2>3 DEF Ignore, HookFault, EndHook, IdleHook
    <3> QED
      BY <3>1
  <2>4. CASE Resolve(h)
    <3>1. intent \in Intent /\ intent.rev = lease
      BY <2>4 DEF Resolve, Accepts
    <3>2. intent.rev = leases
      BY <3>1, BindingAssumption DEF RevisionInv, Intent
    <3>3. \A r \in 1..MaxLease : r > leases => queue[r] = NoRequest
      BY BindingAssumption DEF QueueInv
    <3>4. /\ queue' = queue
          /\ hook' = [hook EXCEPT ![h].at = "publish", ![h].rev = leases]
      BY <2>4, <3>2 DEF Resolve
    <3>5. /\ hook'[h].at = "publish" /\ hook'[h].rev = leases
          /\ \A g \in Hook \ {h} : hook'[g] = hook[g]
      BY <3>4
    <3>6. \A g \in Hook \ {h} : ~HoldsGuard(g)
      BY <2>4 DEF Resolve
    <3> QED
      BY <3>3, <3>4, <3>5, <3>6
  <2>5. CASE Publish(h)
    <3>1. \A g \in Hook : ~HoldsGuard(g)'
      BY <2>5 DEF Publish, EndHook, IdleHook
    <3> QED
      BY <3>1
  <2> QED
    BY <1>3, <2>1, <2>2, <2>3, <2>4, <2>5 DEF AnyHookStep, HookStep
<1> QED
  BY <1>1, <1>2, <1>3 DEF Step

\* What a publication does to the queue.
LEMMA Published ==
    ASSUME IInv, NEW h \in Hook, Publish(h)
    PROVE  /\ hook[h].rev \in 1..leases /\ events' = events + 1
           /\ \A r \in 1..MaxLease :
                \/ queue'[r] = queue[r]
                \/ r = hook[h].rev /\ queue'[r].ino = events + 1 /\ queue'[r] # NoRequest
<1>1. hook[h].rev \in 1..leases /\ events' = events + 1
  BY BindingAssumption DEF IInv, Publish, RevisionInv, TypeOK
<1>2. events + 1 # 0
  BY BindingAssumption DEF IInv, TypeOK
<1>3. \A q : q = [thread |-> hook[h].thread, source |-> hook[h].source, ino |-> events + 1] =>
               q.ino = events + 1 /\ q # NoRequest
  BY <1>2, NothingIsNothing
<1> QED
  BY <1>1, <1>3 DEF Publish, IInv, TypeOK

LEMMA KeepQueueInv == ASSUME IInv, Step PROVE QueueInv'
<1> USE BindingAssumption, NothingIsNothing DEF IInv, TypeOK, QueueInv
<1>1. CASE LauncherStep
  <2>1. UNCHANGED <<queue, events, newest, seen>> /\ leases' \in {leases, leases + 1}
    BY <1>1, BridgeKept DEF LauncherStep, Claim, Release, Arm
  <2> QED
    BY <2>1
<1>2. ASSUME NEW h \in Hook, AnyHookStep(h)
      PROVE  QueueInv'
  <2>1. CASE ~Publish(h)
    <3>1. UNCHANGED <<leases, queue, events, newest, seen>>
      BY <1>2, <2>1, BridgeKept DEF AnyHookStep, HookStep, StartHook, TakeGuard, Resolve,
                                   Ignore, HookFault
    <3> QED
      BY <3>1
  <2>2. CASE Publish(h)
    <3>1. UNCHANGED <<leases, newest, seen>>
      BY <2>2 DEF Publish, BridgeSame
    <3>2. \A r \in 1..MaxLease : r > hook[h].rev => queue[r] = NoRequest
      BY <2>2 DEF Publish, GuardInv
    <3> DEFINE k == hook[h].rev
    <3>3. /\ k \in 1..leases /\ events' = events + 1
          /\ \A r \in 1..MaxLease :
               \/ queue'[r] = queue[r]
               \/ r = k /\ queue'[r].ino = events + 1 /\ queue'[r] # NoRequest
      BY <2>2, Published
    <3>4. \A r \in 1..MaxLease : queue[r] # NoRequest => queue[r].ino \in Nat
      BY DEF Request
    <3>5. \A r \in 1..MaxLease : r > k => queue'[r] = NoRequest
      BY <3>2, <3>3
    <3> HIDE DEF k
    <3>6. ASSUME NEW r \in 1..MaxLease, queue'[r] # NoRequest
          PROVE  /\ r <= leases' /\ queue'[r].ino <= events'
                 /\ r = leases' => queue'[r].ino >= newest' /\ queue'[r].ino >= seen'
                 /\ \A s \in 1..MaxLease : s > r /\ queue'[s] # NoRequest =>
                      queue'[r].ino < queue'[s].ino
      <4>1. CASE r = k
        <5>1. /\ r <= leases' /\ queue'[r].ino <= events'
              /\ r = leases' => queue'[r].ino >= newest' /\ queue'[r].ino >= seen'
          <6>1. CASE queue'[r] = queue[r]
            BY <3>1, <3>3, <3>4, <3>6, <6>1
          <6>2. CASE queue'[r].ino = events + 1
            BY <3>1, <3>3, <4>1, <6>2
          <6> QED
            BY <3>3, <6>1, <6>2
        <5> QED
          BY <3>5, <4>1, <5>1
      <4>2. CASE r # k
        <5>1. queue'[r] = queue[r]
          BY <3>3, <4>2
        <5>2. /\ r <= leases' /\ queue'[r].ino <= events'
              /\ r = leases' => queue'[r].ino >= newest' /\ queue'[r].ino >= seen'
          BY <3>1, <3>3, <3>4, <3>6, <5>1
        <5>3. ASSUME NEW s \in 1..MaxLease, s > r, queue'[s] # NoRequest
              PROVE  queue'[r].ino < queue'[s].ino
          <6>1. CASE queue'[s] = queue[s]
            BY <3>6, <5>1, <5>3, <6>1
          <6>2. CASE queue'[s].ino = events + 1
            BY <3>4, <3>6, <5>1, <6>2
          <6> QED
            BY <3>3, <6>1, <6>2
        <5> QED
          BY <5>2, <5>3
      <4> QED
        BY <4>1, <4>2
    <3> QED
      BY <3>1, <3>3, <3>6
  <2> QED
    BY <2>1, <2>2
<1>3. CASE AnyBridgeStep \/ CommandStep
  <2>1. /\ UNCHANGED <<leases, events>>
        /\ \A r \in 1..MaxLease : queue'[r] \in {queue[r], NoRequest}
    BY <1>3, OthersKept, QueueShrinks
  <2>2. CASE UNCHANGED <<newest, seen>>
    BY <2>1, <2>2
  <2>3. CASE Bind
    <3>1. /\ bridge.rev = leases /\ bridge.rev \in 1..MaxLease /\ bridge.req.ino <= events
          /\ queue[leases] # NoRequest => queue[leases].ino >= bridge.req.ino
      BY <2>3 DEF Bind, BridgeInv, WithRequest, Bridge
    <3>2. seen' = seen /\ newest' \in {newest, bridge.req.ino}
      BY <2>3 DEF Bind, StoreSame
    <3> QED
      BY <2>1, <3>1, <3>2
  <2>4. CASE Quarantine
    <3>1. bridge.rev \in 1..MaxLease /\ bridge.rev <= leases
      BY <2>4 DEF Quarantine, BridgeInv, WithRequest, Bridge
    <3>2. newest' = newest /\ seen' = queue[bridge.rev].ino
      BY <2>4 DEF Quarantine
    <3>3. queue[bridge.rev] = NoRequest => seen' = 0
      BY <3>2
    <3>4. \A r \in 1..MaxLease : queue[r] # NoRequest => queue[r].ino \in Nat
      BY DEF Request
    <3>5. seen' <= events'
      BY <2>1, <3>1, <3>2, <3>3
    <3>6. ASSUME NEW r \in 1..MaxLease, queue'[r] # NoRequest
          PROVE  /\ queue'[r] = queue[r]
                 /\ r = leases => queue'[r].ino >= seen'
      <4>1. queue'[r] = queue[r]
        BY <2>1, <3>6
      <4>2. CASE r = leases /\ queue[bridge.rev] # NoRequest
        <5>1. \A q, t \in 1..MaxLease : queue[q] # NoRequest /\ queue[t] # NoRequest /\ t > q
                                       => queue[q].ino < queue[t].ino
          OBVIOUS
        <5>2. queue[r] # NoRequest /\ bridge.rev <= r /\ bridge.rev \in 1..MaxLease
          BY <3>1, <3>6, <4>1, <4>2
        <5>3. r = bridge.rev \/ queue[bridge.rev].ino < queue[r].ino
          BY <4>2, <5>1, <5>2
        <5> QED
          BY <3>1, <3>2, <3>4, <3>6, <4>1, <4>2, <5>3
      <4>3. CASE queue[bridge.rev] = NoRequest
        BY <3>3, <3>4, <3>6, <4>1, <4>3
      <4> QED
        BY <4>1, <4>2, <4>3
    <3> QED
      BY <2>1, <3>2, <3>5, <3>6
  <2>5. Bind \/ Quarantine \/ UNCHANGED <<newest, seen>>
    BY <1>3 DEF AnyBridgeStep, CommandStep, BridgeStep, ListQueue, Open, Guard, Native,
       Consume, Reject, Drained, WakeRead, WakeGuard, WakeStart, Defer, Restart,
       CommandBind, CommandUnbind, StoreSame
  <2> QED
    BY <2>2, <2>3, <2>4, <2>5
<1> QED
  BY <1>1, <1>2, <1>3 DEF Step

LEMMA KeepBridgeInv == ASSUME IInv, Step PROVE BridgeInv'
<1> USE BindingAssumption, NothingIsNothing DEF IInv, TypeOK, BridgeInv
<1>1. CASE LauncherStep
  <2>1. UNCHANGED <<queue, events, newest, seen, bridge>> /\ leases' \in {leases, leases + 1}
    BY <1>1, BridgeKept DEF LauncherStep, Claim, Release, Arm
  <2>2. bridge.at \in {"bind", "native"} => leases' = leases
    BY <1>1 DEF LauncherStep, Claim, Release, Arm, SharesClaim
  <2> QED
    BY <2>1, <2>2
<1>2. ASSUME NEW h \in Hook, AnyHookStep(h)
      PROVE  BridgeInv'
  <2>1. CASE ~Publish(h)
    <3>1. UNCHANGED <<leases, queue, events, newest, seen, bridge>>
      BY <1>2, <2>1, BridgeKept DEF AnyHookStep, HookStep, StartHook, TakeGuard, Resolve,
                                   Ignore, HookFault
    <3> QED
      BY <3>1
  <2>2. CASE Publish(h)
    <3>1. UNCHANGED <<leases, newest, seen, bridge>>
      BY <2>2 DEF Publish, BridgeSame
    <3>2. /\ events' = events + 1
          /\ \A r \in 1..MaxLease :
               \/ queue'[r] = queue[r]
               \/ queue'[r].ino = events + 1 /\ queue'[r] # NoRequest
      BY <2>2, Published
    <3>3. \A r \in bridge.todo : r \in 1..MaxLease
      BY DEF Bridge
    <3>4. bridge.at \in WithRequest => bridge.rev \in 1..MaxLease /\ bridge.req.ino \in Nat
      BY DEF Bridge, Request
    <3> QED
      BY <3>1, <3>2, <3>3, <3>4
  <2> QED
    BY <2>1, <2>2
<1>3. CASE CommandStep
  BY <1>3, OthersKept DEF CommandStep, CommandBind, CommandUnbind
<1>4. CASE ListQueue \/ Drained \/ WakeStart \/ Restart
  <2> DEFINE S == {r \in 1..MaxLease : queue[r] # NoRequest}
  <2>1. {"open", "drain", "wake"} \subseteq BridgeAt /\ S \in SUBSET (1..MaxLease)
    BY DEF BridgeAt
  <2>2. /\ queue' = queue
        /\ bridge' \in {[BridgeStart EXCEPT !.at = "open", !.todo = S], BridgeStart,
                    [BridgeStart EXCEPT !.at = "drain"], [BridgeStart EXCEPT !.at = "wake"]}
    BY <1>4 DEF ListQueue, Drained, WakeStart, Restart
  <2>3. \A r \in S : queue[r] # NoRequest
    OBVIOUS
  <2> HIDE DEF S
  <2>4. \A a \in {"open", "drain", "wake"} :
          /\ BridgeStart.at = "drain" /\ BridgeStart.todo = {}
          /\ LET b == [BridgeStart EXCEPT !.at = a] IN b.at = a /\ b.todo = {}
          /\ LET b == [BridgeStart EXCEPT !.at = a, !.todo = S] IN b.at = a /\ b.todo = S
    BY <2>1, BridgeStarts
  <2>5. bridge'.at \in {"open", "drain", "wake"} /\ bridge'.todo \in {{}, S}
    BY <2>2, <2>4
  <2> QED
    BY <2>2, <2>3, <2>5 DEF WithRequest
<1>5. CASE Open
  <2>1. PICK r \in bridge.todo : bridge' = [bridge EXCEPT !.at = "guard", !.todo = @ \ {r},
                                                         !.rev = r, !.req = queue[r]]
    BY <1>5 DEF Open
  <2>2. /\ r \in 1..MaxLease /\ queue[r] # NoRequest /\ queue[r].ino \in Nat
        /\ UNCHANGED <<leases, queue, events, newest, seen>>
    BY <1>5, <2>1 DEF Bridge, Request, Open, StoreSame, OthersSame
  <2>3. /\ bridge'.at = "guard" /\ bridge'.todo = bridge.todo \ {r}
        /\ bridge'.rev = r /\ bridge'.req = queue[r]
    BY <2>1 DEF Bridge
  <2>4. /\ r <= leases /\ queue[r].ino <= events
        /\ r = leases => queue[r].ino >= newest /\ queue[r].ino >= seen
    BY <2>2 DEF QueueInv
  <2> QED
    BY <2>2, <2>3, <2>4
<1>6. CASE Guard \/ Native
  <2>1. bridge.at \in WithRequest /\ \E a \in {"bind", "reject", "consume"} : GoOn(a)
    BY <1>6 DEF Guard, Native, WithRequest
  <2>2. /\ bridge'.at \in {"bind", "reject", "consume"}
        /\ bridge'.todo = bridge.todo /\ bridge'.rev = bridge.rev /\ bridge'.req = bridge.req
    BY <2>1, BridgeGoesOn DEF BridgeAt
  <2>3. bridge'.at = "bind" => bridge.rev = leases
    BY <1>6, <2>1, <2>2, BridgeGoesOn DEF Guard, Native, RevisionInv, BridgeAt
  <2> QED
    BY <1>6, <2>1, <2>2, <2>3 DEF Guard, Native, StoreSame, OthersSame
<1>7. CASE Bind
  <2>1. /\ bridge.at \in WithRequest /\ bridge.rev = leases
        /\ UNCHANGED <<leases, queue, events, seen>>
        /\ newest' \in {newest, bridge.req.ino}
    BY <1>7 DEF Bind, WithRequest, StoreSame, OthersSame
  <2>2. \/ GoOn("reject")
        \/ \E b : bridge' = [bridge EXCEPT !.at = "native", !.got = b]
    BY <1>7 DEF Bind
  <2>3. /\ bridge'.at \in {"reject", "native"}
        /\ bridge'.todo = bridge.todo /\ bridge'.rev = bridge.rev /\ bridge'.req = bridge.req
    <3>1. CASE GoOn("reject")
      BY <3>1, BridgeGoesOn DEF BridgeAt
    <3>2. CASE \E b : bridge' = [bridge EXCEPT !.at = "native", !.got = b]
      BY <3>2 DEF Bridge
    <3> QED
      BY <2>2, <3>1, <3>2
  <2>4. bridge.req.ino \in Nat
    BY <2>1 DEF Bridge, Request
  <2> QED
    BY <2>1, <2>3, <2>4
<1>8. CASE Defer \/ Consume \/ Reject \/ Quarantine
  <2>1. /\ bridge.at \in WithRequest
        /\ NextPath \/ GoOn("reject") \/ (GoOn("replaced") /\ Consume /\ UNCHANGED queue)
        /\ queue' = queue \/ queue' = [queue EXCEPT ![bridge.rev] = NoRequest]
        /\ UNCHANGED <<leases, events, newest>>
        /\ Quarantine \/ UNCHANGED seen
    BY <1>8 DEF Defer, Consume, Reject, Quarantine, WithRequest, StoreSame, OthersSame
  <2>2. /\ bridge'.todo = bridge.todo
        /\ \/ bridge'.at = "open"
           \/ /\ bridge'.at \in {"reject", "replaced"} /\ ~NextPath
              /\ bridge'.rev = bridge.rev /\ bridge'.req = bridge.req
    <3>1. CASE NextPath
      BY <3>1, BridgeNextPath
    <3>2. CASE ~NextPath
      BY <2>1, <3>2, BridgeGoesOn DEF BridgeAt
    <3> QED
      BY <3>1, <3>2
  <2>3. \A r \in bridge.todo : queue'[r] # NoRequest
    BY <2>1 DEF Bridge
  <2>4. CASE bridge'.at = "open"
    BY <2>2, <2>3, <2>4 DEF WithRequest
  <2>5. CASE bridge'.at # "open"
    <3>1. seen' = seen
      BY <2>1, <2>2, <2>5 DEF Quarantine
    <3>2. bridge.rev \in 1..MaxLease
      BY <2>1 DEF Bridge
    <3>3. queue'[bridge.rev] \in {queue[bridge.rev], NoRequest}
      BY <2>1, <3>2
    <3> QED
      BY <2>1, <2>2, <2>3, <2>5, <3>1, <3>2, <3>3 DEF WithRequest
  <2> QED
    BY <2>4, <2>5
<1>9. CASE WakeRead \/ WakeGuard
  <2>1. \/ bridge' = BridgeStart
        \/ GoOn("wake_start")
        \/ \E b : bridge' = [bridge EXCEPT !.at = "wake_guard", !.got = b]
    BY <1>9 DEF WakeRead, WakeGuard
  <2>2. bridge'.at \in {"drain", "wake_start", "wake_guard"}
        /\ bridge'.todo \subseteq bridge.todo
    <3>1. CASE bridge' = BridgeStart
      BY <3>1, BridgeStarts DEF BridgeAt
    <3>2. CASE GoOn("wake_start")
      BY <3>2, BridgeGoesOn DEF BridgeAt
    <3>3. CASE \E b : bridge' = [bridge EXCEPT !.at = "wake_guard", !.got = b]
      BY <3>3 DEF Bridge
    <3> QED
      BY <2>1, <3>1, <3>2, <3>3
  <2> QED
    BY <1>9, <2>2 DEF WakeRead, WakeGuard, WithRequest
<1> QED
  BY <1>1, <1>2, <1>3, <1>4, <1>5, <1>6, <1>7, <1>8, <1>9 DEF Step, AnyBridgeStep, BridgeStep

LEMMA KeepBindingInv == ASSUME IInv, Step PROVE BindingInv'
<1> USE BindingAssumption, NothingIsNothing DEF IInv, TypeOK, BindingInv
<1>1. CASE LauncherStep \/ \E h \in Hook : AnyHookStep(h)
  <2>1. UNCHANGED <<binding, bridge, seen>>
    BY <1>1, BridgeKept
  <2>2. bridge.at = "wake_start" => leases' = leases
    BY <1>1 DEF LauncherStep, Claim, Release, Arm, SharesClaim, AnyHookStep, HookStep,
                StartHook, TakeGuard, Resolve, Ignore, Publish, HookFault
  <2> QED
    BY <2>1, <2>2
<1>2. CASE CommandStep
  <2>1. /\ UNCHANGED <<bridge, seen, leases>>
        /\ binding' = NoBinding \/ binding'.ino = 0
    BY <1>2, OthersKept DEF CommandStep, CommandBind, CommandUnbind
  <2> QED
    BY <2>1
<1>3. CASE ListQueue \/ Drained \/ WakeStart \/ Restart \/ Open \/ Reject
  <2>1. /\ UNCHANGED <<binding, seen>>
        /\ bridge'.at \in {"open", "drain", "wake", "guard"}
    <3>1. CASE ListQueue \/ Drained \/ WakeStart \/ Restart
      <4> DEFINE S == {r \in 1..MaxLease : queue[r] # NoRequest}
      <4>1. \E a \in {"open", "drain", "wake"} :
              \/ bridge' = BridgeStart \/ bridge' = [BridgeStart EXCEPT !.at = a]
              \/ bridge' = [BridgeStart EXCEPT !.at = a, !.todo = S]
        BY <3>1 DEF ListQueue, Drained, WakeStart, Restart
      <4> HIDE DEF S
      <4>2. PICK a \in {"open", "drain", "wake"} :
              \/ bridge' = BridgeStart \/ bridge' = [BridgeStart EXCEPT !.at = a]
              \/ bridge' = [BridgeStart EXCEPT !.at = a, !.todo = S]
        BY <4>1
      <4>3. \/ bridge' = [at |-> a, todo |-> S, rev |-> 0, req |-> NoRequest, got |-> NoBinding]
            \/ bridge' = [at |-> a, todo |-> {}, rev |-> 0, req |-> NoRequest, got |-> NoBinding]
            \/ bridge' = BridgeStart
        BY <4>2 DEF BridgeStart
      <4>4. bridge'.at \in {"open", "drain", "wake"}
        BY <4>3 DEF BridgeStart
      <4> QED
        BY <3>1, <4>4 DEF ListQueue, Drained, WakeStart, Restart, StoreSame
    <3>2. CASE Open
      BY <3>2 DEF Open, StoreSame, Bridge
    <3>3. CASE Reject
      BY <3>3, BridgeNextPath DEF Reject, StoreSame
    <3> QED
      BY <1>3, <3>1, <3>2, <3>3
  <2> QED
    BY <2>1
<1>4. CASE Guard \/ Native \/ Defer \/ Consume
  <2>1. /\ UNCHANGED <<binding, seen>>
        /\ NextPath \/ \E a \in {"bind", "reject", "consume", "replaced"} :
             GoOn(a) /\ (a \in {"consume", "replaced"} => bridge.at \in {"native", "consume"})
    BY <1>4 DEF Guard, Native, Defer, Consume, StoreSame
  <2>2. \/ bridge'.at \in {"open", "bind", "reject"}
        \/ /\ bridge'.at \in {"consume", "replaced"}
           /\ bridge'.got = bridge.got /\ bridge'.req = bridge.req
           /\ bridge.at \in {"native", "consume"}
    BY <2>1, BridgeGoesOn, BridgeNextPath DEF BridgeAt
  <2> QED
    BY <2>1, <2>2
<1>5. CASE Bind
  <2>1. /\ bridge.rev = leases /\ bridge.req.ino >= seen /\ seen' = seen
    BY <1>5 DEF Bind, BridgeInv, WithRequest, StoreSame
  <2>2. CASE GoOn("reject") /\ StoreSame
    <3>1. bridge'.at = "reject" /\ binding' = binding
      BY <2>2, BridgeGoesOn DEF BridgeAt, StoreSame
    <3> QED
      BY <2>1, <3>1
  <2>3. CASE ~(GoOn("reject") /\ StoreSame)
    <3>1. ~(bridge.req.thread \in Unfit \/ Refuses)
      BY <1>5, <2>3 DEF Bind
    <3>2. /\ bridge' = [bridge EXCEPT !.at = "native", !.got = binding']
          /\ binding' = binding \/ binding'.ino = bridge.req.ino
          /\ binding'.thread = bridge.req.thread
      <4>1. CASE Replays
        BY <1>5, <3>1, <4>1 DEF Bind, StoreSame, Replays
      <4>2. CASE ~Replays
        BY <1>5, <3>1, <4>2 DEF Bind
      <4> QED
        BY <4>1, <4>2
    <3>3. /\ bridge'.at = "native" /\ bridge'.got = binding'
          /\ bridge'.req = bridge.req
      BY <3>2 DEF Bridge
    <3> QED
      BY <2>1, <3>2, <3>3
  <2> QED
    BY <2>2, <2>3
<1>6. CASE Quarantine
  <2>1. bridge'.at = "open"
    BY <1>6, BridgeNextPath DEF Quarantine
  <2>2. binding' # NoBinding => binding' = binding /\ binding.ino = 0
    BY <1>6 DEF Quarantine
  <2> QED
    BY <2>1, <2>2
<1>7. CASE WakeRead
  <2>1. UNCHANGED <<binding, seen>>
    BY <1>7 DEF WakeRead, StoreSame
  <2>2. \/ bridge'.at = "drain"
        \/ bridge'.at = "wake_guard" /\ bridge'.got # NoBinding
    <3>1. CASE bridge' = BridgeStart
      BY <3>1 DEF BridgeStart
    <3>2. CASE bridge' # BridgeStart
      BY <1>7, <3>2 DEF WakeRead, Bridge
    <3> QED
      BY <3>1, <3>2
  <2> QED
    BY <2>1, <2>2
<1>8. CASE WakeGuard
  <2>1. UNCHANGED <<binding, seen, leases>> /\ bridge.got # NoBinding
    BY <1>8 DEF WakeGuard, StoreSame, OthersSame
  <2>2. \/ bridge'.at = "drain"
        \/ /\ bridge'.at = "wake_start" /\ bridge'.got = bridge.got
           /\ bridge.got.rev = lease
    <3>1. CASE bridge' = BridgeStart
      BY <3>1 DEF BridgeStart
    <3>2. CASE bridge' # BridgeStart
      BY <1>8, <3>2, BridgeGoesOn DEF WakeGuard, BridgeAt
    <3> QED
      BY <3>1, <3>2
  <2>3. bridge.got.rev # 0
    BY <2>1 DEF Bridge, Binding
  <2> QED
    BY <2>1, <2>2, <2>3 DEF RevisionInv
<1> QED
  BY <1>1, <1>2, <1>3, <1>4, <1>5, <1>6, <1>7, <1>8 DEF Step, AnyBridgeStep, BridgeStep

-----------------------------------------------------------------------------
(* Theorems *)

LEMMA InitIInv == Init => IInv
<1> SUFFICES ASSUME Init PROVE IInv
  OBVIOUS
<1> USE BindingAssumption, NothingIsNothing DEF Init
<1>1. bridge \in Bridge /\ bridge.at = "drain" /\ bridge.todo = {}
  BY BridgeStarts DEF BridgeAt
<1>2. TypeOK
  <2>1. hook \in [Hook -> [at: HookAt, thread: Thread \cup {NoThread}, source: Source,
                          rev: 0..MaxLease]]
    BY DEF IdleHook, HookAt, Source
  <2>2. queue \in [1..MaxLease -> Request \cup {NoRequest}] /\ spent \in [Kinds -> Nat]
    BY DEF Kinds
  <2>3. bridge.at \notin WithRequest /\ quarantined \in BOOLEAN
    BY <1>1 DEF WithRequest
  <2> QED
    BY <1>1, <2>1, <2>2, <2>3 DEF TypeOK
<1>3. CountInv
  <2>1. Running = {}
    BY DEF Running, IdleHook
  <2> QED
    BY <2>1, FS_EmptySet DEF CountInv, Kinds
<1>4. RevisionInv /\ GuardInv /\ QueueInv /\ BindingInv
  BY <1>1 DEF RevisionInv, GuardInv, HoldsGuard, QueueInv, BindingInv, IdleHook
<1>5. BridgeInv
  BY <1>1 DEF BridgeInv, WithRequest
<1> QED
  BY <1>2, <1>3, <1>4, <1>5 DEF IInv

LEMMA NextIsStep == Next => Step
BY DEF Next, Step, LauncherStep, AnyHookStep, AnyBridgeStep, CommandStep

LEMMA StepIInv == IInv /\ [Next]_vars => IInv'
<1> SUFFICES ASSUME IInv, [Next]_vars PROVE IInv'
  OBVIOUS
<1>1. CASE Step
  BY <1>1, KeepTypeOK, KeepRevisionInv, KeepCountInv, KeepGuardInv, KeepQueueInv, KeepBridgeInv,
     KeepBindingInv DEF IInv
<1>2. CASE UNCHANGED vars
  BY <1>2 DEF vars, IInv, TypeOK, RevisionInv, CountInv, Running, GuardInv, HoldsGuard,
              QueueInv, BridgeInv, BindingInv
<1> QED
  BY <1>1, <1>2, NextIsStep

\* The inductive invariant of hooks, queue, bridge and store.
THEOREM Invariant == Spec => []IInv
BY InitIInv, StepIInv, PTL DEF Spec

\* Every reachable state has its types; the bridge works on no request that is not there,
\* and the events stay within their bound.
THEOREM TypeCorrect == Spec => []TypeOK
<1>1. IInv => TypeOK
  BY DEF IInv
<1> QED
  BY <1>1, Invariant, PTL

\* WakesNoReplacedThread for any number of hooks, leases, restarts and commands: a wake is
\* for the newest lease and for no thread whose request was replaced (drain_bind_requests,
\* quarantine_binding_if_revision).
THEOREM NoReplacedThreadWoken == Spec => []WakesNoReplacedThread
<1>1. IInv => WakesNoReplacedThread
  BY DEF IInv, BindingInv, Wakes, WakesNoReplacedThread
<1> QED
  BY <1>1, Invariant, PTL

\* BindsInOrder: no older request is bound over a younger one (drain_bind_requests,
\* bind_from_request).
THEOREM BoundInOrder == Spec => BindsInOrder
<1>1. ASSUME IInv, [Next]_vars PROVE [newest' >= newest]_vars
  <2>1. CASE Bind
    <3>1. bridge.req.ino >= newest
      BY <1>1, <2>1 DEF Bind, IInv, BridgeInv, WithRequest
    <3> QED
      BY <1>1, <2>1, <3>1 DEF Bind, StoreSame, IInv, TypeOK
  <2>2. CASE ~Bind /\ Step
    <3>1. newest' = newest
      BY <2>2, BridgeKept DEF Step, AnyBridgeStep, CommandStep, BridgeStep, ListQueue, Open,
         Guard, Native, Consume, Quarantine, Reject, Drained, WakeRead, WakeGuard, WakeStart,
         Defer, Restart, CommandBind, CommandUnbind, StoreSame
    <3> QED
      BY <1>1, <3>1 DEF IInv, TypeOK
  <2> QED
    BY <1>1, <2>1, <2>2, NextIsStep
<1> QED
  BY <1>1, Invariant, PTL DEF Spec, BindsInOrder

\* OtherThreadStays: only the thread of the request that was replaced is unbound without a
\* command, so what rt-codex-wake bind wrote meanwhile stays.
THEOREM OthersNotUnbound == Spec => OtherThreadStays
<1> DEFINE Unbinds == /\ binding # NoBinding /\ binding' = NoBinding
                      /\ spent'["command"] = spent["command"]
<1>1. ASSUME IInv, [Next]_vars PROVE [Unbinds => binding.thread = bridge.req.thread]_vars
  <2>1. CASE Quarantine
    BY <1>1, <2>1 DEF Quarantine, IInv, BindingInv
  <2>2. CASE CommandStep
    BY <1>1, <2>2 DEF CommandStep, CommandBind, CommandUnbind, Spend, IInv, TypeOK, Kinds
  <2>3. CASE Bind
    <3>1. binding' = binding \/ binding'.id = binds + 1
      BY <2>3 DEF Bind, StoreSame
    <3>2. NoBinding.id # binds + 1
      BY <1>1, NothingIsNothing DEF IInv, TypeOK
    <3> QED
      BY <3>1, <3>2
  <2>4. CASE ~Quarantine /\ ~CommandStep /\ ~Bind /\ Step
    <3>1. binding' = binding
      BY <2>4, BridgeKept DEF Step, AnyBridgeStep, BridgeStep, ListQueue, Open,
         Guard, Native, Consume, Reject, Drained, WakeRead, WakeGuard, WakeStart,
         Defer, Restart, StoreSame
    <3> QED
      BY <3>1
  <2> QED
    BY <1>1, <2>1, <2>2, <2>3, <2>4, NextIsStep
<1> QED
  BY <1>1, Invariant, PTL DEF Spec, OtherThreadStays

-----------------------------------------------------------------------------
(* The intent and the queue *)

\* Requests and publications are of leases the intent has reached; one for the lease of
\* the intent comes after its thread is in the intent.  As long as nothing has failed, the
\* request that waits names the active thread, or the clear that replaces it is under way.
IntentInv ==
    /\ \A h \in Hook : hook[h].at = "publish" =>
         /\ intent # NoIntent /\ hook[h].rev <= intent.rev
         /\ hook[h].rev = intent.rev => hook[h].thread = intent.active
    /\ \A r \in 1..MaxLease : queue[r] # NoRequest => intent # NoIntent /\ r <= intent.rev
    /\ intent # NoIntent /\ intent.active = NoThread => queue[intent.rev] = NoRequest
    /\ intent # NoIntent /\ spent["fault"] = 0 =>
         \/ queue[intent.rev] = NoRequest
         \/ queue[intent.rev].thread = intent.active
         \/ \E h \in Hook : /\ hook[h].at = "publish" /\ hook[h].source = "clear"
                            /\ hook[h].rev = intent.rev

\* A hook publishes what it has resolved: over a waiting request only when it is a clear.
LEMMA IntentPublish == ASSUME IInv, IntentInv, NEW h \in Hook, Publish(h) PROVE IntentInv'
<1> USE BindingAssumption, NothingIsNothing DEF IInv, TypeOK
<1> DEFINE new == [thread |-> hook[h].thread, source |-> hook[h].source, ino |-> events + 1]
<1>1. /\ hook[h].at = "publish" /\ hook' = [hook EXCEPT ![h] = IdleHook]
      /\ UNCHANGED <<intent, spent>>
  BY DEF Publish, EndHook
<1>2. /\ hook'[h].at = "idle" /\ \A g \in Hook : g # h => hook'[g] = hook[g]
      /\ \A g \in Hook : g # h => hook[g].at # "publish"
  BY <1>1 DEF IdleHook, GuardInv, HoldsGuard
<1>3. /\ intent # NoIntent /\ intent \in Intent
      /\ hook[h].rev \in 1..MaxLease /\ hook[h].rev <= intent.rev
      /\ hook[h].rev = intent.rev => hook[h].thread = intent.active
      /\ hook[h].thread \in Thread
  BY <1>1 DEF IntentInv, RevisionInv
<1>4. /\ \A r \in 1..MaxLease : r # hook[h].rev => queue'[r] = queue[r]
      /\ queue'[hook[h].rev] = new \/ queue'[hook[h].rev] = queue[hook[h].rev]
      /\ queue'[hook[h].rev] = queue[hook[h].rev] =>
           queue'[hook[h].rev] = new \/ hook[h].source # "clear"
  BY <1>3 DEF Publish
<1>5. new.thread = hook[h].thread
  OBVIOUS
<1> HIDE DEF new
<1>6. intent.rev \in 1..MaxLease
  BY <1>3 DEF Intent
<1>7. CASE hook[h].rev = intent.rev
  <2>1. intent.active # NoThread
    BY <1>3, <1>7 DEF NoThread
  <2>2. queue'[intent.rev] = queue[intent.rev] =>
          queue'[intent.rev] = new \/ hook[h].source # "clear"
    BY <1>4, <1>7
  <2>3. spent["fault"] = 0 =>
          queue'[intent.rev] = NoRequest \/ queue'[intent.rev].thread = intent.active
    BY <1>1, <1>2, <1>3, <1>4, <1>5, <1>7, <2>2 DEF IntentInv
  <2> QED
    BY <1>1, <1>2, <1>3, <1>4, <1>6, <1>7, <2>1, <2>3 DEF IntentInv
<1>8. CASE hook[h].rev # intent.rev
  <2>1. queue'[intent.rev] = queue[intent.rev]
    BY <1>4, <1>6, <1>8
  <2> QED
    BY <1>1, <1>2, <1>3, <1>4, <1>6, <1>8, <2>1 DEF IntentInv
<1> QED
  BY <1>7, <1>8

\* A hook that resolves the intent is the first of the lease, of its thread, or a clear.
LEMMA IntentResolve == ASSUME IInv, IntentInv, NEW h \in Hook, Resolve(h) PROVE IntentInv'
<1> USE BindingAssumption, NothingIsNothing DEF IInv, TypeOK
<1>1. /\ hook[h].at = "resolve" /\ Accepts(h)
      /\ intent' = [intent EXCEPT !.active = hook[h].thread]
      /\ hook' = [hook EXCEPT ![h].at = "publish", ![h].rev = intent.rev]
      /\ UNCHANGED <<queue, spent>>
  BY DEF Resolve
<1>2. /\ intent \in Intent /\ intent.rev \in 1..MaxLease /\ hook[h].thread \in Thread
      /\ intent' \in Intent /\ intent'.rev = intent.rev /\ intent'.active = hook[h].thread
      /\ intent' # NoIntent /\ intent'.active # NoThread
  BY <1>1 DEF Accepts, Intent, RevisionInv, NoThread
<1>3. /\ hook'[h].at = "publish" /\ hook'[h].rev = intent.rev
      /\ hook'[h].thread = hook[h].thread /\ hook'[h].source = hook[h].source
      /\ \A g \in Hook : g # h => hook'[g] = hook[g] /\ hook[g].at # "publish"
  BY <1>1 DEF GuardInv, HoldsGuard
<1>4. \/ queue[intent.rev] = NoRequest
      \/ hook[h].source = "clear"
      \/ intent'.active = intent.active
  BY <1>1, <1>2 DEF Accepts, IntentInv
<1>5. \A g \in Hook : hook[g].at # "publish"
  BY <1>1, <1>3
<1>6. spent["fault"] = 0 =>
         \/ queue[intent.rev] = NoRequest
         \/ queue[intent.rev].thread = intent.active
  BY <1>2, <1>5 DEF IntentInv
<1>7. \A g \in Hook : hook'[g].at = "publish" =>
        /\ hook'[g].rev <= intent'.rev
        /\ hook'[g].rev = intent'.rev => hook'[g].thread = intent'.active
  BY <1>2, <1>3
<1>8. spent["fault"] = 0 =>
         \/ queue[intent.rev] = NoRequest
         \/ queue[intent.rev].thread = intent'.active
         \/ hook'[h].source = "clear"
  BY <1>3, <1>4, <1>6
<1>9. \A r \in 1..MaxLease : queue[r] # NoRequest => r <= intent'.rev
  BY <1>2 DEF IntentInv
<1> QED
  BY <1>1, <1>2, <1>3, <1>7, <1>8, <1>9 DEF IntentInv

\* Arming is for a lease that no hook and no request has seen.
LEMMA IntentArm == ASSUME IInv, IntentInv, Arm PROVE IntentInv'
<1> USE BindingAssumption, NothingIsNothing DEF IInv, TypeOK
<1>1. /\ lease # 0 /\ intent.rev # lease /\ intent' = [rev |-> lease, active |-> NoThread]
      /\ UNCHANGED <<queue, hook, spent>>
  BY DEF Arm
<1>2. /\ lease = leases /\ lease \in 1..MaxLease
      /\ intent # NoIntent => intent.rev \in 1..MaxLease /\ intent.rev < lease
  BY <1>1 DEF RevisionInv, Intent
<1>3. intent' # NoIntent /\ intent'.rev = lease
  BY <1>1, <1>2
<1>4. queue[lease] = NoRequest
  BY <1>2 DEF IntentInv
<1>5. \A h \in Hook : hook[h].at = "publish" => hook[h].rev < lease /\ hook[h].rev \in 0..MaxLease
  BY <1>2 DEF IntentInv
<1>6. \A h \in Hook : hook'[h].at = "publish" =>
        hook'[h].rev <= intent'.rev /\ hook'[h].rev # intent'.rev
  <2> SUFFICES ASSUME NEW h \in Hook, hook[h].at = "publish"
               PROVE  hook[h].rev <= lease /\ hook[h].rev # lease
    BY <1>1, <1>3
  <2> QED
    BY <1>2, <1>5
<1>7. \A r \in 1..MaxLease : queue'[r] # NoRequest => r <= intent'.rev
  <2> SUFFICES ASSUME NEW r \in 1..MaxLease, queue[r] # NoRequest PROVE r <= lease
    BY <1>1, <1>3
  <2>1. intent # NoIntent /\ r <= intent.rev
    BY DEF IntentInv
  <2> QED
    BY <1>2, <2>1
<1>8. queue'[intent'.rev] = NoRequest
  BY <1>1, <1>3, <1>4
<1> QED
  BY <1>3, <1>6, <1>7, <1>8 DEF IntentInv

LEMMA KeepIntentInv == ASSUME IInv, IntentInv, Step PROVE IntentInv'
<1> USE BindingAssumption, NothingIsNothing DEF IInv, TypeOK
<1>1. CASE Claim \/ Release
  BY <1>1 DEF Claim, Release, IntentInv
<1>2. CASE Arm
  BY <1>2, IntentArm
<1>3. ASSUME NEW h \in Hook, AnyHookStep(h) PROVE IntentInv'
  <2>1. CASE StartHook(h)
    <3>1. /\ hook[h].at = "idle" /\ hook'[h].at = "start"
          /\ \A g \in Hook : g # h => hook'[g] = hook[g]
          /\ UNCHANGED <<intent, queue>> /\ spent'["fault"] = spent["fault"]
      BY <2>1 DEF StartHook, Spend, Kinds
    <3> QED
      BY <3>1 DEF IntentInv
  <2>2. CASE TakeGuard(h) \/ Ignore(h)
    <3>1. /\ hook[h].at # "publish" /\ hook'[h].at # "publish"
          /\ \A g \in Hook : g # h => hook'[g] = hook[g]
          /\ UNCHANGED <<intent, queue, spent>>
      BY <2>2 DEF TakeGuard, SetHook, Ignore, EndHook, IdleHook
    <3> QED
      BY <3>1 DEF IntentInv
  <2>3. CASE HookFault(h)
    <3>1. /\ hook'[h].at = "idle" /\ \A g \in Hook : g # h => hook'[g] = hook[g]
          /\ UNCHANGED <<intent, queue>> /\ spent'["fault"] # 0
      BY <2>3 DEF HookFault, EndHook, IdleHook, Spend, Kinds
    <3> QED
      BY <3>1 DEF IntentInv
  <2>4. CASE Resolve(h) \/ Publish(h)
    BY <2>4, IntentResolve, IntentPublish
  <2> QED
    BY <1>3, <2>1, <2>2, <2>3, <2>4 DEF AnyHookStep, HookStep
<1>4. CASE AnyBridgeStep \/ CommandStep
  <2>1. UNCHANGED <<intent, hook>> /\ \A r \in 1..MaxLease : queue'[r] \in {queue[r], NoRequest}
    BY <1>4, OthersKept, QueueShrinks
  <2>2. spent["fault"] \in Nat /\ (spent'["fault"] = 0 => spent["fault"] = 0)
    <3>1. spent' = spent \/ \E k \in Kinds : spent' = [spent EXCEPT ![k] = @ + 1]
      BY <1>4 DEF AnyBridgeStep, CommandStep, BridgeStep, ListQueue, Open, Guard, Bind, Native,
         Consume, Quarantine, Reject, Drained, WakeRead, WakeGuard, WakeStart, Defer, Restart,
         CommandBind, CommandUnbind, Spend, Kinds
    <3> QED
      BY <3>1 DEF Kinds
  <2>3. intent # NoIntent => intent.rev \in 1..MaxLease
    BY DEF Intent
  <2> QED
    BY <2>1, <2>2, <2>3 DEF IntentInv
<1> QED
  BY <1>1, <1>2, <1>3, <1>4 DEF Step, LauncherStep

\* QueueFollowsIntent for any number of hooks, threads and leases, as long as no hook has
\* died or failed (the run of the property has MaxFault = 0): the hooks publish in the
\* order of their intent updates (run of rt-codex-session-start).
THEOREM QueueNamesActive == Spec => [](spent["fault"] = 0 => QueueFollowsIntent)
<1>1. Init => IntentInv
  BY DEF Init, IntentInv, IdleHook
<1>2. IInv /\ IntentInv /\ [Next]_vars => IntentInv'
  <2> SUFFICES ASSUME IInv, IntentInv, [Next]_vars PROVE IntentInv'
    OBVIOUS
  <2>1. CASE UNCHANGED vars
    BY <2>1 DEF vars, IntentInv
  <2> QED
    BY <2>1, NextIsStep, KeepIntentInv
<1>3. IntentInv => (spent["fault"] = 0 => QueueFollowsIntent)
  BY DEF IntentInv, QueueFollowsIntent, GuardFree, HoldsGuard
<1> QED
  BY <1>1, <1>2, <1>3, Invariant, PTL DEF Spec

=============================================================================
