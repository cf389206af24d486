------------------------------ MODULE WakeBridge ------------------------------
(***************************************************************************)
(* The passes of the wake bridge over one project: it reads new/, decides  *)
(* from the persisted phase whether the bound thread is woken, waits for   *)
(* or judges the wake turn, backs off, counts interrupted wakes, and stops *)
(* at a gate that only a human can pass.                                   *)
(*                                                                         *)
(* The bridge is one thread, but it holds a copy of the store (mem) over   *)
(* calls to the app-server, during which turns start and end, mail comes   *)
(* and goes, and rt-codex-wake bind or unbind writes the store (disk).     *)
(* Every step below is one call, one transaction or one save.              *)
(***************************************************************************)
EXTENDS Naturals, Sequences, FiniteSets, Functions

CONSTANTS
    Thread,       \* native thread ids
    Fresh,        \* the threads that have had no turn at first
    Mail,         \* the messages that may arrive, without quiet acknowledgements
    Ask,          \* ids of the server's requests for a human decision
    Limit,        \* INTERRUPTED_BREAKER_LIMIT, 3 in the code
    Window,       \* turns that thread/turns/list returns, 20 in the code
    MaxTurn,      \* bound: turns
    MaxEvent      \* bound: binds, unbinds, user turns, human requests, failed calls, lost
                  \* connections, untrusted hooks and malformed entries, all together

ASSUME BridgeAssumption ==
    /\ IsFiniteSet(Mail) /\ Fresh \subseteq Thread
    /\ {Limit, Window} \subseteq Nat \ {0}
    /\ {MaxTurn, MaxEvent} \subseteq Nat

VARIABLES
    disk,         \* rt-codex-wake-state.json: the binding and the state of the project
    mem,          \* StateStore.data, the bridge's copy of it
    binds,        \* bindings written so far; a bindingRevision
    bridge,       \* where the bridge is, and its local variables
    conn,         \* what the bridge remembers as long as its connection lasts
    buffer,       \* notifications the bridge has not drained
    turns,        \* the turns of the app-server, the oldest first
    asked,        \* asked[a]: the request a
    new,          \* the mail in new/
    arrived,      \* the mail that has arrived
    malformed,    \* there is an entry in new/ that pending_generation refuses
    bound,        \* history: the binding that the last bind or unbind made
    latched,      \* history: the source of the last NEEDS_HUMAN, until it is recovered
    streak,       \* history: the wakes of one generation and thread in a row
    spent         \* events so far

vars == <<disk, mem, binds, bridge, conn, buffer, turns, asked, new, arrived, malformed,
          bound, latched, streak, spent>>

-----------------------------------------------------------------------------
(* Types *)

NoThread == "none"
Turn == 1..MaxTurn
Binding == [thread: Thread, id: Nat \ {0}]
NoBinding == [id |-> 0]

\* lastWakeGeneration, lastWakeTurnId, lastWakeThreadId, lastWakeBindingRevision
Wake == [gen: SUBSET Mail, turn: Turn, thread: Thread, id: Nat]
NoWake == [turn |-> 0]

Breaker == [gen: SUBSET Mail, thread: Thread, count: Nat \ {0}]
NoBreaker == [count |-> 0]

Phase == {"EMPTY", "STARTING", "WAKE_ACTIVE", "WAIT_BUSY", "BACKOFF", "IDENTITY_ERROR",
          "NEEDS_HUMAN", "BIND_QUARANTINED"}

\* asks: pendingHumanRequests; late: retryAt is in the future
ProjectState == [phase: Phase, wake: Wake \cup {NoWake}, breaker: Breaker \cup {NoBreaker},
                 asks: SUBSET [ask: Ask, turn: Turn], late: BOOLEAN]

EmptyState == [phase |-> "EMPTY", wake |-> NoWake, breaker |-> NoBreaker, asks |-> {},
               late |-> FALSE]

Store == [binding: Binding \cup {NoBinding}, st: ProjectState]

Message == [kind: {"completed"}, turn: Turn]
           \cup [kind: {"request"}, ask: Ask, turn: Turn, named: BOOLEAN]
           \cup [kind: {"resolved"}, ask: Ask]

Place == {"idle", "consume", "resume", "check", "terminal", "latch",
          "clear", "trust", "human", "giveup", "ready", "wake", "start", "starting",
          "started", "error"}

(* msgs: the drained notifications; gen: the generation of the pass; backing: the pass
   may only resume; binding, wake: what it has read; end: how the wake turn ended;
   breaker, turn: for the latch; error: what is recorded; expect: under which binding,
   0 for any *)
Local == [at: Place, msgs: Seq(Message), gen: SUBSET Mail, backing: BOOLEAN,
          binding: Binding \cup {NoBinding}, wake: Wake \cup {NoWake},
          end: {"", "completed", "interrupted", "unknown", "changed"},
          breaker: Breaker \cup {NoBreaker}, turn: 0..MaxTurn,
          error: {"", "BACKOFF", "IDENTITY_ERROR"}, expect: Nat]

Idle == [at |-> "idle", msgs |-> <<>>, gen |-> {}, backing |-> FALSE,
         binding |-> NoBinding, wake |-> NoWake, end |-> "", breaker |-> NoBreaker,
         turn |-> 0, error |-> "", expect |-> 0]

\* resumed, attempted, quarantined: self.resumed, resume_attempted and bind_quarantined;
\* done: the turns of completions
Connection == [resumed: Thread \cup {NoThread}, attempted: BOOLEAN, quarantined: BOOLEAN,
               active: SUBSET Thread, completed: SUBSET Thread, subscribed: SUBSET Thread,
               done: SUBSET Turn]

NewConnection == [resumed |-> NoThread, attempted |-> FALSE, quarantined |-> FALSE,
                  active |-> {}, completed |-> {}, subscribed |-> {}, done |-> {}]

\* "completed" stands for "failed" too: the bridge tells only "interrupted" apart
TurnRecord == [thread: Thread, status: {"running", "completed", "interrupted"}]
Kinds == {"bind", "user", "ask", "error", "lost", "gate", "malformed"}

\* Else gen, the generation; turn, the last turn of the row; n, how many of its turns the
\* bridge has on record. The reply to turn/start may be lost: such a turn is in the row and
\* not in n
NoStreak == [n |-> 0, turn |-> 0]

\* The types, a wake record while a wake is judged, and judged turns that have ended
TypeOK ==
    /\ disk \in Store /\ mem \in Store
    /\ binds \in Nat /\ disk.binding.id <= binds
    /\ bridge \in Local
    /\ bridge.at \in {"check", "terminal", "latch", "clear", "trust", "giveup"} =>
        bridge.wake # NoWake
    /\ bridge.end \in {"completed", "interrupted"} =>
        turns[bridge.wake.turn].status = bridge.end
    /\ conn \in Connection
    /\ buffer \in Seq(Message)
    /\ turns \in Seq(TurnRecord) /\ Len(turns) <= MaxTurn
    /\ asked \in [Ask -> [state: {"none", "open", "resolved"}, turn: 0..MaxTurn]]
    /\ new \subseteq arrived /\ arrived \subseteq Mail
    /\ malformed \in BOOLEAN
    /\ latched \in {"", "hook_trust", "server_request", "interrupted_breaker"}
    /\ bound \in Binding \cup {NoBinding}
    /\ spent \in [Kinds -> Nat]

\* The project has just been bound, to a thread that has had turns
Init ==
    /\ binds = 1
    /\ \E t \in Thread \ Fresh : bound = [thread |-> t, id |-> 1]
    /\ disk = [binding |-> bound, st |-> EmptyState]
    /\ mem = disk
    /\ bridge = Idle /\ conn = NewConnection /\ buffer = <<>>
    /\ turns = <<>>
    /\ asked = [a \in Ask |-> [state |-> "none", turn |-> 0]]
    /\ new = {} /\ arrived = {} /\ malformed = FALSE
    /\ latched = "" /\ streak = NoStreak
    /\ spent = [k \in Kinds |-> 0]

Spend(k) ==
    /\ SumFunctionOnSet(spent, Kinds) < MaxEvent
    /\ spent' = [spent EXCEPT ![k] = @ + 1]

-----------------------------------------------------------------------------
(* The app-server *)

Running(i) == turns[i].status = "running"

Active(t) == \E i \in DOMAIN turns : turns[i].thread = t /\ Running(i)

Open(i) == \E a \in Ask : asked[a].turn = i /\ asked[a].state = "open"

\* thread/resume finds a rollout
HasRollout(t) == t \notin Fresh \/ \E i \in DOMAIN turns : turns[i].thread = t

\* thread/turns/list still knows the turn
Listed(i) ==
    Cardinality({j \in DOMAIN turns : j > i /\ turns[j].thread = turns[i].thread}) < Window

\* Only a thread that was resumed on this connection is notified of
Notify(i, message) ==
    buffer' = IF turns[i].thread \in conn.subscribed THEN Append(buffer, message) ELSE buffer

StoreSame == UNCHANGED <<disk, mem, binds, bound, latched, streak>>
ServerSame == UNCHANGED <<turns, asked, buffer>>
MailSame == UNCHANGED <<new, arrived, malformed>>

UserTurn(t) ==
    /\ Len(turns) < MaxTurn /\ ~Active(t)
    /\ Spend("user")
    /\ turns' = Append(turns, [thread |-> t, status |-> "running"])
    /\ UNCHANGED <<bridge, conn, asked, buffer>> /\ StoreSame /\ MailSame

\* A turn that waits for a human does not complete
EndTurn(i) ==
    /\ Running(i)
    /\ \E s \in IF Open(i) THEN {"interrupted"} ELSE {"completed", "interrupted"} :
        turns' = [turns EXCEPT ![i].status = s]
    /\ Notify(i, [kind |-> "completed", turn |-> i])
    /\ UNCHANGED <<bridge, conn, asked, spent>> /\ StoreSame /\ MailSame

\* MCP elicitations may come without a turn id
Request(i, a) ==
    /\ Running(i) /\ asked[a].state = "none"
    /\ Spend("ask")
    /\ asked' = [asked EXCEPT ![a] = [state |-> "open", turn |-> i]]
    /\ \E named \in BOOLEAN :
        Notify(i, [kind |-> "request", ask |-> a, turn |-> i, named |-> named])
    /\ UNCHANGED <<bridge, conn, turns>> /\ StoreSame /\ MailSame

Resolve(a) ==
    /\ asked[a].state = "open" /\ Running(asked[a].turn)
    /\ asked' = [asked EXCEPT ![a] = [state |-> "resolved", turn |-> 0]]
    /\ Notify(asked[a].turn, [kind |-> "resolved", ask |-> a])
    /\ UNCHANGED <<bridge, conn, turns, spent>> /\ StoreSame /\ MailSame

-----------------------------------------------------------------------------
(* The inbox *)

Arrive ==
    /\ \E m \in Mail \ arrived : new' = new \cup {m} /\ arrived' = arrived \cup {m}
    /\ UNCHANGED <<malformed, bridge, conn, spent>> /\ StoreSame /\ ServerSame

\* A turn archives mail
DrainMail ==
    /\ \E i \in DOMAIN turns : Running(i)
    /\ \E m \in new : new' = new \ {m}
    /\ UNCHANGED <<arrived, malformed, bridge, conn, spent>> /\ StoreSame /\ ServerSame

\* A file that is no mail, or mail for somebody else, comes or goes
Malform ==
    /\ malformed' = ~malformed
    /\ IF malformed THEN UNCHANGED spent ELSE Spend("malformed")
    /\ UNCHANGED <<new, arrived, bridge, conn>> /\ StoreSame /\ ServerSame

-----------------------------------------------------------------------------
(* The store *)

\* A transaction holds the lock of the store while turn/start is under way
StoreFree == bridge.at \notin {"starting", "started"}

\* bind and bind_from_request start the project afresh
Rebind(t) ==
    /\ binds' = binds + 1
    /\ bound' = [thread |-> t, id |-> binds + 1]
    /\ disk' = [binding |-> bound', st |-> EmptyState]
    /\ latched' = "" /\ streak' = NoStreak

\* rt-codex-wake bind
CommandBind(t) ==
    /\ StoreFree
    /\ Spend("bind")
    /\ Rebind(t)
    /\ UNCHANGED <<mem, bridge, conn>> /\ ServerSame /\ MailSame

\* rt-codex-wake unbind
Unbind ==
    /\ StoreFree /\ disk.binding # NoBinding
    /\ Spend("bind")
    /\ bound' = NoBinding
    /\ disk' = [binding |-> NoBinding, st |-> EmptyState]
    /\ latched' = "" /\ streak' = NoStreak
    /\ UNCHANGED <<mem, binds, bridge, conn>> /\ ServerSame /\ MailSame

\* mutant: the binding of the bridge's copy is written
SaveBinding(st) ==
    /\ disk' = [binding |-> mem.binding, st |-> st]
    /\ mem' = disk'

\* save: the binding on the disk stays, and when it is not the one of the copy the state
\* on the disk stays too
Save(st) ==
    /\ disk' = [binding |-> disk.binding,
                st |-> IF disk.binding \in {mem.binding, NoBinding} THEN st ELSE disk.st]
    /\ mem' = disk'

\* The end of a transaction that has reloaded the store and made st of the state
Flush(st) ==
    /\ disk' = [disk EXCEPT !.st = st]
    /\ mem' = disk'

\* The binding on the disk is the one that was expected; its revision tells its thread
BoundAs(id) == disk.binding.id = id

-----------------------------------------------------------------------------
(* The bridge: step and consume_messages *)

Go(place) == bridge' = [bridge EXCEPT !.at = place]

Done == bridge' = Idle

HistorySame == UNCHANGED <<binds, bound, latched, streak>>
OutsideSame == ServerSame /\ MailSame

\* An exception: error and expected_binding go to _record_project_error
Fails(error, expect) ==
    bridge' = [bridge EXCEPT !.at = "error", !.error = error, !.expect = expect]

\* A call is refused (RpcError), or its answer or the lease is (IdentityError)
CallFails(expect) ==
    /\ Spend("error")
    /\ \E error \in {"BACKOFF", "IDENTITY_ERROR"} : Fails(error, expect)

\* What the bridge makes of a request: step pops resumed when the binding has changed
Handles(quarantined) ==
    conn' \in {[conn EXCEPT !.quarantined = quarantined],
               [conn EXCEPT !.quarantined = quarantined, !.resumed = NoThread,
                            !.attempted = FALSE]}

\* drain_bind_requests (module CodexBinding)
DrainBindRequests ==
    \* No request, or one that is rejected or deferred
    \/ mem' = disk /\ UNCHANGED <<disk, binds, bound, latched, streak, conn, spent>>
    \* One for the binding that is there
    \/ /\ disk.binding # NoBinding
       /\ mem' = disk
       /\ conn' = [conn EXCEPT !.quarantined = FALSE]
       /\ UNCHANGED <<disk, binds, bound, latched, streak, spent>>
    \* One that is bound; or it was replaced, and rt-codex-wake bind comes before the quarantine
    \/ /\ Spend("bind")
       /\ \E t \in Thread : Rebind(t)
       /\ mem' = disk'
       /\ \E quarantined \in BOOLEAN : Handles(quarantined)
    \* One that was replaced: quarantine_binding_if_revision
    \/ /\ Spend("bind")
       /\ bound' = NoBinding
       /\ disk' = [binding |-> NoBinding,
                   st |-> [EmptyState EXCEPT !.phase = "BIND_QUARANTINED"]]
       /\ mem' = disk'
       /\ latched' = "" /\ streak' = NoStreak
       /\ Handles(TRUE)
       /\ UNCHANGED binds

\* drain_notifications, reload and drain_bind_requests
Step ==
    /\ bridge.at = "idle"
    /\ bridge' = [Idle EXCEPT !.at = "consume", !.msgs = buffer]
    /\ buffer' = <<>>
    /\ DrainBindRequests
    /\ UNCHANGED <<turns, asked>> /\ MailSame

\* The message at hand, and the ones behind it
Message1 == Head(bridge.msgs)

NextMessage == bridge' = [bridge EXCEPT !.msgs = Tail(@)]

ConsumeCompleted ==
    /\ bridge.at = "consume" /\ bridge.msgs # <<>>
    /\ Message1.kind = "completed"
    /\ conn' = [conn EXCEPT !.completed = @ \cup {turns[Message1.turn].thread},
                            !.done = @ \cup {Message1.turn}]
    /\ NextMessage
    /\ UNCHANGED <<disk, mem, spent>> /\ HistorySame /\ OutsideSame

\* _record_human_request: only of the wake turn that is on record
Concerns(store, message) ==
    /\ store.binding # NoBinding /\ store.st.wake # NoWake
    /\ turns[message.turn].thread = store.binding.thread
    /\ store.st.wake.thread = store.binding.thread
    /\ message.named => message.turn = store.st.wake.turn

RecordHumanRequest ==
    /\ bridge.at = "consume" /\ bridge.msgs # <<>>
    /\ Message1.kind = "request"
    /\ Flush(IF Concerns(disk, Message1)
             THEN [disk.st EXCEPT !.asks = @ \cup {[ask |-> Message1.ask,
                                                    turn |-> disk.st.wake.turn]}]
             ELSE disk.st)
    /\ NextMessage
    /\ UNCHANGED <<conn, spent>> /\ HistorySame /\ OutsideSame

ResolveHumanRequest ==
    /\ bridge.at = "consume" /\ bridge.msgs # <<>>
    /\ Message1.kind = "resolved"
    /\ Flush([disk.st EXCEPT !.asks = {a \in @ : a.ask # Message1.ask}])
    /\ NextMessage
    /\ UNCHANGED <<conn, spent>> /\ HistorySame /\ OutsideSame

-----------------------------------------------------------------------------
(* The bridge: step_project *)

Scans == bridge.at = "consume" /\ bridge.msgs = <<>>

\* step skips the project, or step_project returns at once
Rests == \/ conn.quarantined
         \/ mem.st.phase = "BIND_QUARANTINED"
         \/ mem.st.phase = "IDENTITY_ERROR" /\ mem.st.late

\* The bound thread has not been resumed on this connection
NeedsResume == /\ mem.binding # NoBinding /\ conn.resumed # mem.binding.thread
               /\ ~conn.attempted

\* mutant: the latch is not looked at
WaitsNotLatched == mem.st.late /\ ~NeedsResume

\* There is mail, and the pass ends all the same
Waits == mem.st.phase = "NEEDS_HUMAN" \/ (mem.st.late /\ ~NeedsResume)

ScanRests ==
    /\ Scans /\ Rests
    /\ Done
    /\ UNCHANGED <<disk, mem, conn, spent>> /\ HistorySame /\ OutsideSame

\* pending_generation raises
ScanRefuses ==
    /\ Scans /\ ~Rests /\ malformed
    /\ Fails("IDENTITY_ERROR", 0)
    /\ UNCHANGED <<disk, mem, conn, spent>> /\ HistorySame /\ OutsideSame

\* Nothing in new/: whatever was on record is cleared
ScanEmpty ==
    /\ Scans /\ ~Rests /\ ~malformed /\ new = {}
    /\ Save(EmptyState)
    /\ latched' = "" /\ streak' = NoStreak
    /\ Done
    /\ UNCHANGED <<conn, binds, bound, spent>> /\ OutsideSame

ScanPending ==
    /\ Scans /\ ~Rests /\ ~malformed /\ new # {}
    /\ IF Waits THEN Done
       ELSE bridge' = [bridge EXCEPT !.at = "resume", !.gen = new, !.backing = mem.st.late,
                                     !.binding = mem.binding, !.wake = mem.st.wake]
    /\ UNCHANGED <<disk, mem, conn, spent>> /\ HistorySame /\ OutsideSame

\* The thread is there: the pass goes on unless it backs off
Resumed == IF bridge.backing THEN Done
           ELSE Go(IF bridge.wake # NoWake THEN "check" ELSE "ready")

\* _thread_for: a thread without turns is accepted, but not subscribed to
ThreadFor ==
    /\ bridge.at = "resume"
    /\ \/ /\ bridge.binding = NoBinding
          /\ Fails("IDENTITY_ERROR", 0)
          /\ UNCHANGED <<conn, spent>>
       \/ /\ bridge.binding # NoBinding
          /\ CallFails(0)
          /\ \/ UNCHANGED conn
             \/ /\ conn.resumed # bridge.binding.thread
                /\ conn' = [conn EXCEPT !.attempted = TRUE]
       \/ /\ bridge.binding # NoBinding
          /\ LET t == bridge.binding.thread IN
             IF conn.resumed = t THEN UNCHANGED conn
             ELSE conn' = [conn EXCEPT !.resumed = t, !.attempted = TRUE,
                                  !.subscribed = IF HasRollout(t) THEN @ \cup {t} ELSE @]
          /\ Resumed
          /\ UNCHANGED spent
    /\ UNCHANGED <<disk, mem>> /\ HistorySame /\ OutsideSame

-----------------------------------------------------------------------------
(* The bridge: there is a wake on record *)

\* _refresh; a turn that runs is left alone
Check ==
    /\ bridge.at = "check"
    /\ \/ /\ bridge.wake.thread # bridge.binding.thread
          /\ bridge' = [bridge EXCEPT !.at = "clear", !.end = "changed"]
          /\ UNCHANGED spent
       \/ /\ bridge.wake.thread = bridge.binding.thread
          /\ CallFails(bridge.wake.id)
       \/ /\ bridge.wake.thread = bridge.binding.thread
          /\ IF Active(bridge.binding.thread) THEN Done ELSE Go("terminal")
          /\ UNCHANGED spent
    /\ UNCHANGED <<disk, mem, conn>> /\ HistorySame /\ OutsideSame

\* mutant: the requests of the turn are cleared first
JudgedUnlatched(end) == "clear"

\* What the end of the wake turn leads to
Judged(end) == IF end = "interrupted" THEN "latch" ELSE "clear"

\* mutant: a turn that is listed has ended
TerminalAssumed ==
    /\ bridge.at = "terminal"
    /\ bridge' = [bridge EXCEPT !.at = "clear", !.end = "completed"]
    /\ UNCHANGED <<disk, mem, conn, spent>> /\ HistorySame /\ OutsideSame

\* _wake_terminal: the notification, or thread/turns/list, which may not go back so far
Terminal ==
    /\ bridge.at = "terminal"
    /\ LET i == bridge.wake.turn IN
       \/ /\ i \notin conn.done
          /\ CallFails(bridge.wake.id)
          /\ UNCHANGED conn
       \/ /\ conn' = [conn EXCEPT !.done = @ \ {i}]
          /\ IF i \notin conn.done /\ Listed(i) /\ Running(i) THEN Done
             ELSE LET end == IF i \in conn.done \/ Listed(i) THEN turns[i].status
                             ELSE "unknown"
                  IN  bridge' = [bridge EXCEPT !.end = end,
                                                       !.at = Judged(end)]
          /\ UNCHANGED spent
    /\ UNCHANGED <<disk, mem>> /\ HistorySame /\ OutsideSame

Without(asks, i) == {a \in asks : a.turn # i}

NeedsHuman(st, i) == [st EXCEPT !.phase = "NEEDS_HUMAN", !.late = FALSE,
                                !.asks = Without(@, i)]

\* _latch_pending_human_if_any
Latch ==
    /\ bridge.at = "latch"
    /\ LET i == bridge.wake.turn IN
       \/ /\ ~BoundAs(bridge.wake.id) \/ disk.st.wake # bridge.wake
          /\ mem' = disk
          /\ Done
          /\ UNCHANGED <<disk, latched>>
       \/ /\ BoundAs(bridge.wake.id) /\ disk.st.wake = bridge.wake
          /\ \A a \in disk.st.asks : a.turn # i
          /\ mem' = disk
          /\ Go("clear")
          /\ UNCHANGED <<disk, latched>>
       \/ /\ BoundAs(bridge.wake.id) /\ disk.st.wake = bridge.wake
          /\ \E a \in disk.st.asks : a.turn = i
          /\ Flush(NeedsHuman(disk.st, i))
          /\ latched' = "server_request"
          /\ Done
    /\ UNCHANGED <<conn, binds, bound, streak, spent>> /\ OutsideSame

\* _clear_pending_human_requests reloads the store
Clear ==
    /\ bridge.at = "clear"
    /\ Flush([disk.st EXCEPT !.asks = Without(@, bridge.wake.turn)])
    /\ Go(IF bridge.end = "interrupted" THEN "trust" ELSE "giveup")
    /\ UNCHANGED <<conn, spent>> /\ HistorySame /\ OutsideSame

\* The breaker after one more interrupted wake
Counted(breaker) ==
    [gen |-> bridge.wake.gen, thread |-> bridge.binding.thread,
     count |-> IF /\ breaker # NoBreaker /\ breaker.gen = bridge.wake.gen
                  /\ breaker.thread = bridge.binding.thread
               THEN breaker.count + 1 ELSE 1]

\* _hook_trust_gate, and the breaker
Trust ==
    /\ bridge.at = "trust"
    /\ \/ CallFails(bridge.wake.id) /\ UNCHANGED mem
       \/ /\ Spend("gate")
          /\ bridge' = [bridge EXCEPT !.at = "human", !.turn = bridge.wake.turn,
                                      !.expect = bridge.wake.id]
          /\ UNCHANGED mem
       \/ /\ LET breaker == Counted(mem.st.breaker) IN
             /\ mem' = [mem EXCEPT !.st.breaker = breaker]
             /\ bridge' = IF breaker.count >= Limit
                          THEN [bridge EXCEPT !.at = "human", !.turn = bridge.wake.turn,
                                    !.expect = bridge.wake.id, !.breaker = breaker]
                          ELSE [bridge EXCEPT !.at = "giveup"]
          /\ UNCHANGED spent
    /\ UNCHANGED <<disk, conn>> /\ HistorySame /\ OutsideSame

\* _mark_needs_human
MarkNeedsHuman ==
    /\ bridge.at = "human"
    /\ IF BoundAs(bridge.expect) /\ disk.st.phase # "NEEDS_HUMAN"
       THEN /\ Flush([NeedsHuman(disk.st, bridge.turn) EXCEPT
                        !.breaker = IF bridge.breaker = NoBreaker THEN @
                                    ELSE bridge.breaker])
            /\ latched' = IF bridge.breaker = NoBreaker THEN "hook_trust"
                          ELSE "interrupted_breaker"
       ELSE mem' = disk /\ UNCHANGED <<disk, latched>>
    /\ Done
    /\ UNCHANGED <<conn, binds, bound, streak, spent>> /\ OutsideSame

\* mutant: the breaker goes with the record of the wake
GiveUpForgets ==
    /\ bridge.at = "giveup"
    /\ Save([mem.st EXCEPT !.phase = "BACKOFF", !.late = TRUE, !.wake = NoWake,
                           !.breaker = NoBreaker])
    /\ Done
    /\ UNCHANGED <<conn, spent>> /\ HistorySame /\ OutsideSame

\* The wake did not drain the inbox: back off
GiveUp ==
    /\ bridge.at = "giveup"
    /\ Save([mem.st EXCEPT !.phase = "BACKOFF", !.late = TRUE, !.wake = NoWake,
                           !.breaker = IF bridge.end = "interrupted" THEN @ ELSE NoBreaker])
    /\ Done
    /\ UNCHANGED <<conn, spent>> /\ HistorySame /\ OutsideSame

-----------------------------------------------------------------------------
(* The bridge: there is none, the thread is woken when it is idle *)

WaitBusy ==
    /\ conn' = [conn EXCEPT !.active = @ \cup {bridge.binding.thread}]
    /\ Save([mem.st EXCEPT !.phase = "WAIT_BUSY"])
    /\ Done

\* mutant: also for a notification nobody has subscribed to
AwaitsAny(t) == mem.st.phase = "WAIT_BUSY" /\ t \in conn.active \ conn.completed

\* The turn that was seen has ended, its notification is on the way
Awaits(t) == /\ mem.st.phase = "WAIT_BUSY" /\ t \in conn.active \ conn.completed
             /\ t \in conn.subscribed

\* _refresh, and the wait for turn/completed
Ready ==
    /\ bridge.at = "ready"
    /\ LET t == bridge.binding.thread IN
       \/ CallFails(bridge.binding.id) /\ UNCHANGED <<disk, mem, conn>>
       \/ Active(t) /\ WaitBusy /\ UNCHANGED spent
       \/ /\ ~Active(t)
          /\ IF Awaits(t) THEN Done /\ UNCHANGED conn
             ELSE /\ conn' = [conn EXCEPT !.active = @ \ {t}, !.completed = @ \ {t}]
                  /\ Go("wake")
          /\ UNCHANGED <<disk, mem, spent>>
    /\ HistorySame /\ OutsideSame

\* _wake and _wake_guarded: the seat guard, _refresh and the hook gate
Wakes ==
    /\ bridge.at = "wake"
    /\ LET t == bridge.binding.thread IN
       \/ CallFails(bridge.binding.id) /\ UNCHANGED <<disk, mem, conn>>
       \/ Active(t) /\ WaitBusy /\ UNCHANGED spent
       \/ /\ ~Active(t)
          /\ \/ Spend("gate") /\ bridge' = [bridge EXCEPT !.at = "human",
                                                !.expect = bridge.binding.id]
             \/ Go("start") /\ UNCHANGED spent
          /\ UNCHANGED <<disk, mem, conn>>
    /\ HistorySame /\ OutsideSame

Starting(st) == [st EXCEPT !.phase = "STARTING", !.late = TRUE]

\* mutant: the binding is not looked at again
StartUnchecked ==
    /\ bridge.at = "start"
    /\ Flush(Starting(disk.st))
    /\ Go("starting")
    /\ UNCHANGED <<conn, spent>> /\ HistorySame /\ OutsideSame

\* The transaction of _wake_guarded begins
Start ==
    /\ bridge.at = "start"
    /\ IF BoundAs(bridge.binding.id)
       THEN Flush(Starting(disk.st)) /\ Go("starting")
       ELSE mem' = disk /\ Fails("IDENTITY_ERROR", bridge.binding.id) /\ UNCHANGED disk
    /\ UNCHANGED <<conn, spent>> /\ HistorySame /\ OutsideSame

\* turn/start; when a turn has begun meanwhile it is steered instead. At the bound of
\* turns the call is refused
TurnStart ==
    /\ bridge.at = "starting"
    /\ LET t == bridge.binding.thread IN
       \/ /\ Active(t)
          /\ \E i \in DOMAIN turns :
                /\ turns[i].thread = t /\ Running(i)
                /\ bridge' = [bridge EXCEPT !.at = "started", !.turn = i]
          /\ UNCHANGED <<turns, spent>>
       \/ /\ ~Active(t) /\ Len(turns) < MaxTurn
          /\ turns' = Append(turns, [thread |-> t, status |-> "running"])
          /\ bridge' = [bridge EXCEPT !.at = "started", !.turn = Len(turns) + 1]
          /\ UNCHANGED spent
       \/ CallFails(bridge.binding.id) /\ UNCHANGED turns
       \/ /\ ~Active(t) /\ Len(turns) = MaxTurn
          /\ Fails("BACKOFF", bridge.binding.id)
          /\ UNCHANGED <<turns, spent>>
    /\ UNCHANGED <<disk, mem, conn, asked, buffer>> /\ HistorySame /\ MailSame

\* The turn is one more in a row: no other turn of the thread has run since the last
\* one, which was interrupted
InARow == /\ streak # NoStreak /\ streak.gen = bridge.gen
          /\ turns[streak.turn].thread = turns[bridge.turn].thread
          /\ turns[streak.turn].status = "interrupted"
          /\ \A i \in (streak.turn + 1)..(bridge.turn - 1) :
                turns[i].thread # turns[bridge.turn].thread

\* The turn that has begun, and those of the row before it that are on record
Row == [gen |-> bridge.gen, turn |-> bridge.turn, n |-> IF InARow THEN streak.n ELSE 0]

\* The wake is put on record, and the transaction ends
Started ==
    /\ bridge.at = "started"
    /\ Flush([disk.st EXCEPT !.phase = "WAKE_ACTIVE", !.late = FALSE,
                !.wake = [gen |-> bridge.gen, turn |-> bridge.turn,
                          thread |-> bridge.binding.thread, id |-> bridge.binding.id]])
    /\ streak' = [Row EXCEPT !.n = @ + 1]
    /\ Done
    /\ UNCHANGED <<conn, binds, bound, latched, spent>> /\ OutsideSame

-----------------------------------------------------------------------------
(* Failures and time *)

\* _record_project_error; without an expected binding whatever state there is
RecordProjectError ==
    /\ bridge.at = "error"
    /\ IF bridge.expect = 0 \/ BoundAs(bridge.expect)
       THEN Flush([disk.st EXCEPT !.phase = bridge.error, !.late = TRUE])
       ELSE mem' = disk /\ UNCHANGED disk
    /\ Done
    /\ UNCHANGED <<conn, spent>> /\ HistorySame /\ OutsideSame

\* A call times out, the connection breaks, or the bridge is killed and started again:
\* run_command makes a new WakeBridge, the locks are gone. A turn that has begun is not
\* put on record
Lost ==
    /\ Spend("lost")
    /\ Done
    /\ conn' = NewConnection /\ buffer' = <<>>
    /\ streak' = IF bridge.at = "started" THEN Row ELSE streak
    /\ UNCHANGED <<disk, mem, binds, bound, latched, turns, asked>> /\ MailSame

\* retryAt has come
Elapse ==
    /\ disk.st.late \/ mem.st.late
    /\ disk' = [disk EXCEPT !.st.late = FALSE]
    /\ mem' = [mem EXCEPT !.st.late = FALSE]
    /\ UNCHANGED <<bridge, conn, spent>> /\ HistorySame /\ OutsideSame

-----------------------------------------------------------------------------
ConsumeMessages == ConsumeCompleted \/ RecordHumanRequest \/ ResolveHumanRequest

Scan == ScanRests \/ ScanRefuses \/ ScanEmpty \/ ScanPending

BridgeStep ==
    \/ Step \/ ConsumeMessages \/ Scan \/ ThreadFor
    \/ Check \/ Terminal \/ Latch \/ Clear \/ Trust \/ MarkNeedsHuman \/ GiveUp
    \/ Ready \/ Wakes \/ Start \/ TurnStart \/ Started \/ RecordProjectError

Outside ==
    \/ \E t \in Thread : UserTurn(t) \/ CommandBind(t)
    \/ \E i \in DOMAIN turns : EndTurn(i) \/ \E a \in Ask : Request(i, a)
    \/ \E a \in Ask : Resolve(a)
    \/ Arrive \/ DrainMail \/ Malform \/ Unbind

Next == BridgeStep \/ Outside \/ Lost \/ Elapse

Spec == Init /\ [][Next]_vars

\* The bridge goes on, time passes, and a turn ends unless it waits for a human
FairSpec ==
    /\ Spec
    /\ WF_vars(BridgeStep) /\ WF_vars(Elapse)
    /\ \A i \in Turn : WF_vars(i \in DOMAIN turns /\ ~Open(i) /\ EndTurn(i))

-----------------------------------------------------------------------------
(* Properties *)

\* What rt-codex-wake bind or unbind wrote last stays the binding, whatever copy the
\* bridge has held meanwhile (save: "a phase-state write cannot undo that bind").
BindingStands == disk.binding = bound

\* A wake on record is one of the thread and the binding that are on the disk: a bind
\* between the status check and turn/start stops the wake (_wake_guarded).
WakeOfBinding ==
    disk.st.wake # NoWake => disk.st.wake.id = disk.binding.id
                             /\ disk.st.wake.thread = disk.binding.thread

\* Of the turns that wake one thread for one generation in a row, each of them interrupted
\* before the next, the bridge puts at most Limit on record, over failed calls, lost
\* connections and restarts (the breaker; a bind starts afresh). A turn whose reply to
\* turn/start is lost stays in the row and is never counted, so that more than Limit turns
\* may be started in all.
BreakerHolds == streak.n <= Limit

\* A request that the bridge has on record and nobody has resolved ends in NEEDS_HUMAN
\* when its wake turn is interrupted, unless the inbox is empty by then, the project is
\* bound again or the server does not list the turn any more.
RequestLatches ==
    [][\A a \in disk.st.asks \ disk'.st.asks :
        (/\ asked[a.ask].state = "open" /\ turns[a.turn].status = "interrupted"
         /\ disk'.binding = disk.binding /\ bridge.end # "unknown")
            => disk'.st.phase = "NEEDS_HUMAN" \/ (Scans /\ new = {})]_vars

\* A project that waits for a human does so until it is bound again or its inbox is
\* empty. An entry that pending_generation refuses may end NEEDS_HUMAN, but even then
\* the breaker closes again before the next wake, as long as its turn is listed.
LatchHolds ==
    latched # "" =>
        \/ disk.st.phase = "NEEDS_HUMAN"
        \/ spent["malformed"] > 0 /\ latched # "interrupted_breaker"
        \/ spent["malformed"] > 0 /\ (bridge.at # "started" \/ spent["user"] > 0)

\* No wake is started for a project that has been stopped for a human decision and has
\* not been bound again (docs/rt-codex-phase3.md).
NoWakePastLatch == bridge.at = "started" => latched # "server_request"

\* Mail that waits for a bound thread gets it woken, unless a human is needed: back-offs,
\* failed calls, lost notifications and turns of the user delay it and no more. Not so a
\* bind request that was replaced: the bridge then skips the project until it has bound one
\* or is started again, even when rt-codex-wake bind has bound it.
MailIsServed ==
    \A m \in Mail : m \in new ~>
        \/ m \notin new \/ disk.st.phase \in {"WAKE_ACTIVE", "NEEDS_HUMAN"}
        \/ disk.binding = NoBinding \/ conn.quarantined \/ malformed
        \/ \E i \in DOMAIN turns : Running(i) /\ Open(i)
        \/ Len(turns) = MaxTurn

=============================================================================
