------------------------- MODULE TripwireWatcherProofs -------------------------
(***************************************************************************)
(* Proofs about TripwireWatcher for any number of hooks, messages, leases  *)
(* and events.                                                             *)
(***************************************************************************)
EXTENDS TripwireWatcher, TLAPS

\* Hook p runs for the lease that is live.
Current(p) == watcher[p].at # "off" /\ watcher[p].rev = lease

\* Hook p has recorded a wake for mail and is about to exit with it.
Waking(p) == watcher[p].at = "clear" /\ watcher[p].out = "mail"

\* Hook p is past the decision to pause and has not seen the mail yet.
Polls(p) == watcher[p].at \in {"claim", "recheck", "look", "wait", "timeout"}

\* No hook has a lease that is still to come.
RevInv == \A p \in Watcher : watcher[p].rev <= lease

\* As long as nobody stalls, whoever polls for the live lease has the slot.
PollInv ==
    spent["stall"] = 0 =>
        \A p \in Watcher : Current(p) /\ watcher[p].at \in {"look", "wait"} =>
            slot.pid = p /\ slot.beat = "fresh"

Quiet == spent["user"] + spent["compact"] = 0

\* A turn has no hook, and ends with one hook: the hooks of a lease follow each other.
OneHookInv ==
    /\ \A p, q \in Watcher : Current(p) /\ Current(q) => p = q
    /\ agent.turn => \A p \in Watcher : ~Current(p)

\* What is recorded in the slot is what the session was woken for, plus the wake that
\* is under way.
RecordInv ==
    /\ agent.turn => slot.last = woken.mail /\ slot.attempts = woken.times
    /\ \A p \in Watcher : Current(p) /\ ~Waking(p) =>
         slot.last = woken.mail /\ slot.attempts = woken.times
    /\ \A p \in Watcher : Current(p) /\ Waking(p) =>
         /\ slot.last = watcher[p].mail
         /\ slot.attempts = IF woken.mail = watcher[p].mail THEN woken.times + 1 ELSE 1

\* The second wake is by a Stop hook, and the hook after it knows.
StopInv ==
    /\ \A p \in Watcher : Current(p) /\ woken.times >= 1 => watcher[p].stop
    /\ \A p \in Watcher : Current(p) /\ woken.times >= 2 => watcher[p].active
    /\ agent.turn /\ woken.times >= 2 => agent.active

\* A hook that did not pause waits for another generation than the one retried.
NewMailInv ==
    /\ slot.last \subseteq arrived
    /\ \A p \in Watcher : watcher[p].mail \subseteq arrived
    /\ \A p \in Watcher : Current(p) /\ watcher[p].at \in {"list", "look", "wait", "found", "timeout"} =>
         watcher[p].last = slot.last /\ watcher[p].attempts = slot.attempts
    /\ \A p \in Watcher : Current(p) /\ woken.times >= 2 =>
         /\ Polls(p) => new # slot.last
         /\ watcher[p].at = "found" => watcher[p].mail # slot.last

CountInv == woken.times <= 2 /\ slot.attempts <= 2

WakeInv == OneHookInv /\ RecordInv /\ StopInv /\ NewMailInv /\ CountInv

IInv == TypeOK /\ RevInv /\ PollInv /\ OnePoller /\ (Quiet => WakeInv)

-----------------------------------------------------------------------------
(* What the steps of a hook do to it *)

\* Only hook p has changed.
Alone(p) ==
    /\ watcher' \in [Watcher -> Process]
    /\ \A q \in Watcher \ {p} : watcher'[q] = watcher[q]

\* Hook p keeps its lease and its kind.
Keeps(p) ==
    /\ watcher'[p].rev = watcher[p].rev
    /\ watcher'[p].stop = watcher[p].stop /\ watcher'[p].active = watcher[p].active

\* Hook p keeps what it has read.
KeepsRead(p) ==
    /\ watcher'[p].mail = watcher[p].mail
    /\ watcher'[p].last = watcher[p].last /\ watcher'[p].attempts = watcher[p].attempts

LEMMA GoIs ==
    ASSUME TypeOK, NEW p \in Watcher, NEW place \in Place, Go(p, place)
    PROVE  Alone(p) /\ Keeps(p) /\ KeepsRead(p) /\ watcher'[p].at = place
BY DEF TypeOK, Go, Alone, Keeps, KeepsRead, Process

LEMMA EndsIs ==
    ASSUME TypeOK, NEW p \in Watcher, NEW outcome \in Outcome, Ends(p, outcome)
    PROVE  /\ Alone(p) /\ Keeps(p) /\ KeepsRead(p)
           /\ watcher'[p].at = "clear" /\ watcher'[p].out = outcome
<1> DEFINE w == [watcher[p] EXCEPT !.at = "clear"]
           v == [w EXCEPT !.out = outcome]
<1>1. /\ w \in Process /\ w.at = "clear" /\ w.rev = watcher[p].rev
      /\ w.stop = watcher[p].stop /\ w.active = watcher[p].active /\ w.mail = watcher[p].mail
      /\ w.last = watcher[p].last /\ w.attempts = watcher[p].attempts
  BY DEF TypeOK, Process, Place
<1>2. watcher' = [watcher EXCEPT ![p] = v]
  BY DEF Ends
<1> HIDE DEF w
<1>3. /\ v \in Process /\ v.at = w.at /\ v.rev = w.rev /\ v.out = outcome
      /\ v.stop = w.stop /\ v.active = w.active /\ v.mail = w.mail
      /\ v.last = w.last /\ v.attempts = w.attempts
  BY <1>1 DEF Process
<1> HIDE DEF v
<1> QED
  BY <1>1, <1>2, <1>3 DEF TypeOK, Alone, Keeps, KeepsRead

LEMMA OffIs ==
    ASSUME TypeOK, NEW p \in Watcher, watcher' = [watcher EXCEPT ![p] = Off]
    PROVE  Alone(p) /\ watcher'[p] = Off
<1>1. Off \in Process
  BY WatcherAssumption DEF Off, Process, Place, Outcome, Generation
<1> QED
  BY <1>1 DEF TypeOK, Alone

LEMMA StartIs ==
    ASSUME TypeOK, NEW p \in Watcher, NEW rev \in 0..MaxLease,
           NEW stop \in BOOLEAN, NEW active \in BOOLEAN, StartHook(p, rev, stop, active)
    PROVE  /\ Alone(p) /\ watcher[p].at = "off"
           /\ watcher'[p].at = "load" /\ watcher'[p].rev = rev /\ watcher'[p].out = "quiet"
           /\ watcher'[p].stop = stop /\ watcher'[p].active = active /\ watcher'[p].mail = {}
<1> DEFINE w == [at |-> "load", rev |-> rev, stop |-> stop, active |-> active, mail |-> {},
                 last |-> {}, attempts |-> 0, out |-> "quiet"]
<1>1. w \in Process
  BY DEF Process, Place, Outcome, Generation
<1>2. watcher' = [watcher EXCEPT ![p] = w] /\ watcher[p].at = "off"
  BY DEF StartHook
<1> QED
  BY <1>1, <1>2 DEF TypeOK, Alone

\* The hook reads the record in the slot.
LEMMA ReadIs ==
    ASSUME TypeOK, NEW p \in Watcher, NEW place \in Place,
           watcher' = [watcher EXCEPT ![p].at = place, ![p].last = slot.last,
                                      ![p].attempts = slot.attempts]
    PROVE  /\ Alone(p) /\ Keeps(p)
           /\ watcher'[p].at = place /\ watcher'[p].mail = watcher[p].mail
           /\ watcher'[p].last = slot.last /\ watcher'[p].attempts = slot.attempts
<1> DEFINE w == [watcher[p] EXCEPT !.at = place]
           v == [w EXCEPT !.last = slot.last]
           u == [v EXCEPT !.attempts = slot.attempts]
<1>1. /\ w \in Process /\ w.at = place /\ w.rev = watcher[p].rev
      /\ w.stop = watcher[p].stop /\ w.active = watcher[p].active /\ w.mail = watcher[p].mail
  BY DEF TypeOK, Process
<1>2. watcher' = [watcher EXCEPT ![p] = u]
  OBVIOUS
<1> HIDE DEF w
<1>3. /\ v \in Process /\ v.at = w.at /\ v.rev = w.rev /\ v.last = slot.last
      /\ v.stop = w.stop /\ v.active = w.active /\ v.mail = w.mail
  BY <1>1 DEF Process, TypeOK, Slot
<1> HIDE DEF v
<1>4. /\ u \in Process /\ u.at = v.at /\ u.rev = v.rev /\ u.last = v.last
      /\ u.attempts = slot.attempts
      /\ u.stop = v.stop /\ u.active = v.active /\ u.mail = v.mail
  BY <1>3 DEF Process, TypeOK, Slot
<1> HIDE DEF u
<1>5. watcher \in [Watcher -> Process]
  BY DEF TypeOK
<1>6. Alone(p) /\ watcher'[p] = u
  BY <1>2, <1>4, <1>5 DEF Alone
<1> QED
  BY <1>1, <1>3, <1>4, <1>6 DEF Keeps

LEMMA SeesIs ==
    ASSUME TypeOK, NEW p \in Watcher,
           watcher' = [watcher EXCEPT ![p].at = "found", ![p].mail = new]
    PROVE  /\ Alone(p) /\ Keeps(p)
           /\ watcher'[p].at = "found" /\ watcher'[p].mail = new
           /\ watcher'[p].last = watcher[p].last /\ watcher'[p].attempts = watcher[p].attempts
<1> DEFINE w == [watcher[p] EXCEPT !.at = "found"]
           v == [w EXCEPT !.mail = new]
<1>1. /\ w \in Process /\ w.at = "found" /\ w.rev = watcher[p].rev
      /\ w.stop = watcher[p].stop /\ w.active = watcher[p].active
      /\ w.last = watcher[p].last /\ w.attempts = watcher[p].attempts
  BY DEF TypeOK, Process, Place
<1>2. watcher' = [watcher EXCEPT ![p] = v]
  OBVIOUS
<1>3. new \in Generation
  BY DEF TypeOK, Generation
<1> HIDE DEF w
<1>4. /\ v \in Process /\ v.at = w.at /\ v.rev = w.rev /\ v.mail = new
      /\ v.stop = w.stop /\ v.active = w.active
      /\ v.last = w.last /\ v.attempts = w.attempts
  BY <1>1, <1>3 DEF Process
<1> HIDE DEF v
<1> QED
  BY <1>1, <1>2, <1>4 DEF TypeOK, Alone, Keeps

\* An event is counted.
LEMMA SpendIs ==
    ASSUME TypeOK, NEW k \in Kinds, Spend(k)
    PROVE  /\ spent' \in [Kinds -> Nat]
           /\ spent'[k] = spent[k] + 1
           /\ \A l \in Kinds \ {k} : spent'[l] = spent[l]
BY DEF TypeOK, Spend

\* A hook ends, and may wake the session.
LEMMA ExitsIs ==
    ASSUME TypeOK, NEW p \in Watcher, NEW outcome \in Outcome, Exits(p, outcome)
    PROVE  /\ Alone(p) /\ watcher'[p] = Off
           /\ UNCHANGED <<lease, new, arrived, spent>>
           /\ agent' \in [turn: BOOLEAN, active: BOOLEAN] /\ paused' \in Generation
           /\ woken' \in [mail: Generation, times: Nat]
<1>1. Alone(p) /\ watcher'[p] = Off /\ UNCHANGED <<lease, new, arrived, spent>>
  BY OffIs DEF Exits
<1>2. agent' \in [turn: BOOLEAN, active: BOOLEAN] /\ paused' \in Generation
  <2>1. watcher[p].stop \in BOOLEAN
    BY DEF TypeOK, Process
  <2>2. [turn |-> TRUE, active |-> watcher[p].stop] \in [turn: BOOLEAN, active: BOOLEAN]
    BY <2>1
  <2>3. agent' \in {agent, [turn |-> TRUE, active |-> watcher[p].stop]}
    BY DEF Exits
  <2>4. paused' \in {paused, {}}
    BY DEF Exits
  <2> QED
    BY <2>2, <2>3, <2>4 DEF TypeOK, Generation
<1>3. woken' \in [mail: Generation, times: Nat]
  BY DEF Exits, TypeOK, Process
<1> QED
  BY <1>1, <1>2, <1>3

-----------------------------------------------------------------------------
(* Types and leases *)

LEMMA InitHolds == Init => IInv
<1> SUFFICES ASSUME Init PROVE IInv
  OBVIOUS
<1>1. \A p \in Watcher : watcher[p] = Off
  BY DEF Init
<1>2. TypeOK
  <2>1. Off \in Process
    BY WatcherAssumption DEF Off, Process, Place, Outcome, Generation
  <2> QED
    BY <2>1, WatcherAssumption
    DEF Init, TypeOK, Slot, EmptySlot, Generation, Nothing
<1>3. RevInv /\ PollInv /\ OnePoller
  BY <1>1 DEF RevInv, PollInv, OnePoller, Current, Off, Init
<1>4. WakeInv
  BY <1>1 DEF Init, WakeInv, OneHookInv, RecordInv, StopInv, NewMailInv, CountInv,
              Current, Waking, Polls, Off, EmptySlot, Nothing
<1> QED
  BY <1>2, <1>3, <1>4 DEF IInv

SlotOK == slot \in Slot /\ (slot.pid = NoPid <=> slot.beat = "none")

\* A hook touches itself, the slot, and by its exit the session.
LEMMA WatcherStepIs ==
    ASSUME TypeOK, NEW p \in Watcher, WatcherStep(p)
    PROVE  /\ Alone(p) /\ (Keeps(p) \/ watcher'[p] = Off)
           /\ UNCHANGED <<lease, new, arrived, spent>>
           /\ agent' \in [turn: BOOLEAN, active: BOOLEAN] /\ paused' \in Generation
           /\ woken' \in [mail: Generation, times: Nat]
           /\ SlotOK'
<1> USE DEF Outcome, Place
<1>0. SlotOK /\ paused \in Generation /\ new \in Generation
      /\ agent \in [turn: BOOLEAN, active: BOOLEAN] /\ woken \in [mail: Generation, times: Nat]
  BY DEF TypeOK, SlotOK, Generation
<1>1. CASE Load(p)
  <2>1. UNCHANGED slot
    BY <1>1 DEF Load
  <2>2. CASE /\ watcher' = [watcher EXCEPT ![p].at = "list", ![p].last = slot.last,
                                           ![p].attempts = slot.attempts]
             /\ SessionSame /\ UNCHANGED paused
    <3>1. Alone(p) /\ Keeps(p)
      BY <2>2, ReadIs
    <3> QED
      BY <1>0, <2>1, <2>2, <3>1 DEF SessionSame, SlotOK
  <2>3. CASE Exits(p, "quiet") \/ Exits(p, "error")
    <3>1. \E o \in Outcome : Exits(p, o)
      BY <2>3
    <3> QED
      BY <1>0, <2>1, <3>1, ExitsIs DEF SlotOK
  <2> QED
    BY <1>1, <2>2, <2>3 DEF Load
<1>2. CASE List(p)
  <2>1. UNCHANGED slot /\ SessionSame
    BY <1>2 DEF List
  <2>2. Alone(p) /\ (Keeps(p) \/ watcher'[p] = Off)
    BY <1>2, GoIs, OffIs DEF List
  <2>3. paused' \in Generation
    BY <1>0, <1>2 DEF List
  <2> QED
    BY <1>0, <2>1, <2>2, <2>3 DEF SessionSame, SlotOK
<1>3. CASE ClaimSlot(p)
  <2>1. UNCHANGED paused /\ SessionSame
    BY <1>3 DEF ClaimSlot
  <2>2. Alone(p) /\ Keeps(p)
    BY <1>3, GoIs, ReadIs DEF ClaimSlot
  <2>3. SlotOK'
    BY <1>0, <1>3, WatcherAssumption DEF ClaimSlot, SlotOK, Slot
  <2> QED
    BY <1>0, <2>1, <2>2, <2>3 DEF SessionSame
<1>4. CASE Recheck(p)
  <2>1. Alone(p) /\ Keeps(p)
    BY <1>4, EndsIs DEF Recheck
  <2> QED
    BY <1>0, <1>4, <2>1 DEF Recheck, SessionSame, SlotOK
<1>5. CASE Look(p)
  <2>1. Alone(p) /\ Keeps(p)
    BY <1>5, GoIs, SeesIs DEF Look
  <2> QED
    BY <1>0, <1>5, <2>1 DEF Look, SessionSame, SlotOK
<1>6. CASE Beat(p)
  <2>1. Alone(p) /\ Keeps(p)
    BY <1>6, GoIs, EndsIs DEF Beat
  <2>2. SlotOK'
    BY <1>0, <1>6, WatcherAssumption DEF Beat, SlotOK, Slot, Owns
  <2> QED
    BY <1>0, <1>6, <2>1, <2>2 DEF Beat, SessionSame
<1>7. CASE Found(p)
  <2>1. Alone(p) /\ Keeps(p)
    BY <1>7, EndsIs DEF Found
  <2>2. watcher[p].mail \in Generation /\ NextAttempt(p) \in Nat
    BY DEF TypeOK, Process, NextAttempt
  <2>3. SlotOK'
    <3>1. CASE UNCHANGED slot
      BY <3>1, <1>0 DEF SlotOK
    <3>2. CASE /\ Owns(p)
               /\ slot' = [slot EXCEPT !.beat = "fresh", !.last = watcher[p].mail,
                                      !.attempts = NextAttempt(p)]
      <4> DEFINE s == [slot EXCEPT !.beat = "fresh"]
                 t == [s EXCEPT !.last = watcher[p].mail]
      <4>1. s \in Slot /\ s.pid = p /\ s.beat = "fresh"
        BY <1>0, <3>2 DEF SlotOK, Slot, Owns
      <4>2. slot' = [t EXCEPT !.attempts = NextAttempt(p)]
        BY <3>2
      <4> HIDE DEF s
      <4>3. t \in Slot /\ t.pid = p /\ t.beat = "fresh"
        BY <2>2, <4>1 DEF Slot
      <4> HIDE DEF t
      <4> QED
        BY <2>2, <4>2, <4>3, WatcherAssumption DEF SlotOK, Slot
    <3> QED
      BY <1>7, <3>1, <3>2 DEF Found
  <2> QED
    BY <1>0, <1>7, <2>1, <2>3 DEF Found, SessionSame
<1>8. CASE TimedOut(p)
  <2>1. Alone(p) /\ Keeps(p)
    BY <1>8, EndsIs DEF TimedOut
  <2>2. SlotOK'
    BY <1>0, <1>8, WatcherAssumption DEF TimedOut, SlotOK, Slot, Owns
  <2> QED
    BY <1>0, <1>8, <2>1, <2>2 DEF TimedOut, SessionSame
<1>9. CASE Clear(p)
  <2>1. watcher[p].out \in Outcome
    BY DEF TypeOK, Process
  <2>2. SlotOK'
    BY <1>0, <1>9 DEF Clear, SlotOK, Slot
  <2> QED
    BY <1>9, <2>1, <2>2, ExitsIs DEF Clear
<1> QED
  BY <1>1, <1>2, <1>3, <1>4, <1>5, <1>6, <1>7, <1>8, <1>9 DEF WatcherStep

\* Every step keeps the types, and no hook has a lease that is still to come.
LEMMA TypeStep == TypeOK /\ RevInv /\ [Next]_vars => TypeOK' /\ RevInv'
<1> SUFFICES ASSUME TypeOK, RevInv, [Next]_vars PROVE TypeOK' /\ RevInv'
  OBVIOUS
<1> USE DEF Outcome, Place
<1>0. lease \in 0..MaxLease /\ lease \in Nat /\ \A p \in Watcher : watcher[p].rev \in Nat
  BY WatcherAssumption DEF TypeOK, Process
<1>1. ASSUME NEW p \in Watcher, NewSession(p) PROVE TypeOK' /\ RevInv'
  <2>1. lease + 1 \in 0..MaxLease /\ lease' = lease + 1
    BY <1>0, <1>1, WatcherAssumption DEF NewSession
  <2>2. Alone(p) /\ watcher'[p].rev = lease'
    BY <1>1, <2>1, StartIs DEF NewSession
  <2>3. TypeOK'
    BY <1>1, <2>1, <2>2, WatcherAssumption
    DEF NewSession, TypeOK, Alone, EmptySlot, Slot, Generation, Nothing
  <2> QED
    BY <1>0, <2>1, <2>2, <2>3 DEF RevInv, Alone
<1>2. ASSUME NEW p \in Watcher, Compact(p) PROVE TypeOK' /\ RevInv'
  <2>1. Alone(p) /\ watcher'[p].rev = lease
    BY <1>0, <1>2, StartIs DEF Compact
  <2>2. spent' \in [Kinds -> Nat]
    BY <1>2, SpendIs DEF Compact, Kinds
  <2> QED
    BY <1>0, <1>2, <2>1, <2>2 DEF Compact, TypeOK, RevInv, Alone
<1>3. ASSUME NEW p \in Watcher, EndTurn(p) PROVE TypeOK' /\ RevInv'
  <2>0. agent.active \in BOOLEAN
    BY DEF TypeOK
  <2>1. Alone(p) /\ watcher'[p].rev = lease
    BY <1>0, <1>3, <2>0, StartIs DEF EndTurn
  <2> QED
    BY <1>0, <1>3, <2>1 DEF EndTurn, TypeOK, RevInv, Alone
<1>4. CASE Interrupt \/ UserTurn \/ Drain \/ Arrive
  <2>1. spent' \in [Kinds -> Nat]
    BY <1>4, SpendIs DEF Interrupt, UserTurn, Drain, Arrive, Kinds, TypeOK
  <2>2. new' \subseteq arrived' /\ arrived' \subseteq Mail
    BY <1>4 DEF Interrupt, UserTurn, Drain, Arrive, TypeOK
  <2>3. agent' \in [turn: BOOLEAN, active: BOOLEAN] /\ paused' \in Generation
    <3>1. agent' \in {agent, [turn |-> FALSE, active |-> FALSE], [turn |-> TRUE, active |-> FALSE]}
      BY <1>4 DEF Interrupt, UserTurn, Drain, Arrive
    <3>2. paused' \in {paused, {}}
      BY <1>4 DEF Interrupt, UserTurn, Drain, Arrive
    <3>3. /\ [turn |-> FALSE, active |-> FALSE] \in [turn: BOOLEAN, active: BOOLEAN]
          /\ [turn |-> TRUE, active |-> FALSE] \in [turn: BOOLEAN, active: BOOLEAN]
      OBVIOUS
    <3>4. agent \in [turn: BOOLEAN, active: BOOLEAN] /\ paused \in Generation
      BY DEF TypeOK
    <3>5. {} \in Generation
      BY DEF Generation
    <3>6. agent' \in [turn: BOOLEAN, active: BOOLEAN]
      BY <3>1, <3>3, <3>4, Zenon
    <3> QED
      BY <3>2, <3>4, <3>5, <3>6
  <2>4. UNCHANGED <<lease, slot, watcher, woken>>
    BY <1>4 DEF Interrupt, UserTurn, Drain, Arrive
  <2> QED
    BY <2>1, <2>2, <2>3, <2>4 DEF TypeOK, RevInv
<1>5. ASSUME NEW p \in Watcher, WatcherStep(p) PROVE TypeOK' /\ RevInv'
  <2>1. watcher'[p].rev <= lease
    BY <1>0, <1>5, WatcherStepIs DEF Keeps, Off, RevInv
  <2>2. TypeOK'
    BY <1>5, WatcherStepIs DEF TypeOK, Alone, SlotOK
  <2> QED
    BY <1>5, <2>1, <2>2, WatcherStepIs DEF RevInv, Alone
<1>6. ASSUME NEW p \in Watcher, Signal(p) \/ Kill(p) PROVE TypeOK' /\ RevInv'
  <2>1. Alone(p) /\ watcher'[p].rev <= lease
    BY <1>0, <1>6, EndsIs, OffIs DEF Signal, Kill, Keeps, Off, RevInv
  <2>2. spent' \in [Kinds -> Nat]
    BY <1>6, SpendIs DEF Signal, Kill, Kinds
  <2> QED
    BY <1>6, <2>1, <2>2 DEF Signal, Kill, TypeOK, RevInv, Alone
<1>7. CASE Stale
  <2>1. spent' \in [Kinds -> Nat]
    BY <1>7, SpendIs DEF Stale, Kinds, TypeOK
  <2>2. SlotOK'
    BY <1>7 DEF Stale, TypeOK, SlotOK, Slot
  <2> QED
    BY <1>7, <2>1, <2>2 DEF Stale, TypeOK, SlotOK, RevInv
<1>8. CASE UNCHANGED vars
  BY <1>8 DEF vars, TypeOK, RevInv
<1> QED
  BY <1>1, <1>2, <1>3, <1>4, <1>5, <1>6, <1>7, <1>8 DEF Next

\* No event is forgotten.
LEMMA SpentStep ==
    ASSUME TypeOK, [Next]_vars, NEW k \in Kinds
    PROVE  spent[k] \in Nat /\ spent'[k] \in Nat /\ spent[k] <= spent'[k]
<1>1. CASE \E l \in Kinds : Spend(l)
  BY <1>1, SpendIs DEF TypeOK
<1>2. CASE UNCHANGED spent
  BY <1>2 DEF TypeOK
<1> QED
  BY <1>1, <1>2, WatcherStepIs
  DEF Next, NewSession, Compact, EndTurn, Signal, Kill, Interrupt, UserTurn, Drain, Arrive,
      Stale, vars, Kinds

-----------------------------------------------------------------------------
(* One poller *)

InLoop(p) == watcher[p].at \in {"look", "wait"}

\* A hook gets into the loop with a slot that nobody lives in, and stays there with its
\* own; the slot of another live hook is left alone.
LEMMA SlotIs ==
    ASSUME TypeOK, NEW p \in Watcher, WatcherStep(p)
    PROVE  /\ InLoop(p)' =>
                /\ watcher'[p].rev = watcher[p].rev
                /\ InLoop(p) \/ (watcher[p].rev = lease /\ (slot.pid = p \/ ~Lives))
                /\ \/ InLoop(p) /\ UNCHANGED slot
                   \/ slot'.pid = p /\ slot'.beat = "fresh"
           /\ UNCHANGED slot \/ slot.pid = p \/ ~Lives
<1> USE DEF Place, Outcome, InLoop
<1>0. slot \in Slot
  BY DEF TypeOK
<1>1. CASE Load(p)
  <2>1. watcher'[p].at \in {"list", "off"}
    <3>1. CASE watcher' = [watcher EXCEPT ![p].at = "list", ![p].last = slot.last,
                                          ![p].attempts = slot.attempts]
      BY <3>1, ReadIs
    <3>2. CASE watcher' = [watcher EXCEPT ![p] = Off]
      <4>1. watcher'[p] = Off
        BY <3>2, OffIs
      <4> QED
        BY <4>1 DEF Off
    <3> QED
      BY <1>1, <3>1, <3>2 DEF Load, Exits
  <2> QED
    BY <1>1, <2>1 DEF Load
<1>2. CASE List(p)
  BY <1>2, GoIs, OffIs DEF List, Off
<1>3. CASE ClaimSlot(p)
  <2>1. CASE MayClaim(p)
    <3>1. watcher'[p].rev = watcher[p].rev
      BY <1>3, <2>1, ReadIs DEF ClaimSlot, Keeps
    <3>2. slot'.pid = p /\ slot'.beat = "fresh"
      BY <1>0, <1>3, <2>1 DEF ClaimSlot, Slot
    <3> QED
      BY <2>1, <3>1, <3>2 DEF MayClaim
  <2>2. CASE ~MayClaim(p)
    BY <1>3, <2>2, GoIs DEF ClaimSlot
  <2> QED
    BY <2>1, <2>2
<1>4. CASE Recheck(p)
  BY <1>4, EndsIs DEF Recheck
<1>5. CASE Look(p)
  <2>1. watcher'[p].rev = watcher[p].rev
    BY <1>5, GoIs, SeesIs DEF Look, Keeps
  <2> QED
    BY <1>5, <2>1 DEF Look
<1>6. CASE Beat(p)
  <2>1. watcher'[p].rev = watcher[p].rev
    BY <1>6, GoIs, EndsIs DEF Beat, Keeps
  <2>2. CASE Owns(p)
    BY <1>0, <1>6, <2>1, <2>2 DEF Beat, Owns, Slot
  <2>3. CASE ~Owns(p)
    BY <1>6, <2>1, <2>3, EndsIs DEF Beat
  <2> QED
    BY <2>2, <2>3
<1>7. CASE Found(p)
  BY <1>7, EndsIs DEF Found, Owns
<1>8. CASE TimedOut(p)
  BY <1>8, EndsIs DEF TimedOut, Owns
<1>9. CASE Clear(p)
  BY <1>9, OffIs DEF Clear, Exits, Off, Owns
<1> QED
  BY <1>1, <1>2, <1>3, <1>4, <1>5, <1>6, <1>7, <1>8, <1>9 DEF WatcherStep

LEMMA PollStep ==
    TypeOK /\ RevInv /\ PollInv /\ OnePoller /\ [Next]_vars => PollInv' /\ OnePoller'
<1> SUFFICES ASSUME TypeOK, RevInv, PollInv, OnePoller, [Next]_vars
             PROVE  PollInv' /\ OnePoller'
  OBVIOUS
<1>a. "stall" \in Kinds
  BY DEF Kinds
<1>b. /\ spent["stall"] \in Nat /\ spent'["stall"] \in Nat /\ spent["stall"] <= spent'["stall"]
  BY <1>a, SpentStep
<1> SUFFICES ASSUME spent'["stall"] = 0
             PROVE  /\ \A p \in Watcher : (Current(p) /\ InLoop(p))' =>
                         slot'.pid = p /\ slot'.beat = "fresh"
                    /\ \A p, q \in Watcher : (p # q /\ InLoop(p) /\ InLoop(q))' =>
                         watcher'[p].rev # watcher'[q].rev
  BY <1>b DEF PollInv, OnePoller, InLoop
<1>0. spent["stall"] = 0
  BY <1>b
<1>1. /\ \A p \in Watcher : Current(p) /\ InLoop(p) => slot.pid = p /\ slot.beat = "fresh"
      /\ \A p, q \in Watcher : p # q /\ InLoop(p) /\ InLoop(q) => watcher[p].rev # watcher[q].rev
  BY <1>0 DEF PollInv, OnePoller, InLoop
<1>2. ASSUME NEW p \in Watcher, NewSession(p) \/ Compact(p) \/ EndTurn(p)
      PROVE  Alone(p) /\ ~InLoop(p)'
  <2>1. agent.active \in BOOLEAN /\ lease \in 0..MaxLease /\ (lease < MaxLease => lease + 1 \in 0..MaxLease)
    BY WatcherAssumption DEF TypeOK
  <2> QED
    BY <1>2, <2>1, StartIs DEF NewSession, Compact, EndTurn, InLoop
<1>3. ASSUME NEW p \in Watcher, NewSession(p)
      PROVE  \A q \in Watcher : ~(Current(q) /\ InLoop(q))'
  <2>1. lease \in Nat /\ lease' = lease + 1 /\ \A q \in Watcher : watcher[q].rev \in Nat
    BY <1>3, WatcherAssumption DEF NewSession, TypeOK, Process
  <2>2. \A q \in Watcher : watcher[q].rev # lease'
    BY <2>1 DEF RevInv
  <2>3. \A q \in Watcher \ {p} : ~Current(q)'
    BY <1>2, <1>3, <2>2 DEF Current, Alone
  <2> QED
    BY <1>2, <1>3, <2>3
<1>4. ASSUME NEW p \in Watcher, Signal(p) \/ Kill(p) PROVE Alone(p) /\ ~InLoop(p)'
  BY <1>4, EndsIs, OffIs DEF Signal, Kill, InLoop, Off, Outcome
<1>5. CASE \E p \in Watcher : NewSession(p)
  BY <1>1, <1>2, <1>3, <1>5 DEF InLoop, Alone
<1>6. CASE \E p \in Watcher : Compact(p) \/ EndTurn(p) \/ Signal(p) \/ Kill(p)
  <2> PICK p \in Watcher : Compact(p) \/ EndTurn(p) \/ Signal(p) \/ Kill(p)
    BY <1>6
  <2>1. UNCHANGED <<lease, slot>>
    BY DEF Compact, EndTurn, Signal, Kill
  <2>2. Alone(p) /\ ~InLoop(p)'
    BY <1>2, <1>4
  <2> QED
    BY <1>1, <2>1, <2>2 DEF InLoop, Current, Alone
<1>7. CASE Interrupt \/ UserTurn \/ Drain \/ Arrive \/ UNCHANGED vars
  <2>1. UNCHANGED <<lease, slot, watcher>>
    BY <1>7 DEF Interrupt, UserTurn, Drain, Arrive, vars
  <2> QED
    BY <1>1, <2>1 DEF InLoop, Current
<1>8. CASE Stale
  <2>1. UNCHANGED spent \/ Spend("stall")
    BY <1>8 DEF Stale
  <2>2. spent'["stall"] # spent["stall"] + 1
    BY <1>0
  <2>3. watcher[slot.pid].at = "off"
    BY <1>8, <2>2, SpendIs DEF Stale, Kinds
  <2>4. UNCHANGED <<lease, watcher>>
    BY <1>8 DEF Stale
  <2> QED
    BY <1>1, <2>3, <2>4 DEF InLoop, Current
<1>9. CASE \E p \in Watcher : WatcherStep(p)
  <2> PICK p \in Watcher : WatcherStep(p)
    BY <1>9
  <2>1. Alone(p) /\ UNCHANGED lease
    BY WatcherStepIs
  <2>2. \A q \in Watcher \ {p} : Current(q) /\ InLoop(q) => UNCHANGED slot
    <3> SUFFICES ASSUME NEW q \in Watcher \ {p}, Current(q), InLoop(q) PROVE UNCHANGED slot
      OBVIOUS
    <3>1. slot.pid = q /\ Lives
      BY <1>1, WatcherAssumption DEF Lives, Current
    <3> QED
      BY <3>1, SlotIs
  <2>3. ASSUME NEW q \in Watcher \ {p}, InLoop(p)', InLoop(q)
        PROVE  watcher'[p].rev # watcher[q].rev
    <3>1. CASE InLoop(p)
      BY <1>1, <2>3, <3>1, SlotIs
    <3>2. CASE watcher[p].rev = lease /\ (slot.pid = p \/ ~Lives)
      <4>1. ~Current(q)
        BY <1>1, <2>3, <3>2, WatcherAssumption DEF Lives, Current
      <4> QED
        BY <2>3, <3>2, <4>1, SlotIs DEF Current, InLoop
    <3> QED
      BY <2>3, <3>1, <3>2, SlotIs
  <2>4. (Current(p) /\ InLoop(p))' => slot'.pid = p /\ slot'.beat = "fresh"
    BY <1>1, <2>1, SlotIs DEF Current, InLoop
  <2> QED
    BY <1>1, <2>1, <2>2, <2>3, <2>4 DEF InLoop, Current, Alone
<1> QED
  BY <1>5, <1>6, <1>7, <1>8, <1>9 DEF Next

-----------------------------------------------------------------------------
(* Few wakes *)

SessionStays == UNCHANGED <<lease, agent, woken>>
RecordStays == slot'.last = slot.last /\ slot'.attempts = slot.attempts

\* A hook of an older lease, or one that is not running, changes nothing of the session.
LEMMA StrangerStep ==
    ASSUME TypeOK, WakeInv, NEW p \in Watcher, Alone(p), SessionStays, RecordStays,
           UNCHANGED <<new, arrived>>,
           ~Current(p), ~Current(p)', watcher'[p].mail \subseteq arrived
    PROVE  WakeInv'
<1>1. \A q \in Watcher : /\ Current(q)' => Current(q) /\ watcher'[q] = watcher[q]
                         /\ watcher'[q].mail \subseteq arrived
  BY DEF Alone, Current, SessionStays, WakeInv, NewMailInv
<1>2. OneHookInv'
  BY <1>1 DEF SessionStays, WakeInv, OneHookInv
<1>3. RecordInv'
  BY <1>1 DEF SessionStays, RecordStays, WakeInv, RecordInv, Waking
<1>4. StopInv'
  BY <1>1 DEF SessionStays, WakeInv, StopInv
<1>5. NewMailInv'
  BY <1>1 DEF SessionStays, RecordStays, WakeInv, NewMailInv, Polls
<1>6. CountInv'
  BY DEF SessionStays, RecordStays, WakeInv, CountInv
<1> QED
  BY <1>2, <1>3, <1>4, <1>5, <1>6 DEF WakeInv

\* The hook of the session ends without a wake: nobody is left to wake it.
LEMMA LastHookGoes ==
    ASSUME TypeOK, WakeInv, NEW p \in Watcher, Current(p), Alone(p),
           SessionStays, RecordStays, UNCHANGED <<new, arrived>>, watcher'[p] = Off
    PROVE  WakeInv'
<1>1. \A q \in Watcher : ~Current(q)' /\ watcher'[q].mail \subseteq arrived
  BY DEF Alone, Current, Off, SessionStays, WakeInv, OneHookInv, NewMailInv
<1>2. ~agent.turn
  BY DEF WakeInv, OneHookInv
<1>3. OneHookInv' /\ RecordInv' /\ StopInv'
  BY <1>1, <1>2 DEF SessionStays, OneHookInv, RecordInv, StopInv
<1>4. NewMailInv'
  BY <1>1 DEF RecordStays, WakeInv, NewMailInv
<1>5. CountInv'
  BY DEF SessionStays, RecordStays, WakeInv, CountInv
<1> QED
  BY <1>3, <1>4, <1>5 DEF WakeInv

\* The hook of the session goes on and records nothing.
LEMMA HookGoesOn ==
    ASSUME TypeOK, WakeInv, NEW p \in Watcher, Current(p), ~Waking(p), Alone(p), Keeps(p),
           SessionStays, RecordStays, UNCHANGED <<new, arrived>>, ~Waking(p)',
           watcher'[p].mail \subseteq arrived,
           watcher'[p].at \in {"list", "look", "wait", "found", "timeout"} =>
              watcher'[p].last = slot.last /\ watcher'[p].attempts = slot.attempts,
           woken.times >= 2 =>
              /\ Polls(p)' => new # slot.last
              /\ watcher'[p].at = "found" => watcher'[p].mail # slot.last
    PROVE  WakeInv'
<1>1. \A q \in Watcher \ {p} : ~Current(q)' /\ watcher'[q].mail \subseteq arrived
  BY DEF Alone, Current, SessionStays, WakeInv, OneHookInv, NewMailInv
<1>2. ~agent.turn
  BY DEF WakeInv, OneHookInv
<1>3. OneHookInv'
  BY <1>1, <1>2 DEF SessionStays, OneHookInv
<1>4. RecordInv'
  BY <1>1, <1>2 DEF SessionStays, RecordStays, WakeInv, RecordInv
<1>5. StopInv'
  BY <1>1, <1>2 DEF SessionStays, WakeInv, StopInv, Keeps
<1>6. NewMailInv'
  BY <1>1 DEF SessionStays, RecordStays, WakeInv, NewMailInv
<1>7. CountInv'
  BY DEF SessionStays, RecordStays, WakeInv, CountInv
<1> QED
  BY <1>3, <1>4, <1>5, <1>6, <1>7 DEF WakeInv

\* The hook of the session records the wake for the mail it has seen, which is the
\* second one for a generation at most.
LEMMA WakeIsRecorded ==
    ASSUME TypeOK, WakeInv, NEW p \in Watcher, Current(p), Found(p), Owns(p)
    PROVE  WakeInv'
<1>1. /\ Alone(p) /\ Keeps(p) /\ watcher'[p].mail = watcher[p].mail
      /\ watcher'[p].at = "clear" /\ watcher'[p].out = "mail"
  BY EndsIs DEF Found, Outcome, KeepsRead
<1>2. SessionStays /\ UNCHANGED <<new, arrived>>
  BY DEF Found, SessionSame, SessionStays
<1>3. slot'.last = watcher[p].mail /\ slot'.attempts = NextAttempt(p)
  BY DEF Found, TypeOK, Slot
<1>4. /\ \A q \in Watcher \ {p} : ~Current(q)' /\ watcher'[q].mail \subseteq arrived
      /\ watcher[p].mail \subseteq arrived
  BY <1>1, <1>2 DEF Alone, Current, SessionStays, WakeInv, OneHookInv, NewMailInv
<1>5. ~agent.turn
  BY DEF WakeInv, OneHookInv
<1>6. /\ watcher[p].at = "found" /\ ~Waking(p)
      /\ watcher[p].last = slot.last /\ watcher[p].attempts = slot.attempts
      /\ slot.last = woken.mail /\ slot.attempts = woken.times
  BY DEF Found, Waking, WakeInv, NewMailInv, RecordInv
<1>7. slot.attempts \in Nat /\ woken.times \in Nat
  BY DEF TypeOK, Slot
<1>8. NextAttempt(p) <= 2
  <2>1. CASE watcher[p].mail = watcher[p].last
    <3>1. ~(woken.times >= 2)
      BY <1>6, <2>1 DEF WakeInv, NewMailInv
    <3> QED
      BY <1>6, <1>7, <2>1, <3>1 DEF NextAttempt
  <2>2. CASE watcher[p].mail # watcher[p].last
    BY <2>2 DEF NextAttempt
  <2> QED
    BY <2>1, <2>2
<1>9. OneHookInv'
  BY <1>2, <1>4, <1>5 DEF SessionStays, OneHookInv
<1>10. RecordInv'
  BY <1>1, <1>2, <1>3, <1>4, <1>5, <1>6 DEF SessionStays, RecordInv, Waking, NextAttempt
<1>11. StopInv'
  BY <1>1, <1>2, <1>4, <1>5 DEF SessionStays, WakeInv, StopInv, Keeps
<1>12. NewMailInv'
  BY <1>1, <1>2, <1>3, <1>4 DEF NewMailInv, Polls
<1>13. CountInv'
  BY <1>2, <1>3, <1>8 DEF SessionStays, WakeInv, CountInv
<1> QED
  BY <1>9, <1>10, <1>11, <1>12, <1>13 DEF WakeInv

\* The hook of the session exits and starts a turn.
LEMMA HookWakes ==
    ASSUME TypeOK, WakeInv, NEW p \in Watcher, Current(p), Clear(p), watcher[p].out # "quiet"
    PROVE  WakeInv'
<1>1. /\ Alone(p) /\ watcher'[p] = Off /\ UNCHANGED <<lease, new, arrived>>
      /\ watcher[p].out \in Outcome
  BY ExitsIs DEF Clear, TypeOK, Process
<1>2. RecordStays
  BY DEF Clear, RecordStays, TypeOK, Slot
<1>3. ~agent.turn
  BY DEF WakeInv, OneHookInv
<1>4. agent' = [turn |-> TRUE, active |-> watcher[p].stop]
  BY <1>3 DEF Clear, Exits, Current
<1>5. \A q \in Watcher : ~Current(q)' /\ watcher'[q].mail \subseteq arrived
  BY <1>1 DEF Alone, Current, Off, WakeInv, OneHookInv, NewMailInv
<1>6. OneHookInv'
  BY <1>5 DEF OneHookInv
<1>7. NewMailInv'
  BY <1>1, <1>2, <1>5 DEF RecordStays, WakeInv, NewMailInv
<1>8. woken.times \in Nat /\ slot.attempts \in Nat
  BY DEF TypeOK, Slot
<1>9. CASE Waking(p)
  <2>1. /\ woken'.mail = watcher[p].mail
        /\ woken'.times = IF woken.mail = watcher[p].mail THEN woken.times + 1 ELSE 1
    BY <1>3, <1>9 DEF Clear, Exits, Current, Waking
  <2>2. slot.last = woken'.mail /\ slot.attempts = woken'.times
    BY <1>9, <2>1 DEF WakeInv, RecordInv
  <2>3. woken'.times >= 2 => watcher[p].stop
    BY <1>8, <2>1 DEF WakeInv, StopInv
  <2>4. RecordInv'
    BY <1>2, <1>5, <2>2 DEF RecordInv, RecordStays
  <2>5. StopInv'
    BY <1>4, <1>5, <2>3 DEF StopInv
  <2>6. CountInv'
    BY <1>2, <2>2 DEF RecordStays, WakeInv, CountInv
  <2> QED
    BY <1>6, <1>7, <2>4, <2>5, <2>6 DEF WakeInv
<1>10. CASE ~Waking(p)
  <2>1. UNCHANGED woken
    BY <1>10 DEF Clear, Exits, Waking
  <2>2. RecordInv'
    BY <1>2, <1>5, <1>10, <2>1 DEF RecordInv, RecordStays, WakeInv
  <2>3. woken.times >= 2 => watcher[p].stop
    BY <1>8 DEF WakeInv, StopInv
  <2>4. StopInv'
    BY <1>4, <1>5, <2>1, <2>3 DEF StopInv
  <2>5. CountInv'
    BY <1>2, <2>1 DEF RecordStays, WakeInv, CountInv
  <2> QED
    BY <1>6, <1>7, <2>2, <2>4, <2>5 DEF WakeInv
<1> QED
  BY <1>9, <1>10

LEMMA StrangerIs ==
    ASSUME TypeOK, WakeInv, NEW p \in Watcher, WatcherStep(p), ~Current(p)
    PROVE  WakeInv'
<1> USE DEF Outcome, Place
<1>1. watcher[p].at # "off" /\ watcher[p].rev # lease
  BY DEF WatcherStep, Load, List, ClaimSlot, Recheck, Look, Beat, Found, TimedOut, Clear, Current
<1>2. Alone(p) /\ (Keeps(p) \/ watcher'[p] = Off) /\ UNCHANGED <<lease, new, arrived>>
  BY WatcherStepIs
<1>3. UNCHANGED slot
  BY <1>1 DEF WatcherStep, Load, List, ClaimSlot, Recheck, Look, Beat, Found, TimedOut, Clear,
              MayClaim, Owns
<1>4. UNCHANGED <<agent, woken>>
  BY <1>1 DEF WatcherStep, Load, List, ClaimSlot, Recheck, Look, Beat, Found, TimedOut, Clear,
              SessionSame, Exits
<1>5. ~Current(p)'
  BY <1>1, <1>2 DEF Current, Keeps, Off
<1>6. watcher'[p].mail \subseteq arrived
  <2>1. CASE Look(p)
    <3>1. watcher'[p].mail \in {new, watcher[p].mail}
      BY <2>1, GoIs, SeesIs DEF Look, KeepsRead
    <3> QED
      BY <3>1 DEF TypeOK, WakeInv, NewMailInv
  <2>2. CASE Recheck(p) \/ Beat(p) \/ Found(p) \/ TimedOut(p)
    BY <1>1, <2>2, EndsIs DEF Recheck, Beat, Found, TimedOut, Owns, KeepsRead, WakeInv, NewMailInv
  <2>3. CASE List(p) \/ ClaimSlot(p)
    BY <1>1, <2>3, GoIs, OffIs DEF List, ClaimSlot, MayClaim, KeepsRead, Off, WakeInv, NewMailInv
  <2>4. CASE Load(p) \/ Clear(p)
    BY <1>1, <2>4, OffIs DEF Load, Clear, Exits, Off
  <2> QED
    BY <2>1, <2>2, <2>3, <2>4 DEF WatcherStep
<1> QED
  BY <1>2, <1>3, <1>4, <1>5, <1>6, StrangerStep DEF SessionStays, RecordStays

\* What the hook of the session does on its own.
LEMMA HookIs ==
    ASSUME TypeOK, WakeInv, NEW p \in Watcher, WatcherStep(p), Current(p)
    PROVE  WakeInv'
<1> USE DEF Outcome, Place
<1>0. /\ ~agent.turn /\ watcher[p].mail \subseteq arrived /\ new \subseteq arrived
      /\ watcher[p].rev = lease /\ slot \in Slot
  BY DEF WakeInv, OneHookInv, NewMailInv, TypeOK, Current
<1>1. Alone(p)
  BY WatcherStepIs
<1>2. CASE Load(p)
  <2>1. CASE /\ watcher' = [watcher EXCEPT ![p].at = "list", ![p].last = slot.last,
                                           ![p].attempts = slot.attempts]
             /\ SessionSame
    <3>1. /\ Keeps(p) /\ watcher'[p].at = "list" /\ watcher'[p].mail = watcher[p].mail
          /\ watcher'[p].last = slot.last /\ watcher'[p].attempts = slot.attempts
      BY <2>1, ReadIs
    <3> QED
      BY <1>0, <1>1, <1>2, <2>1, <3>1, HookGoesOn
      DEF Load, Waking, Polls, SessionSame, SessionStays, RecordStays
  <2>2. CASE Exits(p, "quiet")
    <3>1. watcher'[p] = Off
      BY <2>2, OffIs DEF Exits
    <3> QED
      BY <1>1, <1>2, <2>2, <3>1, LastHookGoes DEF Load, Exits, SessionStays, RecordStays
  <2> QED
    BY <1>0, <1>2, <2>1, <2>2 DEF Load
<1>3. CASE List(p)
  <2>1. SessionStays /\ RecordStays /\ UNCHANGED <<new, arrived>>
    BY <1>3 DEF List, SessionSame, SessionStays, RecordStays
  <2>2. CASE Pauses(p)
    <3>1. watcher'[p] = Off
      BY <1>3, <2>2, OffIs DEF List
    <3> QED
      BY <1>1, <2>1, <3>1, LastHookGoes
  <2>3. CASE ~Pauses(p)
    <3>1. Keeps(p) /\ KeepsRead(p) /\ watcher'[p].at = "claim"
      BY <1>3, <2>3, GoIs DEF List
    <3>2. ASSUME woken.times >= 2 PROVE new # slot.last
      <4>1. watcher[p].stop /\ watcher[p].active
        <5>1. woken.times >= 1
          BY <3>2 DEF TypeOK
        <5> QED
          BY <3>2, <5>1 DEF WakeInv, StopInv
      <4>2. /\ watcher[p].last = slot.last /\ watcher[p].attempts = slot.attempts
            /\ slot.attempts = woken.times
        BY <1>3 DEF List, Waking, WakeInv, NewMailInv, RecordInv
      <4> QED
        BY <2>3, <3>2, <4>1, <4>2 DEF Pauses
    <3> QED
      BY <1>0, <1>1, <1>3, <2>1, <3>1, <3>2, HookGoesOn DEF List, Waking, Polls, KeepsRead
  <2> QED
    BY <2>2, <2>3
<1>4. CASE ClaimSlot(p)
  <2>1. SessionStays /\ RecordStays /\ UNCHANGED <<new, arrived>>
    BY <1>0, <1>4 DEF ClaimSlot, SessionSame, SessionStays, RecordStays, Slot
  <2>2. /\ watcher'[p].at = "look" \/ watcher'[p].at = "recheck"
        /\ watcher'[p].at = "look" => watcher'[p].last = slot.last /\ watcher'[p].attempts = slot.attempts
        /\ Keeps(p) /\ watcher'[p].mail = watcher[p].mail
    BY <1>4, GoIs, ReadIs DEF ClaimSlot, KeepsRead
  <2>3. woken.times >= 2 => new # slot.last
    BY <1>4 DEF ClaimSlot, WakeInv, NewMailInv, Polls
  <2> QED
    BY <1>0, <1>1, <1>4, <2>1, <2>2, <2>3, HookGoesOn DEF ClaimSlot, Waking, Polls
<1>5. CASE Recheck(p)
  <2>1. \E o \in {"quiet", "error"} : Ends(p, o)
    BY <1>5 DEF Recheck
  <2>2. /\ Keeps(p) /\ KeepsRead(p) /\ watcher'[p].at = "clear" /\ watcher'[p].out # "mail"
    BY <2>1, EndsIs
  <2> QED
    BY <1>0, <1>1, <1>5, <2>2, HookGoesOn
    DEF Recheck, Waking, Polls, KeepsRead, SessionSame, SessionStays, RecordStays
<1>6. CASE Look(p)
  <2>1. SessionStays /\ RecordStays /\ UNCHANGED <<new, arrived>>
    BY <1>6 DEF Look, SessionSame, SessionStays, RecordStays
  <2>2. /\ watcher[p].last = slot.last /\ watcher[p].attempts = slot.attempts
        /\ woken.times >= 2 => new # slot.last
    BY <1>6 DEF Look, WakeInv, NewMailInv, Polls
  <2>3. /\ Keeps(p) /\ watcher'[p].at \in {"found", "wait", "timeout"}
        /\ watcher'[p].last = watcher[p].last /\ watcher'[p].attempts = watcher[p].attempts
        /\ watcher'[p].mail \subseteq arrived
        /\ watcher'[p].at = "found" => watcher'[p].mail = new
    BY <1>0, <1>6, GoIs, SeesIs DEF Look, KeepsRead
  <2> QED
    BY <1>1, <1>6, <2>1, <2>2, <2>3, HookGoesOn DEF Look, Waking, Polls
<1>7. CASE Beat(p)
  <2>1. SessionStays /\ RecordStays /\ UNCHANGED <<new, arrived>>
    BY <1>0, <1>7 DEF Beat, SessionSame, SessionStays, RecordStays, Slot
  <2>2. /\ watcher[p].last = slot.last /\ watcher[p].attempts = slot.attempts
        /\ woken.times >= 2 => new # slot.last
    BY <1>7 DEF Beat, WakeInv, NewMailInv, Polls
  <2>3. /\ Keeps(p) /\ KeepsRead(p)
        /\ watcher'[p].at = "look" \/ (watcher'[p].at = "clear" /\ watcher'[p].out = "quiet")
    BY <1>7, GoIs, EndsIs DEF Beat
  <2> QED
    BY <1>0, <1>1, <1>7, <2>1, <2>2, <2>3, HookGoesOn DEF Beat, Waking, Polls, KeepsRead
<1>8. CASE (Found(p) /\ ~Owns(p)) \/ TimedOut(p)
  <2>1. SessionStays /\ RecordStays /\ UNCHANGED <<new, arrived>>
    BY <1>0, <1>8 DEF Found, TimedOut, SessionSame, SessionStays, RecordStays, Slot
  <2>2. \E o \in {"beat", "error"} : Ends(p, o)
    BY <1>8 DEF Found, TimedOut
  <2>3. /\ Keeps(p) /\ KeepsRead(p) /\ watcher'[p].at = "clear" /\ watcher'[p].out # "mail"
    BY <2>2, EndsIs
  <2> QED
    BY <1>0, <1>1, <1>8, <2>1, <2>3, HookGoesOn DEF Found, TimedOut, Waking, Polls, KeepsRead
<1>9. CASE Clear(p) /\ watcher[p].out = "quiet"
  <2>1. watcher'[p] = Off
    BY <1>9, OffIs DEF Clear, Exits
  <2>2. RecordStays
    BY <1>0, <1>9 DEF Clear, RecordStays, Slot
  <2> QED
    BY <1>1, <1>9, <2>1, <2>2, LastHookGoes DEF Clear, Exits, SessionStays
<1> QED
  BY <1>2, <1>3, <1>4, <1>5, <1>6, <1>7, <1>8, <1>9, WakeIsRecorded, HookWakes DEF WatcherStep

LEMMA WakeStep ==
    TypeOK /\ RevInv /\ WakeInv /\ [Next]_vars /\ Quiet' => WakeInv'
<1> SUFFICES ASSUME TypeOK, RevInv, WakeInv, [Next]_vars, Quiet' PROVE WakeInv'
  OBVIOUS
<1> USE DEF Outcome, Place
<1>0. /\ new \subseteq arrived /\ agent.active \in BOOLEAN
      /\ lease \in Nat /\ lease \in 0..MaxLease /\ (lease < MaxLease => lease + 1 \in 0..MaxLease)
      /\ \A q \in Watcher : watcher[q].rev \in Nat
  BY WatcherAssumption DEF TypeOK, Process
<1>1. ASSUME NEW p \in Watcher, NewSession(p) PROVE WakeInv'
  <2>1. Alone(p) /\ watcher'[p].at = "load" /\ watcher'[p].mail = {}
    BY <1>0, <1>1, StartIs DEF NewSession
  <2>2. \A q \in Watcher \ {p} : ~Current(q)' /\ watcher'[q].mail \subseteq arrived
    <3>1. \A q \in Watcher : watcher[q].rev # lease + 1
      BY <1>0 DEF RevInv
    <3> QED
      BY <1>1, <2>1, <3>1 DEF NewSession, Alone, Current, WakeInv, NewMailInv
  <2>3. /\ slot' = EmptySlot /\ woken' = Nothing /\ agent' = [turn |-> FALSE, active |-> FALSE]
        /\ UNCHANGED <<new, arrived>>
    BY <1>1 DEF NewSession
  <2> QED
    BY <2>1, <2>2, <2>3
    DEF WakeInv, OneHookInv, RecordInv, StopInv, NewMailInv, CountInv, Waking, Polls, EmptySlot, Nothing
<1>2. ASSUME NEW p \in Watcher, EndTurn(p) PROVE WakeInv'
  <2>1. /\ Alone(p) /\ watcher'[p].at = "load" /\ watcher'[p].mail = {}
        /\ watcher'[p].stop = TRUE /\ watcher'[p].active = agent.active
    BY <1>0, <1>2, StartIs DEF EndTurn
  <2>2. \A q \in Watcher \ {p} : ~Current(q)' /\ watcher'[q].mail \subseteq arrived
    BY <1>2, <2>1 DEF EndTurn, Alone, Current, WakeInv, OneHookInv, NewMailInv
  <2>3. /\ UNCHANGED <<slot, woken, new, arrived>> /\ agent' = [turn |-> FALSE, active |-> FALSE]
        /\ agent.turn
    BY <1>2 DEF EndTurn
  <2>4. OneHookInv'
    BY <2>2, <2>3 DEF OneHookInv
  <2>5. RecordInv'
    BY <2>1, <2>2, <2>3 DEF WakeInv, RecordInv, Waking
  <2>6. StopInv'
    BY <2>1, <2>2, <2>3 DEF WakeInv, StopInv
  <2>7. NewMailInv'
    BY <2>1, <2>2, <2>3 DEF WakeInv, NewMailInv, Polls
  <2>8. CountInv'
    BY <2>3 DEF WakeInv, CountInv
  <2> QED
    BY <2>4, <2>5, <2>6, <2>7, <2>8 DEF WakeInv
<1>3. CASE Interrupt
  BY <1>3 DEF Interrupt, WakeInv, OneHookInv, RecordInv, StopInv, NewMailInv, CountInv, Current,
              Waking, Polls
<1>4. CASE Drain
  <2>1. \A p \in Watcher : ~Current(p)
    BY <1>4 DEF Drain, WakeInv, OneHookInv
  <2>2. UNCHANGED <<lease, slot, arrived, watcher, agent, woken>>
    BY <1>4 DEF Drain
  <2> QED
    BY <2>1, <2>2
    DEF WakeInv, OneHookInv, RecordInv, StopInv, NewMailInv, CountInv, Current, Waking, Polls
<1>5. CASE Arrive
  <2>1. /\ UNCHANGED <<lease, slot, watcher, agent, woken>>
        /\ arrived \subseteq arrived' /\ new' \ new \subseteq arrived' \ arrived /\ new \subseteq new'
    BY <1>5 DEF Arrive
  <2>2. new # slot.last => new' # slot.last
    BY <1>0, <2>1 DEF WakeInv, NewMailInv
  <2>3. NewMailInv'
    BY <2>1, <2>2 DEF WakeInv, NewMailInv, Current, Polls
  <2> QED
    BY <2>1, <2>3 DEF WakeInv, OneHookInv, RecordInv, StopInv, CountInv, Current, Waking
<1>6. CASE Stale \/ UNCHANGED vars
  <2>1. UNCHANGED <<lease, new, arrived, watcher, agent, woken>> /\ RecordStays
    BY <1>6 DEF Stale, vars, RecordStays, TypeOK, Slot
  <2> QED
    BY <2>1 DEF RecordStays, WakeInv, OneHookInv, RecordInv, StopInv, NewMailInv, CountInv, Current,
                Waking, Polls
<1>7. ASSUME NEW p \in Watcher, Signal(p) \/ Kill(p) PROVE WakeInv'
  <2>1. SessionStays /\ RecordStays /\ UNCHANGED <<new, arrived>>
    BY <1>7 DEF Signal, Kill, SessionStays, RecordStays
  <2>2. CASE Kill(p)
    <3>1. Alone(p) /\ watcher'[p] = Off
      BY <2>2, OffIs DEF Kill
    <3> QED
      BY <2>1, <3>1, LastHookGoes, StrangerStep DEF Current, Off
  <2>3. CASE Signal(p)
    <3>1. /\ Alone(p) /\ Keeps(p) /\ KeepsRead(p)
          /\ watcher'[p].at = "clear" /\ watcher'[p].out = "quiet"
      BY <2>3, EndsIs DEF Signal
    <3>2. /\ ~Waking(p) /\ ~Waking(p)' /\ ~Polls(p)' /\ (Current(p) <=> Current(p)')
          /\ watcher'[p].mail \subseteq arrived
      BY <2>1, <2>3, <3>1
      DEF Signal, Waking, Polls, Current, Keeps, KeepsRead, SessionStays, WakeInv, NewMailInv
    <3>3. CASE Current(p)
      BY <2>1, <3>1, <3>2, <3>3, HookGoesOn
    <3>4. CASE ~Current(p)
      BY <2>1, <3>1, <3>2, <3>4, StrangerStep
    <3> QED
      BY <3>3, <3>4
  <2> QED
    BY <1>7, <2>2, <2>3
<1>8. ASSUME NEW k \in {"user", "compact"}, Spend(k) PROVE FALSE
  <2>1. spent["user"] \in Nat /\ spent["compact"] \in Nat
    BY DEF TypeOK, Kinds
  <2>2. spent'["user"] \in Nat /\ spent'["compact"] \in Nat /\ spent'[k] = spent[k] + 1
    BY <1>8, SpendIs DEF Kinds
  <2> QED
    BY <1>8, <2>1, <2>2 DEF Quiet
<1> QED
  BY <1>1, <1>2, <1>3, <1>4, <1>5, <1>6, <1>7, <1>8, StrangerIs, HookIs DEF Next, Compact, UserTurn

-----------------------------------------------------------------------------
(* The theorems *)

THEOREM Invariant == Spec => []IInv
<1>1. IInv /\ [Next]_vars => IInv'
  <2> SUFFICES ASSUME IInv, [Next]_vars PROVE IInv'
    OBVIOUS
  <2>1. TypeOK' /\ RevInv' /\ PollInv' /\ OnePoller'
    BY TypeStep, PollStep DEF IInv
  <2>2. Quiet' => Quiet
    <3>1. "user" \in Kinds /\ "compact" \in Kinds
      BY DEF Kinds
    <3>2. /\ spent["user"] \in Nat /\ spent'["user"] \in Nat /\ spent["user"] <= spent'["user"]
          /\ spent["compact"] \in Nat /\ spent'["compact"] \in Nat
          /\ spent["compact"] <= spent'["compact"]
      BY <3>1, SpentStep DEF IInv
    <3> QED
      BY <3>2 DEF Quiet
  <2>3. Quiet' => WakeInv'
    BY <2>2, WakeStep DEF IInv
  <2> QED
    BY <2>1, <2>3 DEF IInv
<1> QED
  BY <1>1, InitHolds, PTL DEF Spec

\* The types, and a slot that names a watcher has a heartbeat.
THEOREM TypeCorrect == Spec => []TypeOK
<1>1. IInv => TypeOK
  BY DEF IInv
<1> QED
  BY <1>1, Invariant, PTL

\* Two hooks of a lease are in the poll loop only after one has stalled.
THEOREM PollersExclude == Spec => []OnePoller
<1>1. IInv => OnePoller
  BY DEF IInv
<1> QED
  BY <1>1, Invariant, PTL

\* One generation wakes the session at most twice, with any number of hooks, stalls,
\* signals and kills.
THEOREM WakesBounded == Spec => []FewWakes
<1>1. IInv => FewWakes
  BY DEF IInv, Quiet, WakeInv, CountInv, FewWakes
<1> QED
  BY <1>1, Invariant, PTL

\* The slot is cleared by its owner only.
THEOREM SuccessorKept == Spec => SuccessorStays
<1>1. ASSUME TypeOK, [Next]_vars, slot.pid # NoPid, slot'.pid = NoPid, lease' = lease
      PROVE  watcher[slot.pid].at = "clear" /\ watcher[slot.pid].rev = lease
  <2>0. slot \in Slot /\ lease \in Nat
    BY <1>1, WatcherAssumption DEF TypeOK
  <2>1. ASSUME NEW p \in Watcher, WatcherStep(p)
        PROVE  watcher[slot.pid].at = "clear" /\ watcher[slot.pid].rev = lease
    <3>1. Clear(p)
      BY <1>1, <2>0, <2>1, WatcherAssumption
      DEF WatcherStep, Load, List, ClaimSlot, Recheck, Look, Beat, Found, TimedOut, Slot
    <3> QED
      BY <1>1, <3>1 DEF Clear, Owns
  <2>2. ASSUME NEW p \in Watcher PROVE ~NewSession(p)
    <3>1. NewSession(p) => lease' = lease + 1
      BY DEF NewSession
    <3> QED
      BY <1>1, <2>0, <3>1
  <2>3. ~UNCHANGED slot /\ slot'.pid # slot.pid
    BY <1>1
  <2> QED
    BY <1>1, <2>0, <2>1, <2>2, <2>3
    DEF Next, Compact, EndTurn, Signal, Kill, Interrupt, UserTurn, Drain, Arrive, Stale, vars, Slot
<1>2. IInv /\ [Next]_vars =>
        [(slot.pid # NoPid /\ slot'.pid = NoPid /\ lease' = lease)
            => watcher[slot.pid].at = "clear" /\ watcher[slot.pid].rev = lease]_vars
  BY <1>1 DEF IInv
<1> QED
  BY <1>2, Invariant, PTL DEF Spec, SuccessorStays

=============================================================================
