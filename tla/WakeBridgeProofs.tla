--------------------------- MODULE WakeBridgeProofs ---------------------------
(***************************************************************************)
(* Proofs about WakeBridge for any number of threads, messages, requests,  *)
(* turns and events, and for every limit of the breaker.                   *)
(***************************************************************************)
EXTENDS WakeBridge, FiniteSetTheorems, TLAPS

-----------------------------------------------------------------------------
(* The inductive invariant *)

\* A turn of thread t has come after turn i.
Followed(i, t) == \E j \in DOMAIN turns : j > i /\ turns[j].thread = t

\* A thread runs one turn at a time: nothing follows a turn that runs.
TurnInv == \A i \in DOMAIN turns : Running(i) => ~Followed(i, turns[i].thread)

\* What a notification says of a turn or a request is true and stays true.
MessageInv(m) ==
    /\ m.kind = "completed" => m.turn \in DOMAIN turns /\ ~Running(m.turn)
    /\ m.kind = "request" => m.turn \in DOMAIN turns
    /\ m.kind = "resolved" => asked[m.ask].state = "resolved"

BufferInv == \A k \in DOMAIN buffer : MessageInv(buffer[k])

NoticeInv ==
    /\ BufferInv
    /\ \A k \in DOMAIN bridge.msgs : MessageInv(bridge.msgs[k])
    /\ \A i \in conn.done : i \in DOMAIN turns /\ ~Running(i)

\* A store keeps a wake and its requests together with the binding they belong to.
StoreInv(s) ==
    /\ s.binding.id <= binds
    /\ s.st.wake # NoWake =>
        /\ s.binding # NoBinding
        /\ s.st.wake.id = s.binding.id /\ s.st.wake.thread = s.binding.thread
        /\ s.st.wake.turn \in DOMAIN turns
        /\ turns[s.st.wake.turn].thread = s.st.wake.thread
    /\ \A a \in s.st.asks : s.st.wake # NoWake /\ a.turn = s.st.wake.turn

\* The revision of a binding tells which one it is.
SameInv ==
    /\ bridge.binding.id <= binds
    /\ disk.binding.id = mem.binding.id => disk.binding = mem.binding
    /\ disk.binding.id = bridge.binding.id => disk.binding = bridge.binding

\* The places at which the bridge goes by the binding and the wake it has read.
Judges == {"check", "terminal", "latch", "clear"}
Passes == {"ready", "wake", "start"}
Starts == {"starting", "started"}
Bound == {"resume", "trust", "giveup"} \cup Judges \cup Passes \cup Starts

\* What the bridge has read is what its copy of the store says.
ReadInv ==
    /\ bridge.at \in {"resume"} \cup Judges \cup Passes =>
        mem.binding = bridge.binding /\ mem.st.wake = bridge.wake
    /\ bridge.wake # NoWake =>
        /\ bridge.binding # NoBinding
        /\ bridge.wake.id = bridge.binding.id /\ bridge.wake.thread = bridge.binding.thread
        /\ bridge.wake.turn \in DOMAIN turns
        /\ turns[bridge.wake.turn].thread = bridge.wake.thread
    /\ bridge.at \in Passes \cup Starts => bridge.wake = NoWake /\ bridge.binding # NoBinding
    /\ bridge.at \in Starts => disk.binding = bridge.binding
    /\ bridge.at = "started" =>
        bridge.turn \in DOMAIN turns /\ turns[bridge.turn].thread = bridge.binding.thread

\* How a wake turn was judged.
EndInv ==
    /\ bridge.at \in {"clear", "trust", "giveup"} =>
        bridge.end \in {"completed", "interrupted", "unknown"}
    /\ bridge.at \in {"latch", "trust"} => bridge.end = "interrupted"
    /\ bridge.at \notin {"latch", "clear", "trust", "giveup", "human", "error"} => bridge.end = ""
    /\ bridge.at # "human" => bridge.breaker = NoBreaker
    /\ bridge.end # "" => bridge.wake # NoWake
    /\ bridge.at = "error" => bridge.error # ""
    /\ bridge.end = "unknown" => Followed(bridge.wake.turn, bridge.wake.thread)
    /\ bridge.at \in {"trust", "giveup"} => mem.st.asks = {}
    /\ bridge.at = "clear" /\ bridge.end = "interrupted" /\ disk.binding = bridge.binding =>
        \A a \in disk.st.asks : a.turn # bridge.wake.turn

\* The copy is the store, but for a breaker that is not saved yet, until the project is
\* bound again.
CopyInv ==
    bridge.at # "idle" =>
        /\ disk.binding = mem.binding /\ disk.binding # NoBinding =>
            /\ disk.st.phase = mem.st.phase /\ disk.st.wake = mem.st.wake
            /\ disk.st.asks = mem.st.asks
            /\ bridge.at \notin {"giveup", "human"} => disk.st.breaker = mem.st.breaker
        /\ disk.binding # mem.binding => disk.st = EmptyState

\* What the bridge goes by is on record as long as its binding is, and nothing is after
\* that.
RecordInv ==
    bridge.at \in Bound \cup {"human"} =>
        /\ disk.binding = bridge.binding => disk.st.wake = bridge.wake
        /\ disk.binding # bridge.binding => disk.st.wake = NoWake

-----------------------------------------------------------------------------
(* The breaker *)

\* A breaker of the wakes that are in a row, with at least k of them counted.
Counts(breaker, k) ==
    /\ breaker # NoBreaker
    /\ breaker.gen = streak.gen /\ breaker.thread = turns[streak.turn].thread
    /\ breaker.count >= k

\* The wakes in a row are of the thread that is bound, by a copy that is the store.
StreakInv ==
    streak # NoStreak =>
        /\ streak.n \in Nat /\ streak.gen \in SUBSET Mail /\ streak.turn \in DOMAIN turns
        /\ disk.binding # NoBinding /\ turns[streak.turn].thread = disk.binding.thread
        /\ bridge.at # "idle" => mem.binding = disk.binding
        /\ bridge.at \in Bound => bridge.binding = disk.binding
        /\ bridge.at = "started" => streak.turn < bridge.turn

\* The wake on record is the last turn of the row, and the ones on record before it are
\* counted.
OnRecordInv ==
    disk.st.wake # NoWake =>
        /\ streak # NoStreak /\ streak.n >= 1
        /\ disk.st.wake.turn = streak.turn /\ disk.st.wake.gen = streak.gen
        /\ streak.n >= 2 => Counts(disk.st.breaker, streak.n - 1)

\* The next wake may be one more in a row, at once or when the last one is interrupted.
MayGoOn ==
    LET t == turns[streak.turn].thread IN
    /\ turns[streak.turn].status # "completed"
    /\ IF bridge.at = "started" THEN InARow
       ELSE IF bridge.at \in {"wake", "start", "starting"}
       THEN \A j \in DOMAIN turns : j > streak.turn /\ turns[j].thread = t => Running(j)
       ELSE ~Followed(streak.turn, t)

\* Without a wake on record all that were are counted, and they are fewer than Limit. A
\* turn that is not on record may run, but not once the bridge has found its thread idle.
OffRecordInv ==
    disk.st.wake = NoWake /\ streak # NoStreak =>
        /\ bridge.at \in {"wake", "start", "starting"} => ~Running(streak.turn)
        /\ MayGoOn => /\ streak.n >= 1 => Counts(disk.st.breaker, streak.n)
                      /\ streak.n < Limit

\* The breaker that is about to be saved counts the wake that was judged.
CountedInv ==
    /\ bridge.at = "giveup" /\ bridge.end = "interrupted" /\ streak # NoStreak =>
        Counts(mem.st.breaker, streak.n) /\ streak.n < Limit
    /\ bridge.at = "human" /\ bridge.breaker # NoBreaker =>
        /\ bridge.wake # NoWake /\ bridge.expect = bridge.wake.id
        /\ bridge.end = "interrupted"
        /\ bridge.breaker.count >= Limit
        /\ bridge.breaker.gen = bridge.wake.gen /\ bridge.breaker.thread = bridge.wake.thread
        /\ streak # NoStreak => Counts(bridge.breaker, streak.n)

-----------------------------------------------------------------------------
(* The latch *)

\* Without a malformed entry the bridge does not get past its look at the latch.
HeldInv ==
    spent["malformed"] = 0 =>
        /\ ~malformed
        /\ latched # "" =>
            /\ disk.st.phase = "NEEDS_HUMAN"
            /\ bridge.at \in {"idle", "consume"}
            /\ bridge.at = "consume" => mem.st.phase = "NEEDS_HUMAN"

\* Without turns of the user a wake on record is the last turn of its thread.
AloneInv ==
    spent["user"] = 0 =>
        /\ disk.st.wake # NoWake => ~Followed(disk.st.wake.turn, disk.st.wake.thread)
        /\ bridge.at = "started" => ~Followed(bridge.turn, bridge.binding.thread)

\* A wake that has closed the breaker is judged again, and closes it again.
ClosedInv ==
    latched = "interrupted_breaker" /\ spent["user"] = 0 =>
        /\ disk.st.wake # NoWake /\ turns[disk.st.wake.turn].status = "interrupted"
        /\ disk.st.breaker # NoBreaker /\ disk.st.breaker.count >= Limit
        /\ disk.st.breaker.gen = disk.st.wake.gen
        /\ disk.st.breaker.thread = disk.st.wake.thread
        /\ bridge.at \notin {"giveup"} \cup Passes \cup Starts
        /\ bridge.end \in {"", "interrupted"}

RecordsInv == StoreInv(disk) /\ StoreInv(mem) /\ SameInv

IInv ==
    /\ TypeOK /\ BindingStands
    /\ TurnInv /\ NoticeInv /\ RecordsInv /\ ReadInv /\ EndInv /\ CopyInv /\ RecordInv
    /\ BreakerHolds /\ StreakInv /\ OnRecordInv /\ OffRecordInv /\ CountedInv
    /\ HeldInv /\ AloneInv /\ ClosedInv
-----------------------------------------------------------------------------
(* Types *)

LEMMA NothingIsNothing ==
    /\ NoBinding \notin Binding /\ NoBinding.id = 0
    /\ NoWake \notin Wake /\ NoWake.turn = 0
    /\ NoBreaker \notin Breaker /\ NoBreaker.count = 0
BY DEF NoBinding, Binding, NoWake, Wake, NoBreaker, Breaker, Turn

LEMMA BindingIs ==
    ASSUME NEW b \in Binding \cup {NoBinding}
    PROVE  /\ b.id \in Nat /\ b # NoBinding <=> b.id # 0
           /\ b # NoBinding => b.thread \in Thread
BY NothingIsNothing DEF Binding

LEMMA EmptyIs == EmptyState \in ProjectState /\ EmptyState.wake = NoWake /\ EmptyState.asks = {}
BY DEF EmptyState, ProjectState, Phase

LEMMA IdleIs ==
    /\ Idle \in Local /\ Idle.at = "idle" /\ DOMAIN Idle.msgs = {} /\ Idle.end = ""
    /\ Idle.binding = NoBinding /\ Idle.wake = NoWake /\ Idle.breaker = NoBreaker
BY BridgeAssumption DEF Idle, Local, Place

LEMMA GoIs ==
    ASSUME bridge \in Local, NEW place \in Place, Go(place)
    PROVE  /\ bridge' \in Local /\ bridge'.at = place
           /\ bridge'.msgs = bridge.msgs /\ bridge'.gen = bridge.gen
           /\ bridge'.binding = bridge.binding /\ bridge'.wake = bridge.wake
           /\ bridge'.end = bridge.end /\ bridge'.breaker = bridge.breaker
           /\ bridge'.turn = bridge.turn /\ bridge'.expect = bridge.expect
BY DEF Go, Local

LEMMA FailsIs ==
    ASSUME bridge \in Local, NEW e \in {"BACKOFF", "IDENTITY_ERROR"}, NEW x \in Nat, Fails(e, x)
    PROVE  /\ bridge' \in Local /\ bridge'.at = "error" /\ bridge'.error = e
           /\ bridge'.msgs = bridge.msgs /\ bridge'.gen = bridge.gen
           /\ bridge'.binding = bridge.binding /\ bridge'.wake = bridge.wake
           /\ bridge'.end = bridge.end /\ bridge'.breaker = bridge.breaker
           /\ bridge'.turn = bridge.turn /\ bridge'.expect = x
BY DEF Fails, Local, Place

LEMMA SaveIs ==
    ASSUME disk \in Store, mem \in Store, NEW st \in ProjectState, Save(st)
    PROVE  /\ disk' \in Store /\ mem' = disk' /\ disk'.binding = disk.binding
           /\ disk.binding \in {mem.binding, NoBinding} => disk'.st = st
           /\ disk.binding \notin {mem.binding, NoBinding} => disk'.st = disk.st
BY DEF Save, Store

LEMMA FlushIs ==
    ASSUME disk \in Store, NEW st \in ProjectState, Flush(st)
    PROVE  /\ disk' \in Store /\ mem' = disk' /\ disk'.binding = disk.binding /\ disk'.st = st
BY DEF Flush, Store

LEMMA TurnsAre ==
    ASSUME TypeOK
    PROVE  /\ Len(turns) \in Nat /\ Len(turns) <= MaxTurn /\ MaxTurn \in Nat
           /\ DOMAIN turns = 1..Len(turns) /\ DOMAIN turns \subseteq Turn
           /\ \A i \in DOMAIN turns : /\ i \in Nat /\ turns[i] \in TurnRecord
                                     /\ turns[i].thread \in Thread
                                     /\ turns[i].status \in {"running", "completed", "interrupted"}
<1>1. turns \in Seq(TurnRecord) /\ Len(turns) <= MaxTurn /\ MaxTurn \in Nat
  BY BridgeAssumption DEF TypeOK
<1>2. Len(turns) \in Nat /\ DOMAIN turns = 1..Len(turns) /\ \A i \in DOMAIN turns : turns[i] \in TurnRecord
  BY <1>1
<1> QED
  BY <1>1, <1>2 DEF TurnRecord, Turn

LEMMA StoresAre ==
    ASSUME TypeOK, NEW s \in {disk, mem}
    PROVE  /\ s \in Store /\ s.binding \in Binding \cup {NoBinding} /\ s.binding.id \in Nat
           /\ s.st \in ProjectState /\ s.st.phase \in Phase /\ s.st.wake \in Wake \cup {NoWake}
           /\ s.st.breaker \in Breaker \cup {NoBreaker} /\ s.st.late \in BOOLEAN
           /\ s.st.asks \subseteq [ask: Ask, turn: Turn]
<1>1. s \in Store
  BY DEF TypeOK
<1>2. s.binding \in Binding \cup {NoBinding} /\ s.st \in ProjectState
  BY <1>1 DEF Store
<1>3. s.binding.id \in Nat
  BY <1>2, BindingIs
<1> QED
  BY <1>1, <1>2, <1>3 DEF ProjectState

LEMMA WakeIs ==
    ASSUME NEW w \in Wake \cup {NoWake}, w # NoWake
    PROVE  w \in Wake /\ w.turn \in Turn /\ w.thread \in Thread /\ w.id \in Nat /\ w.gen \in SUBSET Mail
BY DEF Wake

LEMMA BreakerIs ==
    ASSUME NEW b \in Breaker \cup {NoBreaker}, b # NoBreaker
    PROVE  b \in Breaker /\ b.count \in Nat \ {0} /\ b.thread \in Thread /\ b.gen \in SUBSET Mail
BY DEF Breaker

LEMMA BridgeIs ==
    ASSUME TypeOK
    PROVE  /\ bridge \in Local /\ bridge.at \in Place /\ bridge.msgs \in Seq(Message)
           /\ bridge.gen \in SUBSET Mail /\ bridge.backing \in BOOLEAN
           /\ bridge.binding \in Binding \cup {NoBinding} /\ bridge.binding.id \in Nat
           /\ bridge.wake \in Wake \cup {NoWake} /\ bridge.breaker \in Breaker \cup {NoBreaker}
           /\ bridge.end \in {"", "completed", "interrupted", "unknown", "changed"}
           /\ bridge.turn \in 0..MaxTurn /\ bridge.error \in {"", "BACKOFF", "IDENTITY_ERROR"}
           /\ bridge.expect \in Nat
<1>1. bridge \in Local
  BY DEF TypeOK
<1>2. bridge.binding \in Binding \cup {NoBinding}
  BY <1>1 DEF Local
<1>3. bridge.binding.id \in Nat
  BY <1>2, BindingIs
<1> QED
  BY <1>1, <1>2, <1>3 DEF Local

-----------------------------------------------------------------------------
(* What the app-server and the inbox do *)

\* Turns begin and end. A turn that has ended keeps its end, one that begins is the only
\* one of its thread.
Later ==
    /\ turns' \in Seq(TurnRecord) /\ Len(turns') <= MaxTurn
    /\ \A i \in DOMAIN turns :
        /\ i \in DOMAIN turns' /\ turns'[i].thread = turns[i].thread
        /\ ~Running(i) => turns'[i] = turns[i]
    /\ \A j \in DOMAIN turns' \ DOMAIN turns :
        /\ j = Len(turns) + 1 /\ turns'[j].status = "running" /\ ~Active(turns'[j].thread)

NextSpends == spent' \in [Kinds -> Nat] /\ \A k \in Kinds : spent[k] <= spent'[k]

LEMMA SameTurns ==
    ASSUME TypeOK, UNCHANGED turns
    PROVE  Later
BY DEF TypeOK, Later

LEMMA BeginsIs ==
    ASSUME TypeOK, NEW t \in Thread, ~Active(t), Len(turns) < MaxTurn,
           turns' = Append(turns, [thread |-> t, status |-> "running"])
    PROVE  /\ Later /\ Len(turns') = Len(turns) + 1 /\ Len(turns') \in DOMAIN turns'
           /\ turns'[Len(turns')] = [thread |-> t, status |-> "running"]
<1> DEFINE r == [thread |-> t, status |-> "running"]
<1>1. r \in TurnRecord /\ r.status = "running" /\ r.thread = t
  BY DEF TurnRecord
<1>2. turns \in Seq(TurnRecord) /\ Len(turns) \in Nat /\ MaxTurn \in Nat /\ DOMAIN turns = 1..Len(turns)
  BY TurnsAre DEF TypeOK
<1>3. turns' = Append(turns, r)
  OBVIOUS
<1> HIDE DEF r
<1>4. /\ turns' \in Seq(TurnRecord) /\ Len(turns') = Len(turns) + 1 /\ DOMAIN turns' = 1..(Len(turns) + 1)
      /\ \A i \in 1..Len(turns) : turns'[i] = turns[i]
      /\ turns'[Len(turns) + 1] = r
  BY <1>1, <1>2, <1>3
<1>5. Later
  BY <1>1, <1>2, <1>4 DEF Later
<1> QED
  BY <1>2, <1>4, <1>5 DEF r

LEMMA EndsIs ==
    ASSUME TypeOK, NEW i \in DOMAIN turns, EndTurn(i)
    PROVE  /\ Later /\ Len(turns') = Len(turns) /\ ~Running(i)' /\ Running(i)
           /\ \A j \in DOMAIN turns : j # i => turns'[j] = turns[j]
<1>1. PICK s \in {"completed", "interrupted"} : turns' = [turns EXCEPT ![i].status = s]
  BY DEF EndTurn
<1>2. turns \in Seq(TurnRecord) /\ Len(turns) \in Nat /\ DOMAIN turns = 1..Len(turns) /\ Len(turns) <= MaxTurn
  BY TurnsAre DEF TypeOK
<1>3. turns[i] \in TurnRecord /\ [turns[i] EXCEPT !.status = s] \in TurnRecord
      /\ [turns[i] EXCEPT !.status = s].thread = turns[i].thread
      /\ [turns[i] EXCEPT !.status = s].status = s
  BY TurnsAre DEF TurnRecord
<1>4. turns' = [turns EXCEPT ![i] = [turns[i] EXCEPT !.status = s]]
  BY <1>1
<1>5. /\ turns' \in Seq(TurnRecord) /\ Len(turns') = Len(turns) /\ DOMAIN turns' = DOMAIN turns
      /\ turns'[i] = [turns[i] EXCEPT !.status = s]
      /\ \A j \in DOMAIN turns : j # i => turns'[j] = turns[j]
  BY <1>2, <1>3, <1>4
<1>6. Running(i)
  BY DEF EndTurn
<1>7. Later
  BY <1>2, <1>3, <1>5, <1>6 DEF Later
<1> QED
  BY <1>3, <1>5, <1>6, <1>7 DEF Running

LEMMA LaterKeepsTurnInv ==
    ASSUME TypeOK, TurnInv, Later
    PROVE  TurnInv'
<1> SUFFICES ASSUME NEW i \in DOMAIN turns', Running(i)', NEW j \in DOMAIN turns',
                    j > i, turns'[j].thread = turns'[i].thread
             PROVE  FALSE
  BY DEF TurnInv, Followed
<1>1. i \in Nat /\ j \in Nat /\ Len(turns) \in Nat /\ DOMAIN turns = 1..Len(turns)
  BY TurnsAre DEF Later
<1>2. i \in DOMAIN turns
  BY <1>1 DEF Later
<1>3. Running(i) /\ turns'[i].thread = turns[i].thread
  BY <1>2 DEF Later, Running
<1>4. CASE j \in DOMAIN turns
  BY <1>2, <1>3, <1>4 DEF TurnInv, Followed, Later
<1>5. CASE j \notin DOMAIN turns
  BY <1>2, <1>3, <1>5 DEF Later, Active
<1> QED
  BY <1>4, <1>5

LEMMA LaterFollowed ==
    ASSUME TypeOK, Later, NEW i, NEW t, Followed(i, t)
    PROVE  Followed(i, t)'
BY DEF Later, Followed

LEMMA SameFollowed ==
    ASSUME TypeOK, Later, Len(turns') = Len(turns), NEW i, NEW t, Followed(i, t)'
    PROVE  Followed(i, t)
<1>1. DOMAIN turns' = DOMAIN turns
  BY TurnsAre DEF Later
<1> QED
  BY <1>1 DEF Later, Followed

\* A notice stays true.
LEMMA LaterMessage ==
    ASSUME TypeOK, Later, NEW m, MessageInv(m),
           \A a \in Ask : asked[a].state = "resolved" => asked'[a].state = "resolved",
           m \in Message
    PROVE  MessageInv(m)'
BY DEF Later, MessageInv, Message, Running

\* All that is not the bridge's and not the store's.
Aside ==
    /\ UNCHANGED <<bridge, conn, disk, mem, binds, bound, latched, streak>>
    /\ Later /\ NextSpends
    /\ buffer' \in Seq(Message)
    /\ asked' \in [Ask -> [state: {"none", "open", "resolved"}, turn: 0..MaxTurn]]
    /\ \A a \in Ask : asked[a].state = "resolved" => asked'[a].state = "resolved"
    /\ BufferInv'
    /\ new' \subseteq arrived' /\ arrived' \subseteq Mail /\ malformed' \in BOOLEAN
    /\ spent'["malformed"] = 0 => spent["malformed"] = 0 /\ (malformed' => malformed)
    /\ spent'["user"] = 0 => spent["user"] = 0 /\ Len(turns') = Len(turns)

\* The bridge goes on at another place, with what it has read.
Moves(place) ==
    /\ bridge' \in Local /\ bridge'.at = place
    /\ bridge'.msgs = bridge.msgs /\ bridge'.gen = bridge.gen
    /\ bridge'.binding = bridge.binding /\ bridge'.wake = bridge.wake
    /\ bridge'.end = bridge.end /\ bridge'.breaker = bridge.breaker

LEMMA CallFailsIs ==
    ASSUME bridge \in Local, NEW x \in Nat, CallFails(x)
    PROVE  Moves("error") /\ Spend("error") /\ bridge'.error # ""
BY FailsIs DEF CallFails, Moves

\* The messages that were drained.
LEMMA NextMessageIs ==
    ASSUME bridge \in Local, bridge.msgs # <<>>, NextMessage
    PROVE  /\ Message1 \in Message /\ \E k \in DOMAIN bridge.msgs : Message1 = bridge.msgs[k]
           /\ bridge' \in Local /\ bridge'.at = bridge.at
           /\ bridge'.msgs = Tail(bridge.msgs) /\ bridge'.gen = bridge.gen
           /\ bridge'.binding = bridge.binding /\ bridge'.wake = bridge.wake
           /\ bridge'.end = bridge.end /\ bridge'.breaker = bridge.breaker
           /\ \A k \in DOMAIN bridge'.msgs : \E n \in DOMAIN bridge.msgs : bridge'.msgs[k] = bridge.msgs[n]
<1>1. bridge.msgs \in Seq(Message)
  BY DEF Local
<1>2. /\ Head(bridge.msgs) = bridge.msgs[1] /\ 1 \in DOMAIN bridge.msgs
      /\ Tail(bridge.msgs) \in Seq(Message) /\ DOMAIN Tail(bridge.msgs) = 1..(Len(bridge.msgs) - 1)
      /\ \A k \in DOMAIN Tail(bridge.msgs) :
            k + 1 \in DOMAIN bridge.msgs /\ Tail(bridge.msgs)[k] = bridge.msgs[k + 1]
  BY <1>1
<1>3. /\ bridge' \in Local /\ bridge'.at = bridge.at
      /\ bridge'.msgs = Tail(bridge.msgs) /\ bridge'.gen = bridge.gen
      /\ bridge'.binding = bridge.binding /\ bridge'.wake = bridge.wake
      /\ bridge'.end = bridge.end /\ bridge'.breaker = bridge.breaker
  BY <1>2 DEF NextMessage, Local
<1>4. bridge.msgs[1] \in Message
  BY <1>1, <1>2
<1>5. \A k \in DOMAIN bridge'.msgs : bridge'.msgs[k] = bridge.msgs[k + 1] /\ k + 1 \in DOMAIN bridge.msgs
  BY <1>2, <1>3
<1> QED
  BY <1>2, <1>3, <1>4, <1>5 DEF Message1

LEMMA CompletedIs ==
    ASSUME IInv, ConsumeCompleted
    PROVE  /\ bridge.at = "consume" /\ bridge'.at = "consume"
           /\ Message1.turn \in DOMAIN turns /\ ~Running(Message1.turn)
           /\ conn' \in Connection /\ conn'.done = conn.done \cup {Message1.turn}
<1> DEFINE i == Message1.turn
<1>1. Message1 \in Message /\ bridge'.at = "consume" /\ Message1.kind = "completed"
  BY NextMessageIs DEF IInv, TypeOK, ConsumeCompleted
<1>2. i \in DOMAIN turns /\ ~Running(i)
  BY <1>1, NextMessageIs DEF IInv, TypeOK, NoticeInv, MessageInv, ConsumeCompleted
<1>3. turns[i].thread \in Thread /\ i \in Turn
  BY <1>2, TurnsAre DEF IInv
<1>4. conn' = [conn EXCEPT !.completed = @ \cup {turns[i].thread}, !.done = @ \cup {i}]
  BY DEF ConsumeCompleted
<1>5. conn' \in Connection /\ conn'.done = conn.done \cup {i}
  <2> HIDE DEF i
  <2> QED
    BY <1>3, <1>4 DEF IInv, TypeOK, Connection
<1> QED
  BY <1>1, <1>2, <1>5 DEF ConsumeCompleted

LEMMA SpendIs ==
    ASSUME TypeOK, NEW k \in Kinds, Spend(k)
    PROVE  /\ spent' \in [Kinds -> Nat] /\ spent'[k] = spent[k] + 1
           /\ \A n \in Kinds : spent[n] <= spent'[n]
<1>1. spent \in [Kinds -> Nat] /\ spent' = [spent EXCEPT ![k] = @ + 1]
  BY DEF Spend, TypeOK
<1> QED
  BY <1>1

-----------------------------------------------------------------------------
(* What the steps do *)

\* The binding is another one, or none, and everything starts afresh.
Replaced ==
    /\ disk' \in Store /\ bound' = disk'.binding
    /\ \/ bound' = NoBinding /\ binds' = binds
       \/ bound' \in Binding /\ bound'.id = binds + 1 /\ binds' = binds + 1
    /\ disk'.st.wake = NoWake /\ disk'.st.asks = {}
    /\ latched' = "" /\ streak' = NoStreak

LEMMA RebindIs ==
    ASSUME TypeOK, NEW t \in Thread, Rebind(t)
    PROVE  Replaced /\ disk'.st = EmptyState /\ disk'.binding # disk.binding
<1>1. /\ binds \in Nat /\ disk.binding \in Binding \cup {NoBinding} /\ disk.binding.id <= binds
  BY DEF TypeOK, Store
<1>2. bound' = [thread |-> t, id |-> binds + 1] /\ disk' = [binding |-> bound', st |-> EmptyState]
  BY DEF Rebind
<1>3. bound' \in Binding /\ bound'.id = binds + 1
  BY <1>1, <1>2 DEF Binding
<1>4. disk' \in Store /\ disk'.binding = bound' /\ disk'.st = EmptyState
  BY <1>2, <1>3, EmptyIs DEF Store
<1>5. disk.binding.id \in Nat
  BY <1>1, BindingIs
<1>6. disk'.binding # disk.binding
  BY <1>1, <1>3, <1>4, <1>5
<1> QED
  BY <1>3, <1>4, <1>6, EmptyIs DEF Rebind, Replaced

LEMMA CommandIs ==
    ASSUME TypeOK, (\E t \in Thread : CommandBind(t)) \/ Unbind
    PROVE  /\ Replaced /\ disk'.st = EmptyState /\ disk'.binding # disk.binding
           /\ StoreFree /\ UNCHANGED <<mem, bridge, conn, turns, asked, buffer, new, arrived, malformed>>
           /\ Spend("bind")
<1>1. CASE \E t \in Thread : CommandBind(t)
  BY <1>1, RebindIs DEF CommandBind, ServerSame, MailSame
<1>2. CASE Unbind
  BY <1>2, EmptyIs DEF Unbind, ServerSame, MailSame, Replaced, Store
<1> QED
  BY <1>1, <1>2

LEMMA HandlesIs ==
    ASSUME TypeOK, NEW q \in BOOLEAN, Handles(q)
    PROVE  conn' \in Connection /\ conn'.done = conn.done
BY DEF TypeOK, Handles, Connection

LEMMA StepIs ==
    ASSUME TypeOK, Step
    PROVE  /\ bridge.at = "idle" /\ bridge' \in Local /\ bridge'.at = "consume"
           /\ bridge'.msgs = buffer /\ buffer' = <<>>
           /\ bridge'.binding = NoBinding /\ bridge'.wake = NoWake /\ bridge'.end = ""
           /\ bridge'.breaker = NoBreaker
           /\ conn' \in Connection /\ conn'.done = conn.done
           /\ UNCHANGED <<turns, asked, new, arrived, malformed>>
           /\ mem' = disk' /\ disk' \in Store
           /\ \/ UNCHANGED <<disk, binds, bound, latched, streak, spent>>
              \/ Replaced /\ Spend("bind") /\ (bound' = NoBinding \/ disk'.st = EmptyState)
<1>1. /\ bridge.at = "idle" /\ bridge' \in Local /\ bridge'.at = "consume"
      /\ bridge'.msgs = buffer /\ bridge'.binding = NoBinding /\ bridge'.wake = NoWake
      /\ bridge'.end = "" /\ bridge'.breaker = NoBreaker
  <2> DEFINE r == [Idle EXCEPT !.at = "consume"]
  <2>1. r \in Local /\ r.at = "consume" /\ r.binding = NoBinding /\ r.wake = NoWake
        /\ r.end = "" /\ r.breaker = NoBreaker
    BY IdleIs DEF Local, Place
  <2>2. bridge' = [r EXCEPT !.msgs = buffer] /\ buffer \in Seq(Message) /\ bridge.at = "idle"
    BY DEF Step, TypeOK
  <2> HIDE DEF r
  <2> QED
    BY <2>1, <2>2 DEF Local
<1>2. /\ conn' \in Connection /\ conn'.done = conn.done
      /\ mem' = disk' /\ disk' \in Store
      /\ \/ UNCHANGED <<disk, binds, bound, latched, streak, spent>>
         \/ Replaced /\ Spend("bind") /\ (bound' = NoBinding \/ disk'.st = EmptyState)
  <2>1. CASE mem' = disk /\ UNCHANGED <<disk, binds, bound, latched, streak, conn, spent>>
    BY <2>1 DEF TypeOK
  <2>2. CASE /\ mem' = disk /\ conn' = [conn EXCEPT !.quarantined = FALSE]
             /\ UNCHANGED <<disk, binds, bound, latched, streak, spent>>
    <3>1. conn' \in Connection /\ conn'.done = conn.done
      BY <2>2 DEF TypeOK, Connection
    <3> QED
      BY <2>2, <3>1 DEF TypeOK
  <2>3. CASE /\ Spend("bind") /\ \E t \in Thread : Rebind(t)
             /\ mem' = disk' /\ \E quarantined \in BOOLEAN : Handles(quarantined)
    <3>1. Replaced /\ disk'.st = EmptyState
      BY <2>3, RebindIs
    <3> QED
      BY <2>3, <3>1, HandlesIs DEF Replaced
  <2>4. CASE /\ Spend("bind") /\ bound' = NoBinding
             /\ disk' = [binding |-> NoBinding, st |-> [EmptyState EXCEPT !.phase = "BIND_QUARANTINED"]]
             /\ mem' = disk' /\ latched' = "" /\ streak' = NoStreak
             /\ Handles(TRUE) /\ UNCHANGED binds
    <3>1. /\ [EmptyState EXCEPT !.phase = "BIND_QUARANTINED"] \in ProjectState
          /\ [EmptyState EXCEPT !.phase = "BIND_QUARANTINED"].wake = NoWake
          /\ [EmptyState EXCEPT !.phase = "BIND_QUARANTINED"].asks = {}
      BY DEF EmptyState, ProjectState, Phase
    <3> QED
      BY <2>4, <3>1, HandlesIs DEF TypeOK, Store, Replaced
  <2> QED
    BY <2>1, <2>2, <2>3, <2>4 DEF Step, DrainBindRequests
<1> QED
  BY <1>1, <1>2 DEF Step, MailSame

-----------------------------------------------------------------------------
(* Steps of the app-server and of the inbox *)

LEMMA NotifyIs ==
    ASSUME TypeOK, NoticeInv, Later, NEW i, NEW m \in Message, Notify(i, m), MessageInv(m)',
           \A a \in Ask : asked[a].state = "resolved" => asked'[a].state = "resolved"
    PROVE  buffer' \in Seq(Message) /\ BufferInv'
<1>1. buffer \in Seq(Message)
  BY DEF TypeOK
<1>2. \A k \in DOMAIN buffer : buffer[k] \in Message
  BY <1>1
<1>3. \A k \in DOMAIN buffer : MessageInv(buffer[k])
  BY DEF NoticeInv, BufferInv
<1>4. SUFFICES ASSUME buffer' # buffer
               PROVE  buffer' \in Seq(Message) /\ BufferInv'
  <2>1. CASE buffer' = buffer
    BY <1>1, <1>2, <1>3, <2>1 DEF BufferInv, MessageInv, Later, Message, Running
  <2> QED
    BY <2>1
<1>5. buffer' = Append(buffer, m)
  BY <1>4 DEF Notify
<1>6. /\ buffer' \in Seq(Message)
      /\ \A k \in DOMAIN buffer' : (k \in DOMAIN buffer /\ buffer'[k] = buffer[k]) \/ buffer'[k] = m
  BY <1>1, <1>5
<1> QED
  BY <1>6, <1>2, <1>3 DEF BufferInv, MessageInv, Later, Message, Running

LEMMA SameNotices ==
    ASSUME TypeOK, NoticeInv, Later, UNCHANGED buffer,
           \A a \in Ask : asked[a].state = "resolved" => asked'[a].state = "resolved"
    PROVE  buffer' \in Seq(Message) /\ BufferInv'
<1>1. buffer \in Seq(Message)
  BY DEF TypeOK
<1>2. \A k \in DOMAIN buffer : buffer[k] \in Message
  BY <1>1
<1> QED
  BY <1>1, <1>2 DEF NoticeInv, BufferInv, MessageInv, Later, Message, Running

LEMMA SameSpent ==
    ASSUME TypeOK, UNCHANGED spent
    PROVE  NextSpends
<1>1. spent \in [Kinds -> Nat] /\ spent' = spent
  BY DEF TypeOK
<1>2. \A k \in Kinds : spent[k] \in Nat
  BY <1>1
<1> QED
  BY <1>1, <1>2 DEF NextSpends

LEMMA AsideIs ==
    ASSUME IInv,
           \/ \E t \in Thread : UserTurn(t)
           \/ \E i \in DOMAIN turns : EndTurn(i) \/ \E a \in Ask : Request(i, a)
           \/ \E a \in Ask : Resolve(a)
           \/ Arrive \/ DrainMail \/ Malform
    PROVE  Aside
<1> USE DEF IInv
<1>a. {"user", "ask", "malformed"} \subseteq Kinds
  BY DEF Kinds
<1>b. spent \in [Kinds -> Nat] /\ asked \in [Ask -> [state: {"none", "open", "resolved"}, turn: 0..MaxTurn]]
      /\ new \subseteq arrived /\ arrived \subseteq Mail /\ malformed \in BOOLEAN
  BY DEF TypeOK
<1>1. ASSUME NEW t \in Thread, UserTurn(t) PROVE Aside
  <2>1. Later
    BY <1>1, BeginsIs DEF UserTurn
  <2>2. NextSpends /\ spent'["user"] = spent["user"] + 1 /\ spent["user"] \in Nat
        /\ spent'["malformed"] = spent["malformed"]
    BY <1>1, <1>a, <1>b, SpendIs DEF UserTurn, NextSpends, Spend
  <2>3. buffer' \in Seq(Message) /\ BufferInv'
    BY <1>1, <2>1, SameNotices DEF UserTurn
  <2> QED
    BY <1>1, <1>b, <2>1, <2>2, <2>3 DEF UserTurn, StoreSame, MailSame, Aside
<1>2. ASSUME NEW i \in DOMAIN turns, EndTurn(i) PROVE Aside
  <2>1. Later /\ Len(turns') = Len(turns) /\ ~Running(i)'
    BY <1>2, EndsIs
  <2> DEFINE m == [kind |-> "completed", turn |-> i]
  <2>2. m \in Message /\ MessageInv(m)'
    BY <2>1, TurnsAre DEF Message, MessageInv, Later
  <2>3. buffer' \in Seq(Message) /\ BufferInv'
    BY <1>2, <2>1, <2>2, NotifyIs DEF EndTurn
  <2> QED
    BY <1>2, <1>b, <2>1, <2>3, SameSpent DEF EndTurn, StoreSame, MailSame, Aside
<1>3. ASSUME NEW i \in DOMAIN turns, NEW a \in Ask, Request(i, a) PROVE Aside
  <2>1. Later /\ i \in Turn
    BY <1>3, SameTurns, TurnsAre DEF Request
  <2>2. NextSpends /\ spent'["user"] = spent["user"] /\ spent'["malformed"] = spent["malformed"]
    BY <1>3, <1>a, <1>b, SpendIs DEF Request, NextSpends, Spend
  <2>3. /\ asked' \in [Ask -> [state: {"none", "open", "resolved"}, turn: 0..MaxTurn]]
        /\ \A b \in Ask : asked[b].state = "resolved" => asked'[b].state = "resolved"
    BY <1>3, <1>b, <2>1, BridgeAssumption DEF Request, Turn
  <2>4. PICK named \in BOOLEAN :
            Notify(i, [kind |-> "request", ask |-> a, turn |-> i, named |-> named])
    BY <1>3 DEF Request
  <2> DEFINE m == [kind |-> "request", ask |-> a, turn |-> i, named |-> named]
  <2>5. m \in Message /\ MessageInv(m)'
    BY <2>1 DEF Message, MessageInv, Later
  <2>6. buffer' \in Seq(Message) /\ BufferInv'
    BY <2>1, <2>3, <2>4, <2>5, NotifyIs
  <2> QED
    BY <1>3, <1>b, <2>1, <2>2, <2>3, <2>6 DEF Request, StoreSame, MailSame, Aside
<1>4. ASSUME NEW a \in Ask, Resolve(a) PROVE Aside
  <2>1. Later
    BY <1>4, SameTurns DEF Resolve
  <2>2. /\ asked' \in [Ask -> [state: {"none", "open", "resolved"}, turn: 0..MaxTurn]]
        /\ \A b \in Ask : asked[b].state = "resolved" => asked'[b].state = "resolved"
        /\ asked'[a].state = "resolved"
    BY <1>4, <1>b, BridgeAssumption DEF Resolve
  <2> DEFINE m == [kind |-> "resolved", ask |-> a]
  <2>3. m \in Message /\ MessageInv(m)'
    BY <2>2 DEF Message, MessageInv
  <2>4. buffer' \in Seq(Message) /\ BufferInv'
    BY <1>4, <2>1, <2>2, <2>3, NotifyIs DEF Resolve
  <2> QED
    BY <1>4, <1>b, <2>1, <2>2, <2>4, SameSpent DEF Resolve, StoreSame, MailSame, Aside
<1>5. ASSUME Arrive \/ DrainMail PROVE Aside
  <2>1. Later /\ NextSpends
    BY <1>5, SameTurns, SameSpent DEF Arrive, DrainMail, ServerSame
  <2>2. buffer' \in Seq(Message) /\ BufferInv'
    BY <1>5, <2>1, SameNotices DEF Arrive, DrainMail, ServerSame
  <2> QED
    BY <1>5, <1>b, <2>1, <2>2 DEF Arrive, DrainMail, ServerSame, StoreSame, Aside
<1>6. ASSUME Malform PROVE Aside
  <2>1. Later
    BY <1>6, SameTurns DEF Malform, ServerSame
  <2>2. NextSpends /\ spent'["user"] = spent["user"] /\ malformed' \in BOOLEAN
        /\ (spent'["malformed"] = 0 => spent["malformed"] = 0 /\ ~malformed')
    <3>1. CASE malformed
      <4>1. UNCHANGED spent /\ malformed' = FALSE
        BY <1>6, <3>1 DEF Malform
      <4> QED
        BY <4>1, SameSpent, Zenon
    <3>2. CASE ~malformed
      <4>1. Spend("malformed")
        BY <1>6, <3>2 DEF Malform
      <4>2. spent["malformed"] \in Nat /\ spent'["malformed"] = spent["malformed"] + 1 /\ NextSpends
            /\ spent'["user"] = spent["user"]
        BY <4>1, <1>a, <1>b, SpendIs DEF NextSpends, Spend
      <4>3. malformed' \in BOOLEAN
        BY <1>6 DEF Malform
      <4> QED
        BY <4>2, <4>3
    <3> QED
      BY <3>1, <3>2
  <2>3. buffer' \in Seq(Message) /\ BufferInv'
    BY <1>6, <2>1, SameNotices DEF Malform, ServerSame
  <2> QED
    BY <1>6, <1>b, <2>1, <2>2, <2>3 DEF Malform, ServerSame, StoreSame, Aside
<1> QED
  BY <1>1, <1>2, <1>3, <1>4, <1>5, <1>6

-----------------------------------------------------------------------------
(* The app-server and the inbox keep the invariant *)

LEMMA LaterMayGoOn ==
    ASSUME IInv, Later, UNCHANGED <<bridge, streak>>, streak # NoStreak, MayGoOn'
    PROVE  MayGoOn
<1>1. streak.turn \in DOMAIN turns /\ (bridge.at = "started" => bridge.turn \in DOMAIN turns)
  BY DEF IInv, StreakInv, ReadInv
<1>2. \A i \in DOMAIN turns : /\ i \in DOMAIN turns' /\ turns'[i].thread = turns[i].thread
                              /\ ~Running(i) => turns'[i] = turns[i]
  BY DEF Later
<1>3. \A i \in DOMAIN turns : turns[i].status \in {"running", "completed", "interrupted"}
  BY TurnsAre DEF IInv
<1>4. turns[streak.turn].thread = turns'[streak.turn].thread
  BY <1>1, <1>2
<1>5. turns'[streak.turn].status # "completed"
  BY DEF MayGoOn
<1>6. turns[streak.turn].status # "completed"
  BY <1>5, <1>1, <1>2 DEF Running
<1> DEFINE t == turns[streak.turn].thread
<1>7. CASE bridge.at = "started"
  <2>1. InARow'
    BY <1>7 DEF MayGoOn
  <2>2. (streak.turn + 1)..(bridge.turn - 1) \subseteq DOMAIN turns
    BY <1>1, <1>7, TurnsAre DEF IInv
  <2>3. ~Running(streak.turn)
    <3>1. streak.turn < bridge.turn /\ turns[bridge.turn].thread = t
      BY <1>7 DEF IInv, StreakInv, ReadInv, Bound, Starts
    <3> QED
      BY <1>1, <1>7, <3>1 DEF IInv, TurnInv, Followed
  <2>4. InARow
    BY <1>1, <1>2, <1>7, <2>1, <2>2, <2>3 DEF InARow
  <2> QED
    BY <1>6, <1>7, <2>4 DEF MayGoOn
<1>8. CASE bridge.at \in {"wake", "start", "starting"}
  <2>1. \A j \in DOMAIN turns' : j > streak.turn /\ turns'[j].thread = t => Running(j)'
    BY <1>4, <1>8 DEF MayGoOn
  <2>2. \A j \in DOMAIN turns : j > streak.turn /\ turns[j].thread = t => Running(j)
    BY <1>2, <2>1 DEF Running
  <2> QED
    BY <1>6, <1>8, <2>2 DEF MayGoOn
<1>9. CASE bridge.at \notin {"started", "wake", "start", "starting"}
  <2>1. \A j \in DOMAIN turns' : j > streak.turn => turns'[j].thread # t
    BY <1>4, <1>9 DEF MayGoOn, Followed
  <2>2. ~Followed(streak.turn, t)
    BY <1>2, <2>1 DEF Followed
  <2> QED
    BY <1>6, <1>9, <2>2 DEF MayGoOn
<1> QED
  BY <1>7, <1>8, <1>9

LEMMA AsideKeeps ==
    ASSUME IInv, Aside
    PROVE  IInv'
<1> USE DEF IInv
<1>1. Later /\ UNCHANGED <<bridge, conn, disk, mem, binds, bound, latched, streak>>
  BY DEF Aside
<1>2. \A i \in DOMAIN turns : /\ i \in DOMAIN turns' /\ turns'[i].thread = turns[i].thread
                              /\ ~Running(i) => turns'[i] = turns[i] /\ ~Running(i)'
  BY <1>1 DEF Later, Running
<1>3. TypeOK'
  <2>1. /\ disk' \in Store /\ mem' \in Store
        /\ binds' \in Nat /\ disk'.binding.id <= binds'
        /\ bridge' \in Local
        /\ bridge'.at \in {"check", "terminal", "latch", "clear", "trust", "giveup"} =>
            bridge'.wake # NoWake
        /\ conn' \in Connection
        /\ latched' \in {"", "hook_trust", "server_request", "interrupted_breaker"}
        /\ bound' \in Binding \cup {NoBinding}
    BY <1>1 DEF TypeOK
  <2>2. /\ buffer' \in Seq(Message)
        /\ turns' \in Seq(TurnRecord) /\ Len(turns') <= MaxTurn
        /\ asked' \in [Ask -> [state: {"none", "open", "resolved"}, turn: 0..MaxTurn]]
        /\ new' \subseteq arrived' /\ arrived' \subseteq Mail
        /\ malformed' \in BOOLEAN
        /\ spent' \in [Kinds -> Nat]
    BY DEF Aside, Later, NextSpends
  <2>3. bridge'.end \in {"completed", "interrupted"} => turns'[bridge'.wake.turn].status = bridge'.end
    BY <1>1, <1>2 DEF TypeOK, EndInv, ReadInv, Running
  <2> QED
    BY <2>1, <2>2, <2>3 DEF TypeOK
<1>4. BindingStands' /\ BreakerHolds' /\ TurnInv'
  BY <1>1, LaterKeepsTurnInv DEF BindingStands, BreakerHolds
<1>5. NoticeInv'
  <2>1. bridge.msgs \in Seq(Message)
    BY BridgeIs
  <2>2. \A k \in DOMAIN bridge.msgs : bridge.msgs[k] \in Message
    BY <2>1
  <2> QED
    BY <1>1, <1>2, <2>2 DEF Aside, NoticeInv, MessageInv, Message, Running
<1>6. RecordsInv'
  BY <1>1, <1>2 DEF RecordsInv, StoreInv, SameInv
<1>7. ReadInv'
  BY <1>1, <1>2 DEF ReadInv
<1>8. EndInv'
  BY <1>1, <1>2, LaterFollowed DEF EndInv
<1>9. CopyInv' /\ RecordInv'
  BY <1>1 DEF CopyInv, RecordInv
<1>10. StreakInv'
  BY <1>1, <1>2 DEF StreakInv
<1>11. OnRecordInv'
  BY <1>1, <1>2 DEF OnRecordInv, StreakInv, Counts
<1>12. OffRecordInv'
  <2>1. streak # NoStreak /\ ~Running(streak.turn) => ~Running(streak.turn)'
    BY <1>1, <1>2 DEF StreakInv
  <2> QED
    BY <1>1, <1>2, <2>1, LaterMayGoOn DEF OffRecordInv, StreakInv, Counts
<1>13. CountedInv'
  BY <1>1, <1>2 DEF CountedInv, StreakInv, Counts
<1>14. HeldInv'
  BY <1>1 DEF HeldInv, Aside
<1>15. AloneInv'
  BY <1>1, SameFollowed DEF AloneInv, Aside
<1>16. ClosedInv'
  BY <1>1, <1>2 DEF ClosedInv, Aside, RecordsInv, StoreInv, Running
<1> QED
  BY <1>3, <1>4, <1>5, <1>6, <1>7, <1>8, <1>9, <1>10, <1>11, <1>12, <1>13, <1>14, <1>15, <1>16

-----------------------------------------------------------------------------
(* The bridge gives a pass up, or goes to record an error *)

LEMMA SpentZero ==
    ASSUME TypeOK, NextSpends, NEW k \in {"user", "malformed"}, spent'[k] = 0
    PROVE  spent[k] = 0
<1>1. k \in Kinds /\ spent \in [Kinds -> Nat]
  BY DEF Kinds, TypeOK
<1>2. spent[k] \in Nat /\ spent[k] <= spent'[k]
  BY <1>1 DEF NextSpends
<1> QED
  BY <1>2

Around == UNCHANGED <<turns, asked, new, arrived, malformed>> /\ NextSpends

\* Nothing is written, and what the bridge has read is forgotten.
Forgets ==
    /\ bridge' = Idle /\ mem' \in {mem, disk}
    /\ UNCHANGED <<disk, binds, bound, latched>> /\ Around
    /\ conn' \in Connection /\ conn'.done \subseteq conn.done
    /\ buffer' = buffer \/ buffer' = <<>>

Ends == Forgets /\ UNCHANGED streak

LEMMA GoesOnAtRest ==
    ASSUME IInv, streak # NoStreak, UNCHANGED <<turns, streak>>,
           bridge'.at \notin {"wake", "start", "starting", "started"}, MayGoOn'
    PROVE  MayGoOn
<1> USE DEF IInv
<1> DEFINE t == turns[streak.turn].thread
<1>1. /\ \A j \in DOMAIN turns : j > streak.turn => turns[j].thread # t
      /\ turns[streak.turn].status # "completed"
  BY DEF MayGoOn, Followed
<1>2. CASE bridge.at = "started"
  <2>1. streak.turn < bridge.turn /\ bridge.turn \in DOMAIN turns /\ turns[bridge.turn].thread = t
    BY <1>2 DEF StreakInv, ReadInv, Bound, Starts
  <2>2. bridge.turn \in Nat /\ streak.turn \in Nat
    BY <2>1, TurnsAre DEF StreakInv
  <2> QED
    BY <1>1, <2>1, <2>2
<1> QED
  BY <1>1, <1>2 DEF MayGoOn, Followed

LEMMA ForgetsIs ==
    ASSUME IInv, Forgets
    PROVE  /\ UNCHANGED <<disk, turns>> /\ bridge'.at = "idle"
           /\ TypeOK' /\ BindingStands' /\ TurnInv' /\ NoticeInv' /\ RecordsInv' /\ ReadInv'
           /\ EndInv' /\ CopyInv' /\ RecordInv' /\ CountedInv' /\ HeldInv' /\ AloneInv'
           /\ ClosedInv'
<1> USE DEF IInv
<1>1. /\ UNCHANGED <<disk, binds, bound, latched, turns, asked, new, arrived, malformed>>
      /\ mem' \in {mem, disk} /\ NextSpends
      /\ bridge' \in Local /\ bridge'.at = "idle" /\ DOMAIN bridge'.msgs = {} /\ bridge'.end = ""
      /\ bridge'.binding = NoBinding /\ bridge'.wake = NoWake /\ bridge'.breaker = NoBreaker
  BY IdleIs DEF Forgets, Around
<1>2. spent' \in [Kinds -> Nat] /\ (spent'["user"] = 0 => spent["user"] = 0)
      /\ (spent'["malformed"] = 0 => spent["malformed"] = 0)
  BY <1>1, SpentZero DEF NextSpends
<1>3. TypeOK'
  <2>1. disk' \in Store /\ mem' \in Store /\ binds' \in Nat /\ disk'.binding.id <= binds'
    BY <1>1 DEF TypeOK
  <2>2. buffer' \in Seq(Message) /\ conn' \in Connection
    <3>1. buffer \in Seq(Message) /\ conn' \in Connection
      BY DEF TypeOK, Forgets
    <3>2. CASE buffer' = buffer
      BY <3>1, <3>2
    <3>3. CASE buffer' = <<>>
      BY <3>1, <3>3
    <3> QED
      BY <3>2, <3>3 DEF Forgets
  <2> QED
    BY <1>1, <1>2, <2>1, <2>2 DEF TypeOK
<1>4. BindingStands' /\ TurnInv'
  BY <1>1 DEF BindingStands, TurnInv, Followed, Running
<1>5. NoticeInv'
  <2>1. BufferInv'
    <3>1. CASE buffer' = buffer
      BY <1>1, <3>1 DEF NoticeInv, BufferInv, MessageInv, Running
    <3>2. CASE buffer' = <<>>
      BY <3>2 DEF BufferInv
    <3> QED
      BY <3>1, <3>2 DEF Forgets
  <2> QED
    <3>1. \A i \in conn'.done : i \in DOMAIN turns' /\ ~Running(i)'
      BY <1>1 DEF Forgets, NoticeInv, Running
    <3> QED
      BY <1>1, <2>1, <3>1 DEF NoticeInv
<1>6. RecordsInv'
  <2>1. StoreInv(disk)' /\ StoreInv(mem)'
    BY <1>1 DEF RecordsInv, StoreInv
  <2>2. binds \in Nat /\ disk.binding \in Binding \cup {NoBinding}
    BY StoresAre DEF TypeOK
  <2>3. NoBinding.id = 0 /\ (disk.binding.id = 0 => disk.binding = NoBinding)
    BY <2>2, NothingIsNothing, BindingIs
  <2>4. bridge'.binding.id <= binds'
    <3>1. bridge'.binding.id = 0
      BY <1>1, <2>3, Zenon
    <3>2. binds' \in Nat
      BY <1>1, <2>2
    <3> QED
      BY <3>1, <3>2
  <2>5. SameInv'
    BY <1>1, <2>3, <2>4 DEF RecordsInv, SameInv
  <2> QED
    BY <2>1, <2>5 DEF RecordsInv
<1>7. ReadInv' /\ EndInv' /\ CopyInv' /\ RecordInv'
  BY <1>1 DEF ReadInv, EndInv, CopyInv, RecordInv, Judges, Passes, Starts, Bound
<1>8. CountedInv'
  BY <1>1 DEF CountedInv
<1>9. HeldInv' /\ AloneInv' /\ ClosedInv'
  BY <1>1, <1>2 DEF HeldInv, AloneInv, ClosedInv, Followed, Passes, Starts
<1> QED
  BY <1>1, <1>3, <1>4, <1>5, <1>6, <1>7, <1>8, <1>9

LEMMA EndsKeeps ==
    ASSUME IInv, Ends
    PROVE  IInv'
<1> USE DEF IInv
<1>1. Forgets /\ UNCHANGED <<streak, disk, turns>> /\ bridge'.at = "idle"
  BY ForgetsIs DEF Ends
<1>2. BreakerHolds' /\ StreakInv' /\ OnRecordInv'
  BY <1>1 DEF BreakerHolds, StreakInv, OnRecordInv, Counts, Judges, Passes, Starts, Bound
<1>3. OffRecordInv'
  BY <1>1, GoesOnAtRest DEF OffRecordInv, Counts, Running
<1> QED
  BY <1>1, <1>2, <1>3, ForgetsIs

\* The bridge goes to record an error.
Errs ==
    /\ bridge.at \notin {"idle", "consume", "giveup", "human"} \/ (bridge.at = "consume" /\ malformed)
    /\ Moves("error") /\ bridge'.error # "" /\ mem' \in {mem, disk}
    /\ UNCHANGED <<disk, binds, bound, latched, streak, buffer>> /\ Around
    /\ conn' \in Connection /\ conn'.done \subseteq conn.done

LEMMA ErrsKeeps ==
    ASSUME IInv, Errs
    PROVE  IInv'
<1> USE DEF IInv
<1>1. /\ UNCHANGED <<disk, binds, bound, latched, streak, turns, asked, new, arrived, malformed, buffer>>
      /\ mem' \in {mem, disk} /\ NextSpends
      /\ bridge' \in Local /\ bridge'.at = "error" /\ bridge'.msgs = bridge.msgs
      /\ bridge'.end = bridge.end /\ bridge'.binding = bridge.binding
      /\ bridge'.wake = bridge.wake /\ bridge'.breaker = bridge.breaker
      /\ bridge.at \notin {"idle", "giveup", "human"} /\ bridge'.error # ""
  BY DEF Errs, Around, Moves
<1>2. spent' \in [Kinds -> Nat] /\ (spent'["user"] = 0 => spent["user"] = 0)
      /\ (spent'["malformed"] = 0 => spent["malformed"] = 0)
  BY <1>1, SpentZero DEF NextSpends
<1>3. TypeOK'
  BY <1>1, <1>2 DEF TypeOK, Errs
<1>4. BindingStands' /\ BreakerHolds' /\ TurnInv'
  BY <1>1 DEF BindingStands, BreakerHolds, TurnInv, Followed, Running
<1>5. NoticeInv'
  BY <1>1 DEF Errs, NoticeInv, BufferInv, MessageInv, Running
<1>6. RecordsInv'
  BY <1>1 DEF RecordsInv, StoreInv, SameInv
<1>7. ReadInv'
  BY <1>1 DEF ReadInv, Judges, Passes, Starts, Bound
<1>8. EndInv' /\ RecordInv'
  BY <1>1 DEF EndInv, RecordInv, Judges, Passes, Starts, Bound, Followed
<1>9. CopyInv'
  BY <1>1 DEF CopyInv
<1>10. StreakInv' /\ OnRecordInv' /\ CountedInv'
  BY <1>1 DEF StreakInv, OnRecordInv, CountedInv, Counts, Judges, Passes, Starts, Bound
<1>11. OffRecordInv'
  BY <1>1, GoesOnAtRest DEF OffRecordInv, Counts, Running
<1>12. HeldInv' /\ AloneInv' /\ ClosedInv'
  BY <1>1, <1>2 DEF HeldInv, AloneInv, ClosedInv, Followed, Passes, Starts, Errs
<1> QED
  BY <1>3, <1>4, <1>5, <1>6, <1>7, <1>8, <1>9, <1>10, <1>11, <1>12

-----------------------------------------------------------------------------
(* A bind, an unbind, and the beginning of a pass *)

LEMMA ReplacedIs ==
    ASSUME TypeOK, Replaced
    PROVE  /\ disk'.binding \in Binding \cup {NoBinding} /\ disk'.binding.id \in Nat
           /\ binds' \in Nat /\ binds <= binds' /\ disk'.binding.id <= binds'
           /\ disk'.binding # NoBinding => disk'.binding.id > binds
           /\ disk'.binding = NoBinding => disk'.binding.id = 0
<1>1. binds \in Nat
  BY DEF TypeOK
<1>2. CASE bound' = NoBinding /\ binds' = binds
  <2>1. disk'.binding = NoBinding /\ NoBinding.id = 0
    BY <1>2, NothingIsNothing DEF Replaced
  <2>2. disk'.binding.id = 0
    BY <2>1, Zenon
  <2> QED
    BY <1>1, <1>2, <2>1, <2>2
<1>3. CASE bound' \in Binding /\ bound'.id = binds + 1 /\ binds' = binds + 1
  <2>1. disk'.binding = bound' /\ disk'.binding.id = binds + 1 /\ disk'.binding # NoBinding
    BY <1>3, NothingIsNothing DEF Replaced
  <2> QED
    BY <1>1, <1>3, <2>1
<1> QED
  BY <1>2, <1>3 DEF Replaced

LEMMA SpendsIs ==
    ASSUME TypeOK, NEW k \in Kinds, Spend(k)
    PROVE  NextSpends
BY SpendIs DEF NextSpends

LEMMA CommandKeeps ==
    ASSUME IInv, (\E t \in Thread : CommandBind(t)) \/ Unbind
    PROVE  IInv'
<1> USE DEF IInv
<1>1. /\ Replaced /\ disk'.st = EmptyState /\ StoreFree
      /\ UNCHANGED <<mem, bridge, conn, turns, asked, buffer, new, arrived, malformed>>
      /\ disk' \in Store /\ bound' = disk'.binding /\ latched' = "" /\ streak' = NoStreak
      /\ disk'.st.wake = NoWake /\ disk'.st.asks = {}
  BY CommandIs DEF Replaced
<1>2. NextSpends
  BY CommandIs, SpendsIs DEF Kinds
<1>3. spent' \in [Kinds -> Nat] /\ (spent'["user"] = 0 => spent["user"] = 0)
      /\ (spent'["malformed"] = 0 => spent["malformed"] = 0)
  BY <1>2, SpentZero DEF NextSpends
<1>4. /\ disk'.binding \in Binding \cup {NoBinding} /\ disk'.binding.id \in Nat
      /\ binds' \in Nat /\ binds <= binds' /\ disk'.binding.id <= binds'
      /\ disk'.binding # NoBinding => disk'.binding.id > binds
      /\ disk'.binding = NoBinding => disk'.binding.id = 0
  BY <1>1, ReplacedIs
<1>5. /\ mem.binding.id \in Nat /\ mem.binding.id <= binds /\ binds \in Nat
      /\ bridge.binding.id \in Nat /\ bridge.binding.id <= binds
      /\ mem.binding.id = 0 => mem.binding = NoBinding
      /\ bridge.binding.id = 0 => bridge.binding = NoBinding
  BY StoresAre, BridgeIs, BindingIs DEF RecordsInv, StoreInv, SameInv, TypeOK
<1>6. /\ disk'.binding.id = mem.binding.id => disk'.binding = NoBinding /\ mem.binding = NoBinding
      /\ disk'.binding.id = bridge.binding.id => disk'.binding = NoBinding /\ bridge.binding = NoBinding
  BY <1>4, <1>5
<1>7. TypeOK'
  BY <1>1, <1>3, <1>4 DEF TypeOK
<1>8. BindingStands' /\ BreakerHolds' /\ TurnInv'
  <2>1. NoStreak.n <= Limit
    BY BridgeAssumption DEF NoStreak
  <2> QED
    BY <1>1, <2>1 DEF BindingStands, BreakerHolds, TurnInv, Followed, Running
<1>9. NoticeInv'
  BY <1>1 DEF NoticeInv, BufferInv, MessageInv, Running
<1>10. RecordsInv'
  <2>1. StoreInv(disk)'
    BY <1>1, <1>4 DEF StoreInv
  <2>2. mem.binding.id <= binds' /\ bridge.binding.id <= binds'
    BY <1>4, <1>5
  <2>3. StoreInv(mem)'
    BY <1>1, <2>2 DEF RecordsInv, StoreInv
  <2>4. SameInv'
    BY <1>1, <1>6, <2>2 DEF SameInv
  <2> QED
    BY <2>1, <2>3, <2>4 DEF RecordsInv
<1>11. ReadInv' /\ EndInv'
  BY <1>1 DEF ReadInv, EndInv, StoreFree, Starts, Followed
<1>12. CopyInv'
  BY <1>1, <1>6 DEF CopyInv
<1>13. RecordInv'
  BY <1>1, <1>6 DEF RecordInv, ReadInv
<1>14. StreakInv' /\ OnRecordInv' /\ OffRecordInv' /\ CountedInv'
  BY <1>1 DEF StreakInv, OnRecordInv, OffRecordInv, CountedInv
<1>15. HeldInv' /\ AloneInv' /\ ClosedInv'
  BY <1>1, <1>3 DEF HeldInv, AloneInv, ClosedInv, Followed
<1> QED
  BY <1>7, <1>8, <1>9, <1>10, <1>11, <1>12, <1>13, <1>14, <1>15

LEMMA StepKeeps ==
    ASSUME IInv, Step
    PROVE  IInv'
<1> USE DEF IInv
<1>1. /\ bridge.at = "idle" /\ bridge' \in Local /\ bridge'.at = "consume"
      /\ bridge'.msgs = buffer
      /\ bridge'.binding = NoBinding /\ bridge'.wake = NoWake /\ bridge'.end = ""
      /\ bridge'.breaker = NoBreaker
      /\ conn' \in Connection /\ conn'.done = conn.done
      /\ UNCHANGED <<turns, asked, new, arrived, malformed>>
      /\ mem' = disk' /\ disk' \in Store
  BY StepIs
<1>2. buffer' \in Seq(Message) /\ BufferInv'
  <2>1. buffer' = <<>>
    BY StepIs
  <2> QED
    BY <2>1 DEF BufferInv
<1>3. NextSpends /\ \/ UNCHANGED <<disk, binds, bound, latched, streak>>
                    \/ Replaced
  BY StepIs, SpendsIs, SameSpent DEF Kinds
<1>4. spent' \in [Kinds -> Nat] /\ (spent'["user"] = 0 => spent["user"] = 0)
      /\ (spent'["malformed"] = 0 => spent["malformed"] = 0)
  BY <1>3, SpentZero DEF NextSpends
<1>5. NoticeInv' /\ TurnInv'
  BY <1>1, <1>2 DEF NoticeInv, BufferInv, MessageInv, Running, TurnInv, Followed
<1>6. /\ disk'.binding \in Binding \cup {NoBinding} /\ disk'.binding.id \in Nat
      /\ binds' \in Nat /\ disk'.binding.id <= binds'
      /\ NoBinding.id = 0 /\ (disk'.binding.id = 0 => disk'.binding = NoBinding)
  BY <1>3, ReplacedIs, StoresAre, BindingIs, NothingIsNothing DEF TypeOK
<1>7. bridge'.binding.id <= binds'
  <2>1. bridge'.binding.id = 0
    BY <1>1, <1>6, Zenon
  <2> QED
    BY <1>6, <2>1
<1>8. ReadInv' /\ EndInv' /\ CopyInv' /\ RecordInv' /\ CountedInv'
  BY <1>1 DEF ReadInv, EndInv, CopyInv, RecordInv, CountedInv, Judges, Passes, Starts, Bound
<1>9. CASE UNCHANGED <<disk, binds, bound, latched, streak>>
  <2>1. TypeOK' /\ BindingStands' /\ BreakerHolds'
    BY <1>1, <1>2, <1>4, <1>9 DEF TypeOK, BindingStands, BreakerHolds
  <2>2. RecordsInv'
    BY <1>1, <1>6, <1>7, <1>9 DEF RecordsInv, StoreInv, SameInv
  <2>3. StreakInv' /\ OnRecordInv'
    BY <1>1, <1>9 DEF StreakInv, OnRecordInv, Counts, Judges, Passes, Starts, Bound
  <2>4. OffRecordInv'
    BY <1>1, <1>9, GoesOnAtRest DEF OffRecordInv, Counts, Running
  <2>5. HeldInv' /\ AloneInv' /\ ClosedInv'
    BY <1>1, <1>4, <1>9 DEF HeldInv, AloneInv, ClosedInv, Followed, Passes, Starts
  <2> QED
    BY <1>5, <1>8, <2>1, <2>2, <2>3, <2>4, <2>5
<1>10. CASE Replaced
  <2>1. bound' = disk'.binding /\ latched' = "" /\ streak' = NoStreak
        /\ disk'.st.wake = NoWake /\ disk'.st.asks = {}
    BY <1>10 DEF Replaced
  <2>2. TypeOK'
    BY <1>1, <1>2, <1>4, <1>6, <2>1 DEF TypeOK
  <2>3. BindingStands' /\ BreakerHolds'
    <3>1. NoStreak.n <= Limit
      BY BridgeAssumption DEF NoStreak
    <3> QED
      BY <2>1, <3>1 DEF BindingStands, BreakerHolds
  <2>4. RecordsInv'
    BY <1>1, <1>6, <1>7, <2>1 DEF RecordsInv, StoreInv, SameInv
  <2>5. StreakInv' /\ OnRecordInv' /\ OffRecordInv'
    BY <2>1 DEF StreakInv, OnRecordInv, OffRecordInv
  <2>6. HeldInv' /\ AloneInv' /\ ClosedInv'
    BY <1>1, <1>4, <2>1 DEF HeldInv, AloneInv, ClosedInv
  <2> QED
    BY <1>5, <1>8, <2>2, <2>3, <2>4, <2>5, <2>6
<1> QED
  BY <1>3, <1>9, <1>10

-----------------------------------------------------------------------------
(* The bridge writes the store and ends a pass *)

Wrote ==
    /\ bridge' = Idle /\ mem' = disk' /\ disk' \in Store /\ disk'.binding = disk.binding
    /\ UNCHANGED <<binds, bound, buffer>> /\ Around
    /\ conn' \in Connection /\ conn'.done \subseteq conn.done
    /\ latched' \in {"", "hook_trust", "server_request", "interrupted_breaker"}

LEMMA WroteIs ==
    ASSUME IInv, Wrote, StoreInv(disk)'
    PROVE  /\ TypeOK' /\ BindingStands'
           /\ TurnInv' /\ NoticeInv' /\ RecordsInv' /\ ReadInv' /\ EndInv' /\ CopyInv' /\ RecordInv'
           /\ CountedInv'
           /\ bridge'.at = "idle" /\ bridge'.end = "" /\ mem' = disk' /\ disk'.binding = disk.binding
           /\ UNCHANGED <<turns, malformed>>
           /\ spent'["user"] = 0 => spent["user"] = 0
           /\ spent'["malformed"] = 0 => spent["malformed"] = 0
<1> USE DEF IInv
<1>1. /\ UNCHANGED <<binds, bound, buffer, turns, asked, new, arrived, malformed>> /\ NextSpends
      /\ mem' = disk' /\ disk' \in Store /\ disk'.binding = disk.binding
      /\ bridge' \in Local /\ bridge'.at = "idle" /\ DOMAIN bridge'.msgs = {} /\ bridge'.end = ""
      /\ bridge'.binding = NoBinding /\ bridge'.wake = NoWake /\ bridge'.breaker = NoBreaker
  BY IdleIs DEF Wrote, Around
<1>2. spent' \in [Kinds -> Nat] /\ (spent'["user"] = 0 => spent["user"] = 0)
      /\ (spent'["malformed"] = 0 => spent["malformed"] = 0)
  BY <1>1, SpentZero DEF NextSpends
<1>3. TypeOK'
  BY <1>1, <1>2 DEF TypeOK, Wrote
<1>4. BindingStands' /\ TurnInv'
  BY <1>1 DEF BindingStands, TurnInv, Followed, Running
<1>5. NoticeInv'
  BY <1>1 DEF Wrote, NoticeInv, BufferInv, MessageInv, Running
<1>6. RecordsInv'
  <2>1. StoreInv(mem)'
    BY <1>1 DEF StoreInv
  <2>2. binds \in Nat /\ disk.binding \in Binding \cup {NoBinding}
    BY StoresAre DEF TypeOK
  <2>3. NoBinding.id = 0 /\ (disk.binding.id = 0 => disk.binding = NoBinding)
    BY <2>2, NothingIsNothing, BindingIs
  <2>4. bridge'.binding.id <= binds'
    <3>1. bridge'.binding.id = 0
      BY <1>1, <2>3, Zenon
    <3>2. binds' \in Nat
      BY <1>1, <2>2
    <3> QED
      BY <3>1, <3>2
  <2>5. SameInv'
    BY <1>1, <2>3, <2>4 DEF SameInv
  <2> QED
    BY <2>1, <2>5 DEF RecordsInv
<1>7. ReadInv' /\ EndInv' /\ CopyInv' /\ RecordInv' /\ CountedInv'
  BY <1>1 DEF ReadInv, EndInv, CopyInv, RecordInv, CountedInv, Judges, Passes, Starts, Bound
<1> QED
  BY <1>1, <1>2, <1>3, <1>4, <1>5, <1>6, <1>7

\* The wake and the breaker on record stay, and no request is put on record.
WriteEnds ==
    /\ Wrote /\ UNCHANGED streak
    /\ disk'.st.wake = disk.st.wake /\ disk'.st.asks \subseteq disk.st.asks
    /\ disk'.st.breaker = disk.st.breaker \/ disk.binding = NoBinding
    /\ \/ latched' = latched /\ bridge.at \notin {"idle", "consume"}
       \/ latched' \in {"hook_trust", "server_request"} /\ disk'.st.phase = "NEEDS_HUMAN"

LEMMA WriteEndsKeeps ==
    ASSUME IInv, WriteEnds
    PROVE  IInv'
<1> USE DEF IInv
<1>1. /\ UNCHANGED <<streak, turns, malformed>> /\ bridge'.at = "idle"
      /\ disk'.st.wake = disk.st.wake /\ disk'.st.asks \subseteq disk.st.asks
      /\ disk'.binding = disk.binding /\ UNCHANGED binds
      /\ disk'.st.breaker = disk.st.breaker \/ disk.binding = NoBinding
      /\ disk.binding = NoBinding => disk.st.wake = NoWake
  BY IdleIs DEF WriteEnds, Wrote, Around, RecordsInv, StoreInv
<1>2. StoreInv(disk)'
  BY <1>1 DEF RecordsInv, StoreInv
<1>3. /\ TypeOK' /\ BindingStands'
      /\ TurnInv' /\ NoticeInv' /\ RecordsInv' /\ ReadInv' /\ EndInv' /\ CopyInv' /\ RecordInv'
      /\ CountedInv'
  BY <1>2, WroteIs DEF WriteEnds
<1>4. /\ bridge'.at = "idle" /\ bridge'.end = "" /\ mem' = disk'
      /\ spent'["user"] = 0 => spent["user"] = 0
      /\ spent'["malformed"] = 0 => spent["malformed"] = 0
  BY <1>2, WroteIs DEF WriteEnds
<1>5. BreakerHolds'
  BY <1>1 DEF BreakerHolds
<1>6. StreakInv'
  BY <1>1, <1>4 DEF StreakInv, Judges, Passes, Starts, Bound
<1>7. OnRecordInv'
  BY <1>1 DEF OnRecordInv, Counts
<1>8. OffRecordInv'
  BY <1>1, <1>4, GoesOnAtRest DEF OffRecordInv, StreakInv, Counts, Running
<1>9. HeldInv'
  BY <1>1, <1>4 DEF HeldInv, WriteEnds
<1>10. AloneInv' /\ ClosedInv'
  BY <1>1, <1>4 DEF AloneInv, ClosedInv, Followed, Passes, Starts, WriteEnds
<1> QED
  BY <1>3, <1>5, <1>6, <1>7, <1>8, <1>9, <1>10

LEMMA ScanEmptyKeeps ==
    ASSUME IInv, ScanEmpty
    PROVE  IInv'
<1> USE DEF IInv
<1>1. /\ bridge.at = "consume" /\ Save(EmptyState) /\ Done /\ latched' = "" /\ streak' = NoStreak
      /\ UNCHANGED <<conn, binds, bound, spent, turns, asked, buffer, new, arrived, malformed>>
  BY DEF ScanEmpty, Scans, OutsideSame, ServerSame, MailSame
<1>2. disk' \in Store /\ mem' = disk' /\ disk'.binding = disk.binding
      /\ (disk'.st = EmptyState \/ disk'.st = disk.st)
  BY <1>1, SaveIs, EmptyIs DEF TypeOK
<1>3. disk'.st.wake = NoWake /\ disk'.st.asks = {}
  <2>1. CASE disk.binding \in {mem.binding, NoBinding}
    BY <1>1, <2>1, SaveIs, EmptyIs DEF TypeOK
  <2>2. CASE disk.binding \notin {mem.binding, NoBinding}
    <3>1. disk'.st = disk.st
      BY <1>1, <2>2, SaveIs, EmptyIs DEF TypeOK
    <3> QED
      BY <1>1, <2>2, <3>1, EmptyIs DEF CopyInv
  <2> QED
    BY <2>1, <2>2
<1>4. Wrote
  BY <1>1, <1>2, SameSpent DEF Wrote, Around, Done, TypeOK
<1>5. StoreInv(disk)'
  BY <1>1, <1>2, <1>3 DEF RecordsInv, StoreInv
<1>6. /\ TypeOK' /\ BindingStands'
      /\ TurnInv' /\ NoticeInv' /\ RecordsInv' /\ ReadInv' /\ EndInv' /\ CopyInv' /\ RecordInv'
      /\ CountedInv' /\ bridge'.at = "idle" /\ UNCHANGED <<malformed, spent>>
  BY <1>1, <1>4, <1>5, WroteIs
<1>7. BreakerHolds'
  <2>1. NoStreak.n <= Limit
    BY BridgeAssumption DEF NoStreak
  <2> QED
    BY <1>1, <2>1 DEF BreakerHolds
<1>8. StreakInv' /\ OnRecordInv' /\ OffRecordInv'
  BY <1>1, <1>3 DEF StreakInv, OnRecordInv, OffRecordInv
<1>9. HeldInv' /\ AloneInv' /\ ClosedInv'
  <2>0. (spent'["malformed"] = 0 => spent["malformed"] = 0) /\ (~malformed => ~malformed')
    BY <1>1, Zenon
  <2>1. HeldInv'
    BY <2>0, <1>1, <1>3, <1>6 DEF HeldInv
  <2>2. AloneInv'
    BY <1>1, <1>3, <1>6 DEF AloneInv, Followed
  <2>3. ClosedInv'
    BY <1>1, <1>3, <1>6 DEF ClosedInv, Starts
  <2> QED
    BY <2>1, <2>2, <2>3
<1> QED
  BY <1>6, <1>7, <1>8, <1>9

LEMMA GiveUpKeeps ==
    ASSUME IInv, GiveUp
    PROVE  IInv'
<1> USE DEF IInv
<1> DEFINE b == IF bridge.end = "interrupted" THEN mem.st.breaker ELSE NoBreaker
           st == [mem.st EXCEPT !.phase = "BACKOFF", !.late = TRUE, !.wake = NoWake, !.breaker = b]
<1>1. /\ bridge.at = "giveup" /\ Save(st) /\ Done
      /\ UNCHANGED <<conn, binds, bound, latched, streak, spent>>
      /\ UNCHANGED <<turns, asked, buffer, new, arrived, malformed>>
  BY DEF GiveUp, HistorySame, OutsideSame, ServerSame, MailSame
<1>2. bridge.wake # NoWake /\ bridge.binding # NoBinding /\ mem.st.asks = {}
      /\ bridge.end \in {"completed", "interrupted", "unknown"}
      /\ bridge.wake.turn \in DOMAIN turns /\ turns[bridge.wake.turn].thread = bridge.wake.thread
  BY <1>1 DEF TypeOK, ReadInv, EndInv
<1>3. st \in ProjectState /\ st.wake = NoWake /\ st.asks = {} /\ st.breaker = b
  <2>1. mem.st \in ProjectState /\ b \in Breaker \cup {NoBreaker}
    BY StoresAre
  <2> HIDE DEF b
  <2> QED
    BY <1>2, <2>1 DEF ProjectState, Phase
<1> HIDE DEF st
<1>4. disk' \in Store /\ mem' = disk' /\ disk'.binding = disk.binding
      /\ (disk.binding \in {mem.binding, NoBinding} => disk'.st = st)
      /\ (disk.binding \notin {mem.binding, NoBinding} => disk'.st = disk.st)
  BY <1>1, <1>3, SaveIs DEF TypeOK
<1>5. disk'.st.wake = NoWake /\ disk'.st.asks = {}
  BY <1>1, <1>3, <1>4, EmptyIs DEF CopyInv
<1>6. Wrote
  BY <1>1, <1>4, SameSpent DEF Wrote, Around, Done, TypeOK
<1>7. StoreInv(disk)'
  BY <1>1, <1>4, <1>5 DEF RecordsInv, StoreInv
<1>8. /\ TypeOK' /\ BindingStands'
      /\ TurnInv' /\ NoticeInv' /\ RecordsInv' /\ ReadInv' /\ EndInv' /\ CopyInv' /\ RecordInv'
      /\ CountedInv' /\ bridge'.at = "idle" /\ UNCHANGED <<malformed, spent>>
  BY <1>1, <1>6, <1>7, WroteIs
<1>9. BreakerHolds' /\ OnRecordInv'
  BY <1>1, <1>5 DEF BreakerHolds, OnRecordInv
<1>10. StreakInv'
  BY <1>1, <1>4, <1>8 DEF StreakInv, Judges, Passes, Starts, Bound
<1>11. OffRecordInv'
  <2> SUFFICES ASSUME streak # NoStreak
               PROVE  MayGoOn' => Counts(disk'.st.breaker, streak.n) /\ streak.n < Limit
    BY <1>1, <1>8 DEF OffRecordInv, Running, Counts
  <2>1. bridge.binding = disk.binding /\ mem.binding = disk.binding /\ streak.turn \in DOMAIN turns
    BY <1>1 DEF StreakInv, Bound
  <2>2. disk.st.wake = bridge.wake /\ bridge.wake.turn = streak.turn
    BY <1>1, <1>2, <2>1 DEF RecordInv, Bound, OnRecordInv
  <2>3. bridge.end \in {"completed", "interrupted"} => turns[streak.turn].status = bridge.end
    BY <2>2 DEF TypeOK
  <2>4. bridge.end = "unknown" => Followed(streak.turn, turns[streak.turn].thread)
    BY <1>2, <2>2 DEF EndInv
  <2>5. MayGoOn' => bridge.end = "interrupted"
    BY <1>1, <1>2, <1>8, <2>3, <2>4 DEF MayGoOn, Followed
  <2>6. bridge.end = "interrupted" => disk'.st.breaker = mem.st.breaker
    BY <1>3, <1>4, <2>1
  <2> QED
    BY <1>1, <2>5, <2>6 DEF CountedInv
<1>12. HeldInv' /\ AloneInv' /\ ClosedInv'
  <2>0. (spent'["malformed"] = 0 => spent["malformed"] = 0) /\ (~malformed => ~malformed')
    BY <1>1, Zenon
  <2>1. HeldInv'
    BY <2>0, <1>1, <1>5, <1>8 DEF HeldInv
  <2>2. AloneInv'
    BY <1>1, <1>5, <1>8 DEF AloneInv, Followed
  <2>3. ClosedInv'
    BY <1>1, <1>5, <1>8 DEF ClosedInv, Starts
  <2> QED
    BY <2>1, <2>2, <2>3
<1> QED
  BY <1>8, <1>9, <1>10, <1>11, <1>12

\* The row that a turn which has begun belongs to.
LEMMA RowIs ==
    ASSUME IInv, bridge.at = "started"
    PROVE  /\ disk.st.wake = NoWake /\ Row # NoStreak /\ Row.n \in Nat /\ Row.n < Limit
           /\ Row.gen = bridge.gen /\ Row.gen \in SUBSET Mail
           /\ Row.turn = bridge.turn /\ Row.turn \in DOMAIN turns
           /\ disk.binding # NoBinding /\ turns[Row.turn].thread = disk.binding.thread
           /\ Row.n >= 1 => /\ disk.st.breaker # NoBreaker
                            /\ disk.st.breaker.gen = Row.gen
                            /\ disk.st.breaker.thread = turns[Row.turn].thread
                            /\ disk.st.breaker.count >= Row.n
<1> USE DEF IInv
<1>1. /\ bridge.wake = NoWake /\ bridge.binding # NoBinding /\ disk.binding = bridge.binding
      /\ bridge.turn \in DOMAIN turns /\ turns[bridge.turn].thread = bridge.binding.thread
      /\ bridge.gen \in SUBSET Mail
  BY BridgeIs DEF ReadInv, Passes, Starts
<1>2. disk.st.wake = NoWake
  BY <1>1 DEF RecordInv, Bound, Starts
<1>3. InARow => /\ streak.n \in Nat /\ streak.n < Limit
                /\ streak.n >= 1 => Counts(disk.st.breaker, streak.n)
                /\ streak.gen = bridge.gen
                /\ turns[streak.turn].thread = turns[bridge.turn].thread
  BY <1>2 DEF OffRecordInv, MayGoOn, InARow, StreakInv
<1>4. /\ Row # NoStreak /\ Row.gen = bridge.gen /\ Row.turn = bridge.turn
      /\ Row.n = IF InARow THEN streak.n ELSE 0
  BY DEF Row, NoStreak
<1> QED
  BY <1>1, <1>2, <1>3, <1>4, BridgeAssumption DEF Counts

LEMMA StartedKeeps ==
    ASSUME IInv, Started
    PROVE  IInv'
<1> USE DEF IInv
<1> DEFINE w == [gen |-> bridge.gen, turn |-> bridge.turn,
                 thread |-> bridge.binding.thread, id |-> bridge.binding.id]
           st == [disk.st EXCEPT !.phase = "WAKE_ACTIVE", !.late = FALSE, !.wake = w]
<1>1. /\ bridge.at = "started" /\ Flush(st) /\ Done
      /\ streak' = [Row EXCEPT !.n = @ + 1]
      /\ UNCHANGED <<conn, binds, bound, latched, spent>>
      /\ UNCHANGED <<turns, asked, buffer, new, arrived, malformed>>
  BY DEF Started, OutsideSame, ServerSame, MailSame
<1>2. /\ bridge.wake = NoWake /\ bridge.binding # NoBinding /\ disk.binding = bridge.binding
      /\ bridge.turn \in DOMAIN turns /\ turns[bridge.turn].thread = bridge.binding.thread
      /\ bridge.binding \in Binding /\ bridge.binding.thread \in Thread /\ bridge.binding.id \in Nat
      /\ bridge.gen \in SUBSET Mail /\ bridge.turn \in Turn
  BY <1>1, BridgeIs, BindingIs, TurnsAre DEF ReadInv, Passes, Starts
<1>3. disk.st.wake = NoWake /\ disk.st.asks = {}
  BY <1>1, <1>2 DEF RecordInv, Bound, Starts, RecordsInv, StoreInv
<1>4. w \in Wake /\ w # NoWake /\ w.gen = bridge.gen /\ w.turn = bridge.turn
      /\ w.thread = bridge.binding.thread /\ w.id = bridge.binding.id
  BY <1>2, NothingIsNothing DEF Wake
<1> HIDE DEF w
<1>5. st \in ProjectState /\ st.wake = w /\ st.asks = {} /\ st.breaker = disk.st.breaker
  BY <1>3, <1>4, StoresAre DEF ProjectState, Phase
<1> HIDE DEF st
<1>6. disk' \in Store /\ mem' = disk' /\ disk'.binding = disk.binding /\ disk'.st = st
  BY <1>1, <1>5, FlushIs DEF TypeOK
<1>7. Wrote
  BY <1>1, <1>6, SameSpent DEF Wrote, Around, Done, TypeOK
<1>8. StoreInv(disk)'
  BY <1>1, <1>2, <1>4, <1>5, <1>6 DEF RecordsInv, StoreInv
<1>9. /\ TypeOK' /\ BindingStands'
      /\ TurnInv' /\ NoticeInv' /\ RecordsInv' /\ ReadInv' /\ EndInv' /\ CopyInv' /\ RecordInv'
      /\ CountedInv' /\ bridge'.at = "idle" /\ UNCHANGED <<malformed, spent>>
  BY <1>1, <1>7, <1>8, WroteIs
<1>10. /\ streak' # NoStreak /\ streak'.gen = bridge.gen /\ streak'.turn = bridge.turn
       /\ streak'.n = Row.n + 1
  BY <1>1 DEF NoStreak, Row
<1>11. Row.n \in Nat /\ Row.n < Limit
  BY <1>1, RowIs
<1>12. streak'.n \in Nat /\ streak'.n >= 1 /\ streak'.n <= Limit
  BY <1>10, <1>11, BridgeAssumption
<1>13. BreakerHolds' /\ StreakInv'
  BY <1>1, <1>2, <1>6, <1>9, <1>10, <1>12 DEF BreakerHolds, StreakInv, Judges, Passes, Starts, Bound
<1>14. OnRecordInv'
  <2>1. streak'.n - 1 = Row.n /\ (streak'.n >= 2 => Row.n >= 1)
    BY <1>10, <1>11
  <2>2. streak'.n >= 2 => Counts(disk.st.breaker, streak.n - 1)'
    BY <1>1, <1>5, <1>6, <1>10, <2>1, RowIs DEF Counts
  <2> QED
    BY <1>4, <1>5, <1>6, <1>10, <1>12, <2>2 DEF OnRecordInv, Counts
<1>15. OffRecordInv'
  BY <1>4, <1>5, <1>6 DEF OffRecordInv
<1>16. HeldInv' /\ AloneInv' /\ ClosedInv'
  <2>0. (spent'["malformed"] = 0 => spent["malformed"] = 0) /\ (~malformed => ~malformed')
    BY <1>1, Zenon
  <2>1. HeldInv'
    BY <2>0, <1>1, <1>2, <1>4, <1>5, <1>6, <1>9 DEF HeldInv
  <2>2. AloneInv'
    BY <1>1, <1>2, <1>4, <1>5, <1>6, <1>9 DEF AloneInv, Followed
  <2>3. ClosedInv'
    BY <1>1, <1>2, <1>4, <1>5, <1>6, <1>9 DEF ClosedInv, Starts
  <2> QED
    BY <2>1, <2>2, <2>3
<1> QED
  BY <1>9, <1>13, <1>14, <1>15, <1>16

-----------------------------------------------------------------------------
(* The bridge goes on and writes nothing *)

Steady ==
    /\ UNCHANGED <<disk, binds, bound, latched, streak, buffer>> /\ Around
    /\ bridge.at # "idle" /\ bridge' \in Local
    /\ bridge'.msgs = bridge.msgs /\ bridge'.binding \in {bridge.binding, mem.binding}
    /\ \/ mem' = disk
       \/ mem' \in Store /\ mem'.binding = mem.binding
          /\ mem'.st.wake = mem.st.wake /\ mem'.st.asks = mem.st.asks
    /\ conn' \in Connection /\ conn'.done \subseteq conn.done

LEMMA SteadyIs ==
    ASSUME IInv, Steady
    PROVE  /\ BindingStands' /\ BreakerHolds' /\ TurnInv' /\ NoticeInv' /\ RecordsInv' /\ OnRecordInv'
           /\ UNCHANGED <<disk, binds, bound, latched, streak, turns>>
           /\ spent'["user"] = 0 => spent["user"] = 0
           /\ (/\ bridge'.at \in {"check", "terminal", "latch", "clear", "trust", "giveup"} =>
                    bridge'.wake # NoWake
               /\ bridge'.end \in {"completed", "interrupted"} =>
                    turns[bridge'.wake.turn].status = bridge'.end)
              => TypeOK'
           /\ bridge.at # "consume" => HeldInv'
           /\ bridge'.at # "started" => AloneInv'
           /\ bridge'.at \notin {"wake", "start", "starting", "started"} => OffRecordInv'
           /\ mem' = mem /\ bridge.at \notin {"giveup", "human"} => CopyInv'
<1> USE DEF IInv
<1>1. /\ UNCHANGED <<disk, binds, bound, latched, streak, buffer>>
      /\ UNCHANGED <<turns, asked, new, arrived, malformed>> /\ NextSpends
      /\ bridge.at # "idle" /\ bridge' \in Local /\ bridge'.msgs = bridge.msgs
      /\ bridge'.binding \in {bridge.binding, mem.binding}
  BY DEF Steady, Around
<1>2. spent' \in [Kinds -> Nat] /\ (spent'["user"] = 0 => spent["user"] = 0)
      /\ (spent'["malformed"] = 0 => spent["malformed"] = 0)
  BY <1>1, SpentZero DEF NextSpends
<1>3. BindingStands' /\ BreakerHolds' /\ TurnInv' /\ OnRecordInv'
  BY <1>1 DEF BindingStands, BreakerHolds, TurnInv, Followed, Running, OnRecordInv, Counts
<1>4. NoticeInv'
  BY <1>1 DEF Steady, NoticeInv, BufferInv, MessageInv, Running
<1>5. RecordsInv'
  <2>1. StoreInv(disk)'
    BY <1>1 DEF RecordsInv, StoreInv
  <2>2. StoreInv(mem)'
    BY <1>1 DEF Steady, RecordsInv, StoreInv
  <2>3. SameInv'
    BY <1>1 DEF Steady, RecordsInv, StoreInv, SameInv
  <2> QED
    BY <2>1, <2>2, <2>3 DEF RecordsInv
<1>6. ASSUME bridge'.at \in {"check", "terminal", "latch", "clear", "trust", "giveup"} =>
                    bridge'.wake # NoWake,
             bridge'.end \in {"completed", "interrupted"} =>
                    turns[bridge'.wake.turn].status = bridge'.end
      PROVE  TypeOK'
  <2>1. mem' \in Store /\ conn' \in Connection
    BY DEF Steady, TypeOK
  <2> QED
    BY <1>1, <1>2, <1>6, <2>1 DEF TypeOK
<1>7. bridge.at # "consume" => HeldInv'
  BY <1>1, <1>2 DEF HeldInv
<1>8. bridge'.at # "started" => AloneInv'
  BY <1>1, <1>2 DEF AloneInv, Followed
<1>9. bridge'.at \notin {"wake", "start", "starting", "started"} => OffRecordInv'
  BY <1>1, GoesOnAtRest DEF OffRecordInv, Counts, Running
<1>10. mem' = mem /\ bridge.at \notin {"giveup", "human"} => CopyInv'
  BY <1>1 DEF CopyInv
<1> QED
  BY <1>1, <1>2, <1>3, <1>4, <1>5, <1>6, <1>7, <1>8, <1>9, <1>10

\* The binding and the wake that the bridge has read stay.
Bounded ==
    /\ Steady /\ bridge.at \in Bound /\ bridge'.binding = bridge.binding /\ bridge'.wake = bridge.wake

LEMMA BoundedIs ==
    ASSUME IInv, Bounded
    PROVE  /\ RecordInv'
           /\ bridge'.at # "started" => StreakInv'
<1> USE DEF IInv
<1>1. UNCHANGED <<disk, streak, turns>> /\ bridge.at # "idle"
  BY SteadyIs DEF Bounded, Steady
<1>2. mem'.binding = disk.binding \/ mem'.binding = mem.binding
  BY DEF Bounded, Steady
<1> QED
  BY <1>1, <1>2 DEF Bounded, RecordInv, StreakInv

\* A wake that has closed the breaker is the one that is judged.
LEMMA ClosedIs ==
    ASSUME IInv, latched = "interrupted_breaker", spent["user"] = 0, bridge.at \in Bound
    PROVE  /\ disk.binding = bridge.binding /\ disk.st.wake = bridge.wake /\ bridge.wake # NoWake
           /\ turns[bridge.wake.turn].status = "interrupted"
           /\ ~Followed(bridge.wake.turn, bridge.wake.thread)
BY DEF IInv, ClosedInv, RecordInv, AloneInv

LEMMA ScanPendingKeeps ==
    ASSUME IInv, ScanPending
    PROVE  IInv'
<1> USE DEF IInv
<1>1. /\ bridge.at = "consume" /\ ~malformed
      /\ UNCHANGED <<disk, mem, conn, spent, binds, bound, latched, streak>>
      /\ UNCHANGED <<turns, asked, buffer, new, arrived, malformed>>
  BY DEF ScanPending, Scans, HistorySame, OutsideSame, ServerSame, MailSame
<1>2. CASE Waits
  <2>1. Ends
    BY <1>1, <1>2, SameSpent DEF ScanPending, Done, Ends, Forgets, Around, TypeOK
  <2> QED
    BY <2>1, EndsKeeps
<1>3. CASE ~Waits
  <2>1. bridge' = [bridge EXCEPT !.at = "resume", !.gen = new, !.backing = mem.st.late,
                                 !.binding = mem.binding, !.wake = mem.st.wake]
    BY <1>3 DEF ScanPending
  <2>2. /\ bridge \in Local /\ new \in SUBSET Mail /\ mem.st.late \in BOOLEAN
        /\ mem.binding \in Binding \cup {NoBinding} /\ mem.st.wake \in Wake \cup {NoWake}
    BY BridgeIs, StoresAre DEF TypeOK
  <2>3. /\ bridge' \in Local /\ bridge'.at = "resume" /\ bridge'.binding = mem.binding
        /\ bridge'.wake = mem.st.wake /\ bridge'.msgs = bridge.msgs
        /\ bridge'.end = bridge.end /\ bridge'.breaker = bridge.breaker
    BY <2>1, <2>2 DEF Local, Place
  <2>4. Steady
    BY <1>1, <2>3, SameSpent DEF Steady, Around, TypeOK
  <2>5. bridge'.end = "" /\ bridge'.breaker = NoBreaker
    BY <1>1, <2>3 DEF EndInv
  <2>6. TypeOK'
    BY <2>3, <2>4, <2>5, SteadyIs
  <2>7. ReadInv'
    BY <1>1, <2>3 DEF ReadInv, RecordsInv, StoreInv, Judges, Passes, Starts
  <2>8. EndInv' /\ CountedInv'
    BY <2>3, <2>5 DEF EndInv, CountedInv
  <2>9. RecordInv'
    BY <1>1, <2>3, EmptyIs, NothingIsNothing DEF RecordInv, CopyInv, RecordsInv, StoreInv
  <2>10. StreakInv'
    BY <1>1, <2>3 DEF StreakInv
  <2>11. HeldInv'
    <3>1. spent["malformed"] = 0 => latched = ""
      BY <1>1, <1>3 DEF HeldInv, Waits
    <3>2. (spent'["malformed"] = 0 => spent["malformed"] = 0) /\ (~malformed => ~malformed') /\ latched' = latched
      BY <1>1, Zenon
    <3> QED
      BY <3>1, <3>2 DEF HeldInv
  <2>12. ClosedInv'
    BY <1>1, <2>3, <2>5 DEF ClosedInv, Followed, Passes, Starts
  <2> QED
    BY <2>3, <2>4, <2>6, <2>7, <2>8, <2>9, <2>10, <2>11, <2>12, <1>1, SteadyIs
<1> QED
  BY <1>2, <1>3

LEMMA CheckKeeps ==
    ASSUME IInv, Check
    PROVE  IInv'
<1> USE DEF IInv
<1>1. /\ bridge.at = "check" /\ bridge.wake # NoWake /\ bridge.wake.thread = bridge.binding.thread
      /\ UNCHANGED <<disk, mem, conn, binds, bound, latched, streak>>
      /\ UNCHANGED <<turns, asked, buffer, new, arrived, malformed>>
  BY DEF Check, TypeOK, ReadInv, HistorySame, OutsideSame, ServerSame, MailSame
<1>2. CASE CallFails(bridge.wake.id)
  <2>1. Errs
    BY <1>1, <1>2, CallFailsIs, SpendsIs, BridgeIs, WakeIs DEF Errs, Around, TypeOK, Kinds
  <2> QED
    BY <2>1, ErrsKeeps
<1>3. CASE UNCHANGED spent /\ Done
  <2>1. Ends
    BY <1>1, <1>3, SameSpent DEF Done, Ends, Forgets, Around, TypeOK
  <2> QED
    BY <2>1, EndsKeeps
<1>4. CASE UNCHANGED spent /\ Go("terminal")
  <2>1. /\ bridge' \in Local /\ bridge'.at = "terminal" /\ bridge'.binding = bridge.binding
        /\ bridge'.wake = bridge.wake /\ bridge'.msgs = bridge.msgs
        /\ bridge'.end = bridge.end /\ bridge'.breaker = bridge.breaker
    BY <1>4, GoIs, BridgeIs DEF Place
  <2>2. Bounded
    BY <1>1, <1>4, <2>1, SameSpent DEF Bounded, Bound, Judges, Steady, Around, TypeOK
  <2>3. Steady
    BY <2>2 DEF Bounded
  <2>4. TypeOK'
    BY <1>1, <2>1, <2>3, SteadyIs DEF TypeOK
  <2>5. ReadInv' /\ EndInv' /\ CountedInv' /\ ClosedInv'
    BY <1>1, <1>4, <2>1 DEF ReadInv, EndInv, CountedInv, ClosedInv, Followed, Judges, Passes, Starts
  <2> QED
    BY <1>1, <2>1, <2>2, <2>3, <2>4, <2>5, SteadyIs, BoundedIs
<1> QED
  BY <1>1, <1>2, <1>3, <1>4 DEF Check

LEMMA ThreadForKeeps ==
    ASSUME IInv, ThreadFor
    PROVE  IInv'
<1> USE DEF IInv
<1>1. /\ bridge.at = "resume"
      /\ UNCHANGED <<disk, mem, binds, bound, latched, streak>>
      /\ UNCHANGED <<turns, asked, buffer, new, arrived, malformed>>
  BY DEF ThreadFor, HistorySame, OutsideSame, ServerSame, MailSame
<1>2. conn' \in Connection /\ conn'.done = conn.done
  <2>1. CASE UNCHANGED conn
    BY <2>1 DEF TypeOK
  <2>2. CASE conn' = [conn EXCEPT !.attempted = TRUE]
    BY <2>2 DEF TypeOK, Connection
  <2>3. CASE bridge.binding # NoBinding /\ \E S \in SUBSET {bridge.binding.thread} :
                conn' = [conn EXCEPT !.resumed = bridge.binding.thread, !.attempted = TRUE,
                                     !.subscribed = @ \cup S]
    <3>1. PICK S \in SUBSET {bridge.binding.thread} :
                conn' = [conn EXCEPT !.resumed = bridge.binding.thread, !.attempted = TRUE,
                                     !.subscribed = @ \cup S]
      BY <2>3
    <3>2. bridge.binding.thread \in Thread /\ S \subseteq Thread
      BY <2>3, BridgeIs, BindingIs
    <3> QED
      BY <3>1, <3>2 DEF TypeOK, Connection
  <2>4. \/ UNCHANGED conn
        \/ conn' = [conn EXCEPT !.attempted = TRUE]
        \/ bridge.binding # NoBinding /\ \E S \in SUBSET {bridge.binding.thread} :
                conn' = [conn EXCEPT !.resumed = bridge.binding.thread, !.attempted = TRUE,
                                     !.subscribed = @ \cup S]
    <3> DEFINE t == bridge.binding.thread
    <3>1. CASE bridge.binding # NoBinding
               /\ conn' = [conn EXCEPT !.resumed = t, !.attempted = TRUE,
                                       !.subscribed = IF HasRollout(t) THEN @ \cup {t} ELSE @]
      <4>1. CASE HasRollout(t)
        <5>1. conn' = [conn EXCEPT !.resumed = t, !.attempted = TRUE, !.subscribed = @ \cup {t}]
          BY <3>1, <4>1
        <5> QED
          BY <3>1, <5>1
      <4>2. CASE ~HasRollout(t)
        <5>1. conn' = [conn EXCEPT !.resumed = t, !.attempted = TRUE, !.subscribed = @ \cup {}]
          BY <3>1, <4>2
        <5> QED
          BY <3>1, <5>1
      <4> QED
        BY <4>1, <4>2
    <3> QED
      BY <3>1 DEF ThreadFor
  <2> QED
    BY <2>1, <2>2, <2>3, <2>4
<1>3. CASE Fails("IDENTITY_ERROR", 0) /\ UNCHANGED spent
  <2>1. Errs
    BY <1>1, <1>2, <1>3, FailsIs, BridgeIs, SameSpent DEF Errs, Around, Moves
  <2> QED
    BY <2>1, ErrsKeeps
<1>4. CASE CallFails(0)
  <2>1. Errs
    BY <1>1, <1>2, <1>4, CallFailsIs, SpendsIs, BridgeIs DEF Errs, Around, Kinds
  <2> QED
    BY <2>1, ErrsKeeps
<1>5. CASE bridge.binding # NoBinding /\ Resumed /\ UNCHANGED spent
  <2>1. CASE Done
    <3>1. Ends
      BY <1>1, <1>2, <1>5, <2>1, SameSpent DEF Done, Ends, Forgets, Around
    <3> QED
      BY <3>1, EndsKeeps
  <2>2. CASE Go(IF bridge.wake # NoWake THEN "check" ELSE "ready")
    <3>1. /\ bridge' \in Local /\ bridge'.at = (IF bridge.wake # NoWake THEN "check" ELSE "ready")
          /\ bridge'.binding = bridge.binding
          /\ bridge'.wake = bridge.wake /\ bridge'.msgs = bridge.msgs
          /\ bridge'.end = bridge.end /\ bridge'.breaker = bridge.breaker
      BY <2>2, GoIs, BridgeIs DEF Place
    <3>2. Bounded
      BY <1>1, <1>2, <1>5, <3>1, SameSpent DEF Bounded, Bound, Judges, Steady, Around, TypeOK
    <3>3. Steady
      BY <3>2 DEF Bounded
    <3>4. TypeOK'
      BY <1>1, <3>1, <3>3, SteadyIs DEF TypeOK, EndInv
    <3>5. ReadInv' /\ EndInv' /\ CountedInv'
      BY <1>1, <1>5, <3>1 DEF ReadInv, EndInv, CountedInv, Followed, Judges, Passes, Starts
    <3>6. ClosedInv'
      <4>1. latched = "interrupted_breaker" /\ spent["user"] = 0 => bridge.wake # NoWake
        BY <1>1, ClosedIs DEF Bound
      <4> QED
        BY <1>1, <1>5, <3>1, <4>1 DEF ClosedInv, EndInv, Passes, Starts
    <3> QED
      BY <1>1, <3>1, <3>2, <3>3, <3>4, <3>5, <3>6, SteadyIs, BoundedIs
  <2> QED
    BY <1>5, <2>1, <2>2 DEF Resumed
<1> QED
  BY <1>3, <1>4, <1>5 DEF ThreadFor

LEMMA UnlistedIs ==
    ASSUME NEW i \in DOMAIN turns, ~Listed(i)
    PROVE  Followed(i, turns[i].thread)
<1> DEFINE S == {j \in DOMAIN turns : j > i /\ turns[j].thread = turns[i].thread}
<1>1. SUFFICES ASSUME S = {} PROVE FALSE
  BY DEF Followed
<1>2. Cardinality(S) = 0
  BY <1>1, FS_EmptySet
<1> QED
  BY <1>2, BridgeAssumption DEF Listed

LEMMA TerminalKeeps ==
    ASSUME IInv, Terminal
    PROVE  IInv'
<1> USE DEF IInv
<1> DEFINE i == bridge.wake.turn
<1>1. /\ bridge.at = "terminal" /\ bridge.wake # NoWake
      /\ UNCHANGED <<disk, mem, binds, bound, latched, streak>>
      /\ UNCHANGED <<turns, asked, buffer, new, arrived, malformed>>
      /\ i \in DOMAIN turns /\ turns[i].thread = bridge.wake.thread
      /\ i \in conn.done => ~Running(i)
  BY DEF Terminal, TypeOK, ReadInv, NoticeInv, HistorySame, OutsideSame, ServerSame, MailSame
<1>2. CASE CallFails(bridge.wake.id) /\ UNCHANGED conn
  <2>1. Errs
    BY <1>1, <1>2, CallFailsIs, SpendsIs, BridgeIs, WakeIs DEF Errs, Around, TypeOK, Kinds
  <2> QED
    BY <2>1, ErrsKeeps
<1> DEFINE end == IF i \in conn.done \/ Listed(i) THEN turns[i].status ELSE "unknown"
<1>3. CASE /\ UNCHANGED spent /\ conn' = [conn EXCEPT !.done = @ \ {i}]
           /\ IF i \notin conn.done /\ Listed(i) /\ Running(i) THEN Done
              ELSE bridge' = [bridge EXCEPT !.end = end, !.at = Judged(end)]
  <2>1. conn' \in Connection /\ conn'.done \subseteq conn.done
    BY <1>3 DEF TypeOK, Connection
  <2>2. CASE Done
    <3>1. Ends
      BY <1>1, <1>3, <2>1, <2>2, SameSpent DEF Done, Ends, Forgets, Around
    <3> QED
      BY <3>1, EndsKeeps
  <2>3. CASE /\ ~(i \notin conn.done /\ Listed(i) /\ Running(i))
             /\ bridge' = [bridge EXCEPT !.end = end, !.at = Judged(end)]
    <3>1. /\ end \in {"completed", "interrupted", "unknown"}
          /\ end # "unknown" => turns[i].status = end
          /\ end = "unknown" => Followed(i, bridge.wake.thread)
      BY <1>1, <2>3, TurnsAre, UnlistedIs DEF Running
    <3> HIDE DEF end
    <3>2. Judged(end) \in {"latch", "clear"} /\ (Judged(end) = "latch" <=> end = "interrupted")
      BY DEF Judged
    <3>3. /\ bridge' \in Local /\ bridge'.at = Judged(end) /\ bridge'.binding = bridge.binding
          /\ bridge'.wake = bridge.wake /\ bridge'.msgs = bridge.msgs
          /\ bridge'.end = end /\ bridge'.breaker = bridge.breaker
      BY <2>3, <3>1, <3>2, BridgeIs DEF Local, Place
    <3>4. Bounded
      BY <1>1, <1>3, <2>1, <3>3, SameSpent DEF Bounded, Bound, Judges, Steady, Around, TypeOK
    <3>5. Steady
      BY <3>4 DEF Bounded
    <3>6. TypeOK'
      BY <1>1, <3>1, <3>3, <3>5, SteadyIs
    <3>7. ReadInv' /\ CountedInv'
      BY <1>1, <3>2, <3>3 DEF ReadInv, CountedInv, Judges, Passes, Starts
    <3>8. EndInv'
      BY <1>1, <3>1, <3>2, <3>3 DEF EndInv, Followed
    <3>9. ClosedInv'
      <4>1. latched = "interrupted_breaker" /\ spent["user"] = 0 => end = "interrupted"
        BY <1>1, <3>1, ClosedIs DEF Bound, Judges
      <4> QED
        BY <1>1, <1>3, <3>2, <3>3, <4>1 DEF ClosedInv, Passes, Starts
    <3> QED
      BY <1>1, <3>2, <3>3, <3>4, <3>5, <3>6, <3>7, <3>8, <3>9, SteadyIs, BoundedIs
  <2> QED
    BY <1>3, <2>2, <2>3
<1> QED
  BY <1>2, <1>3 DEF Terminal

LEMMA NeedsHumanIs ==
    ASSUME NEW st \in ProjectState, NEW i
    PROVE  /\ NeedsHuman(st, i) \in ProjectState /\ NeedsHuman(st, i).phase = "NEEDS_HUMAN"
           /\ NeedsHuman(st, i).wake = st.wake /\ NeedsHuman(st, i).breaker = st.breaker
           /\ NeedsHuman(st, i).asks \subseteq st.asks
BY DEF NeedsHuman, Without, ProjectState, Phase

LEMMA LatchKeeps ==
    ASSUME IInv, Latch
    PROVE  IInv'
<1> USE DEF IInv
<1> DEFINE i == bridge.wake.turn
<1>1. /\ bridge.at = "latch" /\ bridge.wake # NoWake /\ bridge.end = "interrupted"
      /\ UNCHANGED <<conn, binds, bound, streak, spent>>
      /\ UNCHANGED <<turns, asked, buffer, new, arrived, malformed>>
      /\ conn \in Connection /\ NextSpends /\ disk \in Store /\ mem \in Store
      /\ disk.st \in ProjectState
  BY SameSpent, StoresAre DEF Latch, TypeOK, EndInv, OutsideSame, ServerSame, MailSame
<1>2. CASE mem' = disk /\ Done /\ UNCHANGED <<disk, latched>>
  <2>1. Ends
    BY <1>1, <1>2 DEF Done, Ends, Forgets, Around
  <2> QED
    BY <2>1, EndsKeeps
<1>3. CASE /\ BoundAs(bridge.wake.id) /\ disk.st.wake = bridge.wake
           /\ \A a \in disk.st.asks : a.turn # i
           /\ mem' = disk /\ Go("clear") /\ UNCHANGED <<disk, latched>>
  <2>1. /\ bridge' \in Local /\ bridge'.at = "clear" /\ bridge'.binding = bridge.binding
        /\ bridge'.wake = bridge.wake /\ bridge'.msgs = bridge.msgs
        /\ bridge'.end = bridge.end /\ bridge'.breaker = bridge.breaker
    BY <1>3, GoIs, BridgeIs DEF Place
  <2>2. disk.binding = bridge.binding
    BY <1>1, <1>3 DEF BoundAs, ReadInv, RecordsInv, SameInv
  <2>3. Bounded
    BY <1>1, <1>3, <2>1 DEF Bounded, Bound, Judges, Steady, Around
  <2>4. Steady
    BY <2>3 DEF Bounded
  <2>5. TypeOK'
    BY <1>1, <2>1, <2>4, SteadyIs DEF TypeOK
  <2>6. ReadInv'
    BY <1>1, <1>3, <2>1, <2>2 DEF ReadInv, Judges, Passes, Starts
  <2>7. EndInv' /\ CountedInv' /\ ClosedInv'
    BY <1>1, <1>3, <2>1 DEF EndInv, CountedInv, ClosedInv, Followed, Passes, Starts
  <2>8. CopyInv'
    BY <1>1, <1>3 DEF CopyInv
  <2> QED
    BY <1>1, <2>1, <2>3, <2>4, <2>5, <2>6, <2>7, <2>8, SteadyIs, BoundedIs
<1>4. CASE Flush(NeedsHuman(disk.st, i)) /\ latched' = "server_request" /\ Done
  <2>1. /\ disk' \in Store /\ mem' = disk' /\ disk'.binding = disk.binding
        /\ disk'.st = NeedsHuman(disk.st, i)
    BY <1>1, <1>4, FlushIs, NeedsHumanIs
  <2>2. WriteEnds
    BY <1>1, <1>4, <2>1, NeedsHumanIs DEF WriteEnds, Wrote, Around, Done
  <2> QED
    BY <2>2, WriteEndsKeeps
<1> QED
  BY <1>2, <1>3, <1>4 DEF Latch

LEMMA ClearKeeps ==
    ASSUME IInv, Clear
    PROVE  IInv'
<1> USE DEF IInv
<1> DEFINE st == [disk.st EXCEPT !.asks = Without(@, bridge.wake.turn)]
<1>1. /\ bridge.at = "clear" /\ bridge.wake # NoWake
      /\ bridge.end \in {"completed", "interrupted", "unknown"}
      /\ Flush(st) /\ Go(IF bridge.end = "interrupted" THEN "trust" ELSE "giveup")
      /\ UNCHANGED <<conn, spent, binds, bound, latched, streak>>
      /\ UNCHANGED <<turns, asked, buffer, new, arrived, malformed>>
  BY DEF Clear, TypeOK, EndInv, HistorySame, OutsideSame, ServerSame, MailSame
<1>2. /\ bridge' \in Local /\ bridge'.at = (IF bridge.end = "interrupted" THEN "trust" ELSE "giveup")
      /\ bridge'.binding = bridge.binding
      /\ bridge'.wake = bridge.wake /\ bridge'.msgs = bridge.msgs
      /\ bridge'.end = bridge.end /\ bridge'.breaker = bridge.breaker
  BY <1>1, GoIs, BridgeIs DEF Place
<1>3. st.asks = {}
  BY <1>1, StoresAre DEF Without, RecordsInv, StoreInv, RecordInv, Bound, Judges, ProjectState
<1>4. /\ st \in ProjectState /\ st.wake = disk.st.wake /\ st.breaker = disk.st.breaker
      /\ st.phase = disk.st.phase
  BY StoresAre DEF Without, ProjectState
<1> HIDE DEF st
<1>5. disk' \in Store /\ mem' = disk' /\ disk'.binding = disk.binding /\ disk'.st = st
  BY <1>1, <1>4, FlushIs DEF TypeOK
<1>6. TypeOK'
  BY <1>1, <1>2, <1>5 DEF TypeOK
<1>7. BindingStands' /\ BreakerHolds' /\ TurnInv' /\ NoticeInv'
  BY <1>1, <1>2, <1>5 DEF BindingStands, BreakerHolds, TurnInv, Followed, Running, NoticeInv,
                          BufferInv, MessageInv
<1>8. RecordsInv'
  BY <1>1, <1>2, <1>3, <1>4, <1>5 DEF RecordsInv, StoreInv, SameInv
<1>9. ReadInv' /\ EndInv'
  BY <1>1, <1>2, <1>3, <1>5 DEF ReadInv, EndInv, Followed, Judges, Passes, Starts
<1>10. CopyInv' /\ RecordInv'
  BY <1>1, <1>2, <1>4, <1>5 DEF CopyInv, RecordInv, Bound, Judges
<1>11. StreakInv' /\ OnRecordInv' /\ CountedInv'
  BY <1>1, <1>2, <1>4, <1>5 DEF StreakInv, OnRecordInv, CountedInv, Counts, Bound, Judges
<1>12. OffRecordInv'
  BY <1>1, <1>2, <1>4, <1>5, GoesOnAtRest DEF OffRecordInv, Counts, Running
<1>13. HeldInv' /\ AloneInv' /\ ClosedInv'
  BY <1>1, <1>2, <1>4, <1>5 DEF HeldInv, AloneInv, ClosedInv, Followed, Passes, Starts
<1> QED
  BY <1>6, <1>7, <1>8, <1>9, <1>10, <1>11, <1>12, <1>13

LEMMA CountedIs ==
    ASSUME IInv, bridge.at = "trust"
    PROVE  LET b == Counted(mem.st.breaker) IN
           /\ b \in Breaker /\ b # NoBreaker
           /\ b.gen = bridge.wake.gen /\ b.thread = bridge.wake.thread
           /\ streak # NoStreak => Counts(b, streak.n)
           /\ latched = "interrupted_breaker" /\ spent["user"] = 0 => b.count >= Limit
<1> USE DEF IInv
<1> DEFINE b == Counted(mem.st.breaker)
           old == mem.st.breaker
           more == old # NoBreaker /\ old.gen = bridge.wake.gen /\ old.thread = bridge.binding.thread
<1>1. /\ bridge.wake # NoWake /\ bridge.wake \in Wake /\ bridge.binding # NoBinding
      /\ bridge.wake.gen \in SUBSET Mail /\ bridge.wake.thread \in Thread
      /\ bridge.wake.thread = bridge.binding.thread
      /\ old \in Breaker \cup {NoBreaker}
  BY BridgeIs, WakeIs, StoresAre DEF TypeOK, ReadInv
<1>2. more => old.count \in Nat \ {0}
  BY <1>1, BreakerIs
<1>3. b = [gen |-> bridge.wake.gen, thread |-> bridge.binding.thread,
           count |-> IF more THEN old.count + 1 ELSE 1]
  BY DEF Counted
<1>4. /\ b \in Breaker /\ b.gen = bridge.wake.gen /\ b.thread = bridge.wake.thread
      /\ b.count = (IF more THEN old.count + 1 ELSE 1)
  <2> HIDE DEF more
  <2>1. (IF more THEN old.count + 1 ELSE 1) \in Nat \ {0}
    BY <1>2
  <2> HIDE DEF old
  <2> QED
    BY <1>1, <1>3, <2>1 DEF Breaker
<1>5. b # NoBreaker
  BY <1>4, NothingIsNothing
<1>6. ASSUME streak # NoStreak PROVE Counts(b, streak.n)
  <2>1. bridge.binding = disk.binding /\ mem.binding = disk.binding /\ streak.turn \in DOMAIN turns
        /\ turns[streak.turn].thread = disk.binding.thread /\ streak.n \in Nat
    BY <1>6 DEF StreakInv, Bound
  <2>2. disk.st.wake = bridge.wake /\ disk.st.breaker = old
    BY <1>1, <2>1 DEF RecordInv, CopyInv, Bound
  <2>3. bridge.wake.gen = streak.gen /\ (streak.n >= 2 => Counts(old, streak.n - 1))
    BY <1>1, <2>2 DEF OnRecordInv
  <2>4. streak.n >= 2 => more /\ old.count >= streak.n - 1
    BY <1>1, <2>1, <2>3 DEF Counts
  <2>5. b.count >= streak.n
    <3> HIDE DEF more, b
    <3> QED
      BY <1>2, <1>4, <2>1, <2>4
  <2> QED
    BY <1>1, <1>4, <1>5, <2>1, <2>3, <2>5 DEF Counts
<1>7. ASSUME latched = "interrupted_breaker", spent["user"] = 0 PROVE b.count >= Limit
  <2>1. disk.binding = bridge.binding /\ disk.st.wake = bridge.wake
    BY <1>7, ClosedIs DEF Bound
  <2>2. mem.binding = disk.binding
    BY <1>1, <2>1, EmptyIs DEF CopyInv
  <2>3. disk.st.breaker = old
    BY <1>1, <2>1, <2>2 DEF CopyInv
  <2>4. more /\ old.count >= Limit
    BY <1>1, <1>7, <2>1, <2>3 DEF ClosedInv
  <2> HIDE DEF more, b
  <2> QED
    BY <1>2, <1>4, <2>4, BridgeAssumption
<1> QED
  BY <1>4, <1>5, <1>6, <1>7

LEMMA TrustKeeps ==
    ASSUME IInv, Trust
    PROVE  IInv'
<1> USE DEF IInv
<1> DEFINE b == Counted(mem.st.breaker)
<1>1. /\ bridge.at = "trust" /\ bridge.wake # NoWake /\ bridge.binding # NoBinding
      /\ bridge.end = "interrupted" /\ bridge.breaker = NoBreaker /\ mem.st.asks = {}
      /\ UNCHANGED <<disk, conn, binds, bound, latched, streak>>
      /\ UNCHANGED <<turns, asked, buffer, new, arrived, malformed>>
      /\ bridge.wake.turn \in 0..MaxTurn /\ bridge.wake.id \in Nat
      /\ conn \in Connection /\ mem \in Store
  <2>1. /\ bridge.at = "trust" /\ bridge.wake # NoWake
        /\ UNCHANGED <<disk, conn, binds, bound, latched, streak>>
        /\ UNCHANGED <<turns, asked, buffer, new, arrived, malformed>>
        /\ conn \in Connection /\ mem \in Store
    BY DEF Trust, TypeOK, HistorySame, OutsideSame, ServerSame, MailSame
  <2>2. bridge.wake.turn \in Turn /\ bridge.wake.id \in Nat /\ Turn \subseteq 0..MaxTurn
    <3>1. bridge.wake.turn \in Turn /\ bridge.wake.id \in Nat
      BY <2>1, BridgeIs, WakeIs
    <3>2. Turn \subseteq 0..MaxTurn
      BY BridgeAssumption DEF Turn
    <3> QED
      BY <3>1, <3>2
  <2>3. /\ bridge.binding # NoBinding /\ bridge.end = "interrupted" /\ bridge.breaker = NoBreaker
        /\ mem.st.asks = {}
    BY <2>1 DEF ReadInv, EndInv
  <2> QED
    BY <2>1, <2>2, <2>3
<1>2. CASE CallFails(bridge.wake.id) /\ UNCHANGED mem
  <2>1. Errs
    BY <1>1, <1>2, CallFailsIs, SpendsIs DEF Errs, Around, TypeOK, Kinds
  <2> QED
    BY <2>1, ErrsKeeps
<1>3. ASSUME Bounded, bridge'.end = bridge.end, bridge'.at \in {"human", "giveup"}, CopyInv', CountedInv',
             bridge'.at = "giveup" => bridge'.breaker = NoBreaker /\ mem'.st.asks = {},
             bridge'.at = "giveup" => latched # "interrupted_breaker" \/ spent["user"] # 0
      PROVE  IInv'
  <2>1. Steady /\ bridge'.wake = bridge.wake /\ bridge'.binding = bridge.binding
    BY <1>3 DEF Bounded
  <2>2. TypeOK'
    BY <1>1, <1>3, <2>1, SteadyIs DEF TypeOK
  <2>3. ReadInv' /\ EndInv'
    BY <1>1, <1>3, <2>1 DEF ReadInv, EndInv, Followed, Judges, Passes, Starts
  <2>4. ClosedInv'
    <3>1. spent'["user"] = 0 => spent["user"] = 0
      BY <2>1, SteadyIs
    <3> QED
      BY <1>1, <1>3, <3>1 DEF ClosedInv, Passes, Starts
  <2> QED
    BY <1>1, <1>3, <2>1, <2>2, <2>3, <2>4, SteadyIs, BoundedIs
<1>4. CASE /\ Spend("gate") /\ UNCHANGED mem
           /\ bridge' = [bridge EXCEPT !.at = "human", !.turn = bridge.wake.turn,
                                       !.expect = bridge.wake.id]
  <2>1. /\ bridge' \in Local /\ bridge'.at = "human" /\ bridge'.binding = bridge.binding
        /\ bridge'.wake = bridge.wake /\ bridge'.msgs = bridge.msgs
        /\ bridge'.end = bridge.end /\ bridge'.breaker = bridge.breaker
    BY <1>1, <1>4, BridgeIs DEF Local, Place
  <2>2. Bounded
    BY <1>1, <1>4, <2>1, SpendsIs DEF Bounded, Bound, Steady, Around, TypeOK, Kinds
  <2>3. CopyInv' /\ CountedInv'
    BY <1>1, <1>4, <2>1 DEF CopyInv, CountedInv
  <2> QED
    BY <1>3, <2>1, <2>2, <2>3
<1>5. CASE /\ mem' = [mem EXCEPT !.st.breaker = b] /\ UNCHANGED spent
           /\ bridge' = IF b.count >= Limit
                        THEN [bridge EXCEPT !.at = "human", !.turn = bridge.wake.turn,
                                  !.expect = bridge.wake.id, !.breaker = b]
                        ELSE [bridge EXCEPT !.at = "giveup"]
  <2>1. /\ b \in Breaker /\ b # NoBreaker
        /\ b.gen = bridge.wake.gen /\ b.thread = bridge.wake.thread
        /\ streak # NoStreak => Counts(b, streak.n)
        /\ latched = "interrupted_breaker" /\ spent["user"] = 0 => b.count >= Limit
    BY <1>1, CountedIs
  <2> HIDE DEF b
  <2>2. b.count \in Nat \ {0} /\ Limit \in Nat \ {0}
    BY <2>1, BreakerIs, BridgeAssumption
  <2>3. /\ mem' \in Store /\ mem'.binding = mem.binding /\ mem'.st.breaker = b
        /\ mem'.st.wake = mem.st.wake /\ mem'.st.asks = mem.st.asks /\ mem'.st.phase = mem.st.phase
    BY <1>1, <1>5, <2>1, StoresAre DEF Store, ProjectState
  <2>4. CASE b.count >= Limit
    <3>1. /\ bridge' \in Local /\ bridge'.at = "human" /\ bridge'.binding = bridge.binding
          /\ bridge'.wake = bridge.wake /\ bridge'.msgs = bridge.msgs
          /\ bridge'.end = bridge.end /\ bridge'.breaker = b /\ bridge'.expect = bridge.wake.id
      BY <1>1, <1>5, <2>1, <2>4, BridgeIs DEF Local, Place
    <3>2. Bounded
      BY <1>1, <1>5, <2>3, <3>1, SameSpent DEF Bounded, Bound, Steady, Around
    <3>3. CopyInv'
      BY <1>1, <2>3, <3>1 DEF CopyInv
    <3>4. CountedInv'
      BY <1>1, <2>1, <2>4, <3>1 DEF CountedInv, Counts
    <3> QED
      BY <1>3, <3>1, <3>2, <3>3, <3>4
  <2>5. CASE ~(b.count >= Limit)
    <3>1. /\ bridge' \in Local /\ bridge'.at = "giveup" /\ bridge'.binding = bridge.binding
          /\ bridge'.wake = bridge.wake /\ bridge'.msgs = bridge.msgs
          /\ bridge'.end = bridge.end /\ bridge'.breaker = bridge.breaker
      BY <1>1, <1>5, <2>5, BridgeIs DEF Local, Place
    <3>2. Bounded
      BY <1>1, <1>5, <2>3, <3>1, SameSpent DEF Bounded, Bound, Steady, Around
    <3>3. CopyInv'
      BY <1>1, <2>3, <3>1 DEF CopyInv
    <3>4. streak # NoStreak => streak.n < Limit
      BY <2>1, <2>2, <2>5 DEF Counts, StreakInv
    <3>5. CountedInv'
      BY <1>1, <2>1, <2>3, <3>1, <3>4 DEF CountedInv, Counts
    <3> QED
      BY <1>1, <1>3, <2>1, <2>3, <2>5, <3>1, <3>2, <3>3, <3>5
  <2> QED
    BY <2>4, <2>5
<1> QED
  BY <1>2, <1>4, <1>5 DEF Trust

LEMMA MarkNeedsHumanKeeps ==
    ASSUME IInv, MarkNeedsHuman
    PROVE  IInv'
<1> USE DEF IInv
<1> DEFINE b == bridge.breaker
           old == NeedsHuman(disk.st, bridge.turn)
           st == [old EXCEPT !.breaker = IF b = NoBreaker THEN @ ELSE b]
<1>1. /\ bridge.at = "human" /\ Done
      /\ UNCHANGED <<conn, binds, bound, streak, spent>>
      /\ UNCHANGED <<turns, asked, buffer, new, arrived, malformed>>
      /\ NextSpends /\ conn \in Connection /\ disk \in Store /\ disk.st \in ProjectState
      /\ b \in Breaker \cup {NoBreaker}
  BY SameSpent, StoresAre, BridgeIs DEF MarkNeedsHuman, TypeOK, OutsideSame, ServerSame, MailSame
<1>2. CASE mem' = disk /\ UNCHANGED <<disk, latched>>
  <2>1. Ends
    BY <1>1, <1>2 DEF Done, Ends, Forgets, Around
  <2> QED
    BY <2>1, EndsKeeps
<1>3. CASE /\ BoundAs(bridge.expect) /\ Flush(st)
           /\ latched' = IF b = NoBreaker THEN "hook_trust" ELSE "interrupted_breaker"
  <2>1. /\ old \in ProjectState /\ old.phase = "NEEDS_HUMAN" /\ old.wake = disk.st.wake
        /\ old.breaker = disk.st.breaker /\ old.asks \subseteq disk.st.asks
    BY <1>1, NeedsHumanIs
  <2>2. /\ st \in ProjectState /\ st.phase = "NEEDS_HUMAN" /\ st.wake = disk.st.wake
        /\ st.asks \subseteq disk.st.asks
        /\ st.breaker = IF b = NoBreaker THEN disk.st.breaker ELSE b
    <3> HIDE DEF old, b
    <3> QED
      BY <1>1, <2>1 DEF ProjectState
  <2> HIDE DEF st
  <2>3. disk' \in Store /\ mem' = disk' /\ disk'.binding = disk.binding /\ disk'.st = st
    BY <1>1, <1>3, <2>2, FlushIs
  <2>4. CASE b = NoBreaker
    <3>1. WriteEnds
      BY <1>1, <1>3, <2>2, <2>3, <2>4 DEF WriteEnds, Wrote, Around, Done
    <3> QED
      BY <3>1, WriteEndsKeeps
  <2>5. CASE b # NoBreaker
    <3>1. /\ bridge.wake # NoWake /\ bridge.expect = bridge.wake.id /\ bridge.end = "interrupted"
          /\ b.count >= Limit /\ b.gen = bridge.wake.gen /\ b.thread = bridge.wake.thread
          /\ streak # NoStreak => Counts(b, streak.n)
      BY <1>1, <2>5 DEF CountedInv
    <3>2. disk.binding = bridge.binding /\ disk.st.wake = bridge.wake
      BY <1>1, <1>3, <3>1 DEF BoundAs, ReadInv, RecordsInv, SameInv, RecordInv
    <3>3. turns[bridge.wake.turn].status = "interrupted"
      BY <3>1 DEF TypeOK
    <3>4. Wrote
      BY <1>1, <1>3, <2>3, <2>5 DEF Wrote, Around, Done
    <3>5. StoreInv(disk)'
      BY <1>1, <2>2, <2>3 DEF RecordsInv, StoreInv
    <3>6. /\ TypeOK' /\ BindingStands'
          /\ TurnInv' /\ NoticeInv' /\ RecordsInv' /\ ReadInv' /\ EndInv' /\ CopyInv' /\ RecordInv'
          /\ CountedInv' /\ bridge'.at = "idle" /\ bridge'.end = "" /\ mem' = disk'
      BY <3>4, <3>5, WroteIs
    <3>7. BreakerHolds' /\ StreakInv'
      BY <1>1, <2>3, <3>6 DEF BreakerHolds, StreakInv, Judges, Passes, Starts, Bound
    <3>8. OnRecordInv' /\ OffRecordInv'
      <4>1. b.count \in Nat /\ (streak # NoStreak => streak.n \in Nat)
        BY <1>1, <2>5, BreakerIs DEF StreakInv
      <4>2. disk'.st.wake = disk.st.wake /\ disk'.st.breaker = b /\ disk.st.wake # NoWake
        BY <2>2, <2>3, <2>5, <3>1, <3>2
      <4> HIDE DEF b
      <4> QED
        BY <1>1, <2>5, <3>1, <4>1, <4>2 DEF OnRecordInv, OffRecordInv, Counts
    <3>9. HeldInv' /\ AloneInv'
      BY <1>1, <2>2, <2>3, <3>6 DEF HeldInv, AloneInv, Followed
    <3>10. ClosedInv'
      BY <1>1, <2>2, <2>3, <2>5, <3>1, <3>2, <3>3, <3>6 DEF ClosedInv, Passes, Starts
    <3> QED
      BY <3>6, <3>7, <3>8, <3>9, <3>10
  <2> QED
    BY <2>4, <2>5
<1> QED
  BY <1>1, <1>2, <1>3 DEF MarkNeedsHuman

LEMMA RecordProjectErrorKeeps ==
    ASSUME IInv, RecordProjectError
    PROVE  IInv'
<1> USE DEF IInv
<1> DEFINE st == [disk.st EXCEPT !.phase = bridge.error, !.late = TRUE]
<1>1. /\ bridge.at = "error" /\ Done
      /\ UNCHANGED <<conn, binds, bound, latched, streak, spent>>
      /\ UNCHANGED <<turns, asked, buffer, new, arrived, malformed>>
      /\ NextSpends /\ conn \in Connection /\ disk \in Store /\ disk.st \in ProjectState
      /\ latched \in {"", "hook_trust", "server_request", "interrupted_breaker"}
  BY SameSpent, StoresAre DEF RecordProjectError, TypeOK, HistorySame, OutsideSame, ServerSame, MailSame
<1>2. CASE mem' = disk /\ UNCHANGED disk
  <2>1. Ends
    BY <1>1, <1>2 DEF Done, Ends, Forgets, Around
  <2> QED
    BY <2>1, EndsKeeps
<1>3. CASE Flush(st)
  <2>1. \E p \in Phase : st = [disk.st EXCEPT !.phase = p, !.late = TRUE]
    <3>1. CASE bridge.error \in Phase
      BY <3>1
    <3>2. bridge.error \in Phase
      BY <1>1, BridgeIs DEF EndInv, Phase
    <3> QED
      BY <3>1, <3>2
  <2>2. st \in ProjectState /\ st.wake = disk.st.wake /\ st.breaker = disk.st.breaker
        /\ st.asks = disk.st.asks
    BY <1>1, <2>1 DEF ProjectState
  <2> HIDE DEF st
  <2>3. disk' \in Store /\ mem' = disk' /\ disk'.binding = disk.binding /\ disk'.st = st
    BY <1>1, <1>3, <2>2, FlushIs
  <2>4. WriteEnds
    BY <1>1, <2>2, <2>3 DEF WriteEnds, Wrote, Around, Done
  <2> QED
    BY <2>4, WriteEndsKeeps
<1> QED
  BY <1>1, <1>2, <1>3 DEF RecordProjectError

LEMMA LostKeeps ==
    ASSUME IInv, Lost
    PROVE  IInv'
<1> USE DEF IInv
<1>1. NewConnection \in Connection /\ NewConnection.done = {}
  BY DEF NewConnection, Connection
<1>2. Forgets /\ streak' = IF bridge.at = "started" THEN Row ELSE streak
  BY <1>1, SpendsIs DEF Lost, Done, Forgets, Around, MailSame, Kinds
<1>3. CASE bridge.at # "started"
  BY <1>2, <1>3, EndsKeeps DEF Ends
<1>4. CASE bridge.at = "started"
  <2>1. streak' = Row /\ UNCHANGED <<disk, turns>> /\ bridge'.at = "idle"
    BY <1>2, <1>4, ForgetsIs
  <2>2. BreakerHolds'
    BY <1>4, <2>1, RowIs, BridgeAssumption DEF BreakerHolds
  <2>3. StreakInv'
    BY <1>4, <2>1, RowIs DEF StreakInv, Judges, Passes, Starts, Bound
  <2>4. OnRecordInv' /\ OffRecordInv'
    BY <1>4, <2>1, RowIs DEF OnRecordInv, OffRecordInv, Counts
  <2> QED
    BY <1>2, <2>2, <2>3, <2>4, ForgetsIs
<1> QED
  BY <1>3, <1>4

LEMMA ScanStopsKeeps ==
    ASSUME IInv, ScanRests \/ ScanRefuses
    PROVE  IInv'
<1> USE DEF IInv
<1>1. /\ bridge.at = "consume"
      /\ UNCHANGED <<disk, mem, conn, binds, bound, latched, streak>>
      /\ UNCHANGED <<turns, asked, buffer, new, arrived, malformed>>
      /\ NextSpends /\ conn \in Connection
  BY SameSpent DEF ScanRests, ScanRefuses, Scans, TypeOK, HistorySame, OutsideSame, ServerSame, MailSame
<1>2. CASE ScanRests
  <2>1. Ends
    BY <1>1, <1>2 DEF ScanRests, Done, Ends, Forgets, Around
  <2> QED
    BY <2>1, EndsKeeps
<1>3. CASE ScanRefuses
  <2>1. Errs
    BY <1>1, <1>3, FailsIs, BridgeIs DEF ScanRefuses, Errs, Around, Moves
  <2> QED
    BY <2>1, ErrsKeeps
<1> QED
  BY <1>2, <1>3

LEMMA WaitBusyKeeps ==
    ASSUME IInv, bridge.at \in {"ready", "wake"}, WaitBusy, HistorySame, OutsideSame, UNCHANGED spent
    PROVE  IInv'
<1> USE DEF IInv
<1> DEFINE st == [mem.st EXCEPT !.phase = "WAIT_BUSY"]
<1>1. /\ UNCHANGED <<binds, bound, latched, streak, spent>>
      /\ UNCHANGED <<turns, asked, buffer, new, arrived, malformed>>
      /\ NextSpends /\ disk \in Store /\ mem \in Store /\ mem.st \in ProjectState
      /\ latched \in {"", "hook_trust", "server_request", "interrupted_breaker"}
      /\ Save(st) /\ Done
  BY SameSpent, StoresAre DEF WaitBusy, TypeOK, HistorySame, OutsideSame, ServerSame, MailSame
<1>2. bridge.binding # NoBinding /\ mem.binding = bridge.binding /\ mem.st.wake = NoWake
      /\ mem.st.asks = {}
  BY DEF ReadInv, Passes, RecordsInv, StoreInv
<1>3. conn' \in Connection /\ conn'.done = conn.done
  <2>1. bridge.binding.thread \in Thread
    BY <1>2, BridgeIs, BindingIs
  <2> QED
    BY <2>1 DEF WaitBusy, TypeOK, Connection
<1>4. st \in ProjectState /\ st.wake = NoWake /\ st.asks = {} /\ st.breaker = mem.st.breaker
  BY <1>1, <1>2 DEF ProjectState, Phase
<1> HIDE DEF st
<1>5. disk' \in Store /\ mem' = disk' /\ disk'.binding = disk.binding
      /\ (disk.binding \in {mem.binding, NoBinding} => disk'.st = st)
      /\ (disk.binding \notin {mem.binding, NoBinding} => disk'.st = disk.st)
  BY <1>1, <1>4, SaveIs
<1>6. disk.st.wake = NoWake
  BY <1>2, EmptyIs DEF CopyInv, RecordsInv, StoreInv
<1>7. disk.binding = mem.binding => disk.st.breaker = mem.st.breaker
  BY <1>2 DEF CopyInv
<1>8. disk'.st.wake = disk.st.wake /\ disk'.st.asks \subseteq disk.st.asks
      /\ (disk'.st.breaker = disk.st.breaker \/ disk.binding = NoBinding)
  BY <1>4, <1>5, <1>6, <1>7
<1>9. WriteEnds
  BY <1>1, <1>3, <1>5, <1>8 DEF WriteEnds, Wrote, Around, Done
<1> QED
  BY <1>9, WriteEndsKeeps

LEMMA PassesOn ==
    ASSUME IInv, Bounded, bridge.at \in Passes, bridge'.at \in {"wake", "start", "human"},
           bridge'.end = bridge.end, bridge'.breaker = bridge.breaker, mem' = mem,
           ~Active(bridge.binding.thread)
    PROVE  IInv'
<1> USE DEF IInv
<1>1. Steady /\ bridge'.wake = bridge.wake /\ bridge'.binding = bridge.binding
  BY DEF Bounded
<1>2. UNCHANGED <<disk, binds, bound, latched, streak, turns>>
  BY <1>1, SteadyIs
<1>3. /\ bridge.wake = NoWake /\ bridge.binding # NoBinding /\ bridge.end = ""
      /\ bridge.breaker = NoBreaker /\ mem.binding = bridge.binding /\ mem.st.wake = bridge.wake
  BY DEF ReadInv, EndInv, Passes
<1>4. TypeOK'
  BY <1>1, <1>3, SteadyIs
<1>5. ReadInv' /\ EndInv' /\ CountedInv'
  BY <1>1, <1>2, <1>3 DEF ReadInv, EndInv, CountedInv, Judges, Passes, Starts
<1>6. ClosedInv'
  <2>1. spent'["user"] = 0 => spent["user"] = 0
    BY <1>1, SteadyIs
  <2> QED
    BY <1>2, <2>1 DEF ClosedInv
<1>7. OffRecordInv'
  <2> SUFFICES ASSUME disk.st.wake = NoWake, streak # NoStreak
               PROVE  /\ bridge'.at \in {"wake", "start", "starting"} => ~Running(streak.turn)
                      /\ MayGoOn' => MayGoOn
    BY <1>2 DEF OffRecordInv, Running, Counts
  <2> DEFINE t == turns[streak.turn].thread
  <2>1. bridge.binding = disk.binding /\ t = bridge.binding.thread /\ streak.turn \in DOMAIN turns
    BY DEF StreakInv, Passes, Bound
  <2>2. ~Running(streak.turn)
    BY <2>1 DEF Active
  <2>3. CASE bridge'.at = "human"
    BY <1>2, <2>3, GoesOnAtRest
  <2>4. CASE bridge'.at \in {"wake", "start"}
    <3> SUFFICES ASSUME MayGoOn' PROVE MayGoOn
      BY <2>2
    <3>1. /\ \A j \in DOMAIN turns : j > streak.turn /\ turns[j].thread = t => Running(j)
          /\ turns[streak.turn].status # "completed"
      BY <1>2, <2>4 DEF MayGoOn, Running
    <3>2. ~Followed(streak.turn, t)
      BY <2>1, <3>1 DEF Followed, Active
    <3> QED
      BY <3>1, <3>2 DEF MayGoOn, Passes
  <2> QED
    BY <2>2, <2>3, <2>4
<1> QED
  BY <1>1, <1>2, <1>4, <1>5, <1>6, <1>7, SteadyIs, BoundedIs DEF Passes

LEMMA ReadyKeeps ==
    ASSUME IInv, Ready
    PROVE  IInv'
<1> USE DEF IInv
<1> DEFINE t == bridge.binding.thread
<1>1. /\ bridge.at = "ready" /\ HistorySame /\ OutsideSame
      /\ UNCHANGED <<binds, bound, latched, streak>>
      /\ UNCHANGED <<turns, asked, buffer, new, arrived, malformed>>
      /\ conn \in Connection /\ mem \in Store
  BY DEF Ready, TypeOK, HistorySame, OutsideSame, ServerSame, MailSame
<1>2. CASE CallFails(bridge.binding.id) /\ UNCHANGED <<disk, mem, conn>>
  <2>1. Errs
    BY <1>1, <1>2, CallFailsIs, SpendsIs, BridgeIs DEF Errs, Around, Kinds
  <2> QED
    BY <2>1, ErrsKeeps
<1>3. CASE WaitBusy /\ UNCHANGED spent
  BY <1>1, <1>3, WaitBusyKeeps
<1>4. CASE Done /\ UNCHANGED conn /\ UNCHANGED <<disk, mem, spent>>
  <2>1. Ends
    BY <1>1, <1>4, SameSpent DEF Ends, Forgets, Around, Done
  <2> QED
    BY <2>1, EndsKeeps
<1>5. CASE /\ ~Active(t) /\ conn' = [conn EXCEPT !.active = @ \ {t}, !.completed = @ \ {t}]
           /\ Go("wake") /\ UNCHANGED <<disk, mem, spent>>
  <2>1. /\ bridge' \in Local /\ bridge'.at = "wake" /\ bridge'.binding = bridge.binding
        /\ bridge'.wake = bridge.wake /\ bridge'.msgs = bridge.msgs
        /\ bridge'.end = bridge.end /\ bridge'.breaker = bridge.breaker
    BY <1>5, GoIs, BridgeIs DEF Place
  <2>2. conn' \in Connection /\ conn'.done = conn.done
    BY <1>1, <1>5 DEF Connection
  <2>3. Bounded
    BY <1>1, <1>5, <2>1, <2>2, SameSpent DEF Bounded, Bound, Passes, Steady, Around
  <2> QED
    BY <1>1, <1>5, <2>1, <2>3, PassesOn DEF Passes
<1> QED
  BY <1>1, <1>2, <1>3, <1>4, <1>5 DEF Ready

LEMMA WakesKeeps ==
    ASSUME IInv, Wakes
    PROVE  IInv'
<1> USE DEF IInv
<1>1. /\ bridge.at = "wake" /\ HistorySame /\ OutsideSame
      /\ UNCHANGED <<binds, bound, latched, streak>>
      /\ UNCHANGED <<turns, asked, buffer, new, arrived, malformed>>
      /\ conn \in Connection /\ mem \in Store
  BY DEF Wakes, TypeOK, HistorySame, OutsideSame, ServerSame, MailSame
<1>2. CASE CallFails(bridge.binding.id) /\ UNCHANGED <<disk, mem, conn>>
  <2>1. Errs
    BY <1>1, <1>2, CallFailsIs, SpendsIs, BridgeIs DEF Errs, Around, Kinds
  <2> QED
    BY <2>1, ErrsKeeps
<1>3. CASE WaitBusy /\ UNCHANGED spent
  BY <1>1, <1>3, WaitBusyKeeps
<1>4. CASE /\ ~Active(bridge.binding.thread) /\ UNCHANGED <<disk, mem, conn>> /\ NextSpends
           /\ \/ bridge' = [bridge EXCEPT !.at = "human", !.expect = bridge.binding.id]
              \/ bridge' = [bridge EXCEPT !.at = "start"]
  <2>1. /\ bridge' \in Local /\ bridge'.at \in {"human", "start"} /\ bridge'.binding = bridge.binding
        /\ bridge'.wake = bridge.wake /\ bridge'.msgs = bridge.msgs
        /\ bridge'.end = bridge.end /\ bridge'.breaker = bridge.breaker
    BY <1>4, BridgeIs DEF Local, Place
  <2>2. Bounded
    BY <1>1, <1>4, <2>1 DEF Bounded, Bound, Passes, Steady, Around
  <2> QED
    BY <1>1, <1>4, <2>1, <2>2, PassesOn DEF Passes
<1> QED
  BY <1>1, <1>2, <1>3, <1>4, SpendsIs, SameSpent DEF Wakes, Go, Kinds

-----------------------------------------------------------------------------
(* The transaction of a wake *)

LEMMA StartKeeps ==
    ASSUME IInv, Start
    PROVE  IInv'
<1> USE DEF IInv
<1>1. /\ bridge.at = "start" /\ bridge.wake = NoWake /\ bridge.binding # NoBinding
      /\ bridge.end = "" /\ bridge.breaker = NoBreaker
      /\ UNCHANGED <<conn, spent, binds, bound, latched, streak>>
      /\ UNCHANGED <<turns, asked, buffer, new, arrived, malformed>>
      /\ conn \in Connection /\ NextSpends /\ bridge.binding.id \in Nat
  BY SameSpent, BridgeIs DEF Start, TypeOK, ReadInv, EndInv, Passes, HistorySame, OutsideSame, ServerSame,
     MailSame
<1>2. CASE ~BoundAs(bridge.binding.id)
  <2>1. Fails("IDENTITY_ERROR", bridge.binding.id) /\ mem' = disk /\ UNCHANGED disk
    BY <1>2 DEF Start
  <2>2. Errs
    BY <1>1, <2>1, FailsIs, BridgeIs DEF Errs, Around, Moves
  <2> QED
    BY <2>2, ErrsKeeps
<1>3. CASE BoundAs(bridge.binding.id)
  <2> DEFINE st == Starting(disk.st)
  <2>1. Flush(st) /\ Go("starting") /\ disk.binding = bridge.binding
    BY <1>3 DEF Start, BoundAs, RecordsInv, SameInv
  <2>2. /\ bridge' \in Local /\ bridge'.at = "starting"
        /\ bridge'.binding = bridge.binding
        /\ bridge'.wake = bridge.wake /\ bridge'.msgs = bridge.msgs
        /\ bridge'.end = bridge.end /\ bridge'.breaker = bridge.breaker
    BY <2>1, GoIs, BridgeIs DEF Place
  <2>3. /\ st \in ProjectState /\ st.wake = disk.st.wake /\ st.breaker = disk.st.breaker
        /\ st.asks = disk.st.asks
    BY StoresAre DEF Starting, ProjectState, Phase
  <2> HIDE DEF st
  <2>4. disk' \in Store /\ mem' = disk' /\ disk'.binding = disk.binding /\ disk'.st = st
    BY <2>1, <2>3, FlushIs DEF TypeOK
  <2>5. TypeOK'
    BY <1>1, <2>2, <2>4 DEF TypeOK
  <2>6. BindingStands' /\ BreakerHolds' /\ TurnInv' /\ NoticeInv'
    BY <1>1, <2>2, <2>4 DEF BindingStands, BreakerHolds, TurnInv, Followed, Running, NoticeInv,
                            BufferInv, MessageInv
  <2>7. RecordsInv'
    BY <1>1, <2>2, <2>3, <2>4 DEF RecordsInv, StoreInv, SameInv
  <2>8. ReadInv' /\ EndInv'
    BY <1>1, <2>1, <2>2, <2>4 DEF ReadInv, EndInv, Followed, Judges, Passes, Starts
  <2>9. CopyInv' /\ RecordInv'
    BY <1>1, <2>2, <2>3, <2>4 DEF CopyInv, RecordInv, Bound, Passes
  <2>10. StreakInv' /\ OnRecordInv' /\ CountedInv'
    BY <1>1, <2>1, <2>2, <2>3, <2>4 DEF StreakInv, OnRecordInv, CountedInv, Counts, Bound, Passes
  <2>11. OffRecordInv'
    BY <1>1, <2>2, <2>3, <2>4 DEF OffRecordInv, MayGoOn, Counts, Running
  <2>12. HeldInv'
    <3>1. latched = "" \/ spent["malformed"] # 0
      BY <1>1 DEF HeldInv
    <3>2. (spent'["malformed"] = 0 => spent["malformed"] = 0) /\ (~malformed => ~malformed') /\ latched' = latched
      BY <1>1, Zenon
    <3> QED
      BY <3>1, <3>2 DEF HeldInv
  <2>13. AloneInv' /\ ClosedInv'
    BY <1>1, <2>2, <2>3, <2>4 DEF AloneInv, ClosedInv, Followed, Passes, Starts
  <2> QED
    BY <2>5, <2>6, <2>7, <2>8, <2>9, <2>10, <2>11, <2>12, <2>13
<1> QED
  BY <1>2, <1>3

LEMMA TurnStartIs ==
    ASSUME IInv, bridge.at = "starting", NEW j,
           \/ /\ j \in DOMAIN turns /\ turns[j].thread = bridge.binding.thread /\ Running(j)
              /\ UNCHANGED turns
           \/ /\ ~Active(bridge.binding.thread) /\ Len(turns) < MaxTurn
              /\ turns' = Append(turns, [thread |-> bridge.binding.thread, status |-> "running"])
              /\ j = Len(turns) + 1
    PROVE  /\ Later /\ j \in DOMAIN turns' /\ j \in 1..MaxTurn
           /\ turns'[j].thread = bridge.binding.thread /\ turns'[j].status = "running"
           /\ \A k \in DOMAIN turns : ~Running(k) /\ turns[k].thread = bridge.binding.thread => k < j
<1> USE DEF IInv
<1>1. bridge.binding.thread \in Thread
  BY BridgeIs, BindingIs DEF ReadInv, Starts
<1>2. CASE /\ j \in DOMAIN turns /\ turns[j].thread = bridge.binding.thread /\ Running(j)
           /\ UNCHANGED turns
  <2>1. Later /\ j \in 1..MaxTurn
    BY <1>2, SameTurns, TurnsAre DEF Turn
  <2>2. ~Followed(j, bridge.binding.thread)
    BY <1>2 DEF TurnInv
  <2>3. \A k \in DOMAIN turns : ~Running(k) /\ turns[k].thread = bridge.binding.thread => k < j
    <3> SUFFICES ASSUME NEW k \in DOMAIN turns, ~Running(k), turns[k].thread = bridge.binding.thread
                 PROVE  k < j
      OBVIOUS
    <3>1. ~(k > j) /\ k # j
      BY <1>2, <2>2 DEF Followed
    <3>2. k \in Nat /\ j \in Nat
      BY <1>2, TurnsAre
    <3> QED
      BY <3>1, <3>2
  <2> QED
    BY <1>2, <2>1, <2>3 DEF Running
<1>3. CASE /\ ~Active(bridge.binding.thread) /\ Len(turns) < MaxTurn
           /\ turns' = Append(turns, [thread |-> bridge.binding.thread, status |-> "running"])
           /\ j = Len(turns) + 1
  <2>1. /\ Later /\ j \in DOMAIN turns'
        /\ turns'[j].thread = bridge.binding.thread /\ turns'[j].status = "running"
    BY <1>1, <1>3, BeginsIs
  <2>2. Len(turns) \in Nat /\ MaxTurn \in Nat /\ DOMAIN turns = 1..Len(turns)
    BY TurnsAre
  <2>3. j \in 1..MaxTurn /\ \A k \in DOMAIN turns : k < j
    <3>1. Len(turns) < MaxTurn /\ j = Len(turns) + 1
      BY <1>3
    <3> QED
      BY <2>2, <3>1
  <2> QED
    BY <2>1, <2>3
<1> QED
  BY <1>2, <1>3

LEMMA TurnStartKeeps ==
    ASSUME IInv, TurnStart
    PROVE  IInv'
<1> USE DEF IInv
<1> DEFINE t == bridge.binding.thread
<1>1. /\ bridge.at = "starting" /\ bridge.wake = NoWake /\ bridge.binding # NoBinding
      /\ bridge.end = "" /\ bridge.breaker = NoBreaker /\ disk.binding = bridge.binding
      /\ disk.st.wake = NoWake
      /\ UNCHANGED <<disk, mem, conn, binds, bound, latched, streak>>
      /\ UNCHANGED <<asked, buffer, new, arrived, malformed>>
      /\ conn \in Connection /\ bridge.binding.id \in Nat
  <2>1. /\ bridge.at = "starting"
        /\ UNCHANGED <<disk, mem, conn, binds, bound, latched, streak>>
        /\ UNCHANGED <<asked, buffer, new, arrived, malformed>>
        /\ conn \in Connection /\ bridge.binding.id \in Nat
    BY BridgeIs DEF TurnStart, TypeOK, HistorySame, MailSame
  <2>2. /\ bridge.wake = NoWake /\ bridge.binding # NoBinding
        /\ bridge.end = "" /\ bridge.breaker = NoBreaker /\ disk.binding = bridge.binding
    BY <2>1 DEF ReadInv, EndInv, Starts
  <2>3. disk.st.wake = NoWake
    BY <2>1, <2>2 DEF RecordInv, Bound, Starts
  <2> QED
    BY <2>1, <2>2, <2>3
<1>2. CASE CallFails(bridge.binding.id) /\ UNCHANGED turns
  <2>1. Errs
    BY <1>1, <1>2, CallFailsIs, SpendsIs, BridgeIs DEF Errs, Around, Kinds
  <2> QED
    BY <2>1, ErrsKeeps
<1>3. CASE Fails("BACKOFF", bridge.binding.id) /\ UNCHANGED <<turns, spent>>
  <2>1. Errs
    BY <1>1, <1>3, FailsIs, SameSpent, BridgeIs DEF Errs, Around, Moves
  <2> QED
    BY <2>1, ErrsKeeps
<1>4. ASSUME NEW j, bridge' = [bridge EXCEPT !.at = "started", !.turn = j], UNCHANGED spent,
             \/ j \in DOMAIN turns /\ turns[j].thread = t /\ Running(j) /\ UNCHANGED turns
             \/ /\ ~Active(t) /\ Len(turns) < MaxTurn
                /\ turns' = Append(turns, [thread |-> t, status |-> "running"])
                /\ j = Len(turns) + 1
      PROVE  IInv'
  <2>1. /\ Later /\ j \in DOMAIN turns' /\ j \in 1..MaxTurn
        /\ turns'[j].thread = t /\ turns'[j].status = "running"
        /\ \A k \in DOMAIN turns : ~Running(k) /\ turns[k].thread = t => k < j
    BY <1>1, <1>4, TurnStartIs
  <2>2. \A i \in DOMAIN turns : /\ i \in DOMAIN turns' /\ turns'[i].thread = turns[i].thread
                                /\ ~Running(i) => turns'[i] = turns[i] /\ ~Running(i)'
    BY <2>1 DEF Later, Running
  <2>3. /\ bridge' \in Local /\ bridge'.at = "started"
        /\ bridge'.binding = bridge.binding
        /\ bridge'.wake = bridge.wake /\ bridge'.msgs = bridge.msgs
        /\ bridge'.end = bridge.end /\ bridge'.breaker = bridge.breaker
        /\ bridge'.turn = j /\ bridge'.gen = bridge.gen
    <3>1. j \in 0..MaxTurn
      BY <2>1
    <3> QED
      BY <1>4, <3>1, BridgeIs DEF Local, Place
  <2>4. TypeOK'
    BY <1>1, <1>4, <2>1, <2>3 DEF TypeOK, Later
  <2>5. BindingStands' /\ BreakerHolds' /\ TurnInv'
    BY <1>1, <2>1, LaterKeepsTurnInv DEF BindingStands, BreakerHolds
  <2>6. NoticeInv'
    <3>1. bridge.msgs \in Seq(Message) /\ buffer \in Seq(Message)
      BY BridgeIs DEF TypeOK
    <3>2. /\ \A k \in DOMAIN bridge.msgs : bridge.msgs[k] \in Message
          /\ \A k \in DOMAIN buffer : buffer[k] \in Message
      BY <3>1
    <3>3. BufferInv'
      BY <1>1, <2>2, <3>2 DEF NoticeInv, BufferInv, MessageInv, Message, Running
    <3>4. (\A k \in DOMAIN bridge.msgs : MessageInv(bridge.msgs[k]))'
      <4>1. UNCHANGED asked /\ bridge'.msgs = bridge.msgs
        BY <1>1, <2>3
      <4>2. \A k \in DOMAIN bridge.msgs : MessageInv(bridge.msgs[k])
        BY DEF NoticeInv
      <4> QED
        BY <2>2, <3>2, <4>1, <4>2 DEF MessageInv, Message, Running
    <3>5. (\A i \in conn.done : i \in DOMAIN turns /\ ~Running(i))'
      BY <1>1, <2>2 DEF NoticeInv
    <3> QED
      BY <3>3, <3>4, <3>5 DEF NoticeInv
  <2>7. RecordsInv'
    BY <1>1, <2>2, <2>3 DEF RecordsInv, StoreInv, SameInv
  <2>8. ReadInv' /\ EndInv'
    BY <1>1, <2>1, <2>3 DEF ReadInv, EndInv, Judges, Passes, Starts
  <2>9. CopyInv' /\ RecordInv' /\ CountedInv'
    BY <1>1, <2>3 DEF CopyInv, RecordInv, CountedInv, Bound, Starts
  <2>10. streak # NoStreak => /\ streak.turn \in DOMAIN turns /\ ~Running(streak.turn)
                              /\ turns[streak.turn].thread = t /\ streak.turn < j
    BY <1>1, <2>1 DEF StreakInv, OffRecordInv
  <2>11. StreakInv' /\ OnRecordInv'
    BY <1>1, <2>2, <2>3, <2>10 DEF StreakInv, OnRecordInv, Bound, Starts
  <2>12. OffRecordInv'
    <3> SUFFICES ASSUME streak # NoStreak, MayGoOn'
                 PROVE  MayGoOn
      BY <1>1, <2>2, <2>10 DEF OffRecordInv, Counts
    <3>1. turns'[streak.turn] = turns[streak.turn] /\ InARow'
      BY <2>2, <2>3, <2>10 DEF MayGoOn
    <3>2. /\ turns[streak.turn].status # "completed"
          /\ \A k \in (streak.turn + 1)..(j - 1) : turns'[k].thread # t
      BY <1>1, <2>1, <2>3, <3>1 DEF InARow
    <3>3. ASSUME NEW k \in DOMAIN turns, k > streak.turn, turns[k].thread = t PROVE Running(k)
      <4>1. k \in Nat /\ j \in Nat /\ streak.turn \in Nat /\ turns'[k].thread = t
        BY <2>1, <2>2, <2>10, <3>3, TurnsAre
      <4>2. ~(k < j)
        BY <3>2, <3>3, <4>1
      <4> QED
        BY <2>1, <3>3, <4>2
    <3> QED
      BY <1>1, <2>10, <3>2, <3>3 DEF MayGoOn
  <2>13. HeldInv'
    <3>1. latched = "" \/ spent["malformed"] # 0
      BY <1>1 DEF HeldInv
    <3>2. (spent'["malformed"] = 0 => spent["malformed"] = 0) /\ (~malformed => ~malformed') /\ latched' = latched
      BY <1>1, <1>4, Zenon
    <3>3. spent["malformed"] = 0 => ~malformed
      BY DEF HeldInv
    <3> QED
      BY <3>1, <3>2, <3>3 DEF HeldInv
  <2>14. AloneInv'
    <3>1. Running(j)' /\ j \in DOMAIN turns'
      BY <2>1 DEF Running
    <3>2. ~Followed(bridge.turn, bridge.binding.thread)'
      BY <2>1, <2>3, <2>5, <3>1 DEF TurnInv, Followed
    <3> QED
      BY <1>1, <3>2 DEF AloneInv
  <2>15. ClosedInv'
    BY <1>1, <1>4 DEF ClosedInv
  <2> QED
    BY <2>4, <2>5, <2>6, <2>7, <2>8, <2>9, <2>11, <2>12, <2>13, <2>14, <2>15
<1> QED
  BY <1>1, <1>2, <1>3, <1>4 DEF TurnStart

-----------------------------------------------------------------------------
(* The messages of a pass, and time *)

LEMMA ConsumeCompletedKeeps ==
    ASSUME IInv, ConsumeCompleted
    PROVE  IInv'
<1> USE DEF IInv
<1>1. /\ bridge.at = "consume" /\ bridge'.at = "consume"
      /\ Message1.turn \in DOMAIN turns /\ ~Running(Message1.turn)
      /\ conn' \in Connection /\ conn'.done = conn.done \cup {Message1.turn}
  BY CompletedIs
<1>2. /\ bridge' \in Local /\ bridge'.binding = bridge.binding /\ bridge'.wake = bridge.wake
      /\ bridge'.end = bridge.end /\ bridge'.breaker = bridge.breaker
      /\ \A k \in DOMAIN bridge'.msgs : \E n \in DOMAIN bridge.msgs : bridge'.msgs[k] = bridge.msgs[n]
  BY NextMessageIs, BridgeIs DEF ConsumeCompleted
<1>3. /\ UNCHANGED <<disk, mem, spent, binds, bound, latched, streak>>
      /\ UNCHANGED <<turns, asked, buffer, new, arrived, malformed>>
  BY DEF ConsumeCompleted, HistorySame, OutsideSame, ServerSame, MailSame
<1>4. TypeOK'
  BY <1>1, <1>2, <1>3 DEF TypeOK
<1>5. NoticeInv'
  BY <1>1, <1>2, <1>3 DEF NoticeInv, BufferInv, MessageInv, Running
<1>6. BindingStands' /\ BreakerHolds' /\ TurnInv' /\ RecordsInv'
  BY <1>1, <1>2, <1>3 DEF BindingStands, BreakerHolds, TurnInv, Followed, Running, RecordsInv, StoreInv, SameInv
<1>7. ReadInv' /\ EndInv' /\ CopyInv' /\ RecordInv'
  BY <1>1, <1>2, <1>3 DEF ReadInv, EndInv, CopyInv, RecordInv, Followed, Bound, Judges, Passes, Starts
<1>8. StreakInv' /\ OnRecordInv' /\ CountedInv'
  BY <1>1, <1>2, <1>3 DEF StreakInv, OnRecordInv, CountedInv, Counts, Bound, Judges, Passes, Starts
<1>9. OffRecordInv'
  BY <1>1, <1>3, GoesOnAtRest DEF OffRecordInv, Counts, Running
<1>10. HeldInv'
  <2>1. (spent'["malformed"] = 0 => spent["malformed"] = 0) /\ (~malformed => ~malformed')
    BY <1>3, Zenon
  <2> QED
    BY <1>1, <1>3, <2>1 DEF HeldInv
<1>11. AloneInv' /\ ClosedInv'
  BY <1>1, <1>2, <1>3 DEF AloneInv, ClosedInv, Followed, Passes, Starts
<1> QED
  BY <1>4, <1>5, <1>6, <1>7, <1>8, <1>9, <1>10, <1>11

\* Only the requests on record change, and they are of the wake on record.
Notes ==
    /\ bridge.at = "consume" /\ bridge.msgs # <<>> /\ NextMessage
    /\ \E asks \in SUBSET [ask: Ask, turn: Turn] :
        /\ \A a \in asks : disk.st.wake # NoWake /\ a.turn = disk.st.wake.turn
        /\ Flush([disk.st EXCEPT !.asks = asks])
    /\ UNCHANGED <<conn, spent, binds, bound, latched, streak>>
    /\ UNCHANGED <<turns, asked, buffer, new, arrived, malformed>>

LEMMA NotesIs ==
    ASSUME IInv, RecordHumanRequest \/ ResolveHumanRequest
    PROVE  Notes
<1> USE DEF IInv
<1>1. /\ bridge.at = "consume" /\ bridge.msgs # <<>> /\ NextMessage
      /\ UNCHANGED <<conn, spent, binds, bound, latched, streak>>
      /\ UNCHANGED <<turns, asked, buffer, new, arrived, malformed>>
  BY DEF RecordHumanRequest, ResolveHumanRequest, HistorySame, OutsideSame, ServerSame, MailSame
<1>2. /\ disk.st \in ProjectState /\ disk.st.asks \subseteq [ask: Ask, turn: Turn]
      /\ \A a \in disk.st.asks : disk.st.wake # NoWake /\ a.turn = disk.st.wake.turn
  BY StoresAre DEF RecordsInv, StoreInv
<1>3. [disk.st EXCEPT !.asks = disk.st.asks] = disk.st
  BY <1>2 DEF ProjectState
<1>4. ASSUME RecordHumanRequest, ~Concerns(disk, Message1) PROVE Notes
  <2>1. Flush([disk.st EXCEPT !.asks = disk.st.asks])
    BY <1>3, <1>4 DEF RecordHumanRequest
  <2> QED
    BY <1>1, <1>2, <2>1 DEF Notes
<1>5. ASSUME RecordHumanRequest, Concerns(disk, Message1) PROVE Notes
  <2> DEFINE a == [ask |-> Message1.ask, turn |-> disk.st.wake.turn]
  <2>1. Message1 \in Message /\ Message1.kind = "request"
    BY <1>1, <1>5, NextMessageIs, BridgeIs DEF RecordHumanRequest
  <2>2. disk.st.wake # NoWake /\ disk.st.wake.turn \in Turn
    BY <1>5, StoresAre, WakeIs DEF Concerns
  <2>3. a \in [ask: Ask, turn: Turn] /\ a.turn = disk.st.wake.turn
    BY <2>1, <2>2 DEF Message
  <2>4. Flush([disk.st EXCEPT !.asks = disk.st.asks \cup {a}])
    BY <1>5 DEF RecordHumanRequest
  <2> HIDE DEF a
  <2> QED
    BY <1>1, <1>2, <2>2, <2>3, <2>4 DEF Notes
<1>6. ASSUME ResolveHumanRequest PROVE Notes
  <2> DEFINE asks == {a \in disk.st.asks : a.ask # Message1.ask}
  <2>1. Flush([disk.st EXCEPT !.asks = asks])
    BY <1>6 DEF ResolveHumanRequest
  <2>2. asks \subseteq disk.st.asks
    OBVIOUS
  <2> HIDE DEF asks
  <2> QED
    BY <1>1, <1>2, <2>1, <2>2 DEF Notes
<1> QED
  BY <1>4, <1>5, <1>6

LEMMA NotesKeeps ==
    ASSUME IInv, Notes
    PROVE  IInv'
<1> USE DEF IInv
<1>1. PICK asks \in SUBSET [ask: Ask, turn: Turn] :
        /\ \A a \in asks : disk.st.wake # NoWake /\ a.turn = disk.st.wake.turn
        /\ Flush([disk.st EXCEPT !.asks = asks])
  BY DEF Notes
<1> DEFINE st == [disk.st EXCEPT !.asks = asks]
<1>2. /\ st \in ProjectState /\ st.wake = disk.st.wake /\ st.breaker = disk.st.breaker
      /\ st.asks = asks /\ st.phase = disk.st.phase
  BY <1>1, StoresAre DEF ProjectState
<1> HIDE DEF st
<1>3. disk' \in Store /\ mem' = disk' /\ disk'.binding = disk.binding /\ disk'.st = st
  BY <1>1, <1>2, FlushIs DEF TypeOK, st
<1>4. /\ bridge' \in Local /\ bridge.at = "consume" /\ bridge'.at = "consume"
      /\ bridge'.binding = bridge.binding /\ bridge'.wake = bridge.wake
      /\ bridge'.end = bridge.end /\ bridge'.breaker = bridge.breaker
      /\ \A k \in DOMAIN bridge'.msgs : \E n \in DOMAIN bridge.msgs : bridge'.msgs[k] = bridge.msgs[n]
  BY NextMessageIs, BridgeIs DEF Notes
<1>5. /\ UNCHANGED <<conn, spent, binds, bound, latched, streak>>
      /\ UNCHANGED <<turns, asked, buffer, new, arrived, malformed>>
  BY DEF Notes
<1>6. TypeOK'
  BY <1>3, <1>4, <1>5 DEF TypeOK
<1>7. NoticeInv'
  BY <1>4, <1>5 DEF NoticeInv, BufferInv, MessageInv, Running
<1>8. BindingStands' /\ BreakerHolds' /\ TurnInv'
  BY <1>3, <1>5 DEF BindingStands, BreakerHolds, TurnInv, Followed, Running
<1>9. RecordsInv'
  BY <1>1, <1>2, <1>3, <1>4, <1>5 DEF RecordsInv, StoreInv, SameInv
<1>10. ReadInv' /\ EndInv' /\ CopyInv' /\ RecordInv'
  BY <1>3, <1>4, <1>5 DEF ReadInv, EndInv, CopyInv, RecordInv, Followed, Bound, Judges, Passes, Starts
<1>11. StreakInv' /\ OnRecordInv' /\ CountedInv'
  BY <1>2, <1>3, <1>4, <1>5 DEF StreakInv, OnRecordInv, CountedInv, Counts, Bound, Judges, Passes, Starts
<1>12. OffRecordInv'
  BY <1>2, <1>3, <1>4, <1>5, GoesOnAtRest DEF OffRecordInv, Counts, Running
<1>13. HeldInv'
  <2>1. (spent'["malformed"] = 0 => spent["malformed"] = 0) /\ (~malformed => ~malformed')
    BY <1>5, Zenon
  <2> QED
    BY <1>2, <1>3, <1>4, <1>5, <2>1 DEF HeldInv
<1>14. AloneInv' /\ ClosedInv'
  BY <1>2, <1>3, <1>4, <1>5 DEF AloneInv, ClosedInv, Followed, Passes, Starts
<1> QED
  BY <1>6, <1>7, <1>8, <1>9, <1>10, <1>11, <1>12, <1>13, <1>14

LEMMA ElapsedIs ==
    ASSUME NEW s \in Store, NEW r, r = [s EXCEPT !.st.late = FALSE]
    PROVE  /\ r \in Store /\ r.binding = s.binding /\ r.st \in ProjectState
           /\ r.st.phase = s.st.phase /\ r.st.wake = s.st.wake /\ r.st.breaker = s.st.breaker
           /\ r.st.asks = s.st.asks /\ (s.st = EmptyState => r.st = EmptyState)
<1>1. s.st \in ProjectState /\ r = [s EXCEPT !.st = [s.st EXCEPT !.late = FALSE]]
  BY DEF Store
<1> DEFINE st == [s.st EXCEPT !.late = FALSE]
<1>2. /\ st \in ProjectState /\ st.phase = s.st.phase /\ st.wake = s.st.wake
      /\ st.breaker = s.st.breaker /\ st.asks = s.st.asks
  BY <1>1 DEF ProjectState
<1>3. s.st = EmptyState => st = EmptyState
  <2>1. s.st.late = FALSE => st = s.st
    BY <1>1 DEF ProjectState
  <2>2. EmptyState.late = FALSE
    BY DEF EmptyState
  <2> QED
    BY <2>1, <2>2
<1> HIDE DEF st
<1>4. r = [s EXCEPT !.st = st]
  BY <1>1 DEF st
<1> QED
  BY <1>2, <1>3, <1>4 DEF Store

LEMMA ElapseKeeps ==
    ASSUME IInv, Elapse
    PROVE  IInv'
<1> USE DEF IInv
<1>1. /\ UNCHANGED <<bridge, conn, spent, binds, bound, latched, streak>>
      /\ UNCHANGED <<turns, asked, buffer, new, arrived, malformed>>
  BY DEF Elapse, HistorySame, OutsideSame, ServerSame, MailSame
<1>2. /\ disk' \in Store /\ disk'.binding = disk.binding
      /\ disk'.st.phase = disk.st.phase /\ disk'.st.wake = disk.st.wake
      /\ disk'.st.breaker = disk.st.breaker /\ disk'.st.asks = disk.st.asks
      /\ disk.st = EmptyState => disk'.st = EmptyState
  <2>1. disk' = [disk EXCEPT !.st.late = FALSE] /\ disk \in Store
    BY DEF Elapse, TypeOK
  <2> QED
    BY <2>1, ElapsedIs
<1>3. /\ mem' \in Store /\ mem'.binding = mem.binding
      /\ mem'.st.phase = mem.st.phase /\ mem'.st.wake = mem.st.wake
      /\ mem'.st.breaker = mem.st.breaker /\ mem'.st.asks = mem.st.asks
  <2>1. mem' = [mem EXCEPT !.st.late = FALSE] /\ mem \in Store
    BY DEF Elapse, TypeOK
  <2> QED
    BY <2>1, ElapsedIs
<1>4. TypeOK'
  BY <1>1, <1>2, <1>3 DEF TypeOK
<1>5. NoticeInv'
  BY <1>1 DEF NoticeInv, BufferInv, MessageInv, Running
<1>6. BindingStands' /\ BreakerHolds' /\ TurnInv'
  BY <1>1, <1>2 DEF BindingStands, BreakerHolds, TurnInv, Followed, Running
<1>7. RecordsInv'
  BY <1>1, <1>2, <1>3 DEF RecordsInv, StoreInv, SameInv
<1>8. ReadInv' /\ EndInv' /\ CopyInv' /\ RecordInv'
  <2>1. ReadInv'
    BY <1>1, <1>2, <1>3 DEF ReadInv
  <2>2. EndInv'
    BY <1>1, <1>2, <1>3 DEF EndInv, Followed
  <2>3. CopyInv'
    BY <1>1, <1>2, <1>3 DEF CopyInv
  <2>4. RecordInv'
    BY <1>1, <1>2, <1>3 DEF RecordInv
  <2> QED
    BY <2>1, <2>2, <2>3, <2>4
<1>9. StreakInv' /\ OnRecordInv' /\ CountedInv'
  BY <1>1, <1>2, <1>3 DEF StreakInv, OnRecordInv, CountedInv, Counts
<1>10. OffRecordInv'
  BY <1>1, <1>2 DEF OffRecordInv, Counts, MayGoOn, InARow, Followed, Running
<1>11. HeldInv'
  <2>1. (spent'["malformed"] = 0 => spent["malformed"] = 0) /\ (~malformed => ~malformed')
    BY <1>1, Zenon
  <2> QED
    BY <1>1, <1>2, <1>3, <2>1 DEF HeldInv
<1>12. AloneInv' /\ ClosedInv'
  BY <1>1, <1>2 DEF AloneInv, ClosedInv, Followed
<1> QED
  BY <1>4, <1>5, <1>6, <1>7, <1>8, <1>9, <1>10, <1>11, <1>12

-----------------------------------------------------------------------------
(* The theorems *)

LEMMA InitInv == Init => IInv
<1> SUFFICES ASSUME Init PROVE IInv
  OBVIOUS
<1>1. PICK t \in Thread : bound = [thread |-> t, id |-> 1]
  BY DEF Init
<1>2. bound \in Binding /\ bound # NoBinding /\ bound.id = 1
  BY <1>1, NothingIsNothing DEF Binding
<1>3. /\ disk \in Store /\ disk.binding = bound /\ disk.st = EmptyState /\ mem = disk
      /\ disk.st.wake = NoWake /\ disk.st.asks = {}
  BY <1>2, EmptyIs DEF Init, Store
<1>4. /\ bridge \in Local /\ bridge.at = "idle" /\ DOMAIN bridge.msgs = {} /\ bridge.end = ""
      /\ bridge.binding = NoBinding /\ bridge.wake = NoWake /\ bridge.breaker = NoBreaker
  BY IdleIs DEF Init
<1>5. NewConnection \in Connection /\ NewConnection.done = {}
  BY DEF NewConnection, Connection
<1>6. /\ binds = 1 /\ conn = NewConnection
      /\ new = {} /\ arrived = {} /\ malformed = FALSE /\ latched = "" /\ streak = NoStreak
  BY DEF Init
<1>7. TypeOK
  <2>1. asked \in [Ask -> [state: {"none", "open", "resolved"}, turn: 0..MaxTurn]]
    <3>1. [state |-> "none", turn |-> 0] \in [state: {"none", "open", "resolved"}, turn: 0..MaxTurn]
      BY BridgeAssumption
    <3>2. asked = [a \in Ask |-> [state |-> "none", turn |-> 0]]
      BY DEF Init
    <3> QED
      BY <3>1, <3>2
  <2>2. spent \in [Kinds -> Nat]
    BY DEF Init
  <2>3. turns \in Seq(TurnRecord) /\ Len(turns) <= MaxTurn
    <3>1. turns = <<>> /\ MaxTurn \in Nat
      BY BridgeAssumption DEF Init
    <3> QED
      BY <3>1
  <2>4. buffer \in Seq(Message)
    <3>1. buffer = <<>>
      BY DEF Init
    <3> QED
      BY <3>1
  <2>5. binds \in Nat /\ disk.binding.id <= binds
    <3>1. disk.binding.id = 1
      BY <1>2, <1>3, Zenon
    <3>2. binds = 1
      BY <1>6
    <3> QED
      BY <3>1, <3>2
  <2> QED
    BY <1>2, <1>3, <1>4, <1>5, <1>6, <2>1, <2>2, <2>3, <2>4, <2>5 DEF TypeOK
<1>8. DOMAIN turns = {} /\ DOMAIN buffer = {}
  <2>1. turns = <<>> /\ buffer = <<>>
    BY DEF Init
  <2> QED
    BY <2>1
<1>9. TurnInv /\ NoticeInv
  BY <1>4, <1>5, <1>6, <1>8 DEF TurnInv, NoticeInv, BufferInv
<1>10. BindingStands /\ BreakerHolds
  <2>1. NoStreak.n <= Limit
    BY BridgeAssumption DEF NoStreak
  <2> QED
    BY <1>3, <1>6, <2>1 DEF BindingStands, BreakerHolds
<1>11. RecordsInv
  <2>1. bridge.binding.id <= binds /\ disk.binding.id # bridge.binding.id /\ disk.binding.id <= binds
    <3>1. bridge.binding.id = 0
      BY <1>4, NothingIsNothing, Zenon
    <3>2. disk.binding.id = 1
      BY <1>2, <1>3, Zenon
    <3>3. binds = 1
      BY <1>6
    <3> QED
      BY <3>1, <3>2, <3>3
  <2>2. StoreInv(disk)
    BY <1>3, <2>1 DEF StoreInv
  <2>3. StoreInv(mem)
    BY <1>3, <2>1 DEF StoreInv
  <2>4. SameInv
    BY <1>3, <2>1 DEF SameInv
  <2> QED
    BY <2>2, <2>3, <2>4 DEF RecordsInv
<1>12. ReadInv /\ EndInv /\ CopyInv /\ RecordInv
  BY <1>4 DEF ReadInv, EndInv, CopyInv, RecordInv, Bound, Judges, Passes, Starts
<1>13. StreakInv /\ OnRecordInv /\ OffRecordInv /\ CountedInv
  BY <1>3, <1>4, <1>6 DEF StreakInv, OnRecordInv, OffRecordInv, CountedInv
<1>14. HeldInv
  <2>1. ~malformed /\ latched = ""
    BY <1>6
  <2> QED
    BY <2>1 DEF HeldInv
<1>15. AloneInv /\ ClosedInv
  BY <1>3, <1>4, <1>6 DEF AloneInv, ClosedInv
<1> QED
  BY <1>7, <1>9, <1>10, <1>11, <1>12, <1>13, <1>14, <1>15 DEF IInv

LEMMA NextKeeps == IInv /\ [Next]_vars => IInv'
<1> SUFFICES ASSUME IInv, [Next]_vars PROVE IInv'
  OBVIOUS
<1>1. CASE UNCHANGED vars
  <2>1. /\ UNCHANGED <<bridge, conn, disk, mem, binds, bound, latched, streak>>
        /\ UNCHANGED <<turns, asked, buffer, new, arrived, malformed, spent>>
    BY <1>1 DEF vars
  <2>2. Later /\ NextSpends /\ buffer' \in Seq(Message) /\ BufferInv'
    BY <2>1, SameTurns, SameSpent, SameNotices DEF IInv
  <2>3. Aside
    BY <2>1, <2>2, Zenon DEF Aside, IInv, TypeOK
  <2> QED
    BY <2>3, AsideKeeps
<1>2. CASE BridgeStep
  <2>1. CASE Step
    BY <2>1, StepKeeps
  <2>2. CASE ConsumeMessages
    BY <2>2, ConsumeCompletedKeeps, NotesIs, NotesKeeps DEF ConsumeMessages
  <2>3. CASE Scan
    BY <2>3, ScanStopsKeeps, ScanEmptyKeeps, ScanPendingKeeps DEF Scan
  <2>4. CASE ThreadFor \/ Check \/ Terminal
    BY <2>4, ThreadForKeeps, CheckKeeps, TerminalKeeps
  <2>5. CASE Latch \/ Clear \/ Trust \/ MarkNeedsHuman \/ GiveUp
    BY <2>5, LatchKeeps, ClearKeeps, TrustKeeps, MarkNeedsHumanKeeps, GiveUpKeeps
  <2>6. CASE Ready \/ Wakes \/ Start \/ TurnStart \/ Started
    BY <2>6, ReadyKeeps, WakesKeeps, StartKeeps, TurnStartKeeps, StartedKeeps
  <2>7. CASE RecordProjectError
    BY <2>7, RecordProjectErrorKeeps
  <2> QED
    BY <1>2, <2>1, <2>2, <2>3, <2>4, <2>5, <2>6, <2>7 DEF BridgeStep
<1>3. CASE Outside
  <2>1. CASE (\E t \in Thread : CommandBind(t)) \/ Unbind
    BY <2>1, CommandKeeps
  <2>2. CASE \/ \E t \in Thread : UserTurn(t)
             \/ \E i \in DOMAIN turns : EndTurn(i) \/ \E a \in Ask : Request(i, a)
             \/ \E a \in Ask : Resolve(a)
             \/ Arrive \/ DrainMail \/ Malform
    BY <2>2, AsideIs, AsideKeeps
  <2> QED
    BY <1>3, <2>1, <2>2 DEF Outside
<1>4. CASE Lost \/ Elapse
  BY <1>4, LostKeeps, ElapseKeeps
<1> QED
  BY <1>1, <1>2, <1>3, <1>4 DEF Next

\* The invariant holds in every reachable state: passes of the bridge interleaved with
\* binds, turns, requests for a human, mail, lost connections and restarts.
THEOREM Invariant == Spec => []IInv
BY InitInv, NextKeeps, PTL DEF Spec

\* The variables of the bridge, of the store and of the app-server keep their types.
THEOREM TypeCorrect == Spec => []TypeOK
<1>1. IInv => TypeOK
  BY DEF IInv
<1> QED
  BY <1>1, Invariant, PTL

\* The binding on the disk is what the last bind, unbind or quarantine made of it: save
\* never writes the binding of a copy that is out of date.
THEOREM TheBindingStands == Spec => []BindingStands
<1>1. IInv => BindingStands
  BY DEF IInv
<1> QED
  BY <1>1, Invariant, PTL

\* The transaction of _wake_guarded puts a wake on record under the binding it is for,
\* and no save moves it under another one.
THEOREM TheWakeIsOfTheBinding == Spec => []WakeOfBinding
<1>1. IInv => WakeOfBinding
  BY DEF IInv, RecordsInv, StoreInv, WakeOfBinding
<1> QED
  BY <1>1, Invariant, PTL

\* The breaker counts every wake in a row, over failed calls, lost connections, restarts
\* and saves that come late: no more than Limit are interrupted.
THEOREM TheBreakerHolds == Spec => []BreakerHolds
<1>1. IInv => BreakerHolds
  BY DEF IInv
<1> QED
  BY <1>1, Invariant, PTL

\* NEEDS_HUMAN is left by a bind or an empty inbox only, but for the malformed entries.
THEOREM TheLatchHolds == Spec => []LatchHolds
<1>1. ASSUME IInv, latched # "" PROVE LatchHolds
  <2>1. CASE spent["malformed"] = 0
    BY <1>1, <2>1 DEF IInv, HeldInv, LatchHolds
  <2>2. CASE spent["malformed"] # 0
    <3>1. spent["malformed"] \in Nat /\ spent["user"] \in Nat
      <4>1. spent \in [Kinds -> Nat] /\ "malformed" \in Kinds /\ "user" \in Kinds
        BY <1>1 DEF IInv, TypeOK, Kinds
      <4> QED
        BY <4>1
    <3>2. spent["malformed"] > 0 /\ (spent["user"] = 0 \/ spent["user"] > 0)
      BY <2>2, <3>1
    <3>3. latched = "interrupted_breaker" /\ spent["user"] = 0 => bridge.at # "started"
      BY <1>1 DEF IInv, ClosedInv, Starts
    <3> QED
      BY <3>2, <3>3 DEF LatchHolds
  <2> QED
    BY <2>1, <2>2
<1>2. IInv => LatchHolds
  BY <1>1 DEF LatchHolds
<1> QED
  BY <1>2, Invariant, PTL

\* What the requests on record owe to a human when they are given up.
Owes ==
    \A a \in disk.st.asks \ disk'.st.asks :
        (/\ asked[a.ask].state = "open" /\ turns[a.turn].status = "interrupted"
         /\ disk'.binding = disk.binding /\ bridge.end # "unknown")
            => disk'.st.phase = "NEEDS_HUMAN" \/ (Scans /\ new = {})

LEMMA NextOwes == IInv /\ [Next]_vars => Owes
<1> SUFFICES ASSUME IInv, [Next]_vars PROVE Owes
  OBVIOUS
<1> USE DEF IInv
<1>1. CASE UNCHANGED disk
  BY <1>1 DEF Owes
<1>2. CASE disk'.st.asks = disk.st.asks \/ disk'.binding # disk.binding
  BY <1>2 DEF Owes
<1>3. CASE (\E t \in Thread : CommandBind(t)) \/ Unbind
  BY <1>3, CommandIs DEF Owes
<1>4. CASE Step
  <2>1. CASE Replaced
    <3>1. CASE bound' = NoBinding /\ disk.binding = NoBinding
      <4>1. disk.st.asks = {}
        BY <3>1 DEF RecordsInv, StoreInv
      <4> QED
        BY <4>1 DEF Owes
    <3>2. disk'.binding # disk.binding \/ (bound' = NoBinding /\ disk.binding = NoBinding)
      <4>1. disk'.binding = bound' /\ disk.binding.id <= binds /\ binds \in Nat /\ disk.binding.id \in Nat
        BY <2>1, StoresAre DEF Replaced, TypeOK
      <4>2. bound' # NoBinding => bound'.id = binds + 1
        BY <2>1 DEF Replaced
      <4> QED
        BY <4>1, <4>2
    <3> QED
      BY <1>2, <3>1, <3>2
  <2> QED
    BY <1>1, <1>4, <2>1, StepIs
<1>5. CASE RecordHumanRequest
  <2>1. disk.st.asks \subseteq disk'.st.asks
    <3>1. disk.st \in ProjectState
      BY StoresAre
    <3>2. CASE Concerns(disk, Message1)
      <4> DEFINE a == [ask |-> Message1.ask, turn |-> disk.st.wake.turn]
      <4>1. disk' = [disk EXCEPT !.st = [disk.st EXCEPT !.asks = @ \cup {a}]]
        BY <1>5, <3>2 DEF RecordHumanRequest, Flush
      <4> HIDE DEF a
      <4> QED
        BY <3>1, <4>1 DEF TypeOK, Store, ProjectState
    <3>3. CASE ~Concerns(disk, Message1)
      BY <1>5, <3>3 DEF RecordHumanRequest, Flush, TypeOK, Store
    <3> QED
      BY <3>2, <3>3
  <2> QED
    BY <2>1 DEF Owes
<1>6. CASE ResolveHumanRequest
  <2>1. asked[Message1.ask].state = "resolved"
    BY <1>6, NextMessageIs, BridgeIs DEF ResolveHumanRequest, NoticeInv, MessageInv
  <2>2. disk.st \in ProjectState
    BY StoresAre
  <2>3. disk'.st.asks = {a \in disk.st.asks : a.ask # Message1.ask}
    BY <1>6, <2>2 DEF ResolveHumanRequest, Flush, TypeOK, Store, ProjectState
  <2> QED
    BY <2>1, <2>3 DEF Owes
<1>7. CASE ScanEmpty
  BY <1>7 DEF ScanEmpty, Owes
<1>8. CASE Latch \/ MarkNeedsHuman
  <2>1. UNCHANGED disk \/ disk'.st.phase = "NEEDS_HUMAN"
    <3>1. disk.st \in ProjectState /\ disk \in Store
      BY StoresAre
    <3>2. CASE Latch
      <4> DEFINE st == NeedsHuman(disk.st, bridge.wake.turn)
      <4>1. Flush(st) \/ UNCHANGED disk
        BY <3>2 DEF Latch
      <4>2. st \in ProjectState /\ st.phase = "NEEDS_HUMAN"
        BY <3>1, NeedsHumanIs
      <4> HIDE DEF st
      <4> QED
        BY <3>1, <4>1, <4>2, FlushIs
    <3>3. CASE MarkNeedsHuman
      <4> DEFINE old == NeedsHuman(disk.st, bridge.turn)
                 b == bridge.breaker
                 st == [old EXCEPT !.breaker = IF b = NoBreaker THEN @ ELSE b]
      <4>1. Flush(st) \/ UNCHANGED disk
        BY <3>3 DEF MarkNeedsHuman
      <4>2. old \in ProjectState /\ old.phase = "NEEDS_HUMAN"
        BY <3>1, NeedsHumanIs
      <4>3. b \in Breaker \cup {NoBreaker}
        BY BridgeIs
      <4>4. st \in ProjectState /\ st.phase = "NEEDS_HUMAN"
        <5> HIDE DEF old, b
        <5> QED
          BY <4>2, <4>3 DEF ProjectState
      <4> HIDE DEF st
      <4> QED
        BY <3>1, <4>1, <4>4, FlushIs
    <3> QED
      BY <1>8, <3>2, <3>3
  <2> QED
    BY <1>1, <2>1 DEF Owes
<1>9. CASE Clear
  <2> SUFFICES ASSUME NEW a \in disk.st.asks, turns[a.turn].status = "interrupted",
                      bridge.end # "unknown", a \notin disk'.st.asks
               PROVE  FALSE
    BY DEF Owes
  <2>1. bridge.at = "clear" /\ bridge.end \in {"completed", "interrupted"}
    BY <1>9 DEF Clear, EndInv
  <2>2. turns[bridge.wake.turn].status = bridge.end
    BY <2>1 DEF TypeOK
  <2>3. disk.st.wake # NoWake /\ a.turn = disk.st.wake.turn
    BY DEF RecordsInv, StoreInv
  <2>4. disk.binding = bridge.binding /\ disk.st.wake = bridge.wake
    BY <2>1, <2>3 DEF RecordInv, Bound, Judges
  <2>5. bridge.end = "interrupted"
    BY <2>1, <2>2, <2>3, <2>4
  <2> QED
    BY <2>1, <2>3, <2>4, <2>5 DEF EndInv
<1>10. CASE GiveUp
  <2>1. bridge.at = "giveup" /\ mem.st.asks = {}
    BY <1>10 DEF GiveUp, EndInv
  <2>2. disk.binding \in {mem.binding, NoBinding} => disk.st.asks = {}
    BY <2>1 DEF CopyInv, RecordsInv, StoreInv
  <2>3. disk.binding \notin {mem.binding, NoBinding} => disk'.st = disk.st
    BY <1>10 DEF GiveUp, Save
  <2> QED
    BY <2>2, <2>3 DEF Owes
<1>11. CASE Ready \/ Wakes
  <2>1. UNCHANGED disk \/ WaitBusy
    BY <1>11 DEF Ready, Wakes
  <2>2. CASE WaitBusy
    <3>1. mem.binding = bridge.binding /\ mem.st.wake = NoWake /\ bridge.binding # NoBinding
      BY <1>11 DEF ReadInv, Passes, Ready, Wakes
    <3>2. disk.st.asks = {} \/ disk'.st = disk.st
      BY <1>11, <2>2, <3>1, EmptyIs DEF CopyInv, RecordsInv, StoreInv, Ready, Wakes
    <3> QED
      BY <3>2 DEF Owes
  <2> QED
    BY <1>1, <2>1, <2>2
<1>12. CASE Start \/ Started \/ RecordProjectError
  <2>1. disk.st \in ProjectState /\ disk \in Store
    BY StoresAre
  <2> DEFINE Put(p, late, w) == [disk.st EXCEPT !.phase = p, !.late = late, !.wake = w]
  <2>2. ASSUME NEW p, NEW late, NEW w, Flush(Put(p, late, w))
        PROVE  disk'.st.asks = disk.st.asks
    <3> DEFINE st == Put(p, late, w)
    <3>1. st.asks = disk.st.asks
      BY <2>1 DEF ProjectState
    <3>2. Flush(st)
      BY <2>2
    <3> HIDE DEF st
    <3> QED
      BY <2>1, <3>1, <3>2 DEF Flush, Store
  <2>3. CASE Start
    <3>1. Starting(disk.st) = Put("STARTING", TRUE, disk.st.wake)
      BY <2>1 DEF Starting, ProjectState
    <3>2. Flush(Starting(disk.st)) \/ UNCHANGED disk
      BY <2>3 DEF Start
    <3>3. Flush(Put("STARTING", TRUE, disk.st.wake)) \/ UNCHANGED disk
      BY <3>1, <3>2
    <3> HIDE DEF Put
    <3> QED
      BY <1>1, <1>2, <2>2, <3>3
  <2>4. CASE Started
    <3> DEFINE w == [gen |-> bridge.gen, turn |-> bridge.turn,
                     thread |-> bridge.binding.thread, id |-> bridge.binding.id]
    <3>1. Flush(Put("WAKE_ACTIVE", FALSE, w))
      BY <2>4 DEF Started
    <3> HIDE DEF Put, w
    <3> QED
      BY <1>2, <2>2, <3>1
  <2>5. CASE RecordProjectError
    <3> DEFINE e == bridge.error
               st == [disk.st EXCEPT !.phase = e, !.late = TRUE]
    <3>1. st = Put(e, TRUE, disk.st.wake)
      BY <2>1 DEF ProjectState
    <3>2. Flush(st) \/ UNCHANGED disk
      BY <2>5 DEF RecordProjectError
    <3> HIDE DEF st, e
    <3>3. Flush(Put(e, TRUE, disk.st.wake)) \/ UNCHANGED disk
      BY <3>1, <3>2
    <3> HIDE DEF Put
    <3> QED
      BY <1>1, <1>2, <2>2, <3>3
  <2> QED
    BY <1>12, <2>3, <2>4, <2>5
<1>13. CASE Elapse
  <2>1. disk' = [disk EXCEPT !.st.late = FALSE] /\ disk \in Store
    BY <1>13 DEF Elapse, TypeOK
  <2>2. disk'.st.asks = disk.st.asks
    BY <2>1, ElapsedIs
  <2> QED
    BY <1>2, <2>2
<1>14. CASE \/ ConsumeCompleted \/ ScanRests \/ ScanRefuses \/ ScanPending \/ ThreadFor \/ Check
            \/ Terminal \/ Trust \/ TurnStart \/ Lost
            \/ \E t \in Thread : UserTurn(t)
            \/ \E i \in DOMAIN turns : EndTurn(i) \/ \E a \in Ask : Request(i, a)
            \/ \E a \in Ask : Resolve(a)
            \/ Arrive \/ DrainMail \/ Malform
  <2>1. UNCHANGED disk
    BY <1>14 DEF ConsumeCompleted, ScanRests, ScanRefuses, ScanPending, ThreadFor, Check, Terminal,
                 Trust, TurnStart, Lost, UserTurn, EndTurn, Request, Resolve, Arrive, DrainMail, Malform,
                 StoreSame
  <2> QED
    BY <1>1, <2>1
<1>15. CASE UNCHANGED vars
  BY <1>1, <1>15 DEF vars
<1> QED
  BY <1>3, <1>4, <1>5, <1>6, <1>7, <1>8, <1>9, <1>10, <1>11, <1>12, <1>13, <1>14, <1>15
     DEF Next, BridgeStep, Outside, ConsumeMessages, Scan

\* A request on record that nobody has resolved goes to a human when its turn is
\* interrupted: the latch is looked at before the requests are cleared, and a save of an
\* old copy takes none away.
THEOREM TheRequestLatches == Spec => RequestLatches
<1>1. IInv /\ [Next]_vars => [Owes]_vars
  BY NextOwes
<1>2. Spec => [][Owes]_vars
  BY <1>1, Invariant, PTL DEF Spec
<1> QED
  BY <1>2, PTL DEF RequestLatches, Owes
=============================================================================
