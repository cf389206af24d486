----------------------------- MODULE MaildirProofs -----------------------------
(***************************************************************************)
(* Proofs about Maildir for any number of processes, agents, messages,     *)
(* files and power losses: what rt-say reported as sent stays on the disk. *)
(***************************************************************************)
EXTENDS Maildir, TLAPS

\* rt-say has a message that has no name in new/ yet.
Early(p) == pc[p] \in {"create", "write", "check", "rename"}

\* It has the temporary file.
Writing(p) == pc[p] \in {"write", "check", "rename"}

\* The message is on its way, or there.
Written(p) == pc[p] \in {"write", "check", "rename", "sync", "ledger", "append"}
Delivered(p) == pc[p] \in {"sync", "ledger", "append"}

\* A file is on its way from new/ to cur/.
Moving(p) == pc[p] \in {"dest", "link", "sync_cur", "unlink", "sync_new"}

\* What a command works on: a rt-say publishes its message, a rt-ack archives letters of
\* its command line, a drain archives acknowledgements.
CommandOf(p) ==
    pc[p] # "idle" =>
        /\ Publishing(p) => op[p].name \in Name /\ op[p].batch \subseteq Mail
        /\ op[p].kind = "say" => Publishing(p)
        /\ op[p].kind = "ack" => /\ op[p].batch \subseteq op[p].refs /\ op[p].todo \subseteq op[p].refs
                                 /\ Publishing(p) => op[p].name \notin Mail
        /\ op[p].kind = "drain" => op[p].batch \cap Mail = {} /\ ~Publishing(p) /\ pc[p] # "group"
        /\ Moving(p) => op[p].name \in op[p].batch

\* The inode of a running rt-say carries its message, and is flushed before it is looked
\* for a place in new/.
InodeOf(p) ==
    Written(p) =>
        /\ op[p].ino \in DOMAIN file
        /\ file[op[p].ino].name = op[p].name
        /\ pc[p] # "write" => file[op[p].ino].text = "synced"

\* The name in tmp/ keeps the other senders of this id out, so that new/ is still free
\* when the file is renamed.
TmpOf(p) ==
    /\ Writing(p) => dir[<<"tmp", op[p].name>>] # 0
    /\ pc[p] = "rename" => dir[<<"new", op[p].name>>] = 0

\* How far rt-ack is with the file at hand: the name in new/ goes after the name in cur/
\* is on the disk, and both are of the inode it has looked at.
ArchiveOf(p) ==
    Moving(p) /\ op[p].kind = "ack" =>
        LET n == op[p].name
        IN  /\ op[p].ino # 0
            /\ pc[p] \in {"dest", "link"} => dir[<<"new", n>>] \in {0, op[p].ino}
            /\ pc[p] \in {"sync_cur", "unlink"} =>
                 dir[<<"cur", n>>] # 0 /\ dir[<<"new", n>>] \in {0, dir[<<"cur", n>>]}
            /\ pc[p] = "unlink" => disk[<<"cur", n>>] = {dir[<<"cur", n>>]}

\* A delivered letter is in new/, or in cur/ for good.
LetterOf(p) ==
    Delivered(p) /\ op[p].name \in Mail =>
        \/ /\ dir[<<"new", op[p].name>>] = op[p].ino
           /\ pc[p] # "sync" => disk[<<"new", op[p].name>>] = {op[p].ino}
        \/ disk[<<"cur", op[p].name>>] = {op[p].ino}

ProcessInv == \A p \in Pid : CommandOf(p) /\ InodeOf(p) /\ TmpOf(p) /\ ArchiveOf(p) /\ LetterOf(p)

\* Two senders do not write the same name, and nobody publishes a message that another
\* command, a rt-ack, is about.
Apart(p, q) ==
    /\ Writing(p) /\ Writing(q) => op[p].name # op[q].name
    /\ pc[p] # "idle" /\ op[p].kind = "ack" /\ Early(q) => op[q].name \notin op[p].refs

PairInv == \A p, q \in Pid : p # q => Apart(p, q)

\* What a folder shows is among what a power loss may leave, and all of that is the
\* message of that name, flushed.
FolderInv ==
    /\ \A f \in Flushed, n \in Name :
        /\ dir[<<f, n>>] \in disk[<<f, n>>]
        /\ \A i \in disk[<<f, n>>] \ {0} :
            i \in DOMAIN file /\ file[i].name = n /\ file[i].text = "synced"

\* A confirmed letter has a name on the disk.
ConfirmedInv ==
    \A i \in confirmed :
        /\ file[i].text = "synced"
        /\ file[i].name \in Mail => OnDisk(i)

IInv == TypeOK /\ ProcessInv /\ PairInv /\ FolderInv /\ ConfirmedInv

-----------------------------------------------------------------------------
(* What the steps of a process do to it *)

\* Only process p has changed, and it runs a command unless it is idle.
Alone(p) ==
    /\ pc' \in [Pid -> Place] /\ op' \in [Pid -> Op \cup {NoOp}]
    /\ op'[p] = NoOp <=> pc'[p] = "idle"
    /\ \A q \in Pid \ {p} : pc'[q] = pc[q] /\ op'[q] = op[q]

LEMMA NoOpIsNone == NoOp \notin Op
BY DEF NoOp, Op

LEMMA OpIs ==
    ASSUME TypeOK, NEW p \in Pid, pc[p] # "idle"
    PROVE  op[p] \in Op
BY DEF TypeOK

LEMMA GotoIs ==
    ASSUME TypeOK, NEW p \in Pid, NEW place \in Place \ {"idle"}, pc[p] # "idle",
           Goto(p, place), UNCHANGED op
    PROVE  Alone(p) /\ pc'[p] = place /\ op'[p] = op[p]
BY DEF TypeOK, Goto, Alone

LEMMA ExitIs ==
    ASSUME TypeOK, NEW p \in Pid, Exit(p)
    PROVE  Alone(p) /\ pc'[p] = "idle" /\ op'[p] = NoOp
BY DEF TypeOK, Exit, Goto, Alone, Place

LEMMA ChangeIs ==
    ASSUME TypeOK, NEW p \in Pid, NEW place \in Place \ {"idle"}, NEW o \in Op,
           Goto(p, place), op' = [op EXCEPT ![p] = o]
    PROVE  Alone(p) /\ pc'[p] = place /\ op'[p] = o
BY NoOpIsNone DEF TypeOK, Goto, Alone

LEMMA CommandIs ==
    ASSUME NEW kind \in {"say", "ack", "drain"}, NEW a \in Agent, NEW n \in Name \cup {NoName},
           NEW refs \in SUBSET Mail, NEW batch \in SUBSET Name
    PROVE  LET r == Command(kind, a, n, refs, batch)
           IN  /\ r \in Op /\ r.name = n /\ r.ino = 0 /\ r.kind = kind
               /\ r.refs = refs /\ r.todo = refs /\ r.batch = batch
BY MaildirBounds DEF Command, Op, Inode

LEMMA MovedIs ==
    ASSUME NEW o \in Op
    PROVE  LET r == Moved(o)
           IN  /\ r \in Op /\ r.kind = o.kind /\ r.refs = o.refs /\ r.todo = o.todo
               /\ r.batch = o.batch \ {o.name}
<1> DEFINE s == [o EXCEPT !.name = NoName]
           t == [s EXCEPT !.ino = 0]
           b == o.batch \ {o.name}
           r == [t EXCEPT !.batch = b]
<1>1. s \in Op /\ s.kind = o.kind /\ s.refs = o.refs /\ s.todo = o.todo /\ s.batch = o.batch
  BY DEF Op
<1>2. Moved(o) = r
  BY DEF Moved
<1> HIDE DEF s
<1>3. t \in Op /\ t.kind = s.kind /\ t.refs = s.refs /\ t.todo = s.todo /\ t.batch = s.batch
  BY <1>1, MaildirBounds DEF Op, Inode
<1>4. b \in SUBSET Name
  BY DEF Op
<1> HIDE DEF t, b
<1>5. r \in Op /\ r.kind = t.kind /\ r.refs = t.refs /\ r.todo = t.todo /\ r.batch = b
  BY <1>3, <1>4 DEF Op
<1> HIDE DEF r
<1> QED
  BY <1>1, <1>2, <1>3, <1>5 DEF b

-----------------------------------------------------------------------------
(* Steps of one process that leave the folders alone *)

ProcessOK(p) == CommandOf(p) /\ InodeOf(p) /\ TmpOf(p) /\ ArchiveOf(p) /\ LetterOf(p)

LEMMA LocalStep ==
    ASSUME IInv, NEW p \in Pid, Alone(p), UNCHANGED <<file, dir, disk, crashes>>,
           lockLeft' \in BOOLEAN, confirmed' \subseteq DOMAIN file, ConfirmedInv',
           ProcessOK(p)', \A q \in Pid \ {p} : Apart(p, q)' /\ Apart(q, p)'
    PROVE  IInv'
<1>1. TypeOK'
  BY DEF IInv, TypeOK, Alone
<1>2. ASSUME NEW q \in Pid \ {p} PROVE ProcessOK(q)'
  <2>1. pc'[q] = pc[q] /\ op'[q] = op[q] /\ ProcessOK(q)
    BY DEF Alone, IInv, ProcessInv, ProcessOK
  <2> QED
    BY <2>1 DEF ProcessOK, CommandOf, InodeOf, TmpOf, ArchiveOf, LetterOf, Publishing, Written,
                Writing, Moving, Delivered
<1>3. ASSUME NEW q \in Pid \ {p}, NEW r \in Pid \ {p}, q # r PROVE Apart(q, r)'
  BY <1>3 DEF Alone, IInv, PairInv, Apart, Writing, Early
<1>4. FolderInv'
  BY DEF IInv, FolderInv
<1> QED
  BY <1>1, <1>2, <1>3, <1>4 DEF IInv, ProcessInv, ProcessOK, PairInv

\* A process ends without a word about its message.
LEMMA ExitStep ==
    ASSUME IInv, NEW p \in Pid, Exit(p), UNCHANGED <<file, dir, disk, confirmed, crashes>>,
           lockLeft' \in BOOLEAN
    PROVE  IInv'
<1>1. Alone(p) /\ pc'[p] = "idle"
  BY ExitIs DEF IInv
<1>2. ProcessOK(p)' /\ \A q \in Pid : Apart(p, q)' /\ Apart(q, p)'
  BY <1>1 DEF ProcessOK, CommandOf, InodeOf, TmpOf, ArchiveOf, LetterOf, Apart, Publishing, Written,
              Writing, Moving, Delivered, Early
<1>3. confirmed' \subseteq DOMAIN file /\ ConfirmedInv'
  BY DEF IInv, TypeOK, ConfirmedInv, OnDisk
<1> QED
  BY <1>1, <1>2, <1>3, LocalStep

\* It goes on to another place of the same command.
LEMMA PlaceStep ==
    ASSUME IInv, NEW p \in Pid, NEW place \in Place \ {"idle"}, pc[p] # "idle",
           Goto(p, place), UNCHANGED op,
           UNCHANGED <<file, dir, disk, confirmed, crashes, lockLeft>>,
           ProcessOK(p)', place \in {"write", "check", "rename"} => Writing(p),
           place = "create" => Early(p)
    PROVE  IInv'
<1>1. Alone(p) /\ pc'[p] = place /\ op'[p] = op[p]
  BY GotoIs DEF IInv
<1>2. \A q \in Pid \ {p} : Apart(p, q)' /\ Apart(q, p)'
  BY <1>1 DEF Alone, IInv, PairInv, Apart, Writing, Early
<1>3. confirmed' \subseteq DOMAIN file /\ ConfirmedInv' /\ lockLeft' \in BOOLEAN
  BY DEF IInv, TypeOK, ConfirmedInv, OnDisk
<1> QED
  BY <1>1, <1>2, <1>3, LocalStep

\* A command starts, or goes on with another message: nothing is written yet.
LEMMA ThinkStep ==
    ASSUME IInv, NEW p \in Pid, NEW place \in {"create", "group", "source", "dest"}, NEW o \in Op,
           Goto(p, place), op' = [op EXCEPT ![p] = o],
           UNCHANGED <<file, dir, disk, confirmed, crashes, lockLeft>>,
           CommandOf(p)', ArchiveOf(p)',
           \A q \in Pid \ {p} : Apart(p, q)' /\ Apart(q, p)'
    PROVE  IInv'
<1>1. Alone(p) /\ pc'[p] = place /\ op'[p] = o
  BY ChangeIs DEF IInv, Place
<1>2. ProcessOK(p)'
  BY <1>1 DEF ProcessOK, InodeOf, TmpOf, LetterOf, Written, Writing, Delivered
<1>3. confirmed' \subseteq DOMAIN file /\ ConfirmedInv' /\ lockLeft' \in BOOLEAN
  BY DEF IInv, TypeOK, ConfirmedInv, OnDisk
<1> QED
  BY <1>1, <1>2, <1>3, LocalStep

LEMMA StartSayStep ==
    ASSUME IInv, NEW p \in Pid, StartSay(p)
    PROVE  IInv'
<1>0. Goto(p, "create")
  BY DEF StartSay
<1>1. PICK n \in Mail : Fresh(p, n) /\ op' = [op EXCEPT ![p] = Command("say", n.from, n, {}, {})]
  BY DEF StartSay
<1> DEFINE o == Command("say", n.from, n, {}, {})
<1>2. n \in Name /\ n.from \in Agent
  BY DEF Mail, Name
<1>3. /\ o \in Op /\ o.name = n /\ o.kind = "say" /\ o.refs = {} /\ o.todo = {} /\ o.batch = {}
  BY <1>2, CommandIs
<1> HIDE DEF o
<1>4. Alone(p) /\ pc'[p] = "create" /\ op'[p] = o
  BY <1>0, <1>1, <1>3, ChangeIs DEF IInv, Place, o
<1>5. CommandOf(p)' /\ ArchiveOf(p)'
  BY <1>2, <1>3, <1>4 DEF CommandOf, ArchiveOf, Publishing, Moving
<1>6. ASSUME NEW q \in Pid \ {p} PROVE Apart(p, q)' /\ Apart(q, p)'
  BY <1>1, <1>3, <1>4 DEF Alone, Apart, Writing, Fresh
<1> QED
  BY <1>1, <1>3, <1>5, <1>6, ThinkStep DEF StartSay, DirSame, HistorySame, o

LEMMA StartAckStep ==
    ASSUME IInv, NEW p \in Pid, StartAck(p)
    PROVE  IInv'
<1>0. Goto(p, "group")
  BY DEF StartAck
<1>1. PICK a \in Agent, R \in SUBSET Mail :
        (\A n \in R : Settled(n)) /\ op' = [op EXCEPT ![p] = Command("ack", a, NoName, R, {})]
  BY DEF StartAck
<1> DEFINE o == Command("ack", a, NoName, R, {})
<1>2. /\ o \in Op /\ o.kind = "ack" /\ o.refs = R /\ o.todo = R /\ o.batch = {}
  BY CommandIs
<1> HIDE DEF o
<1>3. Alone(p) /\ pc'[p] = "group" /\ op'[p] = o
  BY <1>0, <1>1, <1>2, ChangeIs DEF IInv, Place, o
<1>4. CommandOf(p)' /\ ArchiveOf(p)'
  BY <1>2, <1>3 DEF CommandOf, ArchiveOf, Publishing, Moving
<1>5. ASSUME NEW q \in Pid \ {p} PROVE Apart(p, q)' /\ Apart(q, p)'
  BY <1>1, <1>2, <1>3 DEF Alone, Apart, Writing, Early, Settled
<1> QED
  BY <1>1, <1>2, <1>4, <1>5, ThinkStep DEF StartAck, DirSame, HistorySame, o

LEMMA StartDrainStep ==
    ASSUME IInv, NEW p \in Pid, StartDrain(p)
    PROVE  IInv'
<1>0. Goto(p, "source")
  BY DEF StartDrain
<1>1. PICK a \in Agent, acks \in SUBSET {n \in Name : n.quiet} :
        op' = [op EXCEPT ![p] = Command("drain", a, NoName, {}, acks)]
  BY DEF StartDrain
<1> DEFINE o == Command("drain", a, NoName, {}, acks)
<1>2. /\ o \in Op /\ o.kind = "drain" /\ o.refs = {} /\ o.todo = {} /\ o.batch = acks
  <2>1. acks \in SUBSET Name
    OBVIOUS
  <2> QED
    BY <2>1, CommandIs
<1> HIDE DEF o
<1>3. Alone(p) /\ pc'[p] = "source" /\ op'[p] = o
  BY <1>0, <1>1, <1>2, ChangeIs DEF IInv, Place, o
<1>4. CommandOf(p)' /\ ArchiveOf(p)'
  BY <1>2, <1>3 DEF CommandOf, ArchiveOf, Publishing, Moving, Mail
<1>5. ASSUME NEW q \in Pid \ {p} PROVE Apart(p, q)' /\ Apart(q, p)'
  BY <1>2, <1>3 DEF Alone, Apart, Writing, Early
<1> QED
  BY <1>1, <1>2, <1>4, <1>5, ThinkStep DEF StartDrain, DirSame, HistorySame, o

LEMMA NextGroupStep ==
    ASSUME IInv, NEW p \in Pid, NextGroup(p)
    PROVE  IInv'
<1>1. PICK n \in Name : LET group == {r \in op[p].todo : r.from = n.to}
                       IN  /\ n.quiet /\ Fresh(p, n)
                           /\ op' = [op EXCEPT ![p].name = n, ![p].batch = group,
                                               ![p].todo = @ \ group]
  BY DEF NextGroup
<1> DEFINE group == {r \in op[p].todo : r.from = n.to}
           s == [op[p] EXCEPT !.name = n]
           t == [s EXCEPT !.batch = group]
           o == [t EXCEPT !.todo = op[p].todo \ group]
<1>2. /\ pc[p] = "group" /\ op[p] \in Op /\ op[p].todo \subseteq op[p].refs
      /\ op[p].kind = "ack" /\ op[p].refs \subseteq Mail
  <2>1. pc[p] = "group" /\ op[p] \in Op
    BY OpIs DEF NextGroup, IInv
  <2> QED
    BY <2>1 DEF IInv, ProcessInv, CommandOf, Publishing, Op
<1>3. s \in Op /\ s.name = n /\ s.kind = "ack" /\ s.refs = op[p].refs /\ s.todo = op[p].todo
  BY <1>2 DEF Op
<1>4. op' = [op EXCEPT ![p] = o]
  BY <1>1, <1>2 DEF IInv, TypeOK, Op
<1>5. group \subseteq op[p].todo /\ group \in SUBSET Name
  BY <1>2 DEF Mail
<1> HIDE DEF s, group
<1>6. t \in Op /\ t.name = n /\ t.kind = "ack" /\ t.refs = op[p].refs /\ t.batch = group
  BY <1>3, <1>5 DEF Op
<1> HIDE DEF t
<1>7. /\ o \in Op /\ o.name = n /\ o.kind = "ack" /\ o.refs = op[p].refs /\ o.batch = group
      /\ o.todo = op[p].todo \ group
  BY <1>2, <1>6 DEF Op
<1> HIDE DEF o
<1>8. Alone(p) /\ pc'[p] = "create" /\ op'[p] = o
  <2>1. Goto(p, "create")
    BY DEF NextGroup
  <2> QED
    BY <1>4, <1>7, <2>1, ChangeIs DEF IInv, Place
<1>9. CommandOf(p)' /\ ArchiveOf(p)'
  BY <1>1, <1>2, <1>5, <1>7, <1>8 DEF CommandOf, ArchiveOf, Publishing, Moving, Mail
<1>10. ASSUME NEW q \in Pid \ {p} PROVE Apart(p, q)' /\ Apart(q, p)'
  <2>1. pc'[q] = pc[q] /\ op'[q] = op[q] /\ Apart(p, q)
    BY <1>8 DEF Alone, IInv, PairInv
  <2>2. Apart(p, q)'
    BY <1>2, <1>7, <1>8, <2>1 DEF Apart, Writing, Early
  <2>3. Apart(q, p)'
    BY <1>1, <1>7, <1>8, <2>1 DEF Apart, Writing, Early, Fresh
  <2> QED
    BY <2>2, <2>3
<1> QED
  BY <1>4, <1>7, <1>9, <1>10, ThinkStep DEF NextGroup, DirSame, HistorySame

LEMMA SourceStep ==
    ASSUME IInv, NEW p \in Pid, Source(p)
    PROVE  IInv'
<1>1. /\ pc[p] = "source" /\ op[p] \in Op /\ CommandOf(p)
      /\ UNCHANGED <<file, dir, disk, confirmed, crashes, lockLeft>>
  BY OpIs DEF Source, IInv, ProcessInv, DirSame, HistorySame
<1>2. PICK n \in op[p].batch :
        \/ /\ dir[<<"new", n>>] # 0
           /\ op' = [op EXCEPT ![p].name = n, ![p].ino = dir[<<"new", n>>]]
           /\ Goto(p, "dest")
        \/ op[p].kind = "ack" /\ op' = [op EXCEPT ![p].batch = @ \ {n}] /\ UNCHANGED pc
        \/ Exit(p)
  BY DEF Source
<1>3. n \in Name /\ <<"new", n>> \in Folder \X Name
  BY <1>1 DEF Op, Folder, Flushed
<1>4. CASE /\ dir[<<"new", n>>] # 0
           /\ op' = [op EXCEPT ![p].name = n, ![p].ino = dir[<<"new", n>>]]
           /\ Goto(p, "dest")
  <2> DEFINE i == dir[<<"new", n>>]
             s == [op[p] EXCEPT !.name = n]
             o == [s EXCEPT !.ino = i]
  <2>1. i \in Inode /\ i # 0
    BY <1>3, <1>4 DEF IInv, TypeOK
  <2>2. op' = [op EXCEPT ![p] = o]
    BY <1>4
  <2>3. /\ s \in Op /\ s.name = n /\ s.kind = op[p].kind
        /\ s.refs = op[p].refs /\ s.todo = op[p].todo /\ s.batch = op[p].batch
    BY <1>1, <1>3 DEF Op
  <2> HIDE DEF s, i
  <2>4. /\ o \in Op /\ o.name = n /\ o.ino = i /\ o.kind = op[p].kind
        /\ o.refs = op[p].refs /\ o.todo = op[p].todo /\ o.batch = op[p].batch
    BY <2>1, <2>3 DEF Op
  <2> HIDE DEF o
  <2>5. Alone(p) /\ pc'[p] = "dest" /\ op'[p] = o
    BY <1>4, <2>2, <2>4, ChangeIs DEF IInv, Place
  <2>6. CommandOf(p)'
    BY <1>1, <2>4, <2>5 DEF CommandOf, Publishing, Moving
  <2>7. ArchiveOf(p)'
    BY <1>1, <2>1, <2>4, <2>5 DEF ArchiveOf, i
  <2>8. ASSUME NEW q \in Pid \ {p} PROVE Apart(p, q)' /\ Apart(q, p)'
    BY <1>1, <2>4, <2>5 DEF Alone, Apart, Writing, Early, IInv, PairInv
  <2> QED
    BY <1>1, <1>4, <2>2, <2>4, <2>6, <2>7, <2>8, ThinkStep
<1>5. CASE op[p].kind = "ack" /\ op' = [op EXCEPT ![p].batch = @ \ {n}] /\ UNCHANGED pc
  <2> DEFINE batch == op[p].batch \ {n}
             o == [op[p] EXCEPT !.batch = batch]
  <2>1. op' = [op EXCEPT ![p] = o] /\ Goto(p, "source")
    BY <1>1, <1>5 DEF Goto, IInv, TypeOK
  <2>2. batch \in SUBSET Name /\ batch \subseteq op[p].batch
    BY <1>1 DEF Op
  <2> HIDE DEF batch
  <2>3. /\ o \in Op /\ o.kind = op[p].kind
        /\ o.refs = op[p].refs /\ o.todo = op[p].todo /\ o.batch = batch
    BY <1>1, <2>2 DEF Op
  <2> HIDE DEF o
  <2>4. Alone(p) /\ pc'[p] = "source" /\ op'[p] = o
    BY <2>1, <2>3, ChangeIs DEF IInv, Place
  <2>5. CommandOf(p)' /\ ArchiveOf(p)'
    BY <1>1, <1>5, <2>2, <2>3, <2>4 DEF CommandOf, ArchiveOf, Publishing, Moving
  <2>6. ASSUME NEW q \in Pid \ {p} PROVE Apart(p, q)' /\ Apart(q, p)'
    BY <1>1, <2>3, <2>4 DEF Alone, Apart, Writing, Early, IInv, PairInv
  <2> QED
    BY <1>1, <2>1, <2>3, <2>5, <2>6, ThinkStep
<1>6. CASE Exit(p)
  BY <1>1, <1>6, ExitStep DEF IInv, TypeOK
<1> QED
  BY <1>2, <1>4, <1>5, <1>6

LEMMA DoneStep ==
    ASSUME IInv, NEW p \in Pid, AckDone(p) \/ BatchDone(p)
    PROVE  IInv'
<1>1. /\ pc[p] \in {"group", "source"} /\ CommandOf(p) /\ op[p] \in Op
      /\ UNCHANGED <<file, dir, disk, confirmed, crashes, lockLeft>>
  BY OpIs DEF AckDone, BatchDone, IInv, ProcessInv, DirSame, HistorySame
<1>2. CASE Exit(p)
  BY <1>1, <1>2, ExitStep DEF IInv, TypeOK
<1>3. CASE pc[p] = "source" /\ op[p].kind = "ack" /\ Goto(p, "group") /\ UNCHANGED op
  <2>1. Alone(p) /\ pc'[p] = "group" /\ op'[p] = op[p]
    BY <1>3, GotoIs DEF IInv, Place
  <2>2. ProcessOK(p)'
    BY <1>1, <1>3, <2>1 DEF ProcessOK, CommandOf, InodeOf, TmpOf, ArchiveOf, LetterOf, Publishing,
                            Written, Writing, Moving, Delivered
  <2> QED
    BY <1>1, <1>3, <2>2, PlaceStep DEF Place
<1> QED
  BY <1>2, <1>3 DEF AckDone, BatchDone

LEMMA DestStep ==
    ASSUME IInv, NEW p \in Pid, Dest(p)
    PROVE  IInv'
<1>1. /\ pc[p] = "dest" /\ ProcessOK(p) /\ op[p] \in Op
      /\ UNCHANGED <<file, dir, disk, confirmed, crashes, lockLeft>>
  BY OpIs DEF Dest, IInv, ProcessInv, ProcessOK, DirSame, HistorySame
<1>2. CASE Exit(p)
  BY <1>1, <1>2, ExitStep DEF IInv, TypeOK
<1>3. ASSUME NEW place \in {"link", "sync_cur", "unlink"}, Goto(p, place), UNCHANGED op,
             place = "sync_cur" => dir[<<"cur", op[p].name>>] = op[p].ino,
             place = "unlink" => op[p].kind # "ack"
      PROVE  IInv'
  <2>1. Alone(p) /\ pc'[p] = place /\ op'[p] = op[p]
    BY <1>1, <1>3, GotoIs DEF IInv, Place
  <2>2. ProcessOK(p)'
    BY <1>1, <1>3, <2>1 DEF ProcessOK, CommandOf, InodeOf, TmpOf, ArchiveOf, LetterOf, Publishing,
                            Written, Writing, Moving, Delivered
  <2> QED
    BY <1>1, <1>3, <2>2, PlaceStep DEF Place
<1> QED
  BY <1>2, <1>3 DEF Dest

LEMMA LedgerLockStep ==
    ASSUME IInv, NEW p \in Pid, LedgerLock(p)
    PROVE  IInv'
<1>1. /\ pc[p] = "ledger" /\ ProcessOK(p) /\ Goto(p, "append") /\ UNCHANGED op
      /\ UNCHANGED <<file, dir, disk, confirmed, crashes, lockLeft>>
  BY DEF LedgerLock, IInv, ProcessInv, ProcessOK, DirSame, HistorySame
<1>2. Alone(p) /\ pc'[p] = "append" /\ op'[p] = op[p]
  BY <1>1, GotoIs DEF IInv, Place
<1>3. ProcessOK(p)'
  BY <1>1, <1>2 DEF ProcessOK, CommandOf, InodeOf, TmpOf, ArchiveOf, LetterOf, Publishing,
                    Written, Writing, Moving, Delivered
<1> QED
  BY <1>1, <1>3, PlaceStep DEF Place

\* A message that is delivered is confirmed.
LEMMA SentStep ==
    ASSUME IInv, NEW p \in Pid, pc[p] \in {"ledger", "append"}, Sent(p),
           UNCHANGED <<file, lockLeft, crashes, dir, disk>>
    PROVE  IInv'
<1>1. ProcessOK(p) /\ op[p] \in Op
  BY OpIs DEF IInv, ProcessInv, ProcessOK
<1>2. op[p].ino \in DOMAIN file /\ file[op[p].ino].name = op[p].name /\ file[op[p].ino].text = "synced"
  BY <1>1 DEF ProcessOK, InodeOf, Written
<1>3. op[p].name \in Mail => OnDisk(op[p].ino)
  BY <1>1, <1>2 DEF ProcessOK, LetterOf, Delivered, OnDisk
<1>4. confirmed' = confirmed \cup {op[p].ino}
  BY DEF Sent
<1>5. confirmed' \subseteq DOMAIN file /\ ConfirmedInv' /\ lockLeft' \in BOOLEAN
  BY <1>2, <1>3, <1>4 DEF IInv, TypeOK, ConfirmedInv, OnDisk
<1>6. CASE Exit(p)
  <2>1. Alone(p) /\ pc'[p] = "idle"
    BY <1>6, ExitIs DEF IInv
  <2>2. ProcessOK(p)' /\ \A q \in Pid : Apart(p, q)' /\ Apart(q, p)'
    BY <2>1 DEF ProcessOK, CommandOf, InodeOf, TmpOf, ArchiveOf, LetterOf, Apart, Publishing, Written,
                Writing, Moving, Delivered, Early
  <2> QED
    BY <1>5, <2>1, <2>2, LocalStep
<1>7. CASE op[p].kind = "ack" /\ Goto(p, "source") /\ op' = [op EXCEPT ![p].name = NoName, ![p].ino = 0]
  <2> DEFINE s == [op[p] EXCEPT !.name = NoName]
             o == [s EXCEPT !.ino = 0]
  <2>1. op' = [op EXCEPT ![p] = o]
    BY <1>7
  <2>2. /\ s \in Op /\ s.name = NoName /\ s.kind = "ack"
        /\ s.refs = op[p].refs /\ s.todo = op[p].todo /\ s.batch = op[p].batch
    BY <1>1, <1>7 DEF Op
  <2> HIDE DEF s
  <2>3. /\ o \in Op /\ o.name = NoName /\ o.kind = "ack"
        /\ o.refs = op[p].refs /\ o.todo = op[p].todo /\ o.batch = op[p].batch
    BY <2>2, MaildirBounds DEF Op, Inode
  <2> HIDE DEF o
  <2>4. Alone(p) /\ pc'[p] = "source" /\ op'[p] = o
    BY <1>7, <2>1, <2>3, ChangeIs DEF IInv, Place
  <2>5. ProcessOK(p)'
    BY <1>1, <1>7, <2>3, <2>4 DEF ProcessOK, CommandOf, InodeOf, TmpOf, ArchiveOf, LetterOf, Publishing,
                                  Written, Writing, Moving, Delivered
  <2>6. ASSUME NEW q \in Pid \ {p} PROVE Apart(p, q)' /\ Apart(q, p)'
    BY <1>7, <2>3, <2>4 DEF Alone, Apart, Writing, Early, IInv, PairInv
  <2> QED
    BY <1>5, <2>4, <2>5, <2>6, LocalStep
<1> QED
  BY <1>6, <1>7 DEF Sent

\* rt-ack is killed, its rt-say goes on by itself.
LEMMA KillParentStep ==
    ASSUME IInv, NEW p \in Pid, KillParent(p)
    PROVE  IInv'
<1>1. /\ pc[p] # "idle" /\ Publishing(p) /\ ProcessOK(p) /\ op[p] \in Op /\ UNCHANGED pc
      /\ op[p].name \in Name \ Mail
      /\ UNCHANGED <<file, dir, disk, confirmed, crashes, lockLeft>>
  BY OpIs DEF KillParent, IInv, ProcessInv, ProcessOK, CommandOf, Publishing, DirSame, HistorySame
<1> DEFINE s == [op[p] EXCEPT !.kind = "say"]
           o == [s EXCEPT !.todo = {}]
<1>2. op' = [op EXCEPT ![p] = o]
  BY DEF KillParent
<1>3. /\ s \in Op /\ s.name = op[p].name /\ s.kind = "say" /\ s.ino = op[p].ino
      /\ s.refs = op[p].refs /\ s.batch = op[p].batch
  BY <1>1 DEF Op
<1> HIDE DEF s
<1>4. /\ o \in Op /\ o.name = op[p].name /\ o.kind = "say" /\ o.ino = op[p].ino
      /\ o.refs = op[p].refs /\ o.batch = op[p].batch
  BY <1>3 DEF Op
<1> HIDE DEF o
<1>5. pc[p] \in Place \ {"idle"} /\ Goto(p, pc[p])
  BY <1>1 DEF IInv, TypeOK, Goto
<1>6. Alone(p) /\ pc'[p] = pc[p] /\ op'[p] = o
  BY <1>2, <1>4, <1>5, ChangeIs DEF IInv
<1>7. ProcessOK(p)'
  BY <1>1, <1>4, <1>6 DEF ProcessOK, CommandOf, InodeOf, TmpOf, ArchiveOf, LetterOf, Publishing,
                          Written, Writing, Moving, Delivered
<1>8. ASSUME NEW q \in Pid \ {p} PROVE Apart(p, q)' /\ Apart(q, p)'
  BY <1>4, <1>6 DEF Alone, Apart, Writing, Early, IInv, PairInv
<1>9. confirmed' \subseteq DOMAIN file /\ ConfirmedInv' /\ lockLeft' \in BOOLEAN
  BY <1>1 DEF IInv, TypeOK, ConfirmedInv, OnDisk
<1> QED
  BY <1>1, <1>6, <1>7, <1>8, <1>9, LocalStep

-----------------------------------------------------------------------------
(* Steps of one process on the folders and the files *)

LEMMA FolderStep ==
    ASSUME IInv, NEW p \in Pid, Alone(p), UNCHANGED <<confirmed, crashes, lockLeft>>,
           file' \in Seq(File), Len(file') <= MaxFile, DOMAIN file \subseteq DOMAIN file',
           dir' \in [Folder \X Name -> Inode], disk' \in [Flushed \X Name -> SUBSET Inode],
           FolderInv', ConfirmedInv', ProcessOK(p)',
           \A q \in Pid \ {p} :
               /\ InodeOf(q)' /\ TmpOf(q)' /\ ArchiveOf(q)' /\ LetterOf(q)'
               /\ Apart(p, q)' /\ Apart(q, p)'
    PROVE  IInv'
<1>1. TypeOK'
  BY DEF IInv, TypeOK, Alone
<1>2. ASSUME NEW q \in Pid \ {p} PROVE CommandOf(q)'
  <2>1. pc'[q] = pc[q] /\ op'[q] = op[q] /\ CommandOf(q)
    BY DEF Alone, IInv, ProcessInv
  <2> QED
    BY <2>1 DEF CommandOf, Publishing, Moving
<1>3. ASSUME NEW q \in Pid \ {p}, NEW r \in Pid \ {p}, q # r PROVE Apart(q, r)'
  BY <1>3 DEF Alone, IInv, PairInv, Apart, Writing, Early
<1> QED
  BY <1>1, <1>2, <1>3 DEF IInv, ProcessInv, ProcessOK, PairInv

LEMMA NameAtHand ==
    ASSUME IInv, NEW q \in Pid, Written(q) \/ Publishing(q) \/ Moving(q)
    PROVE  op[q] \in Op /\ op[q].name \in Name /\ pc[q] # "idle"
<1>1. pc[q] # "idle" /\ op[q] \in Op /\ CommandOf(q)
  BY OpIs DEF Written, Publishing, Moving, IInv, ProcessInv
<1> QED
  BY <1>1 DEF CommandOf, Written, Publishing, Moving, Op

\* rt-say gives up and its temporary file goes.
LEMMA DropStep ==
    ASSUME IInv, NEW p \in Pid, Writing(p), Exit(p), DropTmp(op[p].name),
           UNCHANGED <<file, confirmed, crashes, lockLeft>>
    PROVE  IInv'
<1> DEFINE n == op[p].name
<1>1. Alone(p) /\ pc'[p] = "idle" /\ n \in Name
  BY ExitIs, NameAtHand DEF IInv, Writing, Written
<1>2. /\ dir' \in [Folder \X Name -> Inode] /\ disk' = disk
      /\ \A f \in Flushed, m \in Name : dir'[<<f, m>>] = dir[<<f, m>>]
      /\ \A m \in Name \ {n} : dir'[<<"tmp", m>>] = dir[<<"tmp", m>>]
  BY <1>1, MaildirBounds DEF DropTmp, IInv, TypeOK, Folder, Flushed, Inode
<1>3. ProcessOK(p)' /\ \A q \in Pid : Apart(p, q)' /\ Apart(q, p)'
  BY <1>1 DEF ProcessOK, CommandOf, InodeOf, TmpOf, ArchiveOf, LetterOf, Apart, Publishing, Written,
              Writing, Moving, Delivered, Early
<1>4. ASSUME NEW q \in Pid \ {p} PROVE InodeOf(q)' /\ TmpOf(q)' /\ ArchiveOf(q)' /\ LetterOf(q)'
  <2>1. /\ pc'[q] = pc[q] /\ op'[q] = op[q] /\ InodeOf(q) /\ TmpOf(q) /\ ArchiveOf(q) /\ LetterOf(q)
        /\ Apart(p, q)
    BY <1>1 DEF Alone, IInv, ProcessInv, PairInv
  <2>2. Written(q) \/ Moving(q) => op[q].name \in Name
    BY NameAtHand
  <2>3. InodeOf(q)'
    BY <2>1 DEF InodeOf, Written
  <2>4. TmpOf(q)'
    BY <1>2, <2>1, <2>2 DEF TmpOf, Apart, Writing, Written, Flushed
  <2>5. ArchiveOf(q)'
    BY <1>2, <2>1, <2>2 DEF ArchiveOf, Moving, Flushed
  <2>6. LetterOf(q)'
    BY <1>2, <2>1, <2>2 DEF LetterOf, Delivered, Written, Flushed
  <2> QED
    BY <2>3, <2>4, <2>5, <2>6
<1>5. FolderInv' /\ ConfirmedInv'
  BY <1>2 DEF IInv, FolderInv, ConfirmedInv, OnDisk
<1>6. /\ file' \in Seq(File) /\ Len(file') <= MaxFile
      /\ disk' \in [Flushed \X Name -> SUBSET Inode]
  BY <1>2 DEF IInv, TypeOK
<1> QED
  BY <1>1, <1>2, <1>3, <1>4, <1>5, <1>6, FolderStep

LEMMA CheckStep ==
    ASSUME IInv, NEW p \in Pid, Check(p)
    PROVE  IInv'
<1>1. pc[p] = "check" /\ Writing(p) /\ ProcessOK(p) /\ UNCHANGED <<file, confirmed, crashes, lockLeft>>
  BY DEF Check, Writing, IInv, ProcessInv, ProcessOK, HistorySame
<1>2. CASE Exit(p) /\ DropTmp(op[p].name)
  BY <1>1, <1>2, DropStep
<1>3. CASE dir[<<"new", op[p].name>>] = 0 /\ Goto(p, "rename") /\ UNCHANGED op /\ DirSame
  <2>1. Alone(p) /\ pc'[p] = "rename" /\ op'[p] = op[p] /\ UNCHANGED <<dir, disk>>
    BY <1>1, <1>3, GotoIs DEF IInv, Place, DirSame
  <2>2. ProcessOK(p)'
    BY <1>1, <1>3, <2>1 DEF ProcessOK, CommandOf, InodeOf, TmpOf, ArchiveOf, LetterOf, Publishing,
                            Written, Writing, Moving, Delivered
  <2> QED
    BY <1>1, <1>3, <2>1, <2>2, PlaceStep DEF Place
<1> QED
  BY <1>2, <1>3 DEF Check

LEMMA FaultStep ==
    ASSUME IInv, NEW p \in Pid, Fault(p)
    PROVE  IInv'
<1>1. CASE PublishFault(p)
  <2>1. Exit(p) /\ UNCHANGED <<file, confirmed, crashes, lockLeft>>
    BY <1>1 DEF PublishFault, HistorySame
  <2>2. CASE DirSame
    BY <2>1, <2>2, ExitStep DEF DirSame, IInv, TypeOK
  <2>3. CASE Writing(p) /\ DropTmp(op[p].name)
    BY <2>1, <2>3, DropStep
  <2> QED
    BY <1>1, <2>2, <2>3 DEF PublishFault, Writing
<1>2. CASE ArchiveFault(p)
  BY <1>2, ExitStep DEF ArchiveFault, DirSame, HistorySame, IInv, TypeOK
<1>3. CASE Kill(p)
  <2>1. lockLeft' \in BOOLEAN
    BY <1>3 DEF Kill, IInv, TypeOK
  <2> QED
    BY <1>3, <2>1, ExitStep DEF Kill, DirSame
<1>4. CASE KillParent(p)
  BY <1>4, KillParentStep
<1> QED
  BY <1>1, <1>2, <1>3, <1>4 DEF Fault

LEMMA CreateStep ==
    ASSUME IInv, NEW p \in Pid, Create(p)
    PROVE  IInv'
<1> DEFINE n == op[p].name
           r == [name |-> n, refs |-> op[p].batch, text |-> "empty"]
           i == Len(file')
           o == [op[p] EXCEPT !.ino = i]
<1>1. /\ pc[p] = "create" /\ n \in Name /\ ProcessOK(p) /\ op[p] \in Op
      /\ UNCHANGED <<confirmed, crashes, lockLeft>>
  BY NameAtHand DEF Create, IInv, ProcessInv, ProcessOK, Publishing, HistorySame
<1>2. CASE Exit(p) /\ UNCHANGED file /\ DirSame
  BY <1>1, <1>2, ExitStep DEF DirSame, IInv, TypeOK
<1>3. CASE /\ dir[<<"tmp", n>>] = 0 /\ Len(file) # MaxFile
           /\ file' = Append(file, r)
           /\ op' = [op EXCEPT ![p].ino = Len(file')]
           /\ dir' = [dir EXCEPT ![<<"tmp", n>>] = Len(file')]
           /\ UNCHANGED disk
           /\ Goto(p, "write")
  <2>1. /\ i = Len(file) + 1 /\ i \in Inode \ {0} /\ i <= MaxFile /\ r \in File
    BY <1>1, <1>3, MaildirBounds DEF IInv, TypeOK, Inode, File, ProcessOK, CommandOf, Publishing
  <2>2. /\ file' \in Seq(File) /\ DOMAIN file \subseteq DOMAIN file' /\ i \in DOMAIN file'
        /\ \A j \in DOMAIN file : file'[j] = file[j]
        /\ file'[i].name = n
    BY <1>3, <2>1 DEF IInv, TypeOK
  <2> HIDE DEF i, r
  <2>3. op' = [op EXCEPT ![p] = o]
    BY <1>3 DEF i
  <2>4. /\ o \in Op /\ o.name = n /\ o.ino = i /\ o.kind = op[p].kind
        /\ o.refs = op[p].refs /\ o.todo = op[p].todo /\ o.batch = op[p].batch
    BY <1>1, <2>1 DEF Op
  <2> HIDE DEF o
  <2>5. Alone(p) /\ pc'[p] = "write" /\ op'[p] = o
    BY <1>3, <2>3, <2>4, ChangeIs DEF IInv, Place
  <2>6. /\ dir' \in [Folder \X Name -> Inode] /\ disk' = disk /\ dir'[<<"tmp", n>>] = i
        /\ \A f \in Flushed, m \in Name : dir'[<<f, m>>] = dir[<<f, m>>]
        /\ \A m \in Name \ {n} : dir'[<<"tmp", m>>] = dir[<<"tmp", m>>]
    BY <1>1, <1>3, <2>1 DEF IInv, TypeOK, Folder, Flushed, i
  <2>7. ProcessOK(p)'
    BY <1>1, <2>1, <2>2, <2>4, <2>5, <2>6
    DEF ProcessOK, CommandOf, InodeOf, TmpOf, ArchiveOf, LetterOf, Publishing, Written, Writing,
        Moving, Delivered
  <2>8. ASSUME NEW q \in Pid \ {p}
        PROVE  InodeOf(q)' /\ TmpOf(q)' /\ ArchiveOf(q)' /\ LetterOf(q)' /\ Apart(p, q)' /\ Apart(q, p)'
    <3>1. /\ pc'[q] = pc[q] /\ op'[q] = op[q] /\ InodeOf(q) /\ TmpOf(q) /\ ArchiveOf(q) /\ LetterOf(q)
          /\ Apart(p, q) /\ Apart(q, p)
      BY <2>5 DEF Alone, IInv, ProcessInv, PairInv
    <3>2. Written(q) \/ Moving(q) => op[q].name \in Name
      BY NameAtHand
    <3>3. InodeOf(q)'
      BY <2>2, <3>1 DEF InodeOf, Written
    <3>4. TmpOf(q)'
      BY <2>1, <2>6, <3>1, <3>2 DEF TmpOf, Writing, Written, Flushed
    <3>5. ArchiveOf(q)'
      BY <2>6, <3>1, <3>2 DEF ArchiveOf, Moving, Flushed
    <3>6. LetterOf(q)'
      BY <2>6, <3>1, <3>2 DEF LetterOf, Delivered, Written, Flushed
    <3>7. Apart(p, q)' /\ Apart(q, p)'
      BY <1>1, <1>3, <2>4, <2>5, <3>1 DEF Apart, Writing, Early, TmpOf
    <3> QED
      BY <3>3, <3>4, <3>5, <3>6, <3>7
  <2>9. FolderInv' /\ ConfirmedInv'
    <3>1. FolderInv'
      BY <2>2, <2>6 DEF IInv, FolderInv
    <3>2. ConfirmedInv'
      BY <1>1, <2>2, <2>6 DEF IInv, TypeOK, ConfirmedInv, OnDisk
    <3> QED
      BY <3>1, <3>2
  <2>10. Len(file') <= MaxFile /\ disk' \in [Flushed \X Name -> SUBSET Inode]
    BY <2>1, <2>6 DEF IInv, TypeOK, i
  <2> QED
    BY <1>1, <2>2, <2>5, <2>6, <2>7, <2>8, <2>9, <2>10, FolderStep
<1> QED
  BY <1>2, <1>3 DEF Create

LEMMA WriteStep ==
    ASSUME IInv, NEW p \in Pid, Write(p)
    PROVE  IInv'
<1> DEFINE i == op[p].ino
<1>1. /\ pc[p] = "write" /\ Goto(p, "check") /\ UNCHANGED <<op, dir, disk, confirmed, crashes, lockLeft>>
      /\ ProcessOK(p) /\ i \in DOMAIN file /\ file[i].name = op[p].name
  BY DEF Write, DirSame, HistorySame, IInv, ProcessInv, ProcessOK, InodeOf, Written
<1>2. /\ file' \in Seq(File) /\ Len(file') = Len(file) /\ DOMAIN file \subseteq DOMAIN file'
      /\ \A j \in DOMAIN file :
            /\ file'[j].name = file[j].name
            /\ file[j].text = "synced" => file'[j].text = "synced"
      /\ file'[i].text = "synced"
  <2> DEFINE r == [file[i] EXCEPT !.text = "synced"]
  <2>1. file \in Seq(File) /\ i \in 1..Len(file) /\ file[i] \in File
    BY <1>1 DEF IInv, TypeOK
  <2>2. file' = [file EXCEPT ![i] = r]
    BY DEF Write
  <2>3. r \in File /\ r.name = file[i].name /\ r.text = "synced"
    BY <2>1 DEF File
  <2> HIDE DEF r, i
  <2> QED
    BY <2>1, <2>2, <2>3
<1>3. Alone(p) /\ pc'[p] = "check" /\ op'[p] = op[p]
  BY <1>1, GotoIs DEF IInv, Place
<1>4. ProcessOK(p)'
  BY <1>1, <1>2, <1>3 DEF ProcessOK, CommandOf, InodeOf, TmpOf, ArchiveOf, LetterOf, Publishing,
                          Written, Writing, Moving, Delivered
<1>5. ASSUME NEW q \in Pid \ {p}
      PROVE  InodeOf(q)' /\ TmpOf(q)' /\ ArchiveOf(q)' /\ LetterOf(q)' /\ Apart(p, q)' /\ Apart(q, p)'
  <2>1. /\ pc'[q] = pc[q] /\ op'[q] = op[q] /\ InodeOf(q) /\ TmpOf(q) /\ ArchiveOf(q) /\ LetterOf(q)
        /\ Apart(p, q) /\ Apart(q, p)
    BY <1>3 DEF Alone, IInv, ProcessInv, PairInv
  <2>2. InodeOf(q)'
    BY <1>2, <2>1 DEF InodeOf, Written
  <2>3. TmpOf(q)' /\ ArchiveOf(q)' /\ LetterOf(q)'
    BY <1>1, <2>1 DEF TmpOf, ArchiveOf, LetterOf, Writing, Moving, Delivered
  <2>4. Apart(p, q)' /\ Apart(q, p)'
    BY <1>1, <1>3, <2>1 DEF Apart, Writing, Early
  <2> QED
    BY <2>2, <2>3, <2>4
<1>6. FolderInv'
  BY <1>1, <1>2 DEF IInv, FolderInv
<1>7. ConfirmedInv'
  BY <1>1, <1>2 DEF IInv, TypeOK, ConfirmedInv, OnDisk
<1>8. /\ Len(file') <= MaxFile /\ dir' \in [Folder \X Name -> Inode]
      /\ disk' \in [Flushed \X Name -> SUBSET Inode]
  BY <1>1, <1>2 DEF IInv, TypeOK
<1> QED
  BY <1>1, <1>2, <1>3, <1>4, <1>5, <1>6, <1>7, <1>8, FolderStep

LEMMA RenameStep ==
    ASSUME IInv, NEW p \in Pid, Rename(p)
    PROVE  IInv'
<1> DEFINE n == op[p].name
           i == op[p].ino
<1>1. /\ pc[p] = "rename" /\ Goto(p, "sync") /\ UNCHANGED <<op, file, confirmed, crashes, lockLeft>>
      /\ ProcessOK(p) /\ i \in DOMAIN file /\ i # 0 /\ file[i].name = n /\ file[i].text = "synced"
      /\ dir[<<"new", n>>] = 0
  <2>1. /\ pc[p] = "rename" /\ Goto(p, "sync") /\ UNCHANGED <<op, file, confirmed, crashes, lockLeft>>
    BY DEF Rename, HistorySame
  <2>2. ProcessOK(p) /\ file \in Seq(File)
    BY DEF IInv, TypeOK, ProcessInv, ProcessOK
  <2> QED
    BY <2>1, <2>2 DEF ProcessOK, InodeOf, TmpOf, Written
<1>2. n \in Name /\ op[p] \in Op /\ i \in Inode
  BY <1>1, NameAtHand DEF Written, Op
<1>3. /\ dir' \in [Folder \X Name -> Inode] /\ dir'[<<"new", n>>] = i
      /\ \A m \in Name : dir'[<<"cur", m>>] = dir[<<"cur", m>>]
      /\ \A f \in Folder, m \in Name \ {n} : dir'[<<f, m>>] = dir[<<f, m>>]
  <2> DEFINE d == [dir EXCEPT ![<<"tmp", n>>] = 0]
  <2>1. /\ d \in [Folder \X Name -> Inode]
        /\ \A m \in Name : d[<<"cur", m>>] = dir[<<"cur", m>>]
        /\ \A f \in Folder, m \in Name \ {n} : d[<<f, m>>] = dir[<<f, m>>]
    BY <1>2, MaildirBounds DEF IInv, TypeOK, Folder, Flushed, Inode
  <2>2. dir' = [d EXCEPT ![<<"new", n>>] = i]
    BY DEF Rename
  <2> HIDE DEF d
  <2> QED
    BY <1>2, <2>1, <2>2 DEF Folder, Flushed
<1>4. /\ disk' \in [Flushed \X Name -> SUBSET Inode]
      /\ disk'[<<"new", n>>] = disk[<<"new", n>>] \cup {i}
      /\ \A m \in Name : disk'[<<"cur", m>>] = disk[<<"cur", m>>]
      /\ \A m \in Name \ {n} : disk'[<<"new", m>>] = disk[<<"new", m>>]
  <2>1. <<"new", n>> \in Flushed \X Name /\ disk[<<"new", n>>] \cup {i} \in SUBSET Inode
    BY <1>2 DEF IInv, TypeOK, Flushed
  <2> QED
    BY <2>1 DEF Rename, IInv, TypeOK, Flushed
<1>5. Alone(p) /\ pc'[p] = "sync" /\ op'[p] = op[p]
  BY <1>1, GotoIs DEF IInv, Place
<1>6. ProcessOK(p)'
  BY <1>1, <1>3, <1>5 DEF ProcessOK, CommandOf, InodeOf, TmpOf, ArchiveOf, LetterOf, Publishing,
                          Written, Writing, Moving, Delivered
<1>7. ASSUME NEW q \in Pid \ {p}
      PROVE  InodeOf(q)' /\ TmpOf(q)' /\ ArchiveOf(q)' /\ LetterOf(q)' /\ Apart(p, q)' /\ Apart(q, p)'
  <2>1. /\ pc'[q] = pc[q] /\ op'[q] = op[q] /\ InodeOf(q) /\ TmpOf(q) /\ ArchiveOf(q) /\ LetterOf(q)
        /\ Apart(p, q) /\ Apart(q, p) /\ CommandOf(q)
    BY <1>5 DEF Alone, IInv, ProcessInv, PairInv
  <2>2. Written(q) \/ Moving(q) => op[q].name \in Name
    BY NameAtHand
  <2>3. InodeOf(q)'
    BY <1>1, <2>1 DEF InodeOf, Written
  <2>4. TmpOf(q)'
    BY <1>1, <1>3, <2>1, <2>2 DEF TmpOf, Apart, Writing, Written, Folder, Flushed
  <2>5. ArchiveOf(q)'
    <3>1. Moving(q) /\ op[q].kind = "ack" => op[q].name # n
      BY <1>1, <2>1 DEF CommandOf, Apart, Early, Moving
    <3> QED
      BY <1>3, <1>4, <2>1, <2>2, <3>1 DEF ArchiveOf, Moving, Folder, Flushed
  <2>6. LetterOf(q)'
    <3>1. CASE op[q].name = n /\ Delivered(q)
      <4>1. op[q].ino # 0
        BY <2>1, <3>1 DEF InodeOf, Written, Delivered, IInv, TypeOK
      <4> QED
        BY <1>1, <1>4, <2>1, <2>2, <3>1, <4>1 DEF LetterOf, Delivered, Written
    <3>2. CASE op[q].name # n \/ ~Delivered(q)
      BY <1>3, <1>4, <2>1, <2>2, <3>2 DEF LetterOf, Delivered, Written, Folder, Flushed
    <3> QED
      BY <3>1, <3>2
  <2>7. Apart(p, q)' /\ Apart(q, p)'
    BY <1>1, <1>5, <2>1 DEF Apart, Writing, Early
  <2> QED
    BY <2>3, <2>4, <2>5, <2>6, <2>7
<1>8. FolderInv'
  BY <1>1, <1>2, <1>3, <1>4 DEF IInv, FolderInv, Folder, Flushed
<1>9. ConfirmedInv'
  <2>1. ASSUME NEW j \in confirmed, file[j].name \in Mail PROVE OnDisk(j)'
    <3>1. j # 0 /\ OnDisk(j) /\ file[j].name \in Name
      BY <2>1 DEF IInv, TypeOK, ConfirmedInv, Mail
    <3>2. file[j].name = n => disk[<<"new", n>>] # {j}
      BY <1>1, <1>2, <3>1 DEF IInv, FolderInv, Flushed
    <3> QED
      BY <1>1, <1>4, <3>1, <3>2 DEF OnDisk
  <2> QED
    BY <1>1, <2>1 DEF IInv, ConfirmedInv
<1>10. file' \in Seq(File) /\ Len(file') <= MaxFile
  BY <1>1 DEF IInv, TypeOK
<1> QED
  BY <1>1, <1>3, <1>4, <1>5, <1>6, <1>7, <1>8, <1>9, <1>10, FolderStep

\* A flushed folder keeps what it shows, so nothing that was safe is lost.
LEMMA FsyncIs ==
    ASSUME IInv, NEW f \in Flushed, NEW a \in Agent, Fsync(f, a),
           UNCHANGED <<file, dir, confirmed>>
    PROVE  /\ disk' \in [Flushed \X Name -> SUBSET Inode]
           /\ \A e \in Flushed \X Name : disk'[e] = disk[e] \/ disk'[e] = {dir[e]}
           /\ \A e \in Flushed \X Name, i \in Inode : disk[e] = {i} => disk'[e] = {i}
           /\ \A n \in Name : n.to = a => disk'[<<f, n>>] = {dir[<<f, n>>]}
           /\ FolderInv' /\ ConfirmedInv'
<1>1. \A e \in Flushed \X Name :
        dir[e] \in disk[e] /\ dir[e] \in Inode /\ disk[e] \in SUBSET Inode
  BY DEF IInv, TypeOK, FolderInv, Folder, Flushed
<1>2. /\ DOMAIN disk' = Flushed \X Name
      /\ \A e \in Flushed \X Name : disk'[e] = disk[e] \/ disk'[e] = {dir[e]}
      /\ \A n \in Name : n.to = a => disk'[<<f, n>>] = {dir[<<f, n>>]}
  BY DEF Fsync
<1>3. disk' \in [Flushed \X Name -> SUBSET Inode]
  <2>1. \A e \in Flushed \X Name : disk'[e] \in SUBSET Inode
    BY <1>1, <1>2
  <2>2. disk' = [e \in Flushed \X Name |-> disk'[e]]
    BY DEF Fsync
  <2> QED
    BY <2>1, <2>2
<1>4. \A e \in Flushed \X Name, i \in Inode : disk[e] = {i} => disk'[e] = {i}
  BY <1>1, <1>2
<1>5. FolderInv'
  BY <1>1, <1>2 DEF IInv, FolderInv
<1>6. ConfirmedInv'
  <2>1. ASSUME NEW i \in confirmed, file[i].name \in Mail PROVE OnDisk(i)'
    <3>1. OnDisk(i) /\ file[i].name \in Name
      BY <2>1 DEF IInv, ConfirmedInv, Mail
    <3>2. file \in Seq(File) /\ Len(file) <= MaxFile /\ i \in DOMAIN file
      BY DEF IInv, TypeOK
    <3>3. i \in Inode
      BY <3>2, MaildirBounds DEF Inode
    <3> QED
      BY <1>4, <3>1, <3>3 DEF OnDisk, Flushed
  <2> QED
    BY <2>1 DEF IInv, ConfirmedInv
<1> QED
  BY <1>2, <1>3, <1>4, <1>5, <1>6

\* The other processes do not mind.
LEMMA FsyncOthers ==
    ASSUME IInv, NEW f \in Flushed, NEW a \in Agent, Fsync(f, a), UNCHANGED <<file, dir, confirmed>>,
           NEW q \in Pid, pc'[q] = pc[q], op'[q] = op[q]
    PROVE  InodeOf(q)' /\ TmpOf(q)' /\ ArchiveOf(q)' /\ LetterOf(q)'
<1>1. InodeOf(q) /\ TmpOf(q) /\ ArchiveOf(q) /\ LetterOf(q)
  BY DEF IInv, ProcessInv
<1>2. Written(q) \/ Moving(q) => op[q].name \in Name
  BY NameAtHand
<1>3. \A e \in Flushed \X Name, i \in Inode : disk[e] = {i} => disk'[e] = {i}
  BY FsyncIs
<1>4. InodeOf(q)' /\ TmpOf(q)'
  BY <1>1 DEF InodeOf, TmpOf, Written, Writing
<1>5. ArchiveOf(q)'
  <2>1. pc[q] = "unlink" => dir[<<"cur", op[q].name>>] \in Inode
    BY <1>2 DEF Moving, IInv, TypeOK, Folder, Flushed
  <2> QED
    BY <1>1, <1>2, <1>3, <2>1 DEF ArchiveOf, Moving, Flushed
<1>6. LetterOf(q)'
  <2>1. Delivered(q) => op[q].ino \in Inode
    BY NameAtHand DEF Delivered, Written, Op
  <2> QED
    BY <1>1, <1>2, <1>3, <2>1 DEF LetterOf, Delivered, Written, Flushed
<1> QED
  BY <1>4, <1>5, <1>6

LEMMA SyncStep ==
    ASSUME IInv, NEW p \in Pid, Sync(p) \/ SyncCur(p)
    PROVE  IInv'
<1> DEFINE n == op[p].name
<1>1. /\ pc[p] \in {"sync", "sync_cur"} /\ ProcessOK(p)
      /\ UNCHANGED <<op, file, dir, confirmed, crashes, lockLeft>>
      /\ Goto(p, IF pc[p] = "sync" THEN "ledger" ELSE "unlink")
  BY DEF Sync, SyncCur, HistorySame, IInv, ProcessInv, ProcessOK
<1>2. n \in Name /\ n.to \in Agent /\ op[p].ino \in Inode
  BY <1>1, NameAtHand DEF Written, Moving, Name, Op
<1>3. PICK f \in Flushed : Fsync(f, n.to) /\ f = IF pc[p] = "sync" THEN "new" ELSE "cur"
  BY DEF Sync, SyncCur, Flushed
<1>4. /\ disk' \in [Flushed \X Name -> SUBSET Inode]
      /\ \A e \in Flushed \X Name, i \in Inode : disk[e] = {i} => disk'[e] = {i}
      /\ disk'[<<f, n>>] = {dir[<<f, n>>]}
      /\ FolderInv' /\ ConfirmedInv'
  <2> HIDE DEF n
  <2>1. UNCHANGED <<file, dir, confirmed>>
    BY <1>1
  <2>2. \A m \in Name : m.to = n.to => disk'[<<f, m>>] = {dir[<<f, m>>]}
    BY <1>2, <1>3, <2>1, FsyncIs
  <2>3. /\ disk' \in [Flushed \X Name -> SUBSET Inode]
        /\ \A e \in Flushed \X Name, i \in Inode : disk[e] = {i} => disk'[e] = {i}
        /\ FolderInv' /\ ConfirmedInv'
    BY <1>2, <1>3, <2>1, FsyncIs
  <2> QED
    BY <1>2, <2>2, <2>3
<1>5. /\ Alone(p) /\ pc'[p] = (IF pc[p] = "sync" THEN "ledger" ELSE "unlink") /\ op'[p] = op[p]
  BY <1>1, GotoIs DEF IInv, Place
<1>6. ProcessOK(p)'
  BY <1>1, <1>2, <1>3, <1>4, <1>5
  DEF ProcessOK, CommandOf, InodeOf, TmpOf, ArchiveOf, LetterOf, Publishing, Written, Writing,
      Moving, Delivered, Flushed
<1>7. ASSUME NEW q \in Pid \ {p}
      PROVE  InodeOf(q)' /\ TmpOf(q)' /\ ArchiveOf(q)' /\ LetterOf(q)' /\ Apart(p, q)' /\ Apart(q, p)'
  <2>1. pc'[q] = pc[q] /\ op'[q] = op[q] /\ Apart(p, q) /\ Apart(q, p)
    BY <1>5 DEF Alone, IInv, PairInv
  <2>2. Apart(p, q)' /\ Apart(q, p)'
    BY <1>1, <1>5, <2>1 DEF Apart, Writing, Early
  <2> QED
    BY <1>1, <1>2, <1>3, <2>1, <2>2, FsyncOthers
<1>8. file' \in Seq(File) /\ Len(file') <= MaxFile /\ dir' \in [Folder \X Name -> Inode]
  BY <1>1 DEF IInv, TypeOK
<1> QED
  BY <1>1, <1>4, <1>5, <1>6, <1>7, <1>8, FolderStep

LEMMA SyncNewStep ==
    ASSUME IInv, NEW p \in Pid, SyncNew(p)
    PROVE  IInv'
<1> DEFINE n == op[p].name
           o == Moved(op[p])
<1>1. /\ pc[p] = "sync_new" /\ ProcessOK(p) /\ UNCHANGED <<file, dir, confirmed, crashes, lockLeft>>
      /\ Goto(p, "source") /\ Fsync("new", n.to) /\ op' = [op EXCEPT ![p] = o]
  BY DEF SyncNew, HistorySame, IInv, TypeOK, ProcessInv, ProcessOK
<1>2. n \in Name /\ n.to \in Agent /\ op[p] \in Op
  BY <1>1, NameAtHand DEF Moving, Name
<1>3. /\ o \in Op /\ o.kind = op[p].kind /\ o.refs = op[p].refs /\ o.todo = op[p].todo
      /\ o.batch = op[p].batch \ {n}
  BY <1>2, MovedIs
<1> HIDE DEF o
<1>4. disk' \in [Flushed \X Name -> SUBSET Inode] /\ FolderInv' /\ ConfirmedInv'
  BY <1>1, <1>2, FsyncIs DEF Flushed
<1>5. Alone(p) /\ pc'[p] = "source" /\ op'[p] = o
  BY <1>1, <1>3, ChangeIs DEF IInv, Place
<1>6. ProcessOK(p)'
  BY <1>1, <1>3, <1>5
  DEF ProcessOK, CommandOf, InodeOf, TmpOf, ArchiveOf, LetterOf, Publishing, Written, Writing,
      Moving, Delivered
<1>7. ASSUME NEW q \in Pid \ {p}
      PROVE  InodeOf(q)' /\ TmpOf(q)' /\ ArchiveOf(q)' /\ LetterOf(q)' /\ Apart(p, q)' /\ Apart(q, p)'
  <2>1. pc'[q] = pc[q] /\ op'[q] = op[q] /\ Apart(p, q) /\ Apart(q, p)
    BY <1>5 DEF Alone, IInv, PairInv
  <2>2. Apart(p, q)' /\ Apart(q, p)'
    BY <1>1, <1>3, <1>5, <2>1 DEF Apart, Writing, Early
  <2> QED
    BY <1>1, <1>2, <2>1, <2>2, FsyncOthers DEF Flushed
<1>8. file' \in Seq(File) /\ Len(file') <= MaxFile /\ dir' \in [Folder \X Name -> Inode]
  BY <1>1 DEF IInv, TypeOK
<1> QED
  BY <1>1, <1>4, <1>5, <1>6, <1>7, <1>8, FolderStep

LEMMA LinkStep ==
    ASSUME IInv, NEW p \in Pid, Link(p)
    PROVE  IInv'
<1> DEFINE n == op[p].name
           i == dir[<<"new", n>>]
<1>1. /\ pc[p] = "link" /\ ProcessOK(p) /\ UNCHANGED <<file, confirmed, crashes, lockLeft>>
  BY DEF Link, HistorySame, IInv, ProcessInv, ProcessOK
<1>2. n \in Name /\ i \in Inode
  BY <1>1, NameAtHand DEF Moving, IInv, TypeOK, Folder, Flushed
<1>3. CASE Exit(p) /\ DirSame
  BY <1>1, <1>3, ExitStep DEF DirSame, IInv, TypeOK
<1>4. CASE /\ i # 0 /\ dir[<<"cur", n>>] = 0 /\ Put("cur", n, i)
           /\ Goto(p, "sync_cur") /\ UNCHANGED op
  <2>1. /\ dir' \in [Folder \X Name -> Inode] /\ dir'[<<"cur", n>>] = i
        /\ \A m \in Name : dir'[<<"tmp", m>>] = dir[<<"tmp", m>>] /\ dir'[<<"new", m>>] = dir[<<"new", m>>]
        /\ \A m \in Name \ {n} : dir'[<<"cur", m>>] = dir[<<"cur", m>>]
    BY <1>2, <1>4 DEF Put, IInv, TypeOK, Folder, Flushed
  <2>2. /\ disk' \in [Flushed \X Name -> SUBSET Inode]
        /\ disk'[<<"cur", n>>] = disk[<<"cur", n>>] \cup {i}
        /\ \A m \in Name : disk'[<<"new", m>>] = disk[<<"new", m>>]
        /\ \A m \in Name \ {n} : disk'[<<"cur", m>>] = disk[<<"cur", m>>]
    <3>1. <<"cur", n>> \in Flushed \X Name /\ disk[<<"cur", n>>] \cup {i} \in SUBSET Inode
      BY <1>2 DEF IInv, TypeOK, Flushed
    <3> QED
      BY <1>4, <3>1 DEF Put, IInv, TypeOK, Flushed
  <2>3. 0 \in disk[<<"cur", n>>]
    BY <1>2, <1>4 DEF IInv, FolderInv, Flushed
  <2>4. i \in DOMAIN file /\ file[i].name = n /\ file[i].text = "synced"
    BY <1>2, <1>4 DEF IInv, FolderInv, Flushed
  <2>5. Alone(p) /\ pc'[p] = "sync_cur" /\ op'[p] = op[p]
    BY <1>1, <1>4, GotoIs DEF IInv, Place
  <2>6. ProcessOK(p)'
    BY <1>1, <1>2, <1>4, <2>1, <2>5
    DEF ProcessOK, CommandOf, InodeOf, TmpOf, ArchiveOf, LetterOf, Publishing, Written, Writing,
        Moving, Delivered
  <2>7. ASSUME NEW q \in Pid \ {p}
        PROVE  InodeOf(q)' /\ TmpOf(q)' /\ ArchiveOf(q)' /\ LetterOf(q)' /\ Apart(p, q)' /\ Apart(q, p)'
    <3>1. /\ pc'[q] = pc[q] /\ op'[q] = op[q] /\ InodeOf(q) /\ TmpOf(q) /\ ArchiveOf(q) /\ LetterOf(q)
          /\ Apart(p, q) /\ Apart(q, p)
      BY <2>5 DEF Alone, IInv, ProcessInv, PairInv
    <3>2. Written(q) \/ Moving(q) => op[q].name \in Name
      BY NameAtHand
    <3>3. InodeOf(q)'
      BY <1>1, <3>1 DEF InodeOf, Written
    <3>4. TmpOf(q)'
      BY <2>1, <3>1, <3>2 DEF TmpOf, Writing, Written
    <3>5. ArchiveOf(q)'
      BY <1>4, <2>1, <2>2, <3>1, <3>2 DEF ArchiveOf, Moving
    <3>6. LetterOf(q)'
      <4>1. Delivered(q) => op[q].ino # 0
        BY <3>1 DEF InodeOf, Written, Delivered, IInv, TypeOK
      <4>2. CASE Delivered(q) /\ op[q].name = n
        <5>1. disk[<<"cur", n>>] # {op[q].ino}
          BY <2>3, <4>1, <4>2
        <5> QED
          BY <2>1, <2>2, <3>1, <3>2, <4>2, <5>1 DEF LetterOf, Delivered, Written
      <4>3. CASE Delivered(q) /\ op[q].name # n
        BY <2>1, <2>2, <3>1, <3>2, <4>3 DEF LetterOf, Delivered, Written
      <4>4. CASE ~Delivered(q)
        BY <3>1, <4>4 DEF LetterOf, Delivered
      <4> QED
        BY <4>2, <4>3, <4>4
    <3>7. Apart(p, q)' /\ Apart(q, p)'
      BY <1>1, <2>5, <3>1 DEF Apart, Writing, Early
    <3> QED
      BY <3>3, <3>4, <3>5, <3>6, <3>7
  <2>8. FolderInv'
    <3>1. ASSUME NEW f \in Flushed, NEW m \in Name
          PROVE  /\ dir'[<<f, m>>] \in disk'[<<f, m>>]
                 /\ \A j \in disk'[<<f, m>>] \ {0} :
                      j \in DOMAIN file /\ file[j].name = m /\ file[j].text = "synced"
      <4>1. /\ dir[<<f, m>>] \in disk[<<f, m>>]
            /\ \A j \in disk[<<f, m>>] \ {0} :
                 j \in DOMAIN file /\ file[j].name = m /\ file[j].text = "synced"
        BY DEF IInv, FolderInv
      <4>2. CASE f = "cur" /\ m = n
        BY <1>2, <2>4, <2>1, <2>2, <4>1, <4>2
      <4>3. CASE f = "new"
        BY <2>1, <2>2, <4>1, <4>3
      <4>4. CASE f = "cur" /\ m # n
        BY <2>1, <2>2, <4>1, <4>4
      <4> QED
        BY <4>2, <4>3, <4>4 DEF Flushed
    <3> QED
      BY <1>1, <3>1 DEF FolderInv
  <2>9. ConfirmedInv'
    <3>1. ASSUME NEW j \in confirmed, file[j].name \in Mail PROVE OnDisk(j)'
      <4>1. j # 0 /\ OnDisk(j) /\ file[j].name \in Name
        BY <3>1 DEF IInv, TypeOK, ConfirmedInv, Mail
      <4> QED
        BY <1>1, <2>2, <2>3, <4>1 DEF OnDisk
    <3> QED
      BY <1>1, <3>1 DEF IInv, ConfirmedInv
  <2>10. file' \in Seq(File) /\ Len(file') <= MaxFile
    BY <1>1 DEF IInv, TypeOK
  <2> QED
    BY <1>1, <2>1, <2>2, <2>5, <2>6, <2>7, <2>8, <2>9, <2>10, FolderStep
<1> QED
  BY <1>3, <1>4 DEF Link

LEMMA UnlinkStep ==
    ASSUME IInv, NEW p \in Pid, Unlink(p)
    PROVE  IInv'
<1> DEFINE n == op[p].name
<1>1. /\ pc[p] = "unlink" /\ ProcessOK(p) /\ UNCHANGED <<file, confirmed, crashes, lockLeft>>
  BY DEF Unlink, HistorySame, IInv, ProcessInv, ProcessOK
<1>2. n \in Name /\ op[p] \in Op
  BY <1>1, NameAtHand DEF Moving
<1>3. CASE Exit(p) /\ DirSame
  BY <1>1, <1>3, ExitStep DEF DirSame, IInv, TypeOK
<1>4. CASE /\ dir[<<"new", n>>] # 0 /\ Put("new", n, 0)
           /\ Goto(p, "sync_new") /\ UNCHANGED op
  <2>1. /\ dir' \in [Folder \X Name -> Inode] /\ dir'[<<"new", n>>] = 0
        /\ \A m \in Name : dir'[<<"tmp", m>>] = dir[<<"tmp", m>>] /\ dir'[<<"cur", m>>] = dir[<<"cur", m>>]
        /\ \A m \in Name \ {n} : dir'[<<"new", m>>] = dir[<<"new", m>>]
    BY <1>2, <1>4, MaildirBounds DEF Put, IInv, TypeOK, Folder, Flushed, Inode
  <2>2. /\ disk' \in [Flushed \X Name -> SUBSET Inode]
        /\ disk'[<<"new", n>>] = disk[<<"new", n>>] \cup {0}
        /\ \A m \in Name : disk'[<<"cur", m>>] = disk[<<"cur", m>>]
        /\ \A m \in Name \ {n} : disk'[<<"new", m>>] = disk[<<"new", m>>]
    <3>1. <<"new", n>> \in Flushed \X Name /\ disk[<<"new", n>>] \cup {0} \in SUBSET Inode
      BY <1>2, MaildirBounds DEF IInv, TypeOK, Flushed, Inode
    <3> QED
      BY <1>4, <3>1 DEF Put, IInv, TypeOK, Flushed
  \* A letter is on the disk in cur/ before its name in new/ goes.
  <2>3. n \in Mail => disk[<<"cur", n>>] = {dir[<<"new", n>>]}
    <3>1. n \in op[p].batch /\ op[p].kind # "say"
      BY <1>1 DEF ProcessOK, CommandOf, Moving, Publishing
    <3>2. n \in Mail => op[p].kind = "ack"
      BY <1>1, <1>2, <3>1 DEF ProcessOK, CommandOf, Op
    <3> QED
      BY <1>1, <1>4, <3>2 DEF ProcessOK, ArchiveOf, Moving
  <2>4. Alone(p) /\ pc'[p] = "sync_new" /\ op'[p] = op[p]
    BY <1>1, <1>4, GotoIs DEF IInv, Place
  <2>5. ProcessOK(p)'
    BY <1>1, <1>2, <1>4, <2>1, <2>4
    DEF ProcessOK, CommandOf, InodeOf, TmpOf, ArchiveOf, LetterOf, Publishing, Written, Writing,
        Moving, Delivered
  <2>6. ASSUME NEW q \in Pid \ {p}
        PROVE  InodeOf(q)' /\ TmpOf(q)' /\ ArchiveOf(q)' /\ LetterOf(q)' /\ Apart(p, q)' /\ Apart(q, p)'
    <3>1. /\ pc'[q] = pc[q] /\ op'[q] = op[q] /\ InodeOf(q) /\ TmpOf(q) /\ ArchiveOf(q) /\ LetterOf(q)
          /\ Apart(p, q) /\ Apart(q, p)
      BY <2>4 DEF Alone, IInv, ProcessInv, PairInv
    <3>2. Written(q) \/ Moving(q) => op[q].name \in Name
      BY NameAtHand
    <3>3. InodeOf(q)'
      BY <1>1, <3>1 DEF InodeOf, Written
    <3>4. TmpOf(q)'
      BY <2>1, <3>1, <3>2 DEF TmpOf, Writing, Written
    <3>5. ArchiveOf(q)'
      <4>1. CASE Moving(q) /\ op[q].name = n
        BY <2>1, <2>2, <3>1, <3>2, <4>1 DEF ArchiveOf, Moving
      <4>2. CASE Moving(q) /\ op[q].name # n
        <5>1. \A f \in Flushed : dir'[<<f, op[q].name>>] = dir[<<f, op[q].name>>]
          BY <2>1, <3>2, <4>2 DEF Flushed
        <5>2. disk'[<<"cur", op[q].name>>] = disk[<<"cur", op[q].name>>]
          BY <2>2, <3>2, <4>2
        <5> QED
          BY <3>1, <5>1, <5>2 DEF ArchiveOf, Moving, Flushed
      <4>3. CASE ~Moving(q)
        BY <3>1, <4>3 DEF ArchiveOf, Moving
      <4> QED
        BY <4>1, <4>2, <4>3
    <3>6. LetterOf(q)'
      BY <2>1, <2>2, <2>3, <3>1, <3>2 DEF LetterOf, Delivered, Written
    <3>7. Apart(p, q)' /\ Apart(q, p)'
      BY <1>1, <2>4, <3>1 DEF Apart, Writing, Early
    <3> QED
      BY <3>3, <3>4, <3>5, <3>6, <3>7
  <2>7. FolderInv'
    <3>1. ASSUME NEW f \in Flushed, NEW m \in Name
          PROVE  /\ dir'[<<f, m>>] \in disk'[<<f, m>>]
                 /\ \A j \in disk'[<<f, m>>] \ {0} :
                      j \in DOMAIN file /\ file[j].name = m /\ file[j].text = "synced"
      <4>1. /\ dir[<<f, m>>] \in disk[<<f, m>>]
            /\ \A j \in disk[<<f, m>>] \ {0} :
                 j \in DOMAIN file /\ file[j].name = m /\ file[j].text = "synced"
        BY DEF IInv, FolderInv
      <4>2. CASE f = "new" /\ m = n
        BY <1>2, <2>1, <2>2, <4>1, <4>2
      <4>3. CASE f = "cur"
        BY <2>1, <2>2, <4>1, <4>3
      <4>4. CASE f = "new" /\ m # n
        BY <2>1, <2>2, <4>1, <4>4
      <4> QED
        BY <4>2, <4>3, <4>4 DEF Flushed
    <3> QED
      BY <1>1, <3>1 DEF FolderInv
  <2>8. ConfirmedInv'
    <3>1. ASSUME NEW j \in confirmed, file[j].name \in Mail PROVE OnDisk(j)'
      <4>1. OnDisk(j) /\ file[j].name \in Name
        BY <3>1 DEF IInv, ConfirmedInv, Mail
      <4>2. disk[<<"new", n>>] = {j} => dir[<<"new", n>>] = j
        BY <1>2 DEF IInv, FolderInv, Flushed
      <4> QED
        BY <1>1, <2>2, <2>3, <3>1, <4>1, <4>2 DEF OnDisk
    <3> QED
      BY <1>1, <3>1 DEF IInv, ConfirmedInv
  <2>9. file' \in Seq(File) /\ Len(file') <= MaxFile
    BY <1>1 DEF IInv, TypeOK
  <2> QED
    BY <1>1, <2>1, <2>2, <2>4, <2>5, <2>6, <2>7, <2>8, <2>9, FolderStep
<1> QED
  BY <1>3, <1>4 DEF Unlink

-----------------------------------------------------------------------------
(* The host loses power *)

LEMMA LossStep ==
    ASSUME IInv, PowerLoss
    PROVE  IInv'
<1>1. /\ pc' = [p \in Pid |-> "idle"] /\ op' = [p \in Pid |-> NoOp] /\ UNCHANGED confirmed
      /\ disk' = [e \in Flushed \X Name |-> {dir'[e]}]
  BY DEF PowerLoss
<1>2. /\ file' \in Seq(File) /\ Len(file') = Len(file) /\ DOMAIN file \subseteq DOMAIN file'
      /\ \A j \in DOMAIN file :
            /\ file'[j].name = file[j].name
            /\ file[j].text = "synced" => file'[j].text = "synced"
  <2> DEFINE lost(j) == IF file[j].text = "cached" THEN [file[j] EXCEPT !.text = "empty"] ELSE file[j]
  <2>1. file \in Seq(File) /\ DOMAIN file = 1..Len(file) /\ Len(file) \in Nat
    BY DEF IInv, TypeOK
  <2>2. ASSUME NEW j \in DOMAIN file
        PROVE  /\ lost(j) \in File /\ lost(j).name = file[j].name
               /\ file[j].text = "synced" => lost(j).text = "synced"
    <3>1. file[j] \in File
      BY <2>1
    <3> QED
      BY <3>1 DEF File
  <2>3. file' = [j \in DOMAIN file |-> lost(j)]
    BY DEF PowerLoss
  <2> HIDE DEF lost
  <2>4. file' \in Seq(File) /\ Len(file') = Len(file) /\ DOMAIN file' = 1..Len(file)
    BY <2>1, <2>2, <2>3
  <2> QED
    BY <2>1, <2>2, <2>3, <2>4
<1>3. dir' \in [Folder \X Name -> Inode] /\ \A e \in Flushed \X Name : dir'[e] \in disk[e]
  <2> DEFINE open == {e \in Folder \X Name : AfterLoss(e) # {dir[e]}}
  <2>1. PICK d \in [open -> UNION {AfterLoss(e) : e \in open}] :
          /\ \A e \in open : d[e] \in AfterLoss(e)
          /\ dir' = [e \in Folder \X Name |-> IF e \in open THEN d[e] ELSE dir[e]]
    BY DEF PowerLoss
  <2>2. ASSUME NEW e \in Folder \X Name PROVE dir'[e] \in AfterLoss(e)
    BY <2>1
  <2>3. ASSUME NEW e \in Flushed \X Name
        PROVE  AfterLoss(e) = disk[e] /\ disk[e] \in SUBSET Inode /\ e \in Folder \X Name
    BY DEF AfterLoss, IInv, TypeOK, Folder, Flushed
  <2>4. ASSUME NEW e \in Folder \X Name, e[1] = "tmp" PROVE AfterLoss(e) \in SUBSET Inode
    <3>1. file \in Seq(File) /\ Len(file) <= MaxFile
      BY DEF IInv, TypeOK
    <3> QED
      BY <2>4, <3>1, MaildirBounds DEF AfterLoss, Inode
  <2>5. ASSUME NEW e \in Folder \X Name PROVE dir'[e] \in Inode
    <3>1. e[1] = "tmp" \/ e \in Flushed \X Name
      BY DEF Folder
    <3> QED
      BY <2>2, <2>3, <2>4, <3>1
  <2>6. dir' = [e \in Folder \X Name |-> dir'[e]]
    BY <2>1
  <2> HIDE DEF open
  <2> QED
    BY <2>2, <2>3, <2>5, <2>6
<1>4. TypeOK'
  <2>1. crashes' \in 0..MaxCrash /\ lockLeft' \in BOOLEAN
    <3>1. crashes \in 0..MaxCrash /\ crashes < MaxCrash /\ crashes' = crashes + 1
      BY DEF IInv, TypeOK, PowerLoss
    <3>2. lockLeft \in BOOLEAN /\ lockLeft' \in {FALSE, LedgerBusy}
      BY DEF IInv, TypeOK, PowerLoss
    <3>3. LedgerBusy \in BOOLEAN
      BY Zenon DEF LedgerBusy
    <3>4. crashes' \in 0..MaxCrash
      BY <3>1, MaildirBounds
    <3> QED
      BY <3>2, <3>3, <3>4
  <2>2. disk' \in [Flushed \X Name -> SUBSET Inode]
    BY <1>1, <1>3 DEF Folder
  <2>3. confirmed' \subseteq DOMAIN file' /\ Len(file') <= MaxFile
    BY <1>1, <1>2 DEF IInv, TypeOK
  <2> QED
    BY <1>1, <1>2, <1>3, <2>1, <2>2, <2>3 DEF TypeOK, Place
<1>5. ProcessInv' /\ PairInv'
  BY <1>1 DEF ProcessInv, PairInv, CommandOf, InodeOf, TmpOf, ArchiveOf, LetterOf, Apart, Written, Writing,
              Moving, Delivered, Early
<1>6. FolderInv'
  <2>1. ASSUME NEW f \in Flushed, NEW m \in Name
        PROVE  /\ dir'[<<f, m>>] \in disk'[<<f, m>>]
               /\ \A j \in disk'[<<f, m>>] \ {0} :
                    j \in DOMAIN file' /\ file'[j].name = m /\ file'[j].text = "synced"
    <3>1. /\ disk'[<<f, m>>] = {dir'[<<f, m>>]} /\ dir'[<<f, m>>] \in disk[<<f, m>>]
      BY <1>1, <1>3
    <3>2. \A j \in disk[<<f, m>>] \ {0} :
            j \in DOMAIN file /\ file[j].name = m /\ file[j].text = "synced"
      BY DEF IInv, FolderInv
    <3> QED
      BY <1>2, <3>1, <3>2
  <2> QED
    BY <2>1 DEF FolderInv
<1>7. ConfirmedInv'
  <2>1. ASSUME NEW j \in confirmed, file[j].name \in Mail PROVE OnDisk(j)'
    <3>1. OnDisk(j) /\ file[j].name \in Name /\ j \in DOMAIN file
      BY <2>1 DEF IInv, TypeOK, ConfirmedInv, Mail
    <3> QED
      BY <1>1, <1>2, <1>3, <3>1 DEF OnDisk, Flushed
  <2>2. \A j \in confirmed : j \in DOMAIN file /\ file[j].text = "synced"
    BY DEF IInv, TypeOK, ConfirmedInv
  <2> QED
    BY <1>1, <1>2, <2>1, <2>2 DEF ConfirmedInv
<1> QED
  BY <1>4, <1>5, <1>6, <1>7 DEF IInv

-----------------------------------------------------------------------------
(* The theorems *)

LEMMA InitHolds ==
    ASSUME Init
    PROVE  IInv
<1>1. TypeOK
  <2>1. /\ pc \in [Pid -> Place] /\ op \in [Pid -> Op \cup {NoOp}]
        /\ \A p \in Pid : op[p] = NoOp <=> pc[p] = "idle"
    BY DEF Init, Place
  <2>2. file \in Seq(File) /\ Len(file) <= MaxFile /\ confirmed \subseteq DOMAIN file
    BY MaildirBounds DEF Init
  <2>3. 0 \in Inode
    BY MaildirBounds DEF Inode
  <2>4. dir \in [Folder \X Name -> Inode] /\ disk \in [Flushed \X Name -> SUBSET Inode]
    BY <2>3 DEF Init
  <2>5. lockLeft \in BOOLEAN
    BY DEF Init
  <2>6. crashes \in 0..MaxCrash
    BY MaildirBounds DEF Init
  <2> QED
    BY <2>1, <2>2, <2>4, <2>5, <2>6 DEF TypeOK
<1>2. ProcessInv /\ PairInv
  BY DEF Init, ProcessInv, PairInv, CommandOf, InodeOf, TmpOf, ArchiveOf, LetterOf, Apart, Written, Writing,
         Moving, Delivered, Early
<1>3. FolderInv /\ ConfirmedInv
  BY DEF Init, FolderInv, ConfirmedInv, Folder
<1> QED
  BY <1>1, <1>2, <1>3 DEF IInv

LEMMA StepHolds ==
    ASSUME IInv, [Next]_vars
    PROVE  IInv'
<1>1. CASE UNCHANGED vars
  <2>1. TypeOK' /\ FolderInv' /\ ConfirmedInv'
    BY <1>1 DEF vars, IInv, TypeOK, FolderInv, ConfirmedInv, OnDisk
  <2>2. ASSUME NEW p \in Pid PROVE ProcessOK(p)'
    <3>1. ProcessOK(p)
      BY DEF IInv, ProcessInv, ProcessOK
    <3> QED
      BY <1>1, <3>1 DEF vars, ProcessOK, CommandOf, InodeOf, TmpOf, ArchiveOf, LetterOf, Publishing, Written,
                        Writing, Moving, Delivered
  <2>3. PairInv'
    BY <1>1 DEF vars, IInv, PairInv, Apart, Writing, Early
  <2> QED
    BY <2>1, <2>2, <2>3 DEF IInv, ProcessInv, ProcessOK
<1>2. ASSUME NEW p \in Pid, Say(p) PROVE IInv'
  <2>1. CASE LedgerGivesUp(p)
    BY <2>1, SentStep DEF LedgerGivesUp, DirSame
  <2>2. CASE LedgerAppend(p)
    BY <2>2, SentStep DEF LedgerAppend, DirSame
  <2> QED
    BY <1>2, <2>1, <2>2, StartSayStep, CreateStep, WriteStep, CheckStep, RenameStep, SyncStep,
       LedgerLockStep DEF Say
<1>3. ASSUME NEW p \in Pid, Ack(p) PROVE IInv'
  BY <1>3, StartAckStep, NextGroupStep, DoneStep DEF Ack
<1>4. ASSUME NEW p \in Pid, Archive(p) PROVE IInv'
  BY <1>4, SourceStep, DoneStep, DestStep, LinkStep, SyncStep, UnlinkStep, SyncNewStep DEF Archive
<1>5. ASSUME NEW p \in Pid, Step(p) \/ Fault(p) PROVE IInv'
  BY <1>2, <1>3, <1>4, <1>5, StartDrainStep, FaultStep DEF Step
<1> QED
  BY <1>1, <1>5, LossStep DEF Next

\* The invariant of the mailboxes.
THEOREM Invariant == Spec => []IInv
BY InitHolds, StepHolds, PTL DEF Spec

\* The state has its type at every step of every command, failure and power loss.
THEOREM TypeCorrect == Spec => []TypeOK
BY Invariant, PTL DEF IInv

\* A reader never finds a message that is not all there, not even after a power loss
\* (publish_maildir flushes the file before it is renamed into new/).
THEOREM WholeMessages == Spec => []OnlyWholeMessages
<1>1. IInv => OnlyWholeMessages
  BY DEF IInv, FolderInv, OnlyWholeMessages, Flushed
<1> QED
  BY <1>1, Invariant, PTL

\* A message that rt-say reported as sent is never lost: whoever archives, fails, is killed
\* or loses power, its name in new/ or in cur/ and its text are on the disk.
THEOREM SentSurvives == Spec => []SentMailSurvives
<1>1. IInv => SentMailSurvives
  <2>1. ASSUME IInv, NEW i \in confirmed, ~file[i].name.quiet
        PROVE  OnDisk(i) /\ file[i].text = "synced"
    <3>1. file \in Seq(File) /\ i \in DOMAIN file
      BY <2>1 DEF IInv, TypeOK
    <3>2. file[i] \in File
      BY <3>1
    <3>3. file[i].name \in Name
      BY <3>2 DEF File
    <3> QED
      BY <2>1, <3>3 DEF IInv, ConfirmedInv, Mail
  <2> QED
    BY <2>1 DEF SentMailSurvives
<1> QED
  BY <1>1, Invariant, PTL

\* A name in new/ or cur/ never comes to stand for another message while it is there, for
\* any number of senders that share an id and any number of archives.
THEOREM NothingOverwritten == Spec => NeverOverwritten
<1> DEFINE Kept == \A n \in Name :
             /\ dir[<<"new", n>>] # 0 => dir'[<<"new", n>>] \in {0, dir[<<"new", n>>]}
             /\ dir[<<"cur", n>>] # 0 => dir'[<<"cur", n>>] = dir[<<"cur", n>>]
<1>1. ASSUME IInv, [Next]_vars PROVE [PowerLost \/ Kept]_vars
  <2>1. /\ DOMAIN dir = Folder \X Name
        /\ \A f \in Folder, n \in Name : <<f, n>> \in DOMAIN dir
    BY <1>1 DEF IInv, TypeOK
  <2>2. CASE UNCHANGED dir
    BY <2>2
  <2>3. ASSUME NEW n, NEW i, dir' = [dir EXCEPT ![<<"tmp", n>>] = i] PROVE Kept
    BY <2>1, <2>3 DEF Folder, Flushed
  <2>4. ASSUME NEW p \in Pid, Create(p) \/ Check(p) \/ PublishFault(p) PROVE Kept
    BY <2>2, <2>3, <2>4 DEF Create, Check, PublishFault, DropTmp, DirSame
  <2>5. ASSUME NEW p \in Pid, Rename(p) PROVE Kept
    <3>1. dir[<<"new", op[p].name>>] = 0
      BY <1>1, <2>5 DEF Rename, IInv, ProcessInv, TmpOf
    <3> DEFINE d == [dir EXCEPT ![<<"tmp", op[p].name>>] = 0]
    <3>2. /\ DOMAIN d = DOMAIN dir
          /\ \A f \in Flushed, n \in Name : d[<<f, n>>] = dir[<<f, n>>]
      BY <2>1 DEF Folder, Flushed
    <3>3. dir' = [d EXCEPT ![<<"new", op[p].name>>] = op[p].ino]
      BY <2>5 DEF Rename
    <3> HIDE DEF d
    <3> QED
      BY <2>1, <3>1, <3>2, <3>3 DEF Folder, Flushed
  <2>6. ASSUME NEW p \in Pid, Link(p) \/ Unlink(p) PROVE Kept
    <3> DEFINE m == op[p].name
    <3>1. \/ UNCHANGED dir
          \/ dir[<<"cur", m>>] = 0 /\ dir' = [dir EXCEPT ![<<"cur", m>>] = dir[<<"new", m>>]]
          \/ dir' = [dir EXCEPT ![<<"new", m>>] = 0]
      BY <2>6 DEF Link, Unlink, Put, DirSame
    <3> HIDE DEF m
    <3>2. CASE dir[<<"cur", m>>] = 0 /\ dir' = [dir EXCEPT ![<<"cur", m>>] = dir[<<"new", m>>]]
      BY <2>1, <3>2 DEF Folder, Flushed
    <3>3. CASE dir' = [dir EXCEPT ![<<"new", m>>] = 0]
      BY <2>1, <3>3 DEF Folder, Flushed
    <3> QED
      BY <2>2, <3>1, <3>2, <3>3
  <2>7. ASSUME PowerLoss PROVE PowerLost
    <3>1. crashes \in 0..MaxCrash /\ crashes' = crashes + 1
      BY <1>1, <2>7 DEF PowerLoss, IInv, TypeOK
    <3>2. PowerLost
      BY <3>1, MaildirBounds DEF PowerLost
    <3> QED
      BY <3>2
  <2>8. ASSUME NEW p \in Pid, Step(p) \/ Fault(p) PROVE UNCHANGED dir \/ Kept
    <3>1. CASE Say(p)
      BY <2>4, <2>5, <3>1 DEF Say, StartSay, Write, Sync, LedgerLock, LedgerGivesUp, LedgerAppend, DirSame
    <3>2. CASE Ack(p) \/ StartDrain(p)
      BY <3>2 DEF Ack, StartAck, NextGroup, AckDone, StartDrain, DirSame
    <3>3. CASE Archive(p)
      BY <2>6, <3>3 DEF Archive, Source, BatchDone, Dest, SyncCur, SyncNew, DirSame
    <3>4. CASE Fault(p)
      BY <2>4, <3>4 DEF Fault, ArchiveFault, Kill, KillParent, DirSame
    <3> QED
      BY <2>8, <3>1, <3>2, <3>3, <3>4 DEF Step
  <2>9. CASE UNCHANGED vars
    BY <2>9 DEF vars
  <2> QED
    BY <1>1, <2>2, <2>7, <2>8, <2>9 DEF Next
<1> QED
  BY <1>1, Invariant, PTL DEF Spec, NeverOverwritten

=============================================================================
