----------------------------- MODULE MailboxProofs -----------------------------
(***************************************************************************)
(* More proofs about Maildir, on top of the invariant of MaildirProofs:    *)
(* what leaves new/ was acknowledged to its sender, a rt-ack that ends     *)
(* well leaves nothing of its command line there, and the files, renames,  *)
(* links and fsyncs of rt-say and rt-ack are the posts, reports,           *)
(* acknowledgements and archives of Mailbox.                               *)
(***************************************************************************)
EXTENDS MaildirProofs

\* The acknowledgement that rt-ack publishes is for the sender of every letter at hand.
AddressOf(p) ==
    op[p].kind = "ack" /\ Publishing(p) =>
        op[p].name.quiet /\ \A n \in op[p].batch : n.from = op[p].name.to

\* Its file names them all, and it is younger than each: while rt-ack runs nobody
\* writes a letter of a name on its command line.
AnswerOf(p) ==
    op[p].kind = "ack" /\ Written(p) =>
        /\ file[op[p].ino].refs = op[p].batch
        /\ \A i \in DOMAIN file : file[i].name \in op[p].batch => i < op[p].ino

\* A confirmed acknowledgement of n, younger than every letter of that name.
Acked(n) ==
    \E j \in confirmed :
        /\ Answers(file[j], n)
        /\ \A i \in DOMAIN file : file[i].name = n => i < j

\* rt-ack archives what it has acknowledged.
AckedOf(p) ==
    op[p].kind = "ack" /\ (pc[p] = "source" \/ Moving(p)) => \A n \in op[p].batch : Acked(n)

\* What is no more to be done by rt-ack is out of new/.
EmptiedOf(p) ==
    op[p].kind = "ack" =>
        /\ \A n \in op[p].refs \ (op[p].todo \cup op[p].batch) : dir[<<"new", n>>] = 0
        /\ pc[p] = "sync_new" => dir[<<"new", op[p].name>>] = 0
        /\ pc[p] = "group" => op[p].batch = {}

\* A file that is being written has no name outside tmp/.
UnseenOf(p) ==
    Writing(p) => \A f \in Flushed : op[p].ino \notin disk[<<f, op[p].name>>]

AckInv ==
    \A p \in Pid : AddressOf(p) /\ AnswerOf(p) /\ AckedOf(p) /\ EmptiedOf(p) /\ UnseenOf(p)

MInv == IInv /\ AckInv /\ ArchivedWasAcked

ProcessAck(p) == AddressOf(p) /\ AnswerOf(p) /\ AckedOf(p) /\ EmptiedOf(p) /\ UnseenOf(p)

-----------------------------------------------------------------------------
(* What a step of a process does to the mailboxes *)

\* Files are only added, by rt-say and of its message; only its rename gives a free name
\* in new/ away, and only a link adds to cur/.
Gentle(p) ==
    /\ Alone(p)
    /\ DOMAIN file \subseteq DOMAIN file'
    /\ \A i \in DOMAIN file : file'[i].name = file[i].name /\ file'[i].refs = file[i].refs
    /\ \A i \in DOMAIN file' \ DOMAIN file : pc[p] = "create" /\ file'[i].name = op[p].name
    /\ confirmed \subseteq confirmed'
    /\ \A n \in Name :
        /\ dir[<<"new", n>>] = 0 => dir'[<<"new", n>>] = 0 \/ (pc[p] = "rename" /\ n = op[p].name)
        /\ \A i \in disk'[<<"new", n>>] \ {0} :
            i \in disk[<<"new", n>>] \/ (pc[p] = "rename" /\ n = op[p].name /\ i = op[p].ino)
        /\ \A i \in disk'[<<"cur", n>>] \ {0} :
            i \in disk[<<"cur", n>>] \/ (pc[p] = "link" /\ n = op[p].name /\ i = dir[<<"new", n>>])

\* The folders and the texts of the files aside.
Quiet == /\ UNCHANGED <<file, dir>>
         /\ \A e \in Flushed \X Name : disk'[e] \subseteq disk[e]

LEMMA QuietIs ==
    ASSUME NEW p \in Pid, Alone(p), Quiet, confirmed \subseteq confirmed'
    PROVE  Gentle(p)
BY DEF Gentle, Quiet, Flushed

LEMMA FsyncQuiet ==
    ASSUME IInv, NEW f \in Flushed, NEW a \in Agent, Fsync(f, a), UNCHANGED <<file, dir>>
    PROVE  Quiet
<1>1. \A e \in Flushed \X Name : dir[e] \in disk[e]
  BY DEF IInv, FolderInv
<1> QED
  BY <1>1 DEF Fsync, Quiet

LEMMA AllAlone ==
    ASSUME IInv, IInv', NEW p \in Pid, Step(p) \/ Fault(p)
    PROVE  Alone(p)
<1>1. /\ \A q \in Pid \ {p} : pc'[q] = pc[q]
      /\ pc \in [Pid -> Place] /\ op \in [Pid -> Op \cup {NoOp}]
  BY DEF IInv, TypeOK, Step, Fault, Say, Ack, Archive, StartDrain, StartSay, Create, Write, Check, Rename,
     Sync, LedgerLock, LedgerGivesUp, LedgerAppend, StartAck, NextGroup, AckDone, Source,
     BatchDone, Dest, Link, SyncCur, Unlink, SyncNew, PublishFault, ArchiveFault, Kill,
     KillParent, Sent, Goto, Exit
<1>2. CASE Say(p) \/ Fault(p)
  <2>1. \A q \in Pid \ {p} : op'[q] = op[q]
    BY <1>1, <1>2 DEF Fault, Say, StartSay, Create, Write, Check, Rename,
       Sync, LedgerLock, LedgerGivesUp, LedgerAppend, PublishFault, ArchiveFault, Kill,
       KillParent, Sent, Exit
  <2> QED
    BY <1>1, <2>1 DEF IInv, TypeOK, Alone
<1>3. CASE Ack(p) \/ Archive(p) \/ StartDrain(p)
  <2>1. \A q \in Pid \ {p} : op'[q] = op[q]
    BY <1>1, <1>3 DEF Ack, Archive, StartDrain, StartAck, NextGroup, AckDone, Source,
       BatchDone, Dest, Link, SyncCur, Unlink, SyncNew, Exit
  <2> QED
    BY <1>1, <2>1 DEF IInv, TypeOK, Alone
<1> QED
  BY <1>2, <1>3 DEF Step

LEMMA StepIsGentle ==
    ASSUME IInv, IInv', NEW p \in Pid, Step(p) \/ Fault(p)
    PROVE  Gentle(p)
<1> DEFINE n == op[p].name
<1>1. Alone(p) /\ confirmed \subseteq confirmed'
  <2>1. confirmed \subseteq confirmed'
    BY DEF Step, Fault, Say, Ack, Archive, StartDrain, StartSay, Create, Write, Check, Rename, Sync,
       LedgerLock, LedgerGivesUp, LedgerAppend, StartAck, NextGroup, AckDone, Source, BatchDone,
       Dest, Link, SyncCur, Unlink, SyncNew, PublishFault, ArchiveFault, Kill, KillParent,
       Sent, HistorySame
  <2> QED
    BY <2>1, AllAlone
<1>2. /\ \A e \in Folder \X Name : e \in DOMAIN dir
      /\ \A e \in Flushed \X Name : e \in DOMAIN disk /\ dir[e] \in disk[e]
      /\ \A f \in Flushed, m \in Name : <<f, m>> \in DOMAIN dir /\ <<f, m>> \in DOMAIN disk
      /\ file \in Seq(File) /\ file' \in Seq(File)
  BY DEF IInv, TypeOK, FolderInv, Folder, Flushed
<1>3. CASE Create(p)
  <2>1. CASE UNCHANGED file /\ DirSame
    BY <1>1, <2>1, QuietIs DEF DirSame, Quiet
  <2>2. CASE /\ file' = Append(file, [name |-> n, refs |-> op[p].batch, text |-> "empty"])
             /\ dir' = [dir EXCEPT ![<<"tmp", n>>] = Len(file')] /\ UNCHANGED disk
    <3>1. /\ DOMAIN file \subseteq DOMAIN file' /\ \A i \in DOMAIN file : file'[i] = file[i]
          /\ \A i \in DOMAIN file' \ DOMAIN file : file'[i].name = n
      BY <1>2, <2>2
    <3>2. \A m \in Name : dir'[<<"new", m>>] = dir[<<"new", m>>]
      BY <1>2, <2>2 DEF Flushed
    <3> QED
      BY <1>1, <1>3, <2>2, <3>1, <3>2 DEF Gentle, Create
  <2> QED
    BY <1>3, <2>1, <2>2 DEF Create
<1>4. CASE Write(p)
  <2>1. /\ DOMAIN file' = DOMAIN file
        /\ \A i \in DOMAIN file : file'[i].name = file[i].name /\ file'[i].refs = file[i].refs
    BY <1>2, <1>4 DEF Write, File
  <2>2. UNCHANGED <<dir, disk>>
    BY <1>4 DEF Write, DirSame
  <2> QED
    BY <1>1, <2>1, <2>2 DEF Gentle
<1>5. CASE Check(p) \/ PublishFault(p)
  <2>1. UNCHANGED file /\ (DirSame \/ DropTmp(n))
    BY <1>5 DEF Check, PublishFault
  <2>2. UNCHANGED <<file, disk>> /\ \A m \in Name : dir'[<<"new", m>>] = dir[<<"new", m>>]
    BY <1>2, <2>1 DEF DirSame, DropTmp, Flushed
  <2> QED
    BY <1>1, <2>2 DEF Gentle
<1>6. CASE Rename(p)
  <2> DEFINE d == [dir EXCEPT ![<<"tmp", n>>] = 0]
  <2>1. /\ dir' = [d EXCEPT ![<<"new", n>>] = op[p].ino] /\ pc[p] = "rename" /\ UNCHANGED file
        /\ disk' = [disk EXCEPT ![<<"new", n>>] = @ \cup {op[p].ino}]
    BY <1>6 DEF Rename
  <2>2. DOMAIN d = DOMAIN dir /\ \A m \in Name : d[<<"new", m>>] = dir[<<"new", m>>]
    BY <1>2 DEF Flushed
  <2> HIDE DEF d
  <2>3. \A m \in Name : m # n => dir'[<<"new", m>>] = dir[<<"new", m>>]
    BY <1>2, <2>1, <2>2 DEF Flushed
  <2>4. \A m \in Name : /\ disk'[<<"new", m>>] \subseteq disk[<<"new", m>>] \cup {op[p].ino}
                        /\ m # n => disk'[<<"new", m>>] = disk[<<"new", m>>]
                        /\ disk'[<<"cur", m>>] = disk[<<"cur", m>>]
    BY <1>2, <2>1 DEF Flushed
  <2> HIDE DEF n
  <2> QED
    BY <1>1, <2>1, <2>3, <2>4 DEF Gentle, n
<1>7. CASE Link(p)
  <2>1. UNCHANGED file /\ pc[p] = "link" /\ (DirSame \/ Put("cur", n, dir[<<"new", n>>]))
    BY <1>7 DEF Link
  <2>2. CASE DirSame
    BY <1>1, <2>1, <2>2, QuietIs DEF DirSame, Quiet
  <2>3. CASE Put("cur", n, dir[<<"new", n>>])
    <3> DEFINE j == dir[<<"new", n>>]
    <3>1. /\ \A m \in Name : dir'[<<"new", m>>] = dir[<<"new", m>>]
          /\ \A m \in Name : disk'[<<"new", m>>] = disk[<<"new", m>>]
          /\ \A m \in Name : /\ disk'[<<"cur", m>>] \subseteq disk[<<"cur", m>>] \cup {j}
                             /\ m # n => disk'[<<"cur", m>>] = disk[<<"cur", m>>]
      <4> HIDE DEF j
      <4>1. dir' = [dir EXCEPT ![<<"cur", n>>] = j] /\ disk' = [disk EXCEPT ![<<"cur", n>>] = @ \cup {j}]
        BY <2>3 DEF Put, j
      <4> QED
        BY <1>2, <4>1 DEF Flushed
    <3> QED
      BY <1>1, <2>1, <3>1 DEF Gentle
  <2> QED
    BY <2>1, <2>2, <2>3
<1>8. CASE Unlink(p)
  <2>1. UNCHANGED file /\ (DirSame \/ Put("new", n, 0))
    BY <1>8 DEF Unlink
  <2>2. /\ UNCHANGED file
        /\ \A m \in Name : dir[<<"new", m>>] = 0 => dir'[<<"new", m>>] = 0
        /\ \A m \in Name : /\ disk'[<<"new", m>>] \subseteq disk[<<"new", m>>] \cup {0}
                           /\ disk'[<<"cur", m>>] = disk[<<"cur", m>>]
    BY <1>2, <2>1 DEF DirSame, Put, Flushed
  <2> QED
    BY <1>1, <2>2 DEF Gentle
<1>9. CASE Sync(p) \/ SyncCur(p) \/ SyncNew(p)
  <2>1. op[p] \in Op /\ n \in Name
    BY <1>9, NameAtHand DEF Sync, SyncCur, SyncNew, Publishing, Moving
  <2>2. n.to \in Agent
    BY <2>1 DEF Name
  <2>3. Quiet
    BY <1>9, <2>2, FsyncQuiet DEF Sync, SyncCur, SyncNew, Flushed
  <2> QED
    BY <1>1, <2>3, QuietIs
<1>10. CASE \/ StartSay(p) \/ LedgerLock(p) \/ LedgerGivesUp(p) \/ LedgerAppend(p) \/ Ack(p)
            \/ Source(p) \/ BatchDone(p) \/ Dest(p) \/ StartDrain(p)
            \/ ArchiveFault(p) \/ Kill(p) \/ KillParent(p)
  <2>1. UNCHANGED file /\ DirSame
    BY <1>10 DEF StartSay, LedgerLock, LedgerGivesUp, LedgerAppend, Ack, StartAck, NextGroup, AckDone,
       Source, BatchDone, Dest, StartDrain, ArchiveFault, Kill, KillParent
  <2> QED
    BY <1>1, <2>1, QuietIs DEF DirSame, Quiet
<1> QED
  BY <1>3, <1>4, <1>5, <1>6, <1>7, <1>8, <1>9, <1>10 DEF Step, Fault, Say, Archive

-----------------------------------------------------------------------------
(* The invariant is kept *)

LEMMA AckedStays ==
    ASSUME IInv, IInv', NEW p \in Pid, Gentle(p), NEW n \in Mail, Acked(n),
           pc[p] = "create" => op[p].name # n
    PROVE  Acked(n)'
<1>1. PICK j \in confirmed : /\ Answers(file[j], n)
                            /\ \A i \in DOMAIN file : file[i].name = n => i < j
  BY DEF Acked
<1>2. j \in confirmed' /\ j \in DOMAIN file
  BY DEF Gentle, IInv, TypeOK
<1>3. Answers(file'[j], n)
  BY <1>1, <1>2 DEF Answers, Gentle
<1>4. ASSUME NEW i \in DOMAIN file', file'[i].name = n PROVE i < j
  BY <1>1, <1>4 DEF Gentle
<1> QED
  BY <1>2, <1>3, <1>4 DEF Acked

\* A process whose command goes on as it is minds no step of another one.
LEMMA Onward ==
    ASSUME IInv, IInv', NEW p \in Pid, Gentle(p), NEW q \in Pid, ProcessAck(q),
           op'[q] = op[q], pc[q] # "idle",
           Publishing(q)' => Publishing(q), Written(q)' => Written(q), Writing(q)' => Writing(q),
           pc'[q] = "source" \/ Moving(q)' => pc[q] = "source" \/ Moving(q),
           pc'[q] \in {"sync_new", "group"} => pc'[q] = pc[q],
           op[q].kind = "ack" /\ pc[p] \in {"create", "rename"} => op[p].name \notin op[q].refs,
           Writing(q)' /\ pc[p] = "rename" => op[p].name # op[q].name
    PROVE  ProcessAck(q)'
<1>1. /\ op[q] \in Op /\ op[q].refs \subseteq Mail /\ Mail \subseteq Name
      /\ op[q].kind = "ack" => op[q].batch \subseteq op[q].refs
      /\ Moving(q) => op[q].name \in op[q].batch
  BY OpIs DEF IInv, ProcessInv, CommandOf, Op, Mail
<1>2. AddressOf(q)'
  BY DEF ProcessAck, AddressOf, Publishing
<1>3. AnswerOf(q)'
  <2> SUFFICES ASSUME op[q].kind = "ack", Written(q)
               PROVE  /\ file'[op[q].ino].refs = op[q].batch
                      /\ \A i \in DOMAIN file' : file'[i].name \in op[q].batch => i < op[q].ino
    BY DEF AnswerOf, Written
  <2>1. op[q].ino \in DOMAIN file
    BY DEF IInv, ProcessInv, InodeOf
  <2>2. file'[op[q].ino].refs = op[q].batch
    BY <2>1 DEF ProcessAck, AnswerOf, Gentle
  <2>3. ASSUME NEW i \in DOMAIN file', file'[i].name \in op[q].batch PROVE i < op[q].ino
    BY <1>1, <2>3 DEF ProcessAck, AnswerOf, Gentle
  <2> QED
    BY <2>2, <2>3
<1>4. AckedOf(q)'
  <2> SUFFICES ASSUME op[q].kind = "ack", pc[q] = "source" \/ Moving(q), NEW n \in op[q].batch
               PROVE  Acked(n)'
    BY DEF AckedOf, Moving
  <2>1. Acked(n) /\ n \in Mail /\ (pc[p] = "create" => op[p].name # n)
    BY <1>1 DEF ProcessAck, AckedOf
  <2> QED
    BY <2>1, AckedStays
<1>5. EmptiedOf(q)'
  <2> SUFFICES ASSUME op[q].kind = "ack" PROVE EmptiedOf(q)'
    BY DEF EmptiedOf
  <2>1. ASSUME NEW n \in op[q].refs, dir[<<"new", n>>] = 0 PROVE dir'[<<"new", n>>] = 0
    BY <1>1, <2>1 DEF Gentle
  <2>2. pc'[q] = "sync_new" => op[q].name \in op[q].refs
    BY <1>1 DEF Moving
  <2> QED
    BY <2>1, <2>2 DEF ProcessAck, EmptiedOf
<1>6. UnseenOf(q)'
  <2> SUFFICES ASSUME Writing(q)', Writing(q), NEW f \in Flushed
               PROVE  op[q].ino \notin disk'[<<f, op[q].name>>]
    BY DEF UnseenOf, Writing
  <2>1. op[q].name \in Name /\ op[q].ino \in DOMAIN file /\ op[q].ino # 0
    <3>1. op[q].name \in Name
      BY NameAtHand DEF Writing, Written
    <3>2. op[q].ino \in DOMAIN file /\ file \in Seq(File)
      BY DEF IInv, ProcessInv, InodeOf, Writing, Written, TypeOK
    <3> QED
      BY <3>1, <3>2
  <2>2. \A g \in Flushed : op[q].ino \notin disk[<<g, op[q].name>>]
    BY DEF ProcessAck, UnseenOf
  <2>3. dir[<<"new", op[q].name>>] # op[q].ino
    BY <2>1, <2>2 DEF IInv, FolderInv, Flushed
  <2> QED
    BY <2>1, <2>2, <2>3 DEF Gentle, Flushed
<1> QED
  BY <1>2, <1>3, <1>4, <1>5, <1>6 DEF ProcessAck

\* The others, whatever p does.
LEMMA OthersKeep ==
    ASSUME IInv, IInv', NEW p \in Pid, Gentle(p), NEW q \in Pid \ {p}, ProcessAck(q)
    PROVE  ProcessAck(q)'
<1>1. pc'[q] = pc[q] /\ op'[q] = op[q]
  BY DEF Gentle, Alone
<1>2. CASE pc[q] = "idle"
  BY <1>1, <1>2 DEF IInv, TypeOK, NoOp, ProcessAck, AddressOf, AnswerOf, AckedOf, EmptiedOf, UnseenOf,
                    Writing
<1>3. CASE pc[q] # "idle"
  <2>1. Apart(p, q) /\ Apart(q, p)
    BY DEF IInv, PairInv
  <2>2. op[q].kind = "ack" /\ pc[p] \in {"create", "rename"} => op[p].name \notin op[q].refs
    BY <1>3, <2>1 DEF Apart, Early
  <2>3. Writing(q) /\ pc[p] = "rename" => op[p].name # op[q].name
    BY <2>1 DEF Apart, Writing
  <2> QED
    BY <1>1, <1>3, <2>2, <2>3, Onward DEF Publishing, Written, Writing, Moving
<1> QED
  BY <1>2, <1>3

\* The process itself, at the steps that change what it works on.
LEMMA IdleIsFine ==
    ASSUME NEW p \in Pid, pc'[p] = "idle", op'[p] = NoOp
    PROVE  ProcessAck(p)'
BY DEF NoOp, ProcessAck, AddressOf, AnswerOf, AckedOf, EmptiedOf, UnseenOf, Writing

LEMMA NotAckIsFine ==
    ASSUME NEW p \in Pid, op'[p].kind # "ack", ~Writing(p)'
    PROVE  ProcessAck(p)'
BY DEF ProcessAck, AddressOf, AnswerOf, AckedOf, EmptiedOf, UnseenOf

LEMMA StartIsFine ==
    ASSUME IInv, IInv', NEW p \in Pid, StartSay(p) \/ StartAck(p) \/ StartDrain(p)
    PROVE  ProcessAck(p)'
<1>0. op \in [Pid -> Op \cup {NoOp}] /\ pc \in [Pid -> Place]
  BY DEF IInv, TypeOK
<1>1. CASE StartSay(p) \/ StartDrain(p)
  <2>1. op'[p].kind # "ack" /\ ~Writing(p)'
    BY <1>0, <1>1 DEF StartSay, StartDrain, Command, Writing, Goto
  <2> QED
    BY <2>1, NotAckIsFine
<1>2. CASE StartAck(p)
  <2>1. PICK a \in Agent, R \in SUBSET Mail : op' = [op EXCEPT ![p] = Command("ack", a, NoName, R, {})]
    BY <1>2 DEF StartAck
  <2>2. op'[p].refs = R /\ op'[p].todo = R /\ op'[p].batch = {} /\ pc'[p] = "group"
    BY <1>0, <1>2, <2>1 DEF StartAck, Goto, Command
  <2> QED
    BY <2>2 DEF ProcessAck, AddressOf, AnswerOf, AckedOf, EmptiedOf, UnseenOf, Writing, Written, Publishing,
                Moving
<1> QED
  BY <1>1, <1>2

LEMMA GroupIsFine ==
    ASSUME IInv, IInv', NEW p \in Pid, ProcessAck(p), NextGroup(p)
    PROVE  ProcessAck(p)'
<1>1. PICK n \in Name : LET group == {r \in op[p].todo : r.from = n.to}
                       IN  /\ n.quiet
                           /\ op' = [op EXCEPT ![p].name = n, ![p].batch = group,
                                               ![p].todo = @ \ group]
  BY DEF NextGroup
<1> DEFINE group == {r \in op[p].todo : r.from = n.to}
<1>2. pc[p] = "group" /\ op[p] \in Op /\ op[p].kind = "ack" /\ pc'[p] = "create"
  <2>1. pc[p] = "group" /\ op[p] \in Op /\ pc'[p] = "create"
    BY OpIs DEF NextGroup, IInv, TypeOK, Goto
  <2> QED
    BY <2>1 DEF IInv, ProcessInv, CommandOf, Publishing, Op
<1>3. /\ op'[p].name = n /\ op'[p].batch = group /\ op'[p].todo = op[p].todo \ group
      /\ op'[p].refs = op[p].refs
  <2>1. op'[p].name = n
    BY <1>1, <1>2 DEF IInv, TypeOK, Op
  <2>2. op'[p].batch = group
    BY <1>1, <1>2 DEF IInv, TypeOK, Op
  <2>3. op'[p].todo = op[p].todo \ group
    BY <1>1, <1>2 DEF IInv, TypeOK, Op
  <2>4. op'[p].refs = op[p].refs
    BY <1>1, <1>2 DEF IInv, TypeOK, Op
  <2> QED
    BY <2>1, <2>2, <2>3, <2>4
<1>4. AddressOf(p)'
  BY <1>1, <1>3 DEF AddressOf
<1>5. EmptiedOf(p)'
  <2>1. \A m \in op[p].refs \ op[p].todo : dir'[<<"new", m>>] = 0
    BY <1>2 DEF ProcessAck, EmptiedOf, NextGroup, DirSame
  <2>2. op'[p].refs \ (op'[p].todo \cup op'[p].batch) \subseteq op[p].refs \ op[p].todo
    BY <1>3
  <2> QED
    BY <1>2, <2>1, <2>2 DEF EmptiedOf
<1> QED
  BY <1>2, <1>4, <1>5 DEF ProcessAck, AnswerOf, AckedOf, UnseenOf, Written, Writing, Moving

LEMMA CreateIsFine ==
    ASSUME IInv, IInv', NEW p \in Pid, ProcessAck(p), Create(p)
    PROVE  ProcessAck(p)'
<1> DEFINE n == op[p].name
           i == Len(file) + 1
<1>1. /\ pc[p] = "create" /\ op[p] \in Op /\ n \in Name /\ file \in Seq(File)
      /\ pc \in [Pid -> Place] /\ op \in [Pid -> Op \cup {NoOp}]
  BY NameAtHand DEF Create, Publishing, IInv, TypeOK
<1>2. CASE Exit(p)
  BY <1>2, ExitIs, IdleIsFine DEF IInv
<1>3. CASE /\ file' = Append(file, [name |-> n, refs |-> op[p].batch, text |-> "empty"])
           /\ op' = [op EXCEPT ![p].ino = Len(file')]
           /\ dir' = [dir EXCEPT ![<<"tmp", n>>] = Len(file')]
           /\ UNCHANGED disk
           /\ Goto(p, "write")
  <2>1. /\ Len(file') = i /\ DOMAIN file' = 1..i /\ DOMAIN file = 1..(i - 1) /\ i \in Nat
        /\ i # 0 /\ i \notin DOMAIN file /\ file'[i].name = n /\ file'[i].refs = op[p].batch
        /\ \A j \in DOMAIN file : file'[j] = file[j]
    BY <1>1, <1>3
  <2> HIDE DEF i
  <2>2. /\ op'[p].ino = i /\ op'[p].name = n /\ op'[p].batch = op[p].batch /\ op'[p].kind = op[p].kind
        /\ op'[p].refs = op[p].refs /\ op'[p].todo = op[p].todo /\ pc'[p] = "write"
    BY <1>1, <1>3, <2>1 DEF Op, Goto
  <2>3. \A m \in Name : dir'[<<"new", m>>] = dir[<<"new", m>>]
    BY <1>1, <1>3 DEF IInv, TypeOK, Folder, Flushed
  <2>4. op[p].kind = "ack" => /\ n \notin Mail /\ op[p].batch \subseteq Mail /\ op[p].refs \subseteq Mail
    BY <1>1 DEF IInv, ProcessInv, CommandOf, Publishing, Op
  <2>5. AddressOf(p)'
    BY <1>1, <2>2 DEF ProcessAck, AddressOf, Publishing
  <2>6. AnswerOf(p)'
    <3>1. ASSUME op[p].kind = "ack", NEW j \in DOMAIN file', file'[j].name \in op[p].batch PROVE j < i
      BY <2>1, <2>4, <3>1
    <3> QED
      BY <2>1, <2>2, <3>1 DEF AnswerOf
  <2>7. EmptiedOf(p)'
    BY <2>2, <2>3, <2>4 DEF ProcessAck, EmptiedOf, Mail
  <2>8. UnseenOf(p)'
    <3>1. \A f \in Flushed : i \notin disk[<<f, n>>]
      BY <1>1, <2>1 DEF IInv, FolderInv
    <3> QED
      BY <1>3, <2>2, <3>1 DEF UnseenOf
  <2> QED
    BY <2>2, <2>5, <2>6, <2>7, <2>8 DEF ProcessAck, AckedOf, Moving
<1> QED
  BY <1>2, <1>3 DEF Create

LEMMA SentIsFine ==
    ASSUME IInv, IInv', NEW p \in Pid, ProcessAck(p), pc[p] \in {"ledger", "append"}, Sent(p),
           UNCHANGED <<file, dir>>
    PROVE  ProcessAck(p)'
<1>1. /\ op[p] \in Op /\ Publishing(p) /\ Written(p)
      /\ pc \in [Pid -> Place] /\ op \in [Pid -> Op \cup {NoOp}]
  BY NameAtHand DEF Written, Publishing, IInv, TypeOK
<1>2. CASE op[p].kind # "ack"
  BY <1>2, ExitIs, IdleIsFine DEF IInv, Sent
<1>3. CASE op[p].kind = "ack"
  <2>1. /\ op'[p].batch = op[p].batch /\ op'[p].refs = op[p].refs /\ op'[p].todo = op[p].todo
        /\ pc'[p] = "source"
    BY <1>1, <1>3 DEF Sent, Goto, Op
  <2>2. ASSUME NEW n \in op[p].batch PROVE Acked(n)'
    <3>1. file[op[p].ino].name = op[p].name /\ op[p].ino \in DOMAIN file
      BY <1>1 DEF IInv, ProcessInv, InodeOf
    <3>2. Answers(file[op[p].ino], n)
      BY <1>1, <1>3, <3>1 DEF ProcessAck, AddressOf, AnswerOf, Answers
    <3>3. \A i \in DOMAIN file : file[i].name = n => i < op[p].ino
      BY <1>1, <1>3 DEF ProcessAck, AnswerOf
    <3>4. op[p].ino \in confirmed'
      BY DEF Sent
    <3> QED
      BY <3>2, <3>3, <3>4 DEF Acked
  <2>3. EmptiedOf(p)'
    BY <1>3, <2>1 DEF ProcessAck, EmptiedOf
  <2> QED
    BY <2>1, <2>2, <2>3 DEF ProcessAck, AddressOf, AnswerOf, AckedOf, UnseenOf, Writing, Written, Publishing
<1> QED
  BY <1>2, <1>3

LEMMA SourceIsFine ==
    ASSUME IInv, IInv', NEW p \in Pid, ProcessAck(p), Source(p) \/ BatchDone(p)
    PROVE  ProcessAck(p)'
<1>1. /\ pc[p] = "source" /\ op[p] \in Op /\ UNCHANGED <<file, dir, confirmed>>
      /\ pc \in [Pid -> Place] /\ op \in [Pid -> Op \cup {NoOp}]
  BY OpIs DEF IInv, TypeOK, Source, BatchDone, DirSame, HistorySame
<1>2. CASE Exit(p)
  BY <1>2, ExitIs, IdleIsFine DEF IInv
<1>3. CASE op[p].kind # "ack"
  <2>1. CASE Source(p)
    <3>1. Exit(p) \/ \E n \in op[p].batch, i \in Inode :
                       op' = [op EXCEPT ![p].name = n, ![p].ino = i] /\ Goto(p, "dest")
      <4>1. \A n \in op[p].batch : dir[<<"new", n>>] \in Inode
        BY <1>1 DEF IInv, TypeOK, Op, Folder, Flushed
      <4> QED
        BY <1>3, <2>1, <4>1 DEF Source
    <3>2. CASE \E n \in op[p].batch, i \in Inode :
                  op' = [op EXCEPT ![p].name = n, ![p].ino = i] /\ Goto(p, "dest")
      <4>1. op'[p].kind # "ack" /\ pc'[p] = "dest"
        BY <1>1, <1>3, <3>2 DEF Goto, Op
      <4> QED
        BY <4>1, NotAckIsFine DEF Writing
    <3> QED
      BY <1>2, <3>1, <3>2
  <2>2. CASE BatchDone(p)
    BY <1>2, <1>3, <2>2 DEF BatchDone
  <2> QED
    BY <2>1, <2>2
<1>4. CASE op[p].kind = "ack"
  <2>1. /\ op'[p].kind = "ack" /\ op'[p].refs = op[p].refs /\ op'[p].todo = op[p].todo
        /\ op'[p].batch \subseteq op[p].batch /\ pc'[p] \in {"source", "dest", "group"}
        /\ \A n \in op[p].batch \ op'[p].batch : dir[<<"new", n>>] = 0
        /\ pc'[p] = "group" => op'[p].batch = {}
    <3>1. CASE BatchDone(p)
      BY <1>1, <1>4, <3>1 DEF BatchDone, Goto
    <3>2. CASE Source(p)
      <4>1. PICK n \in op[p].batch :
              \/ op' = [op EXCEPT ![p].name = n, ![p].ino = dir[<<"new", n>>]] /\ Goto(p, "dest")
              \/ /\ dir[<<"new", n>>] = 0
                 /\ op' = [op EXCEPT ![p].batch = @ \ {n}] /\ UNCHANGED pc
        BY <1>4, <3>2 DEF Source
      <4>2. CASE op' = [op EXCEPT ![p].name = n, ![p].ino = dir[<<"new", n>>]] /\ Goto(p, "dest")
        <5> DEFINE i == dir[<<"new", n>>]
        <5> HIDE DEF i
        <5>1. op' = [op EXCEPT ![p].name = n, ![p].ino = i]
          BY <4>2 DEF i
        <5> QED
          BY <1>1, <1>4, <4>2, <5>1 DEF Goto, Op
      <4>3. CASE /\ dir[<<"new", n>>] = 0
                 /\ op' = [op EXCEPT ![p].batch = @ \ {n}] /\ UNCHANGED pc
        BY <1>1, <1>4, <4>3 DEF Op
      <4> QED
        BY <4>1, <4>2, <4>3
    <3> QED
      BY <3>1, <3>2
  <2>2. AckedOf(p)'
    BY <1>1, <1>4, <2>1 DEF ProcessAck, AckedOf, Acked
  <2>3. EmptiedOf(p)'
    BY <1>1, <1>4, <2>1 DEF ProcessAck, EmptiedOf
  <2> QED
    BY <2>1, <2>2, <2>3 DEF ProcessAck, AddressOf, AnswerOf, UnseenOf, Publishing, Written, Writing
<1> QED
  BY <1>3, <1>4

LEMMA UnlinkIsFine ==
    ASSUME IInv, IInv', NEW p \in Pid, ProcessAck(p), Unlink(p)
    PROVE  ProcessAck(p)'
<1> DEFINE n == op[p].name
<1>1. /\ pc[p] = "unlink" /\ op[p] \in Op /\ n \in Name /\ UNCHANGED <<file, confirmed>>
      /\ pc \in [Pid -> Place] /\ op \in [Pid -> Op \cup {NoOp}]
  BY NameAtHand DEF IInv, TypeOK, Unlink, Moving, HistorySame
<1>2. CASE Exit(p)
  BY <1>2, ExitIs, IdleIsFine DEF IInv
<1>3. CASE Put("new", n, 0) /\ Goto(p, "sync_new") /\ UNCHANGED op
  <2>1. op' = op /\ pc'[p] = "sync_new"
    BY <1>1, <1>3 DEF Goto
  <2>2. /\ dir'[<<"new", n>>] = 0
        /\ \A m \in Name : dir[<<"new", m>>] = 0 => dir'[<<"new", m>>] = 0
    BY <1>1, <1>3 DEF Put, IInv, TypeOK, Folder, Flushed
  <2>3. AckedOf(p)'
    BY <1>1, <2>1 DEF ProcessAck, AckedOf, Acked, Moving
  <2>4. EmptiedOf(p)'
    BY <1>1, <2>1, <2>2 DEF ProcessAck, EmptiedOf, Op, Mail
  <2> QED
    BY <2>1, <2>3, <2>4 DEF ProcessAck, AddressOf, AnswerOf, UnseenOf, Publishing, Written, Writing
<1> QED
  BY <1>2, <1>3 DEF Unlink

LEMMA SyncNewIsFine ==
    ASSUME IInv, IInv', NEW p \in Pid, ProcessAck(p), SyncNew(p)
    PROVE  ProcessAck(p)'
<1>1. /\ pc[p] = "sync_new" /\ op[p] \in Op /\ UNCHANGED <<file, dir, confirmed>>
      /\ pc'[p] = "source" /\ op'[p] = Moved(op[p])
  BY OpIs DEF IInv, TypeOK, SyncNew, HistorySame, Goto
<1>2. /\ op'[p].kind = op[p].kind /\ op'[p].refs = op[p].refs /\ op'[p].todo = op[p].todo
      /\ op'[p].batch = op[p].batch \ {op[p].name}
  BY <1>1, MovedIs
<1>3. AckedOf(p)'
  BY <1>1, <1>2 DEF ProcessAck, AckedOf, Acked, Moving
<1>4. EmptiedOf(p)'
  BY <1>1, <1>2 DEF ProcessAck, EmptiedOf
<1> QED
  BY <1>1, <1>3, <1>4 DEF ProcessAck, AddressOf, AnswerOf, UnseenOf, Publishing, Written, Writing

LEMMA KillParentIsFine ==
    ASSUME IInv, IInv', NEW p \in Pid, ProcessAck(p), KillParent(p)
    PROVE  ProcessAck(p)'
<1>1. /\ pc[p] # "idle" /\ op[p] \in Op /\ UNCHANGED <<pc, disk>>
      /\ op \in [Pid -> Op \cup {NoOp}]
  BY OpIs DEF IInv, TypeOK, KillParent, DirSame
<1>2. op'[p].kind = "say" /\ op'[p].name = op[p].name /\ op'[p].ino = op[p].ino
  BY <1>1 DEF KillParent, Op
<1> QED
  BY <1>1, <1>2 DEF ProcessAck, AddressOf, AnswerOf, AckedOf, EmptiedOf, UnseenOf, Writing

LEMMA SelfKeeps ==
    ASSUME IInv, IInv', NEW p \in Pid, Step(p) \/ Fault(p), ProcessAck(p)
    PROVE  ProcessAck(p)'
<1>1. Gentle(p) /\ pc \in [Pid -> Place]
  BY StepIsGentle DEF IInv, TypeOK
<1>2. CASE Exit(p)
  BY <1>2, ExitIs, IdleIsFine DEF IInv
<1>3. ASSUME NEW from \in Place \ {"idle"}, NEW to \in Place \ {"idle", "create", "group", "sync_new"},
             pc[p] = from, Goto(p, to), UNCHANGED op,
             to \in {"write", "check", "rename"} => Writing(p),
             to \in {"sync", "ledger", "append"} => Written(p),
             to \in {"source", "dest", "link", "sync_cur", "unlink"} => Moving(p),
             from = "rename" => to = "sync", from # "create"
      PROVE  ProcessAck(p)'
  <2>1. pc'[p] = to /\ op'[p] = op[p]
    BY <1>1, <1>3 DEF Goto
  <2>2. op[p].kind = "ack" /\ pc[p] = "rename" => op[p].name \notin op[p].refs
    BY OpIs DEF IInv, ProcessInv, CommandOf, Publishing, Op
  <2>3. /\ Publishing(p)' => Publishing(p)
        /\ Written(p)' => Written(p)
        /\ Writing(p)' => Writing(p)
        /\ pc'[p] = "source" \/ Moving(p)' => pc[p] = "source" \/ Moving(p)
    BY <1>3, <2>1 DEF Publishing, Written, Writing, Moving, Place
  <2>4. ~(Writing(p)' /\ pc[p] = "rename")
    BY <1>3, <2>1 DEF Writing
  <2> QED
    BY <1>1, <1>3, <2>1, <2>2, <2>3, <2>4, Onward
<1>4. CASE Write(p) \/ Check(p) \/ Rename(p) \/ Sync(p) \/ LedgerLock(p)
  BY <1>2, <1>3, <1>4 DEF Write, Check, Rename, Sync, LedgerLock, Place, Writing, Written
<1>5. CASE Dest(p) \/ Link(p) \/ SyncCur(p)
  BY <1>2, <1>3, <1>5 DEF Dest, Link, SyncCur, Place, Moving
<1>6. CASE LedgerGivesUp(p) \/ LedgerAppend(p)
  BY <1>6, SentIsFine DEF LedgerGivesUp, LedgerAppend, DirSame
<1>7. CASE Fault(p) \/ AckDone(p)
  BY <1>2, <1>7, KillParentIsFine DEF Fault, PublishFault, ArchiveFault, Kill, AckDone
<1> QED
  BY <1>4, <1>5, <1>6, <1>7, StartIsFine, GroupIsFine, CreateIsFine, SourceIsFine, UnlinkIsFine,
     SyncNewIsFine DEF Step, Say, Ack, Archive

LEMMA ArchivedKeeps ==
    ASSUME MInv, IInv', NEW p \in Pid, Gentle(p)
    PROVE  ArchivedWasAcked'
<1> SUFFICES ASSUME NEW n \in Mail, NEW i \in disk'[<<"cur", n>>] \ {0}
             PROVE  \E j \in confirmed' : j > i /\ Answers(file'[j], n)
  BY DEF ArchivedWasAcked
<1>1. n \in Name
  BY DEF Mail
<1>2. \E j \in confirmed : j > i /\ Answers(file[j], n)
  <2>1. CASE i \in disk[<<"cur", n>>]
    BY <2>1 DEF MInv, ArchivedWasAcked
  <2>2. CASE pc[p] = "link" /\ n = op[p].name /\ i = dir[<<"new", n>>]
    <3>1. i \in DOMAIN file /\ file[i].name = n
      BY <1>1, <2>2 DEF MInv, IInv, FolderInv, Flushed
    <3>2. op[p].kind = "ack" /\ n \in op[p].batch
      <4>1. op[p] \in Op
        BY <2>2, OpIs DEF MInv, IInv
      <4> QED
        BY <2>2, <4>1 DEF MInv, IInv, ProcessInv, CommandOf, Moving, Publishing, Op
    <3>3. Acked(n)
      BY <2>2, <3>2 DEF MInv, AckInv, AckedOf, Moving
    <3>4. PICK j \in confirmed : Answers(file[j], n) /\ i < j
      BY <3>1, <3>3 DEF Acked
    <3>5. i \in Nat /\ j \in Nat
      BY <3>1, <3>4 DEF MInv, IInv, TypeOK
    <3> QED
      BY <3>4, <3>5
  <2> QED
    BY <1>1, <2>1, <2>2 DEF Gentle
<1>3. PICK j \in confirmed : j > i /\ Answers(file[j], n)
  BY <1>2
<1>4. j \in DOMAIN file /\ j \in confirmed'
  BY DEF MInv, IInv, TypeOK, Gentle
<1> QED
  BY <1>3, <1>4 DEF Answers, Gentle

\* After a power loss nobody is at work, and no folder shows what it could not show.
LEMMA LossKeeps ==
    ASSUME MInv, IInv', PowerLoss
    PROVE  AckInv' /\ ArchivedWasAcked'
<1>1. AckInv'
  BY IdleIsFine DEF AckInv, ProcessAck, PowerLoss
<1>2. /\ confirmed' = confirmed /\ confirmed \subseteq DOMAIN file
      /\ \A j \in DOMAIN file : file'[j].name = file[j].name /\ file'[j].refs = file[j].refs
  <2>1. file \in Seq(File)
    BY DEF MInv, IInv, TypeOK
  <2> QED
    BY <2>1 DEF PowerLoss, MInv, IInv, TypeOK, File
<1>3. \A n \in Name : disk'[<<"cur", n>>] \subseteq disk[<<"cur", n>>]
  <2>1. \A e \in Flushed \X Name : dir[e] \in disk[e]
    BY DEF MInv, IInv, FolderInv
  <2>2. \A e \in Flushed \X Name : dir'[e] \in disk[e] /\ disk'[e] = {dir'[e]}
    BY <2>1 DEF PowerLoss, AfterLoss, Folder, Flushed
  <2> QED
    BY <2>2 DEF Flushed
<1>4. ArchivedWasAcked'
  BY <1>2, <1>3 DEF MInv, ArchivedWasAcked, Answers, Mail
<1> QED
  BY <1>1, <1>4

LEMMA InitMail == Init => MInv
<1> SUFFICES ASSUME Init PROVE MInv
  OBVIOUS
<1>1. AckInv
  BY DEF Init, NoOp, AckInv, AddressOf, AnswerOf, AckedOf, EmptiedOf, UnseenOf, Writing
<1>2. ArchivedWasAcked
  BY DEF Init, ArchivedWasAcked, Mail, Flushed
<1> QED
  BY <1>1, <1>2, InitHolds DEF MInv

LEMMA StepMail == MInv /\ [Next]_vars => MInv'
<1> SUFFICES ASSUME MInv, [Next]_vars PROVE MInv'
  OBVIOUS
<1>1. IInv /\ IInv'
  BY StepHolds DEF MInv
<1>2. CASE UNCHANGED vars
  BY <1>1, <1>2 DEF vars, MInv, AckInv, AddressOf, AnswerOf, AckedOf, EmptiedOf, UnseenOf, Acked,
     ArchivedWasAcked, Publishing, Written, Writing, Moving
<1>3. CASE PowerLoss
  BY <1>1, <1>3, LossKeeps DEF MInv
<1>4. ASSUME NEW p \in Pid, Step(p) \/ Fault(p) PROVE MInv'
  <2>1. Gentle(p)
    BY <1>1, <1>4, StepIsGentle
  <2>2. \A q \in Pid : ProcessAck(q)
    BY DEF MInv, AckInv, ProcessAck
  <2>3. \A q \in Pid : ProcessAck(q)'
    BY <1>1, <1>4, <2>1, <2>2, SelfKeeps, OthersKeep
  <2>4. ArchivedWasAcked'
    BY <1>1, <2>1, ArchivedKeeps
  <2> QED
    BY <1>1, <2>3, <2>4 DEF MInv, AckInv, ProcessAck
<1> QED
  BY <1>2, <1>3, <1>4 DEF Next

\* The invariant of the acknowledgements.
THEOREM MailInvariant == Spec => []MInv
BY InitMail, StepMail, PTL DEF Spec

\* Mail that may be out of new/ has been answered: no step of rt-ack moves a letter of
\* which the sender has no acknowledgement, for any number of processes and reused ids.
THEOREM ArchivedIsAcked == Spec => []ArchivedWasAcked
BY MailInvariant, PTL DEF MInv

\* A rt-ack that is through with its command line has left none of it in new/, whatever
\* other archives, faults and reused ids there are.
THEOREM AckedAndGone == Spec => AckEmptiesNew
<1> DEFINE Emptied == \A p \in Pid :
             (pc[p] = "group" /\ pc'[p] = "idle" /\ ~PowerLost /\ op[p].todo = {}) =>
                 \A n \in op[p].refs : dir[<<"new", n>>] = 0
<1>1. MInv => Emptied
  <2> SUFFICES ASSUME MInv, NEW p \in Pid, pc[p] = "group", op[p].todo = {}
               PROVE  \A n \in op[p].refs : dir[<<"new", n>>] = 0
    OBVIOUS
  <2>1. op[p] \in Op
    BY OpIs DEF MInv, IInv
  <2>2. op[p].kind = "ack"
    BY <2>1 DEF MInv, IInv, ProcessInv, CommandOf, Publishing, Op
  <2> QED
    BY <2>2 DEF MInv, AckInv, EmptiedOf
<1>2. MInv /\ [Next]_vars => [Emptied]_vars
  BY <1>1
<1> QED
  BY <1>2, MailInvariant, PTL DEF Spec, AckEmptiesNew

-----------------------------------------------------------------------------
(* The mailboxes implement Mailbox *)

\* The state of Mailbox, as Maildir defines it.
Posted == {i \in Letters : Holds("new", i) \/ Holds("cur", i)}
Reported == confirmed \cap Letters
Archived == {i \in Letters : Holds("cur", i) /\ ~Holds("new", i)}

Abstract == [Mailboxes!Next]_(Mailboxes!mailbox)

LEMMA StutterIs ==
    ASSUME UNCHANGED <<Posted, Reported, AckedLetters, Archived>>
    PROVE  Abstract
BY DEF Abstract, Mailboxes!mailbox, Posted, Reported, Archived

LEMMA PostIs ==
    ASSUME NEW i \in 1..MaxFile, i \notin Posted, Posted' = Posted \cup {i},
           UNCHANGED <<Reported, AckedLetters, Archived>>
    PROVE  Abstract
<1>1. Mailboxes!Post(i)
  BY DEF Mailboxes!Post, Posted, Reported, Archived
<1> QED
  BY <1>1 DEF Abstract, Mailboxes!Next

LEMMA ReportIs ==
    ASSUME NEW i \in 1..MaxFile, i \in Posted, Reported' = Reported \cup {i},
           UNCHANGED <<Posted, AckedLetters, Archived>>
    PROVE  Abstract
<1>1. Mailboxes!Report(i)
  BY DEF Mailboxes!Report, Posted, Reported, Archived
<1> QED
  BY <1>1 DEF Abstract, Mailboxes!Next

LEMMA AcknowledgeIs ==
    ASSUME AckedLetters \subseteq AckedLetters', AckedLetters' \subseteq 1..MaxFile,
           UNCHANGED <<Posted, Reported, Archived>>
    PROVE  Abstract
<1>1. PICK M \in SUBSET (1..MaxFile) : AckedLetters' = AckedLetters \cup M
  OBVIOUS
<1>2. Mailboxes!Acknowledge(M)
  BY <1>1 DEF Mailboxes!Acknowledge, Posted, Reported, Archived
<1> QED
  BY <1>2 DEF Abstract, Mailboxes!Next

LEMMA ArchiveIs ==
    ASSUME NEW i \in 1..MaxFile, i \in Posted, i \in AckedLetters, Archived' = Archived \cup {i},
           UNCHANGED <<Posted, Reported, AckedLetters>>
    PROVE  Abstract
<1>1. Mailboxes!Archive(i)
  BY DEF Mailboxes!Archive, Posted, Reported, Archived
<1> QED
  BY <1>1 DEF Abstract, Mailboxes!Next

LEMMA LossIs ==
    ASSUME Posted' \subseteq 1..MaxFile, Reported \subseteq Posted',
           Archived' \subseteq Posted', Archived' \subseteq AckedLetters,
           UNCHANGED <<Reported, AckedLetters>>
    PROVE  Abstract
<1>1. Mailboxes!PowerLoss
  BY DEF Mailboxes!PowerLoss, Posted, Reported, Archived
<1> QED
  BY <1>1 DEF Abstract, Mailboxes!Next

LEMMA LettersAre ==
    ASSUME IInv
    PROVE  /\ Letters \subseteq DOMAIN file /\ DOMAIN file \subseteq 1..MaxFile
           /\ DOMAIN file = 1..Len(file) /\ Len(file) \in Nat
           /\ \A i \in Letters : i # 0 /\ file[i].name \in Mail
           /\ \A i \in DOMAIN file : file[i].name \in Mail => i \in Letters
           /\ \A f \in Flushed, n \in Name : dir[<<f, n>>] = 0 \/ dir[<<f, n>>] \in DOMAIN file
           /\ \A f \in Flushed, n \in Mail : dir[<<f, n>>] # 0 => /\ dir[<<f, n>>] \in Letters
                                                             /\ file[dir[<<f, n>>]].name = n
           /\ Mail \subseteq Name
<1>1. /\ file \in Seq(File) /\ Len(file) \in Nat /\ DOMAIN file = 1..Len(file)
      /\ Len(file) <= MaxFile /\ MaxFile \in Nat
  BY MaildirBounds DEF IInv, TypeOK
<1>2. \A i \in DOMAIN file : file[i] \in File
  BY <1>1
<1>3. DOMAIN file \subseteq 1..MaxFile /\ \A i \in DOMAIN file : i # 0
  BY <1>1
<1>4. \A i \in DOMAIN file : file[i].name \in Name
  BY <1>2 DEF File
<1>5. /\ Letters \subseteq DOMAIN file /\ Mail \subseteq Name
      /\ \A i \in Letters : i # 0 /\ file[i].name \in Mail
      /\ \A i \in DOMAIN file : file[i].name \in Mail => i \in Letters
  BY <1>3, <1>4 DEF Letters, Mail
<1>6. \A f \in Flushed, n \in Name :
        dir[<<f, n>>] = 0 \/ (dir[<<f, n>>] \in DOMAIN file /\ file[dir[<<f, n>>]].name = n)
  <2> SUFFICES ASSUME NEW f \in Flushed, NEW n \in Name, NEW i, i = dir[<<f, n>>], i # 0
               PROVE  i \in DOMAIN file /\ file[i].name = n
    OBVIOUS
  <2> QED
    BY DEF IInv, FolderInv
<1> QED
  BY <1>1, <1>3, <1>5, <1>6

LettersInv ==
    /\ Letters \subseteq DOMAIN file
    /\ DOMAIN file = 1..Len(file) /\ Len(file) \in Nat
    /\ \A i \in Letters : i # 0 /\ file[i].name \in Mail

LEMMA LettersWillBe == IInv' => LettersInv'
<1>1. IInv => LettersInv
  BY LettersAre DEF LettersInv
<1> QED
  BY <1>1, PTL

\* Nothing is posted or archived when no letter changes its name in new/ or cur/.
LEMMA SamePlaces ==
    ASSUME IInv, IInv', NEW p \in Pid, Gentle(p),
           \A f \in Flushed, n \in Mail : dir'[<<f, n>>] = dir[<<f, n>>]
    PROVE  Posted' = Posted /\ Archived' = Archived
<1>1. \A i \in DOMAIN file : i \in Letters' <=> i \in Letters
  BY DEF Letters, Gentle
<1>2. \A i \in Letters : \A f \in Flushed : Holds(f, i)' <=> Holds(f, i)
  BY LettersAre DEF Holds, Gentle
<1>3. ASSUME NEW i \in Letters' \ Letters, NEW f \in Flushed PROVE ~Holds(f, i)'
  <2>1. i \notin DOMAIN file /\ i # 0 /\ file'[i].name \in Mail
    BY <1>1, LettersWillBe DEF LettersInv
  <2>2. dir'[<<f, file'[i].name>>] # i
    BY <2>1, LettersAre
  <2> QED
    BY <2>2 DEF Holds
<1>4. Letters \subseteq Letters'
  BY <1>1, LettersAre
<1> QED
  BY <1>2, <1>3, <1>4 DEF Posted, Archived, Flushed

\* Nor is anything reported or acknowledged when no rt-say ends.
LEMMA SameWords ==
    ASSUME IInv, IInv', NEW p \in Pid, Gentle(p), confirmed' = confirmed
    PROVE  Reported' = Reported /\ AckedLetters' = AckedLetters
<1>1. confirmed \subseteq DOMAIN file
  BY DEF IInv, TypeOK
<1>2. \A i \in DOMAIN file : i \in Letters' <=> i \in Letters
  BY DEF Letters, Gentle
<1>3. Reported' = Reported
  BY <1>1, <1>2 DEF Reported, Gentle
<1>4. ASSUME NEW i \in Letters, NEW j \in confirmed
      PROVE  Answers(file[j], file[i].name)' <=> Answers(file[j], file[i].name)
  BY <1>1, LettersAre DEF Answers, Gentle
<1>5. ASSUME NEW i \in Letters' \ Letters, NEW j \in confirmed PROVE ~(j > i)
  <2>1. i \in DOMAIN file' /\ i \notin DOMAIN file /\ j \in DOMAIN file
    BY <1>1, <1>2, LettersAre, LettersWillBe DEF LettersInv
  <2>2. DOMAIN file' = 1..Len(file') /\ Len(file') \in Nat
    BY LettersWillBe DEF LettersInv
  <2>3. DOMAIN file = 1..Len(file) /\ Len(file) \in Nat
    BY LettersAre
  <2> QED
    BY <2>1, <2>2, <2>3
<1>6. Letters \subseteq Letters'
  BY <1>2, LettersAre
<1> QED
  BY <1>3, <1>4, <1>5, <1>6 DEF AckedLetters

LEMMA RenamePosts ==
    ASSUME MInv, MInv', NEW p \in Pid, Gentle(p), Rename(p), op[p].name \in Mail
    PROVE  Abstract
<1> DEFINE n == op[p].name
           i == op[p].ino
<1> USE DEF MInv
<1>1. /\ pc[p] = "rename" /\ n \in Name /\ UNCHANGED <<file, confirmed>>
      /\ dir' = [dir EXCEPT ![<<"tmp", n>>] = 0, ![<<"new", n>>] = i]
  BY NameAtHand DEF Rename, Publishing, HistorySame
<1>2. i \in DOMAIN file /\ file[i].name = n /\ dir[<<"new", n>>] = 0
  BY <1>1 DEF IInv, ProcessInv, InodeOf, TmpOf, Written
<1>3. \A f \in Flushed : dir[<<f, n>>] # i
  BY <1>1 DEF IInv, FolderInv, AckInv, UnseenOf, Writing
<1>4. /\ dir'[<<"new", n>>] = i
      /\ \A m \in Mail : dir'[<<"cur", m>>] = dir[<<"cur", m>>]
      /\ \A m \in Mail : m # n => dir'[<<"new", m>>] = dir[<<"new", m>>]
  <2> DEFINE d == [dir EXCEPT ![<<"tmp", n>>] = 0]
  <2>1. /\ DOMAIN d = DOMAIN dir
        /\ \A f \in Flushed, m \in Name : <<f, m>> \in DOMAIN d /\ d[<<f, m>>] = dir[<<f, m>>]
    BY <1>1 DEF IInv, TypeOK, Folder, Flushed
  <2>2. dir' = [d EXCEPT ![<<"new", n>>] = i]
    BY <1>1
  <2> HIDE DEF d, n, i
  <2> QED
    BY <1>1, <2>1, <2>2, LettersAre DEF Flushed, n
<1>5. i \in Letters /\ i \in 1..MaxFile /\ i # 0
  BY <1>2, LettersAre
<1> HIDE DEF n, i
<1>6. Letters' = Letters
  BY <1>1 DEF Letters
<1>7. ASSUME NEW k \in Letters
      PROVE  /\ Holds("cur", k)' <=> Holds("cur", k)
             /\ Holds("new", k)' <=> Holds("new", k) \/ k = i
  BY <1>1, <1>2, <1>4, LettersAre DEF Holds
<1>8. ~Holds("new", i) /\ ~Holds("cur", i)
  BY <1>2, <1>3 DEF Holds, Flushed
<1>9. Posted' = Posted \cup {i} /\ Archived' = Archived /\ i \notin Posted
  BY <1>5, <1>6, <1>7, <1>8 DEF Posted, Archived
<1>10. Reported' = Reported /\ AckedLetters' = AckedLetters
  BY <1>1, SameWords
<1> QED
  BY <1>5, <1>9, <1>10, PostIs

LEMMA LinkStutters ==
    ASSUME MInv, MInv', NEW p \in Pid, Gentle(p), Link(p), op[p].name \in Mail,
           dir[<<"new", op[p].name>>] # 0, dir[<<"cur", op[p].name>>] = 0
    PROVE  Abstract
<1> DEFINE n == op[p].name
           i == dir[<<"new", n>>]
<1> USE DEF MInv
<1>1. /\ UNCHANGED <<file, confirmed>> /\ dir' = [dir EXCEPT ![<<"cur", n>>] = i] /\ n \in Mail
      /\ i # 0 /\ dir[<<"cur", n>>] = 0
  BY DEF Link, Put, HistorySame
<1>2. i \in Letters /\ file[i].name = n /\ Mail \subseteq Name
  BY <1>1, LettersAre DEF Flushed
<1>3. /\ dir'[<<"cur", n>>] = i
      /\ \A m \in Mail : dir'[<<"new", m>>] = dir[<<"new", m>>]
      /\ \A m \in Mail : m # n => dir'[<<"cur", m>>] = dir[<<"cur", m>>]
  <2> HIDE DEF i, n
  <2> QED
    BY <1>1, <1>2 DEF IInv, TypeOK, Folder, Flushed
<1>4. Letters' = Letters
  BY <1>1 DEF Letters
<1>5. ASSUME NEW k \in Letters
      PROVE  /\ Holds("new", k)' <=> Holds("new", k)
             /\ Holds("cur", k)' <=> Holds("cur", k) \/ k = i
  <2> HIDE DEF i, n
  <2> QED
    BY <1>1, <1>2, <1>3, LettersAre DEF Holds
<1>6. Holds("new", i)
  BY <1>2 DEF Holds
<1> HIDE DEF i, n
<1>7. Posted' = Posted /\ Archived' = Archived
  BY <1>4, <1>5, <1>6 DEF Posted, Archived
<1>8. Reported' = Reported /\ AckedLetters' = AckedLetters
  BY <1>1, SameWords
<1> QED
  BY <1>7, <1>8, StutterIs

LEMMA UnlinkArchives ==
    ASSUME MInv, MInv', NEW p \in Pid, Gentle(p), Unlink(p), op[p].name \in Mail,
           dir[<<"new", op[p].name>>] # 0
    PROVE  Abstract
<1> DEFINE n == op[p].name
           i == dir[<<"new", n>>]
<1> USE DEF MInv
<1>1. /\ UNCHANGED <<file, confirmed>> /\ dir' = [dir EXCEPT ![<<"new", n>>] = 0] /\ n \in Mail
      /\ i # 0 /\ pc[p] = "unlink"
  BY DEF Unlink, Put, HistorySame
<1>2. i \in Letters /\ file[i].name = n /\ Mail \subseteq Name /\ i \in 1..MaxFile
  BY <1>1, LettersAre DEF Flushed
<1>3. op[p].kind = "ack"
  <2>1. op[p] \in Op
    BY <1>1, OpIs DEF IInv
  <2> QED
    BY <1>1, <2>1 DEF IInv, ProcessInv, CommandOf, Moving, Publishing, Op
<1>4. dir[<<"cur", n>>] = i
  BY <1>1, <1>3 DEF IInv, ProcessInv, ArchiveOf, Moving
<1>5. i \in AckedLetters
  <2>1. i \in disk[<<"cur", n>>] \ {0}
    BY <1>1, <1>2, <1>4 DEF IInv, FolderInv, Flushed
  <2> QED
    BY <1>1, <1>2, <2>1 DEF ArchivedWasAcked, AckedLetters
<1> HIDE DEF i
<1>6. /\ dir'[<<"new", n>>] = 0
      /\ \A m \in Mail : dir'[<<"cur", m>>] = dir[<<"cur", m>>]
      /\ \A m \in Mail : m # n => dir'[<<"new", m>>] = dir[<<"new", m>>]
  <2> HIDE DEF n
  <2> QED
    BY <1>1, <1>2 DEF IInv, TypeOK, Folder, Flushed
<1>7. Letters' = Letters
  BY <1>1 DEF Letters
<1>8. Holds("new", i) /\ Holds("cur", i)
  BY <1>2, <1>4 DEF Holds, i
<1>9. ASSUME NEW k \in Letters
      PROVE  /\ Holds("cur", k)' <=> Holds("cur", k)
             /\ Holds("new", k)' <=> Holds("new", k) /\ k # i
  <2>1. file'[k].name = file[k].name /\ file[k].name \in Mail /\ k # 0
    BY <1>1, LettersAre
  <2>2. CASE file[k].name = n
    <3> HIDE DEF n
    <3> QED
      BY <1>1, <1>6, <2>1, <2>2 DEF Holds, i, n
  <2>3. CASE file[k].name # n
    <3> HIDE DEF n
    <3> QED
      BY <1>2, <1>6, <2>1, <2>3 DEF Holds
  <2> QED
    BY <2>2, <2>3
<1>10. Posted' = Posted /\ Archived' = Archived \cup {i} /\ i \in Posted
  BY <1>2, <1>7, <1>8, <1>9 DEF Posted, Archived
<1>11. Reported' = Reported /\ AckedLetters' = AckedLetters
  BY <1>1, SameWords
<1> QED
  BY <1>2, <1>5, <1>10, <1>11, ArchiveIs

LEMMA SentReports ==
    ASSUME MInv, MInv', NEW p \in Pid, Gentle(p), pc[p] \in {"ledger", "append"}, Sent(p),
           UNCHANGED <<file, dir>>
    PROVE  Abstract
<1> DEFINE i == op[p].ino
           n == op[p].name
<1> USE DEF MInv
<1>1. /\ n \in Name /\ i \in DOMAIN file /\ file[i].name = n /\ confirmed' = confirmed \cup {i}
      /\ ProcessOK(p) /\ Delivered(p)
  BY NameAtHand DEF Sent, IInv, ProcessInv, ProcessOK, InodeOf, Written, Delivered
<1>2. Posted' = Posted /\ Archived' = Archived /\ Letters' = Letters
  BY DEF Posted, Archived, Holds, Letters
<1>3. CASE n \in Mail
  <2>1. i \in Letters /\ i \in 1..MaxFile
    BY <1>1, <1>3, LettersAre
  <2>2. dir[<<"new", n>>] = i \/ dir[<<"cur", n>>] = i
    BY <1>1, <1>3 DEF ProcessOK, LetterOf, IInv, FolderInv, Flushed
  <2>3. i \in Posted
    BY <1>1, <2>1, <2>2 DEF Posted, Holds
  <2>4. Reported' = Reported \cup {i}
    BY <1>1, <1>2, <2>1 DEF Reported
  <2>5. AckedLetters' = AckedLetters
    BY <1>1, <1>2, <1>3 DEF AckedLetters, Answers, Mail
  <2> QED
    BY <1>2, <2>1, <2>3, <2>4, <2>5, ReportIs
<1>4. CASE n \notin Mail
  <2>1. i \notin Letters
    BY <1>1, <1>4, LettersAre
  <2>2. Reported' = Reported
    BY <1>1, <1>2, <2>1 DEF Reported
  <2>3. AckedLetters \subseteq AckedLetters' /\ AckedLetters' \subseteq 1..MaxFile
    BY <1>1, <1>2, LettersAre DEF AckedLetters, Answers
  <2> QED
    BY <1>2, <2>2, <2>3, AcknowledgeIs
<1> QED
  BY <1>3, <1>4

LEMMA LossLoses ==
    ASSUME MInv, MInv', PowerLoss
    PROVE  Abstract
<1> USE DEF MInv
<1>1. /\ confirmed' = confirmed /\ confirmed \subseteq DOMAIN file /\ DOMAIN file' = DOMAIN file
      /\ \A j \in DOMAIN file : file'[j].name = file[j].name /\ file'[j].refs = file[j].refs
  <2>1. file \in Seq(File)
    BY DEF IInv, TypeOK
  <2> QED
    BY <2>1 DEF PowerLoss, IInv, TypeOK, File
<1>2. \A e \in Flushed \X Name : dir'[e] \in disk[e]
  <2>1. \A e \in Flushed \X Name : dir[e] \in disk[e]
    BY DEF IInv, FolderInv
  <2> QED
    BY <2>1 DEF PowerLoss, AfterLoss, Folder, Flushed
<1>3. Letters' = Letters
  BY <1>1 DEF Letters
<1>4. Reported' = Reported
  BY <1>1, <1>3 DEF Reported
<1>5. AckedLetters' = AckedLetters
  <2>1. \A i \in Letters, j \in confirmed :
          Answers(file[j], file[i].name)' <=> Answers(file[j], file[i].name)
    BY <1>1, LettersAre DEF Answers
  <2> QED
    BY <1>1, <1>3, <2>1 DEF AckedLetters
<1>6. Posted' \subseteq 1..MaxFile /\ Archived' \subseteq Posted'
  BY <1>3, LettersAre DEF Posted, Archived
<1>7. Reported \subseteq Posted'
  <2> SUFFICES ASSUME NEW i \in confirmed, i \in Letters PROVE i \in Posted'
    BY DEF Reported
  <2>1. OnDisk(i) /\ file[i].name \in Name
    BY LettersAre DEF IInv, ConfirmedInv
  <2>2. \E f \in Flushed : dir'[<<f, file[i].name>>] = i
    BY <1>2, <2>1 DEF OnDisk, Flushed
  <2> QED
    BY <1>1, <1>3, <2>2 DEF Posted, Holds, Flushed
<1>8. Archived' \subseteq AckedLetters
  <2> SUFFICES ASSUME NEW i \in Letters, dir'[<<"cur", file[i].name>>] = i PROVE i \in AckedLetters
    BY <1>1, <1>3, LettersAre DEF Archived, Holds
  <2>1. i # 0 /\ file[i].name \in Mail /\ file[i].name \in Name
    BY LettersAre
  <2>2. i \in disk[<<"cur", file[i].name>>] \ {0}
    BY <1>2, <2>1 DEF Flushed
  <2> QED
    BY <2>1, <2>2 DEF ArchivedWasAcked, AckedLetters
<1> QED
  BY <1>4, <1>5, <1>6, <1>7, <1>8, LossIs

\* Every step of the commands, their failures included, is a step of Mailbox or none.
LEMMA MailboxStep ==
    ASSUME MInv, MInv', NEW p \in Pid, Step(p) \/ Fault(p)
    PROVE  Abstract
<1>1. Gentle(p) /\ IInv /\ IInv'
  BY StepIsGentle DEF MInv
<1>2. ASSUME \A f \in Flushed, n \in Mail : dir'[<<f, n>>] = dir[<<f, n>>], confirmed' = confirmed
      PROVE  Abstract
  BY <1>1, <1>2, SamePlaces, SameWords, StutterIs
<1>3. /\ \A f \in Folder, n \in Name : <<f, n>> \in DOMAIN dir
      /\ Mail \subseteq Name /\ Flushed \subseteq Folder
  BY <1>1 DEF IInv, TypeOK, Mail, Folder
<1>4. CASE Rename(p)
  <2>1. CASE op[p].name \notin Mail
    <3> DEFINE n == op[p].name
               d == [dir EXCEPT ![<<"tmp", n>>] = 0]
    <3>1. dir' = [d EXCEPT ![<<"new", n>>] = op[p].ino] /\ confirmed' = confirmed
      BY <1>4 DEF Rename, HistorySame
    <3>2. \A f \in Flushed, m \in Mail : <<f, m>> \in DOMAIN d /\ d[<<f, m>>] = dir[<<f, m>>]
      BY <1>3 DEF Flushed
    <3> HIDE DEF d
    <3>3. \A f \in Flushed, m \in Mail : dir'[<<f, m>>] = dir[<<f, m>>]
      BY <2>1, <3>1, <3>2
    <3> QED
      BY <1>2, <3>1, <3>3
  <2> QED
    BY <1>1, <1>4, <2>1, RenamePosts
<1>5. CASE Link(p) \/ Unlink(p)
  <2>1. CASE DirSame
    BY <1>2, <1>5, <2>1 DEF DirSame, Link, Unlink, HistorySame
  <2>2. CASE op[p].name \notin Mail
    <3>1. \A f \in Flushed, m \in Mail : dir'[<<f, m>>] = dir[<<f, m>>]
      BY <1>3, <1>5, <2>2 DEF Link, Unlink, Put, DirSame
    <3> QED
      BY <1>2, <1>5, <3>1 DEF Link, Unlink, HistorySame
  <2> QED
    BY <1>1, <1>5, <2>1, <2>2, LinkStutters, UnlinkArchives DEF Link, Unlink
<1>6. CASE LedgerGivesUp(p) \/ LedgerAppend(p)
  BY <1>1, <1>6, SentReports DEF LedgerGivesUp, LedgerAppend, DirSame
<1>7. CASE Create(p) \/ Check(p) \/ PublishFault(p)
  <2>1. \A f \in Flushed, m \in Mail : dir'[<<f, m>>] = dir[<<f, m>>]
    BY <1>3, <1>7 DEF Create, Check, PublishFault, DropTmp, DirSame, Flushed
  <2> QED
    BY <1>2, <1>7, <2>1 DEF Create, Check, PublishFault, HistorySame
<1>8. CASE UNCHANGED dir /\ confirmed' = confirmed
  BY <1>2, <1>8
<1>9. CASE Say(p)
  BY <1>4, <1>6, <1>7, <1>8, <1>9
     DEF Say, StartSay, Write, Sync, LedgerLock, DirSame, HistorySame
<1>10. CASE Ack(p) \/ Archive(p) \/ StartDrain(p)
  BY <1>5, <1>8, <1>10 DEF Ack, StartAck, NextGroup, AckDone, Archive, Source, BatchDone, Dest, SyncCur,
     SyncNew, StartDrain, DirSame, HistorySame
<1>11. CASE Fault(p)
  BY <1>7, <1>8, <1>11 DEF Fault, ArchiveFault, Kill, KillParent, DirSame, HistorySame
<1> QED
  BY <1>9, <1>10, <1>11 DEF Step

\* The commands, file operation by file operation, with their failures and the power
\* losses, implement the mailbox in which a letter is posted, reported, acknowledged and
\* archived at once.
THEOREM Refinement == Spec => ImplementsMailbox
<1>1. Init => Mailboxes!Init
  BY DEF Init, Mailboxes!Init, Letters, AckedLetters
<1>2. MInv /\ MInv' /\ [Next]_vars => [Mailboxes!Next]_(Mailboxes!mailbox)
  <2> SUFFICES ASSUME MInv, MInv', [Next]_vars PROVE Abstract
    BY DEF Abstract
  <2>1. CASE UNCHANGED vars
    BY <2>1, StutterIs DEF vars, Posted, Reported, Archived, AckedLetters, Letters, Holds, Answers
  <2> QED
    BY <2>1, MailboxStep, LossLoses DEF Next
<1> QED
  BY <1>1, <1>2, MailInvariant, PTL DEF Spec, ImplementsMailbox, Mailboxes!Spec
=============================================================================
