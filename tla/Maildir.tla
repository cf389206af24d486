------------------------------- MODULE Maildir -------------------------------
(***************************************************************************)
(* The per-project mailboxes under .roundtable/inbox: rt-say publishes a   *)
(* message by tmp -> new/ rename, rt-ack answers it with a quiet sync-ack  *)
(* and moves it from new/ to cur/, and rt-inbox --archive-quiet-acks moves *)
(* the acknowledgements themselves.                                        *)
(*                                                                         *)
(* Every file operation is a step of its own, any process may be killed    *)
(* between two of them, any call may raise OSError, and the host may lose  *)
(* power: a directory then shows any state it had since its last fsync.    *)
(***************************************************************************)
EXTENDS Naturals, Sequences, FiniteSets

CONSTANTS
    Pid,        \* the processes that run rt-say, rt-ack and rt-inbox
    Sender,     \* the agents that write messages
    Reader,     \* the agents that read and acknowledge them
    Stamp,      \* second and pid of the sender: the rest of a message id
    MaxFile,    \* bound: message files ever created
    MaxCrash    \* bound: power losses

ASSUME MaildirBounds == MaxFile \in Nat /\ MaxCrash \in Nat

VARIABLES
    pc,         \* pc[p]: the next file operation of p
    op,         \* op[p]: the command p runs and its local variables
    file,       \* file[i]: inode i, in the order of creation
    dir,        \* dir[<<f, n>>]: the inode of name n in folder f, 0 for none
    disk,       \* disk[<<f, n>>]: the inodes a power loss may leave there; tmp/ is
                \* never flushed, so it is not kept for tmp/
    lockLeft,   \* ledger.lock was left behind by a process that died
    confirmed,  \* the inodes rt-say reported as sent (exit status 0)
    crashes     \* power losses so far

vars == <<pc, op, file, dir, disk, lockLeft, confirmed, crashes>>

Agent == Sender \cup Reader

\* <msg_id>.md, and ack-<msg_id>.md when quiet
Name == {n \in [from: Agent, to: Agent, stamp: Stamp, quiet: BOOLEAN] :
            /\ n.from # n.to
            /\ IF n.quiet THEN n.from \in Reader /\ n.to \in Sender
                          ELSE n.from \in Sender /\ n.to \in Reader}

Mail == {n \in Name : ~n.quiet}

NoName == [quiet |-> TRUE]

Flushed == {"new", "cur"}

Folder == {"tmp"} \cup Flushed

Inode == 0..MaxFile             \* 0: the name does not exist

\* text: nothing written, in the page cache, or on the disk (fsync)
File == [name: Name, refs: SUBSET Mail, text: {"empty", "cached", "synced"}]

Place == {"idle", "create", "write", "check", "rename", "sync", "ledger", "append",
          "group", "source", "dest", "link", "sync_cur", "unlink", "sync_new"}

(* kind: rt-say, rt-ack (with the rt-say it waits for) or the drain of quiet
   acknowledgements; agent: who runs it; name, ino: the file at hand; refs: the refs
   of the command line; todo: those whose sender has no acknowledgement yet; batch:
   the files to move to cur/. *)
Op == [kind: {"say", "ack", "drain"}, agent: Agent, name: Name \cup {NoName}, ino: Inode,
       refs: SUBSET Mail, todo: SUBSET Mail, batch: SUBSET Name]

NoOp == [kind |-> "none"]

TypeOK ==
    /\ pc \in [Pid -> Place]
    /\ op \in [Pid -> Op \cup {NoOp}]
    /\ \A p \in Pid : op[p] = NoOp <=> pc[p] = "idle"
    /\ file \in Seq(File) /\ Len(file) <= MaxFile
    /\ dir \in [Folder \X Name -> Inode]
    /\ disk \in [Flushed \X Name -> SUBSET Inode]
    /\ confirmed \subseteq DOMAIN file
    /\ lockLeft \in BOOLEAN
    /\ crashes \in 0..MaxCrash

Init ==
    /\ pc = [p \in Pid |-> "idle"]
    /\ op = [p \in Pid |-> NoOp]
    /\ file = << >>
    /\ dir = [e \in Folder \X Name |-> 0]
    /\ disk = [e \in Flushed \X Name |-> {0}]
    /\ confirmed = {}
    /\ lockLeft = FALSE
    /\ crashes = 0

-----------------------------------------------------------------------------
(* Helpers *)

Goto(p, place) == pc' = [pc EXCEPT ![p] = place]

\* The process ends, whatever its exit status
Exit(p) == /\ Goto(p, "idle")
           /\ op' = [op EXCEPT ![p] = NoOp]

\* The directory operations: changes of dir that an fsync has yet to make durable
Put(f, n, i) == /\ dir' = [dir EXCEPT ![<<f, n>>] = i]
                /\ disk' = [disk EXCEPT ![<<f, n>>] = @ \cup {i}]

DropTmp(n) == /\ dir' = [dir EXCEPT ![<<"tmp", n>>] = 0]
              /\ UNCHANGED disk

\* fsync_directory of one folder of a's mailbox
Fsync(f, a) ==
    disk' = [e \in Flushed \X Name |->
                IF e[1] = f /\ e[2].to = a THEN {dir[e]} ELSE disk[e]]

DirSame == UNCHANGED <<dir, disk>>
HistorySame == UNCHANGED <<lockLeft, confirmed, crashes>>

Publishing(p) == pc[p] \in {"create", "write", "check", "rename", "sync", "ledger", "append"}

\* An id is a second and a pid: two running senders do not share it, and an id comes
\* back, on a reused pid and a clock set back, only when no running command is about
\* a message of that id.
Fresh(p, n) ==
    \A q \in Pid \ {p} : pc[q] # "idle" =>
        /\ n \notin {op[q].name} \cup op[q].refs \cup op[q].batch
        /\ Publishing(q) => op[q].name.stamp # n.stamp

\* No running rt-say is about to use the id of n again
Settled(n) ==
    \A q \in Pid : pc[q] \in {"create", "write", "check", "rename"} => op[q].name # n

\* The file at hand is out of new/
Moved(o) == [o EXCEPT !.name = NoName, !.ino = 0, !.batch = @ \ {o.name}]

\* A command line
Command(kind, a, n, refs, batch) ==
    [kind |-> kind, agent |-> a, name |-> n, ino |-> 0, refs |-> refs, todo |-> refs,
     batch |-> batch]

-----------------------------------------------------------------------------
(* rt-say, and the rt-say that rt-ack runs *)

StartSay(p) ==
    /\ pc[p] = "idle"
    /\ \E n \in Mail :
        /\ Fresh(p, n)
        /\ op' = [op EXCEPT ![p] = Command("say", n.from, n, {}, {})]
    /\ Goto(p, "create")
    /\ UNCHANGED file /\ DirSame /\ HistorySame

\* The mailbox is there, .gitignore is repaired, and os.open(tmp, O_CREAT | O_EXCL);
\* MaxFile files fill the disk
Create(p) ==
    /\ pc[p] = "create"
    /\ IF dir[<<"tmp", op[p].name>>] # 0 \/ Len(file) = MaxFile
       THEN Exit(p) /\ UNCHANGED file /\ DirSame
       ELSE /\ file' = Append(file, [name |-> op[p].name, refs |-> op[p].batch,
                                     text |-> "empty"])
            /\ op' = [op EXCEPT ![p].ino = Len(file')]
            /\ dir' = [dir EXCEPT ![<<"tmp", op[p].name>>] = Len(file')]
            /\ UNCHANGED disk
            /\ Goto(p, "write")
    /\ HistorySame

\* mutant: the message is written but not flushed to the disk
WriteUnsynced(p) ==
    /\ pc[p] = "write"
    /\ file' = [file EXCEPT ![op[p].ino].text = "cached"]
    /\ Goto(p, "check")
    /\ UNCHANGED op /\ DirSame /\ HistorySame

\* handle.write and os.fsync
Write(p) ==
    /\ pc[p] = "write"
    /\ file' = [file EXCEPT ![op[p].ino].text = "synced"]
    /\ Goto(p, "check")
    /\ UNCHANGED op /\ DirSame /\ HistorySame

\* mutant: nobody looks whether the name is taken
CheckNothing(p) ==
    /\ pc[p] = "check"
    /\ Goto(p, "rename")
    /\ UNCHANGED <<op, file>> /\ DirSame /\ HistorySame

\* new_path.exists(): the temporary file goes and rt-say fails
Check(p) ==
    /\ pc[p] = "check"
    /\ IF dir[<<"new", op[p].name>>] # 0
       THEN Exit(p) /\ DropTmp(op[p].name)
       ELSE Goto(p, "rename") /\ UNCHANGED op /\ DirSame
    /\ UNCHANGED file /\ HistorySame

\* os.rename(tmp, new): the delivery commit point
Rename(p) ==
    /\ pc[p] = "rename"
    /\ dir' = [dir EXCEPT ![<<"tmp", op[p].name>>] = 0, ![<<"new", op[p].name>>] = op[p].ino]
    /\ disk' = [disk EXCEPT ![<<"new", op[p].name>>] = @ \cup {op[p].ino}]
    /\ Goto(p, "sync")
    /\ UNCHANGED <<op, file>> /\ HistorySame

\* mutant: the new/ folder is not flushed
SyncSkipped(p) ==
    /\ pc[p] = "sync"
    /\ Goto(p, "ledger")
    /\ UNCHANGED <<op, file>> /\ DirSame /\ HistorySame

\* fsync_directory(new_dir)
Sync(p) ==
    /\ pc[p] = "sync"
    /\ Fsync("new", op[p].name.to)
    /\ Goto(p, "ledger")
    /\ UNCHANGED <<op, file, dir>> /\ HistorySame

\* rt-say exits with status 0; rt-ack goes on to archive what it has acknowledged
Sent(p) ==
    /\ confirmed' = confirmed \cup {op[p].ino}
    /\ IF op[p].kind = "ack"
       THEN /\ Goto(p, "source")
            /\ op' = [op EXCEPT ![p].name = NoName, ![p].ino = 0]
       ELSE Exit(p)

LedgerBusy == lockLeft \/ \E q \in Pid : pc[q] = "append"

\* mkdir of ledger.lock
LedgerLock(p) ==
    /\ pc[p] = "ledger"
    /\ ~LedgerBusy
    /\ Goto(p, "append")
    /\ UNCHANGED <<op, file>> /\ DirSame /\ HistorySame

\* mutant: rt-say waits for a lock that was left behind
LedgerWaits(p) ==
    /\ pc[p] = "ledger"
    /\ ~lockLeft
    /\ Sent(p)
    /\ UNCHANGED <<file, lockLeft, crashes>> /\ DirSame

\* Ten seconds pass, or there is no way to lock the ledger: append_ledger_after_delivery
\* warns and the message is sent all the same
LedgerGivesUp(p) ==
    /\ pc[p] = "ledger"
    /\ Sent(p)
    /\ UNCHANGED <<file, lockLeft, crashes>> /\ DirSame

\* The record is appended, or that fails; release_lock
LedgerAppend(p) ==
    /\ pc[p] = "append"
    /\ Sent(p)
    /\ UNCHANGED <<file, lockLeft, crashes>> /\ DirSame

Say(p) == \/ StartSay(p) \/ Create(p) \/ Write(p) \/ Check(p) \/ Rename(p) \/ Sync(p)
          \/ LedgerLock(p) \/ LedgerGivesUp(p) \/ LedgerAppend(p)

-----------------------------------------------------------------------------
(* rt-ack *)

\* The refs of one command line are for one recipient; any of them may have been
\* archived before
StartAck(p) ==
    /\ pc[p] = "idle"
    /\ \E a \in Agent :
        \E R \in SUBSET {n \in Mail : n.to = a /\ \E f \in Flushed : dir[<<f, n>>] # 0} :
            /\ R # {}
            /\ \A n \in R : Settled(n)
            /\ op' = [op EXCEPT ![p] = Command("ack", a, NoName, R, {})]
    /\ Goto(p, "group")
    /\ UNCHANGED file /\ DirSame /\ HistorySame

\* mutant: one acknowledgement for all the refs, to one of their senders
NextMixed(p) ==
    /\ pc[p] = "group"
    /\ \E n \in Name :
        /\ n.quiet /\ n.from = op[p].agent /\ \E r \in op[p].todo : r.from = n.to
        /\ Fresh(p, n)
        /\ op' = [op EXCEPT ![p].name = n, ![p].batch = op[p].todo, ![p].todo = {}]
    /\ Goto(p, "create")
    /\ UNCHANGED file /\ DirSame /\ HistorySame

\* One acknowledgement for each original sender, published by a rt-say of its own
NextGroup(p) ==
    /\ pc[p] = "group"
    /\ \E n \in Name :
        LET group == {r \in op[p].todo : r.from = n.to}
        IN  /\ n.quiet /\ n.from = op[p].agent /\ group # {}
            /\ Fresh(p, n)
            /\ op' = [op EXCEPT ![p].name = n, ![p].batch = group,
                                ![p].todo = @ \ group]
    /\ Goto(p, "create")
    /\ UNCHANGED file /\ DirSame /\ HistorySame

\* All is acknowledged and archived: exit status 0
AckDone(p) ==
    /\ pc[p] = "group"
    /\ op[p].todo = {}
    /\ Exit(p)
    /\ UNCHANGED file /\ DirSame /\ HistorySame

\* lstat of the next file to move.  Mail that is gone is no error for rt-ack; an
\* acknowledgement that is gone is one for rt-inbox.
Source(p) ==
    /\ pc[p] = "source"
    /\ \E n \in op[p].batch :
        IF dir[<<"new", n>>] # 0
        THEN /\ op' = [op EXCEPT ![p].name = n, ![p].ino = dir[<<"new", n>>]]
             /\ Goto(p, "dest")
        ELSE IF op[p].kind = "ack"
        THEN op' = [op EXCEPT ![p].batch = @ \ {n}] /\ UNCHANGED pc
        ELSE Exit(p)
    /\ UNCHANGED file /\ DirSame /\ HistorySame

\* The batch is archived: rt-ack turns to the next sender, rt-inbox ends
BatchDone(p) ==
    /\ pc[p] = "source"
    /\ op[p].batch = {}
    /\ IF op[p].kind = "ack"
       THEN Goto(p, "group") /\ UNCHANGED op
       ELSE Exit(p)
    /\ UNCHANGED file /\ DirSame /\ HistorySame

\* mutant: a message that has reached cur/ counts as archived
DestStops(p) ==
    /\ pc[p] = "dest"
    /\ IF dir[<<"cur", op[p].name>>] = 0 THEN Goto(p, "link") /\ UNCHANGED op
       ELSE /\ Goto(p, "source")
            /\ op' = [op EXCEPT ![p] = Moved(@)]
    /\ UNCHANGED file /\ DirSame /\ HistorySame

\* lstat of its name in cur/: free, this very inode (an archive that was cut short:
\* rt-ack flushes cur/ again, rt-inbox does not), or another message
Dest(p) ==
    /\ pc[p] = "dest"
    /\ LET there == dir[<<"cur", op[p].name>>]
       IN  IF there = 0 THEN Goto(p, "link") /\ UNCHANGED op
           ELSE IF there # op[p].ino THEN Exit(p)
           ELSE /\ Goto(p, IF op[p].kind = "ack" THEN "sync_cur" ELSE "unlink")
                /\ UNCHANGED op
    /\ UNCHANGED file /\ DirSame /\ HistorySame

\* os.link(source, destination) fails when the first is gone or the second is there
Link(p) ==
    /\ pc[p] = "link"
    /\ IF dir[<<"new", op[p].name>>] # 0 /\ dir[<<"cur", op[p].name>>] = 0
       THEN /\ Put("cur", op[p].name, dir[<<"new", op[p].name>>])
            /\ Goto(p, "sync_cur")
            /\ UNCHANGED op
       ELSE Exit(p) /\ DirSame
    /\ UNCHANGED file /\ HistorySame

\* mutant: cur/ is not flushed before the name in new/ goes
SyncCurSkipped(p) ==
    /\ pc[p] = "sync_cur"
    /\ Goto(p, "unlink")
    /\ UNCHANGED <<op, file>> /\ DirSame /\ HistorySame

SyncCur(p) ==
    /\ pc[p] = "sync_cur"
    /\ Fsync("cur", op[p].name.to)
    /\ Goto(p, "unlink")
    /\ UNCHANGED <<op, file, dir>> /\ HistorySame

Unlink(p) ==
    /\ pc[p] = "unlink"
    /\ IF dir[<<"new", op[p].name>>] # 0
       THEN Put("new", op[p].name, 0) /\ Goto(p, "sync_new") /\ UNCHANGED op
       ELSE Exit(p) /\ DirSame
    /\ UNCHANGED file /\ HistorySame

SyncNew(p) ==
    /\ pc[p] = "sync_new"
    /\ Fsync("new", op[p].name.to)
    /\ op' = [op EXCEPT ![p] = Moved(@)]
    /\ Goto(p, "source")
    /\ UNCHANGED <<file, dir>> /\ HistorySame

Ack(p) == StartAck(p) \/ NextGroup(p) \/ AckDone(p)

Archive(p) == \/ Source(p) \/ BatchDone(p) \/ Dest(p) \/ Link(p) \/ SyncCur(p)
              \/ Unlink(p) \/ SyncNew(p)

-----------------------------------------------------------------------------
(* rt-inbox --archive-quiet-acks *)

\* read_maildir_records: the acknowledgements in new/ that can be read
StartDrain(p) ==
    /\ pc[p] = "idle"
    /\ \E a \in Agent :
        LET acks == {n \in Name : /\ n.quiet /\ n.to = a /\ dir[<<"new", n>>] # 0
                                  /\ file[dir[<<"new", n>>]].text # "empty"}
        IN  /\ acks # {}
            /\ \A n \in acks : Settled(n)
            /\ op' = [op EXCEPT ![p] = Command("drain", a, NoName, {}, acks)]
    /\ Goto(p, "source")
    /\ UNCHANGED file /\ DirSame /\ HistorySame

-----------------------------------------------------------------------------
(* Failures *)

\* OSError in rt-say: its temporary file goes, if it was created and can be removed.
\* Then rt-ack leaves the inbound mail alone.
PublishFault(p) ==
    /\ pc[p] \in {"create", "write", "check", "rename", "sync"}
    /\ Exit(p)
    /\ \/ DirSame
       \/ pc[p] \in {"write", "check", "rename"} /\ DropTmp(op[p].name)
    /\ UNCHANGED file /\ HistorySame

\* OSError while a message is archived: SystemExit
ArchiveFault(p) ==
    /\ pc[p] \in {"source", "dest", "link", "sync_cur", "unlink", "sync_new"}
    /\ Exit(p)
    /\ UNCHANGED file /\ DirSame /\ HistorySame

\* The process is killed.  Nobody removes a lock or a temporary file it leaves.
Kill(p) ==
    /\ pc[p] # "idle"
    /\ Exit(p)
    /\ lockLeft' = (lockLeft \/ pc[p] = "append")
    /\ UNCHANGED <<file, confirmed, crashes>> /\ DirSame

\* rt-ack is killed while the rt-say it runs goes on
KillParent(p) ==
    /\ op[p].kind = "ack"
    /\ pc[p] \in {"create", "write", "check", "rename", "sync", "ledger", "append"}
    /\ op' = [op EXCEPT ![p].kind = "say", ![p].todo = {}]
    /\ UNCHANGED <<pc, file>> /\ DirSame /\ HistorySame

\* A name of tmp/ may be gone or back
AfterLoss(e) ==
    IF e[1] = "tmp" THEN {0} \cup {i \in DOMAIN file : file[i].name = e[2]} ELSE disk[e]

\* Power loss: a name shows any inode it had since the last fsync of its folder, a
\* message that was not flushed is empty
PowerLoss ==
    /\ crashes < MaxCrash
    /\ crashes' = crashes + 1
    /\ pc' = [p \in Pid |-> "idle"]
    /\ op' = [p \in Pid |-> NoOp]
    /\ file' = [i \in DOMAIN file |->
                   IF file[i].text = "cached" THEN [file[i] EXCEPT !.text = "empty"]
                   ELSE file[i]]
    /\ LET open == {e \in Folder \X Name : AfterLoss(e) # {dir[e]}}
       IN  \E d \in [open -> UNION {AfterLoss(e) : e \in open}] :
            /\ \A e \in open : d[e] \in AfterLoss(e)
            /\ dir' = [e \in Folder \X Name |-> IF e \in open THEN d[e] ELSE dir[e]]
    /\ disk' = [e \in Flushed \X Name |-> {dir'[e]}]
    /\ lockLeft' \in {FALSE, LedgerBusy}
    /\ UNCHANGED confirmed

Fault(p) == PublishFault(p) \/ ArchiveFault(p) \/ Kill(p) \/ KillParent(p)

Step(p) == Say(p) \/ Ack(p) \/ Archive(p) \/ StartDrain(p)

Next == \/ \E p \in Pid : Step(p) \/ Fault(p)
        \/ PowerLoss

Spec == Init /\ [][Next]_vars

\* A command that runs goes on
Continue(p) == pc[p] # "idle" /\ Step(p)

FairSpec == Spec /\ \A p \in Pid : WF_vars(Continue(p))

-----------------------------------------------------------------------------
(* Properties *)

PowerLost == crashes' # crashes

Holds(f, i) == dir[<<f, file[i].name>>] = i

\* Whatever a power loss leaves behind, inode i keeps its name in new/ or in cur/
OnDisk(i) == \E f \in {"new", "cur"} : disk[<<f, file[i].name>>] = {i}

\* A message that rt-say reported as sent is never lost: at every instant, during the
\* publication, the archive and after a power loss, its name in new/ or in cur/ is on
\* the disk and its text is there (publish_maildir and archive_inbound, the order of
\* fsync, rename, link and unlink).
SentMailSurvives ==
    \A i \in confirmed : ~file[i].name.quiet => OnDisk(i) /\ file[i].text = "synced"

\* The file is an acknowledgement of n for the sender of n
Answers(f, n) == f.name.quiet /\ f.name.to = n.from /\ n \in f.refs

\* Mail that may be out of new/ has been answered: no step of rt-ack, in no order and
\* with no failure of the rt-say it runs, moves a message of which the sender has no
\* acknowledgement that is younger than the message (the main loop of rt-ack).
ArchivedWasAcked ==
    \A n \in Mail : \A i \in disk[<<"cur", n>>] \ {0} :
        \E j \in confirmed : j > i /\ Answers(file[j], n)

\* A name in new/ or cur/ never comes to stand for another message while it is there,
\* even if the id is used twice: rt-say looks before it renames, the archives link
\* instead of renaming and refuse a conflicting entry.
NeverOverwritten ==
    [][PowerLost \/ \A n \in Name :
        /\ dir[<<"new", n>>] # 0 => dir'[<<"new", n>>] \in {0, dir[<<"new", n>>]}
        /\ dir[<<"cur", n>>] # 0 => dir'[<<"cur", n>>] = dir[<<"cur", n>>]]_vars

\* A reader of new/ or cur/ never finds a message that is not all there: even after a
\* power loss only flushed files have a name outside tmp/.
OnlyWholeMessages ==
    \A f \in {"new", "cur"} : \A n \in Name : \A i \in disk[<<f, n>>] \ {0} : file[i].text = "synced"

\* rt-ack that ends with status 0 has moved every ref of its command line out of new/,
\* also when another rt-ack works on the same refs or an earlier one was cut short.
AckEmptiesNew ==
    [][\A p \in Pid :
        (pc[p] = "group" /\ pc'[p] = "idle" /\ ~PowerLost /\ op[p].todo = {}) =>
            \A n \in op[p].refs : dir[<<"new", n>>] = 0]_vars

-----------------------------------------------------------------------------
(* The mailbox this implements, for ordinary messages *)

Letters == {i \in DOMAIN file : ~file[i].name.quiet}

AckedLetters ==
    {i \in Letters : \E j \in confirmed : j > i /\ Answers(file[j], file[i].name)}

Mailboxes == INSTANCE Mailbox WITH
    Message <- 1..MaxFile,
    posted <- {i \in Letters : Holds("new", i) \/ Holds("cur", i)},
    reported <- confirmed \cap Letters,
    acknowledged <- AckedLetters,
    archived <- {i \in Letters : Holds("cur", i) /\ ~Holds("new", i)}

\* The steps of rt-say and rt-ack, their failures and the power losses are the atomic
\* posts, reports, acknowledgements and archives of the module Mailbox.
ImplementsMailbox == Mailboxes!Spec

\* Every command comes to an end, also when a process died with the ledger lock
CommandsEnd == \A p \in Pid : pc[p] # "idle" ~> pc[p] = "idle"

=============================================================================
