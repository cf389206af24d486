------------------------- MODULE CodexServicesProofs -------------------------
(***************************************************************************)
(* Proofs about CodexServices for any number of launchers, values of       *)
(* RT_PROJECTS_FILE, rounds of the preflight, changes, launches and        *)
(* troubles.                                                               *)
(***************************************************************************)
EXTENDS CodexServices, TLAPS

\* A launcher past its locks holds them, and a setup command that runs has its own.
LockInv ==
    /\ \A c \in Launcher : proc[c].at \in Locked \cup {"setup"} => repairLock = c
    /\ \A c \in Launcher : proc[c].at \in Locked => setupLock = c
    /\ setup.at # "idle" => setupLock = SetupCommand

\* Where a launcher has not written the plist of a service yet
Unwritten(s) == IF s = "app" THEN {"claim", "payload", "ensure", "appwrite"}
                ELSE (Mutating \cup {"claim"}) \ {"wakeout", "wakein", "wakewait", "clear"}

\* From the decision on, the manifest records what this launcher wanted then, and a plist
\* that it has not written is the recorded one.
FilesOf(c) ==
    proc[c].at \in Mutating \cup {"claim"} =>
        \A s \in Service :
            /\ recorded[s] = Content(s, recorded["app"].path, proc[c].file)
            /\ recorded[s].path # 0 /\ plist[s].path # 0
            /\ proc[c].at \in Unwritten(s) => plist[s] = recorded[s]
FilesInv == \A c \in Launcher : FilesOf(c)

\* A plist that a repair has changed is not the one that the manifest records, for good.
StrayInv == \A s \in stray : recorded[s] # NoPlist /\ ~Owned(s)

\* What a launcher knows of the services at each place of the repair.
ReloadOf(c) ==
    /\ (proc[c].at \in {"payload", "ensure", "appwrite", "appout"} /\ Loaded("app")) =>
         (live = {} /\ proc[c].approved)
    /\ proc[c].at \in {"appwait", "wakecheck", "wakewrite", "wakeout", "wakein", "wakewait",
                       "clear", "claim"} => job["app"].plist = plist["app"]
    /\ proc[c].at = "claim" =>
         /\ marker = 0 /\ Loaded("wake")
         /\ job["wake"].up => job["wake"].runs >= proc[c].build
ReloadInv == \A c \in Launcher : ReloadOf(c)

\* Nothing runs that is not loaded, and no process is of a later build than the package.
JobInv == /\ \A s \in Service : job[s].up => Loaded(s)
          /\ \A c \in Launcher : proc[c].build <= build

\* Setup runs on plists that no repair has changed, and writes a new one of the
\* app-server only behind a marker.
SetupInv ==
    /\ setup.at # "idle" => (setup.path # 0 /\ stray = {})
    /\ setup.at = "app" => (plist["app"] = Prepared("app") \/ marker # 0)

IInv == /\ TypeOK /\ LockInv /\ FilesInv /\ StrayInv /\ ReloadInv /\ JobInv /\ SetupInv
        /\ MarkerUntilLoaded

-----------------------------------------------------------------------------
(* What the steps of a launcher do to it *)

\* Only launcher c has changed, and is a launcher still.
Alone(c) ==
    /\ proc' \in [Launcher -> Proc]
    /\ \A d \in Launcher \ {c} : proc'[d] = proc[d]

\* What the launcher was started with, and the answer of its user
SameProcess(c) == /\ proc'[c].build = proc[c].build /\ proc'[c].file = proc[c].file
                  /\ proc'[c].approved = proc[c].approved

LEMMA GoesIs ==
    ASSUME TypeOK, NEW c \in Launcher, NEW place \in Place, Goes(c, place)
    PROVE  Alone(c) /\ SameProcess(c) /\ proc'[c].at = place
BY DEF TypeOK, Goes, Alone, SameProcess, Proc

LEMMA PlanIs ==
    ASSUME TypeOK, NEW c \in Launcher, NEW place \in Place,
           NEW plan \in {"none", "cold", "ensure", "pair", "bridge"}, Plan(c, place, plan)
    PROVE  Alone(c) /\ SameProcess(c) /\ proc'[c].at = place
<1> DEFINE q == [proc[c] EXCEPT !.at = place]
           r == [q EXCEPT !.plan = plan]
<1>1. q \in Proc /\ q.at = place /\ q.build = proc[c].build /\ q.file = proc[c].file
        /\ q.approved = proc[c].approved
  BY DEF TypeOK, Proc
<1>2. proc' = [proc EXCEPT ![c] = r]
  BY DEF Plan
<1> HIDE DEF q
<1>3. r \in Proc /\ r.at = q.at /\ r.build = q.build /\ r.file = q.file
        /\ r.approved = q.approved
  BY <1>1 DEF Proc
<1> QED
  BY <1>1, <1>2, <1>3 DEF TypeOK, Alone, SameProcess

LEMMA IdleIs ==
    ASSUME TypeOK, NEW c \in Launcher, proc' = [proc EXCEPT ![c] = IdleProc]
    PROVE  Alone(c) /\ proc'[c].at = "idle" /\ proc'[c].build = 0
BY ServicesAssumption DEF TypeOK, Alone, Proc, IdleProc, Place, File

LEMMA FailsIs ==
    ASSUME TypeOK, NEW c \in Launcher, Fails(c)
    PROVE  Alone(c) /\ proc'[c].at = "idle" /\ proc'[c].build = 0 /\ Unlocks
BY IdleIs DEF Fails

LEMMA NextRoundIs ==
    ASSUME TypeOK, NEW c \in Launcher, NextRound(c)
    PROVE  /\ Alone(c) /\ Unlocks
           /\ proc'[c].at \in {"idle", "look"} /\ proc'[c].build \in {0, proc[c].build}
<1>1. CASE proc[c].round < Attempts
  <2> DEFINE q == [proc[c] EXCEPT !.at = "look"]
             r == [q EXCEPT !.round = proc[c].round + 1]
             u == [r EXCEPT !.payload = 0]
             v == [u EXCEPT !.plan = "none"]
  <2>1. proc' = [proc EXCEPT ![c] = v]
    BY <1>1 DEF NextRound
  <2>2. proc[c].round + 1 \in 0..Attempts
    BY <1>1, ServicesAssumption DEF TypeOK, Proc
  <2>3. q \in Proc /\ q.at = "look" /\ q.build = proc[c].build
    BY DEF TypeOK, Proc, Place
  <2> HIDE DEF q
  <2>4. r \in Proc /\ r.at = "look" /\ r.build = proc[c].build
    BY <2>2, <2>3 DEF Proc
  <2> HIDE DEF r
  <2>5. u \in Proc /\ u.at = "look" /\ u.build = proc[c].build
    BY <2>4 DEF Proc
  <2> HIDE DEF u
  <2>6. v \in Proc /\ v.at = "look" /\ v.build = proc[c].build
    BY <2>5 DEF Proc
  <2> HIDE DEF v
  <2> QED
    BY <1>1, <2>1, <2>6 DEF TypeOK, NextRound, Alone
<1>2. CASE ~(proc[c].round < Attempts)
  BY <1>2, IdleIs DEF NextRound
<1> QED
  BY <1>1, <1>2

\* Look, Answer and Launch leave a launcher without locks.
Free == {"idle", "look", "ask", "repair"}

LEMMA LaunchIs ==
    ASSUME TypeOK, NEW c \in Launcher, Launch(c)
    PROVE  Alone(c) /\ proc'[c].at \in Free /\ proc'[c].build = build
<1>1. PICK f \in File :
        proc' = [proc EXCEPT ![c] = [at |-> "look", build |-> build, file |-> f, payload |-> 0,
                                     round |-> 1, approved |-> FALSE, plan |-> "none"]]
  BY DEF Launch
<1>2. build \in Nat /\ 1 \in 0..Attempts
  BY ServicesAssumption DEF TypeOK
<1> QED
  BY <1>1, <1>2 DEF TypeOK, Alone, Proc, Free, Place

LEMMA LookIs ==
    ASSUME TypeOK, NEW c \in Launcher, Look(c)
    PROVE  Alone(c) /\ proc'[c].at \in Free /\ proc'[c].build \in {0, proc[c].build}
<1>1. \/ proc' = [proc EXCEPT ![c] = IdleProc]
      \/ \E place \in {"ask", "repair"} : Goes(c, place)
  BY DEF Look, Goes
<1>2. CASE proc' = [proc EXCEPT ![c] = IdleProc]
  BY <1>2, IdleIs DEF Free
<1>3. CASE \E place \in {"ask", "repair"} : Goes(c, place)
  BY <1>3, GoesIs DEF Free, Place, SameProcess
<1> QED
  BY <1>1, <1>2, <1>3

LEMMA AnswerIs ==
    ASSUME TypeOK, NEW c \in Launcher, Answer(c)
    PROVE  Alone(c) /\ proc'[c].at \in Free /\ proc'[c].build \in {0, proc[c].build}
<1>1. CASE proc' = [proc EXCEPT ![c] = IdleProc]
  BY <1>1, IdleIs DEF Free
<1>2. CASE proc' = [proc EXCEPT ![c].at = "repair", ![c].approved = TRUE]
  <2> DEFINE q == [proc[c] EXCEPT !.at = "repair"]
             r == [q EXCEPT !.approved = TRUE]
  <2>1. q \in Proc /\ q.at = "repair" /\ q.build = proc[c].build
    BY DEF TypeOK, Proc, Place
  <2>2. proc' = [proc EXCEPT ![c] = r]
    BY <1>2
  <2> HIDE DEF q
  <2>3. r \in Proc /\ r.at = q.at /\ r.build = q.build
    BY <2>1 DEF Proc
  <2> QED
    BY <2>1, <2>2, <2>3 DEF TypeOK, Alone, Free
<1> QED
  BY <1>1, <1>2 DEF Answer

LEMMA PayloadIs ==
    ASSUME TypeOK, NEW c \in Launcher, Payload(c)
    PROVE  /\ Alone(c)
           /\ \/ UNCHANGED locks /\ proc'[c].at \in {"appwrite", "ensure"} /\ SameProcess(c)
              \/ Unlocks /\ proc'[c].at = "idle" /\ proc'[c].build = 0
<1>1. CASE proc' = [proc EXCEPT ![c].at = "appwrite", ![c].plan = "pair",
                                ![c].payload = path] /\ UNCHANGED locks
  <2> DEFINE q == [proc[c] EXCEPT !.at = "appwrite"]
             r == [q EXCEPT !.plan = "pair"]
             u == [r EXCEPT !.payload = path]
             Same(x) == x.build = proc[c].build /\ x.file = proc[c].file
                          /\ x.approved = proc[c].approved
  <2>1. proc' = [proc EXCEPT ![c] = u]
    BY <1>1
  <2>2. q \in Proc /\ q.at = "appwrite" /\ Same(q)
    BY DEF TypeOK, Proc, Place
  <2> HIDE DEF q
  <2>3. r \in Proc /\ r.at = "appwrite" /\ Same(r)
    BY <2>2 DEF Proc
  <2> HIDE DEF r
  <2>4. u \in Proc /\ u.at = "appwrite" /\ Same(u)
    BY <2>3 DEF TypeOK, Proc
  <2> HIDE DEF u
  <2> QED
    BY <1>1, <2>1, <2>4 DEF TypeOK, Alone, SameProcess
<1>2. CASE Plan(c, "ensure", "ensure") /\ UNCHANGED locks
  BY <1>2, PlanIs DEF Place
<1>3. CASE Fails(c)
  BY <1>3, FailsIs
<1> QED
  BY <1>1, <1>2, <1>3 DEF Payload

-----------------------------------------------------------------------------
(* The status that a launcher sees *)

LEMMA StatusMeans ==
    ASSUME JobInv, NEW b, NEW f, Status(b, f) \notin {"unsafe", "setup_required"}
    PROVE  /\ \A s \in Service : plist[s] = Wanted(s, f) /\ recorded[s] = plist[s]
           /\ Status(b, f) = "ready" =>
                /\ job["app"].plist = plist["app"] /\ marker = 0
                /\ Loaded("wake") /\ job["wake"].runs = b
           /\ Status(b, f) = "cold" => ~Loaded("app")
           /\ Status(b, f) = "bridge_down" => job["app"].plist = plist["app"]
           /\ Status(b, f) = "reload_required_idle" => live = {}
<1>1. ~Unsafe(f) /\ ~SetupRequired(f)
  BY DEF Status
<1>2. \A s \in Service : plist[s] = Wanted(s, f) /\ recorded[s] = plist[s]
  BY <1>1 DEF SetupRequired, Owned
<1>3. CASE MustReload
  BY <1>1, <1>2, <1>3 DEF Status, Busy
<1>4. CASE ~MustReload /\ ~Loaded("app")
  BY <1>1, <1>2, <1>4 DEF Status
<1>5. CASE ~MustReload /\ Loaded("app")
  <2>1. job["app"].plist = plist["app"] /\ marker = 0
    BY <1>2, <1>5 DEF MustReload, OwnerIsCurrent, Wanted, Content, Service
  <2>2. Status(b, f) = "ready" => BridgeHealthy(b)
    BY <1>1, <1>5 DEF Status
  <2>3. Status(b, f) \in {"ready", "bridge_down"}
    BY <1>1, <1>5 DEF Status
  <2> QED
    BY <1>2, <2>1, <2>2, <2>3 DEF BridgeHealthy, JobInv, Service
<1> QED
  BY <1>3, <1>4, <1>5

-----------------------------------------------------------------------------
(* What the steps do *)

\* A step of one launcher
LauncherStep(c) == Launch(c) \/ Works(c) \/ Answer(c) \/ Dies(c)

\* Before it has both locks, a launcher changes only itself and the locks.
Prepares(c) == \/ Launch(c) \/ Look(c) \/ Answer(c) \/ LockRepair(c) \/ LockSetup(c)
               \/ TimesOut(c) \/ Dies(c)

\* Under both locks: the steps that only look, and those of install_launch_agent
Considers(c) == \/ Check(c) \/ Payload(c) \/ Ensure(c) \/ AppWait(c) \/ WakeCheck(c)
                \/ WakeWait(c)
Installs(c) == \/ AppWrite(c) \/ AppOut(c) \/ AppIn(c) \/ WakeWrite(c) \/ WakeOut(c)
               \/ WakeIn(c)
Decides(c) == Considers(c) \/ Installs(c) \/ Claim(c) \/ Clear(c)

LEMMA LauncherStepIs ==
    ASSUME NEW c \in Launcher, LauncherStep(c)
    PROVE  Prepares(c) \/ Decides(c)
BY DEF LauncherStep, Works, Prepares, Decides, Considers, Installs

\* The steps of setup, launchd and the host
HostStep ==
    \/ \E c \in Launcher : Exit(c)
    \/ \E f \in File : SetupBegins(f)
    \/ SetupWorks \/ SetupDies
    \/ \E s \in Service : Starts(s) \/ Crashes(s)
    \/ Upgrade \/ CodexMoves \/ CodexUpgrade

\* A step is one of a launcher or one of the host.
LEMMA Steps == Next => (\E c \in Launcher : LauncherStep(c)) \/ HostStep
BY DEF Next, LauncherStep, HostStep

LEMMA PreparesIs ==
    ASSUME TypeOK, NEW c \in Launcher, Prepares(c)
    PROVE  /\ Alone(c) /\ proc'[c].at \in Free \cup {"setup", "check"}
           /\ proc'[c].build \in {0, build, proc[c].build}
           /\ UNCHANGED <<plist, recorded, marker, stray, job, path, codex, build, live, setup>>
<1>1. UNCHANGED <<plist, recorded, marker, stray, job, path, codex, build, live, setup>>
  BY DEF Prepares, Launch, Look, Answer, LockRepair, LockSetup, TimesOut, Dies, files, versions
<1>2. CASE Launch(c) \/ Look(c) \/ Answer(c)
  BY <1>1, <1>2, LaunchIs, LookIs, AnswerIs
<1>3. CASE LockRepair(c) \/ LockSetup(c)
  BY <1>1, <1>3, GoesIs DEF LockRepair, LockSetup, Place, SameProcess
<1>4. CASE TimesOut(c) \/ Dies(c)
  BY <1>1, <1>4, IdleIs DEF TimesOut, Dies, Free
<1> QED
  BY <1>2, <1>3, <1>4 DEF Prepares

\* A launcher gives up its locks only as it leaves the places of the decision.
LEMMA ConsidersIs ==
    ASSUME TypeOK, NEW c \in Launcher, Considers(c)
    PROVE  /\ Alone(c) /\ proc[c].at \in Locked
           /\ \/ UNCHANGED locks /\ proc'[c].at \in Locked /\ SameProcess(c)
              \/ Unlocks /\ proc'[c].at \in Free /\ proc'[c].build \in {0, proc[c].build}
           /\ UNCHANGED <<plist, recorded, marker, stray, job, path, codex, build, live, setup>>
<1> USE DEF Locked, Mutating, Place, Free
<1>1. UNCHANGED <<plist, recorded, marker, stray, job, path, codex, build, live, setup>>
  BY DEF Considers, Check, Payload, Ensure, AppWait, WakeCheck, WakeWait, files, versions
<1>2. CASE Check(c)
  BY <1>1, <1>2, GoesIs, PlanIs, NextRoundIs, FailsIs DEF Check
<1>3. CASE Payload(c)
  BY <1>1, <1>3, PayloadIs DEF Payload
<1>4. CASE Ensure(c) \/ AppWait(c) \/ WakeCheck(c) \/ WakeWait(c)
  BY <1>1, <1>4, GoesIs, NextRoundIs, FailsIs DEF Ensure, AppWait, WakeCheck, WakeWait
<1> QED
  BY <1>2, <1>3, <1>4 DEF Considers

LEMMA InstallsIs ==
    ASSUME TypeOK, NEW c \in Launcher, Installs(c)
    PROVE  /\ Alone(c) /\ SameProcess(c) /\ proc[c].at \in Locked /\ proc'[c].at \in Locked
           /\ UNCHANGED <<recorded, marker, path, codex, build, live, setup, repairLock,
                          setupLock>>
<1>1. PICK place \in Mutating, next \in Mutating : proc[c].at = place /\ Goes(c, next)
  BY DEF Installs, AppWrite, AppOut, AppIn, WakeWrite, WakeOut, WakeIn, Writes, Out, In,
     Mutating, Place
<1>2. UNCHANGED <<recorded, marker, path, codex, build, live, setup, repairLock, setupLock>>
  BY DEF Installs, AppWrite, AppOut, AppIn, WakeWrite, WakeOut, WakeIn, Writes, Out, In,
     files, versions, locks
<1> QED
  BY <1>1, <1>2, GoesIs DEF Mutating, Locked, Place

\* The three steps of install_launch_agent, and what each is about
LEMMA WritesIs ==
    ASSUME TypeOK, NEW c \in Launcher, NEW s \in Service, NEW place \in Place,
           NEW next \in Place, Writes(c, s, place, next)
    PROVE  /\ plist'[s] = Wanted(s, proc[c].file)
           /\ \A t \in Service \ {s} : plist'[t] = plist[t]
           /\ stray' = IF plist'[s] = plist[s] THEN stray ELSE stray \cup {s}
           /\ plist' \in [Service -> Plist] /\ UNCHANGED job
<1>1. Wanted(s, proc[c].file) \in Plist
  BY DEF TypeOK, Wanted, Content, Plist, Proc, File
<1>2. plist' \in [Service -> Plist] /\ plist'[s] = Wanted(s, proc[c].file)
        /\ \A t \in Service \ {s} : plist'[t] = plist[t]
  BY <1>1 DEF Writes, TypeOK
<1>3. plist' = plist <=> plist'[s] = plist[s]
  BY <1>2 DEF TypeOK
<1> QED
  BY <1>2, <1>3 DEF Writes

LEMMA OutIs ==
    ASSUME TypeOK, NEW c \in Launcher, NEW s \in Service, NEW place, NEW next,
           Out(c, s, place, next)
    PROVE  /\ job'[s] = NotLoaded /\ \A t \in Service \ {s} : job'[t] = job[t]
           /\ job' \in [Service -> Job] /\ UNCHANGED <<plist, stray>>
<1>1. NotLoaded \in Job
  BY DEF NotLoaded, Job, NoPlist, Plist, File
<1> QED
  BY <1>1 DEF Out, TypeOK, files

LEMMA InIs ==
    ASSUME TypeOK, NEW c \in Launcher, NEW s \in Service, NEW place, NEW next,
           In(c, s, place, next)
    PROVE  /\ job'[s].plist = plist[s] /\ ~job'[s].up
           /\ \A t \in Service \ {s} : job'[t] = job[t]
           /\ job' \in [Service -> Job] /\ UNCHANGED <<plist, stray>>
<1>1. [plist |-> plist[s], up |-> FALSE, runs |-> 0] \in Job
  BY DEF TypeOK, Job
<1> QED
  BY <1>1 DEF In, TypeOK, files

\* launchd starts and ends what is loaded, and loads nothing.
LEMMA LaunchdIs ==
    ASSUME TypeOK, NEW s \in Service, Starts(s) \/ Crashes(s)
    PROVE  /\ job' \in [Service -> Job]
           /\ \A t \in Service : job'[t].plist = job[t].plist
           /\ \A t \in Service \ {s} : job'[t] = job[t]
           /\ Starts(s) => job'[s].up /\ job'[s].runs = IF s = "app" THEN codex ELSE build
           /\ Crashes(s) => ~job'[s].up
           /\ UNCHANGED <<plist, recorded, marker, stray, path, codex, build, proc, live, setup,
                          repairLock, setupLock>>
<1>1. UNCHANGED <<plist, recorded, marker, stray, path, codex, build, proc, live, setup,
                  repairLock, setupLock>>
  BY DEF Starts, Crashes, files, versions, locks
<1>2. ASSUME NEW answers \in BOOLEAN, NEW runs \in Nat,
             job' = [job EXCEPT ![s] = [@ EXCEPT !.up = answers, !.runs = runs]]
      PROVE  /\ job' \in [Service -> Job]
             /\ \A t \in Service : job'[t].plist = job[t].plist
             /\ \A t \in Service \ {s} : job'[t] = job[t]
             /\ job'[s].up = answers /\ job'[s].runs = runs
  <2> DEFINE q == [job[s] EXCEPT !.up = answers]
             r == [q EXCEPT !.runs = runs]
  <2>1. q \in Job /\ q.plist = job[s].plist /\ q.up = answers
    BY DEF TypeOK, Job
  <2>2. job' = [job EXCEPT ![s] = r]
    BY <1>2
  <2> HIDE DEF q
  <2>3. r \in Job /\ r.plist = q.plist /\ r.up = q.up /\ r.runs = runs
    BY <2>1 DEF Job
  <2> HIDE DEF r
  <2> QED
    BY <2>1, <2>2, <2>3 DEF TypeOK
<1>3. CASE Starts(s)
  <2> DEFINE runs == IF s = "app" THEN codex ELSE build
  <2>1. runs \in Nat /\ job' = [job EXCEPT ![s] = [@ EXCEPT !.up = TRUE, !.runs = runs]]
    BY <1>3 DEF Starts, TypeOK
  <2>2. job[s].up = FALSE
    BY <1>3 DEF Starts, TypeOK, Job
  <2> HIDE DEF runs
  <2>3. /\ job' \in [Service -> Job]
        /\ \A t \in Service : job'[t].plist = job[t].plist
        /\ \A t \in Service \ {s} : job'[t] = job[t]
        /\ job'[s].up = TRUE /\ job'[s].runs = runs
    BY <2>1, <1>2
  <2>4. ~Crashes(s)
    BY <2>2 DEF Crashes
  <2> QED
    BY <1>1, <2>3, <2>4 DEF runs
<1>4. CASE Crashes(s)
  <2>1. job[s].up /\ job' = [job EXCEPT ![s] = [@ EXCEPT !.up = FALSE, !.runs = 0]]
    BY <1>4 DEF Crashes
  <2>2. /\ job' \in [Service -> Job]
        /\ \A t \in Service : job'[t].plist = job[t].plist
        /\ \A t \in Service \ {s} : job'[t] = job[t]
        /\ job'[s].up = FALSE /\ job'[s].runs = 0
    BY <2>1, <1>2
  <2>3. ~Starts(s)
    BY <2>1 DEF Starts
  <2> QED
    BY <1>1, <2>2, <2>3
<1> QED
  BY <1>3, <1>4

-----------------------------------------------------------------------------
(* Every step keeps every part of the invariant *)

\* Of two launchers under both locks, one is the other; and setup is not at work then.
LEMMA Exclusive ==
    ASSUME LockInv, NEW c \in Launcher, proc[c].at \in Locked
    PROVE  /\ setup.at = "idle"
           /\ \A d \in Launcher \ {c} : proc[d].at \notin Locked
BY ServicesAssumption DEF LockInv

\* While setup works, no launcher is under both locks.
LEMMA SetupAlone ==
    ASSUME LockInv, setup.at # "idle"
    PROVE  \A c \in Launcher : proc[c].at \notin Locked
BY ServicesAssumption DEF LockInv

LEMMA DecidesIs ==
    ASSUME TypeOK, NEW c \in Launcher, Decides(c)
    PROVE  /\ Alone(c) /\ proc[c].at \in Locked /\ UNCHANGED setup
           /\ \/ UNCHANGED locks /\ proc'[c].at \in Locked /\ SameProcess(c)
              \/ Unlocks /\ proc'[c].at \in Free /\ proc'[c].build \in {0, proc[c].build}
<1>1. CASE Claim(c) \/ Clear(c)
  BY <1>1, FailsIs, NextRoundIs DEF Claim, Clear, Locked, Mutating, Place, Free
<1>2. CASE Considers(c) \/ Installs(c)
  BY <1>2, ConsidersIs, InstallsIs DEF locks
<1> QED
  BY <1>1, <1>2 DEF Decides

\* Neither lock is taken from a launcher or from setup.
LEMMA LauncherKeepsLockInv ==
    ASSUME IInv, NEW c \in Launcher, LauncherStep(c)
    PROVE  LockInv'
<1> USE DEF IInv
<1>1. Prepares(c) \/ Decides(c)
  BY LauncherStepIs
<1>2. Alone(c) /\ UNCHANGED setup /\ c \notin {Nobody, SetupCommand}
  BY <1>1, PreparesIs, DecidesIs, ServicesAssumption
<1> USE DEF LockInv, Alone
<1>3. CASE Launch(c) \/ Look(c) \/ Answer(c)
  <2>1. proc'[c].at \in Free /\ UNCHANGED <<repairLock, setupLock>>
    BY <1>3, LaunchIs, LookIs, AnswerIs DEF Launch, Look, Answer, locks
  <2> QED
    BY <1>2, <2>1 DEF Free, Locked, Mutating
<1>4. CASE TimesOut(c)
  BY <1>2, <1>4, IdleIs DEF TimesOut, Locked, Mutating
<1>5. CASE Dies(c)
  BY <1>2, <1>5, IdleIs DEF Dies, Locked, Mutating
<1>6. CASE LockRepair(c)
  BY <1>2, <1>6, GoesIs, ServicesAssumption DEF LockRepair, Locked, Mutating, Place
<1>7. CASE LockSetup(c)
  BY <1>2, <1>7, GoesIs, ServicesAssumption
     DEF LockSetup, Nobody, SetupCommand, Locked, Mutating, Place
<1>8. CASE Decides(c)
  BY <1>2, <1>8, DecidesIs DEF locks, Unlocks, Free, Locked, Mutating
<1> QED
  BY <1>1, <1>3, <1>4, <1>5, <1>6, <1>7, <1>8 DEF Prepares

LEMMA HostKeepsLockInv ==
    ASSUME IInv, HostStep
    PROVE  LockInv'
<1> USE DEF IInv, LockInv, files, locks, versions
<1>1. CASE \E f \in File : SetupBegins(f)
  BY <1>1, ServicesAssumption DEF SetupBegins
<1>2. CASE SetupWorks \/ SetupDies
  <2>1. /\ setup.at # "idle"
        /\ UNCHANGED <<proc, repairLock>>
        /\ UNCHANGED setupLock \/ (setup' = IdleSetup /\ setupLock' = Nobody)
    BY <1>2 DEF SetupWorks, SetupMarks, SetupWrites, SetupRecords, SetupDies
  <2>2. \A c \in Launcher : proc[c].at \notin Locked
    BY <2>1, SetupAlone
  <2>3. UNCHANGED setupLock => (setup'.at # "idle" => setupLock' = SetupCommand)
    BY <2>1
  <2> QED
    BY <2>1, <2>2, <2>3 DEF IdleSetup
<1>3. CASE UNCHANGED <<proc, setup, repairLock, setupLock>>
  BY <1>3
<1> QED
  BY <1>1, <1>2, <1>3 DEF HostStep, Exit, Starts, Crashes, Upgrade, CodexMoves, CodexUpgrade,
     HostSame

\* A look that goes on with a plist not written yet finds what it found before.
LEMMA ConsidersKeepsFiles ==
    ASSUME IInv, NEW c \in Launcher, Considers(c)
    PROVE  FilesOf(c)'
<1> USE DEF IInv
<1>1. /\ Alone(c) /\ UNCHANGED <<plist, recorded>>
      /\ proc'[c].at \in Locked => SameProcess(c)
  BY ConsidersIs DEF Locked, Mutating, Free
<1>2. CASE Check(c)
  <2>1. CASE StatusOf(c) \in {"unsafe", "setup_required"}
    BY <1>2, <2>1, FailsIs DEF Check, FilesOf, Mutating
  <2>2. CASE StatusOf(c) \notin {"unsafe", "setup_required"}
    <3>1. \A s \in Service : plist[s] = Wanted(s, proc[c].file) /\ recorded[s] = plist[s]
      BY <2>2, StatusMeans DEF StatusOf
    <3>2. /\ \A s \in Service : recorded[s] = Content(s, recorded["app"].path, proc[c].file)
          /\ \A s \in Service : recorded[s].path # 0 /\ plist[s].path # 0
      BY <3>1 DEF Wanted, Content, TypeOK, Service
    <3> QED
      BY <1>1, <3>1, <3>2 DEF FilesOf, Locked, SameProcess
  <2> QED
    BY <2>1, <2>2
<1>3. CASE Payload(c)
  <2>1. proc[c].at = "payload" /\ proc'[c].at \in {"appwrite", "ensure", "idle"}
    BY <1>3, PayloadIs DEF Payload
  <2> QED
    BY <1>1, <2>1 DEF FilesInv, FilesOf, Mutating, Unwritten, Place, Locked, SameProcess, Service
<1>4. CASE Ensure(c)
  <2>1. proc[c].at = "ensure" /\ proc'[c].at \in {"appwrite", "idle", "look"}
    BY <1>4, GoesIs, NextRoundIs DEF Ensure, Place
  <2> QED
    BY <1>1, <2>1 DEF FilesInv, FilesOf, Mutating, Unwritten, Place, Locked, SameProcess, Service
<1>5. CASE AppWait(c)
  <2>1. proc[c].at = "appwait" /\ proc'[c].at \in {"wakecheck", "idle", "look"}
    BY <1>5, GoesIs, NextRoundIs, FailsIs DEF AppWait, Place
  <2> QED
    BY <1>1, <2>1 DEF FilesInv, FilesOf, Mutating, Unwritten, Place, Locked, SameProcess, Service
<1>6. CASE WakeCheck(c)
  <2>1. proc[c].at = "wakecheck" /\ proc'[c].at \in {"wakewrite", "idle"}
    BY <1>6, GoesIs, FailsIs DEF WakeCheck, Place
  <2> QED
    BY <1>1, <2>1 DEF FilesInv, FilesOf, Mutating, Unwritten, Place, Locked, SameProcess, Service
<1>7. CASE WakeWait(c)
  <2>1. proc[c].at = "wakewait" /\ proc'[c].at \in {"clear", "idle", "look"}
    BY <1>7, GoesIs, NextRoundIs, FailsIs DEF WakeWait, Place
  <2> QED
    BY <1>1, <2>1 DEF FilesInv, FilesOf, Mutating, Unwritten, Place, Locked, SameProcess, Service
<1> QED
  BY <1>2, <1>3, <1>4, <1>5, <1>6, <1>7 DEF Considers

\* The plist of a service that a launcher may write is the recorded one until it does, and
\* the one it writes is another only when Codex has moved.
LEMMA WriteStep ==
    ASSUME IInv, NEW c \in Launcher, NEW s \in Service,
           s = "app" => AppWrite(c), s = "wake" => WakeWrite(c)
    PROVE  /\ plist[s] = recorded[s] /\ recorded[s] # NoPlist
           /\ proc[c].at = IF s = "app" THEN "appwrite" ELSE "wakewrite"
           /\ plist'[s] = Wanted(s, proc[c].file) /\ plist'[s].path # 0
           /\ \A t \in Service \ {s} : plist'[t] = plist[t]
           /\ stray' = IF plist'[s] = plist[s] THEN stray ELSE stray \cup {s}
           /\ plist' \in [Service -> Plist] /\ UNCHANGED job
           /\ plist'[s] # plist[s] => recorded["app"].path # path
<1> USE DEF IInv
<1>1. proc[c].at = IF s = "app" THEN "appwrite" ELSE "wakewrite"
  BY DEF AppWrite, WakeWrite, Writes, Service
<1>2. /\ recorded[s] = Content(s, recorded["app"].path, proc[c].file)
      /\ recorded[s].path # 0 /\ plist[s] = recorded[s]
  BY <1>1 DEF FilesInv, FilesOf, Mutating, Unwritten, Place, Service
<1>3. /\ plist'[s] = Wanted(s, proc[c].file)
      /\ \A t \in Service \ {s} : plist'[t] = plist[t]
      /\ stray' = IF plist'[s] = plist[s] THEN stray ELSE stray \cup {s}
      /\ plist' \in [Service -> Plist] /\ UNCHANGED job
  BY WritesIs DEF AppWrite, WakeWrite, Service, Place
<1>4. plist'[s].path # 0 /\ recorded[s] # NoPlist
  BY <1>2, <1>3 DEF Wanted, Content, TypeOK, NoPlist
<1> QED
  BY <1>1, <1>2, <1>3, <1>4 DEF Wanted

LEMMA InstallsKeepsFiles ==
    ASSUME IInv, NEW c \in Launcher, Installs(c)
    PROVE  FilesOf(c)' /\ StrayInv'
<1> USE DEF IInv
<1>1. Alone(c) /\ SameProcess(c) /\ UNCHANGED recorded
  BY InstallsIs
<1>2. CASE AppWrite(c)
  <2>1. proc[c].at = "appwrite" /\ proc'[c].at = "appout"
    BY <1>2, GoesIs DEF AppWrite, Writes, Place
  <2>2. /\ plist["app"] = recorded["app"] /\ recorded["app"] # NoPlist
        /\ plist'["app"].path # 0 /\ plist'["wake"] = plist["wake"]
        /\ stray' = IF plist'["app"] = plist["app"] THEN stray ELSE stray \cup {"app"}
    BY <1>2, WriteStep DEF Service
  <2> QED
    BY <1>1, <2>1, <2>2 DEF FilesInv, FilesOf, StrayInv, Owned, Mutating, Unwritten, Place,
       SameProcess, Service, TypeOK
<1>3. CASE WakeWrite(c)
  <2>1. proc[c].at = "wakewrite" /\ proc'[c].at = "wakeout"
    BY <1>3, GoesIs DEF WakeWrite, Writes, Place
  <2>2. /\ plist["wake"] = recorded["wake"] /\ recorded["wake"] # NoPlist
        /\ plist'["wake"].path # 0 /\ plist'["app"] = plist["app"]
        /\ stray' = IF plist'["wake"] = plist["wake"] THEN stray ELSE stray \cup {"wake"}
    BY <1>3, WriteStep DEF Service
  <2> QED
    BY <1>1, <2>1, <2>2 DEF FilesInv, FilesOf, StrayInv, Owned, Mutating, Unwritten, Place,
       SameProcess, Service, TypeOK
<1>4. CASE AppOut(c) \/ AppIn(c) \/ WakeOut(c) \/ WakeIn(c)
  <2>1. UNCHANGED <<plist, stray>>
    BY <1>4 DEF AppOut, AppIn, WakeOut, WakeIn, Out, In, files
  <2>2. \/ proc[c].at \in {"appout", "appin"} /\ proc'[c].at \in {"appin", "appwait"}
        \/ proc[c].at \in {"wakeout", "wakein"} /\ proc'[c].at \in {"wakein", "wakewait"}
    BY <1>4, GoesIs DEF AppOut, AppIn, WakeOut, WakeIn, Out, In, Place
  <2> QED
    BY <1>1, <2>1, <2>2 DEF FilesInv, FilesOf, StrayInv, Owned, Mutating, Unwritten, Place,
       SameProcess, Service
<1> QED
  BY <1>2, <1>3, <1>4 DEF Installs

\* Only setup and a repair change plists, each alone; only setup records them.
LEMMA LauncherKeepsFilesInv ==
    ASSUME IInv, NEW c \in Launcher, LauncherStep(c)
    PROVE  FilesInv' /\ StrayInv' /\ UNCHANGED recorded
<1> USE DEF IInv
<1>1. CASE Decides(c)
  <2>1. Alone(c) /\ \A d \in Launcher \ {c} : proc'[d].at \notin Locked
    BY <1>1, DecidesIs, Exclusive DEF Alone
  <2>2. \A d \in Launcher \ {c} : FilesOf(d)'
    BY <2>1 DEF FilesOf, Locked
  <2>3. FilesOf(c)' /\ StrayInv' /\ UNCHANGED recorded
    <3>1. CASE Considers(c)
      BY <3>1, ConsidersKeepsFiles, ConsidersIs DEF StrayInv, Owned
    <3>2. CASE Installs(c)
      BY <3>2, InstallsKeepsFiles, InstallsIs
    <3>3. CASE Claim(c) \/ Clear(c)
      <4>1. proc'[c].at \in {"idle", "look"} /\ UNCHANGED <<plist, recorded, stray>>
        BY <3>3, FailsIs, NextRoundIs DEF Claim, Clear, files
      <4> QED
        BY <4>1 DEF FilesOf, StrayInv, Owned, Mutating
    <3> QED
      BY <1>1, <3>1, <3>2, <3>3 DEF Decides
  <2> QED
    BY <2>2, <2>3 DEF FilesInv
<1>2. CASE Prepares(c)
  <2>1. /\ Alone(c) /\ proc'[c].at \notin Mutating \cup {"claim"}
        /\ UNCHANGED <<plist, recorded, stray>>
    BY <1>2, PreparesIs DEF Free, Mutating
  <2> QED
    BY <2>1 DEF FilesInv, FilesOf, StrayInv, Owned, Alone
<1> QED
  BY <1>1, <1>2, LauncherStepIs

LEMMA HostKeepsFilesInv ==
    ASSUME IInv, HostStep
    PROVE  FilesInv' /\ StrayInv'
<1> USE DEF IInv, FilesInv, StrayInv, FilesOf, Owned
<1>1. CASE SetupWorks
  <2>1. setup.at # "idle" /\ UNCHANGED <<proc, stray>>
    BY <1>1 DEF SetupWorks, SetupMarks, SetupWrites, SetupRecords
  <2>2. \A c \in Launcher : proc[c].at \notin Locked
    BY <2>1, SetupAlone
  <2> QED
    BY <2>1, <2>2 DEF Locked, SetupInv
<1>2. CASE UNCHANGED <<proc, plist, recorded, stray>>
  BY <1>2
<1> QED
  BY <1>1, <1>2 DEF HostStep, Exit, Starts, Crashes, Upgrade, CodexMoves, CodexUpgrade,
     HostSame, SetupBegins, SetupDies, files

\* What a decision and a repair establish for the steps that follow.
LEMMA ConsidersKeepsReload ==
    ASSUME IInv, NEW c \in Launcher, Considers(c)
    PROVE  ReloadOf(c)'
<1> USE DEF IInv, Place
<1>1. /\ UNCHANGED <<plist, job, live, marker>>
      /\ proc'[c].at \in Locked => SameProcess(c)
  BY ConsidersIs DEF Locked, Mutating, Free
<1>2. CASE Check(c)
  <2> DEFINE state == StatusOf(c)
  <2>1. CASE state = "ready"
    <3>1. Goes(c, "claim")
      BY <1>2, <2>1 DEF Check
    <3>2. /\ job["app"].plist = plist["app"] /\ marker = 0
          /\ Loaded("wake") /\ job["wake"].runs = proc[c].build
      BY <2>1, StatusMeans DEF StatusOf
    <3>3. job["wake"].runs >= proc[c].build
      BY <3>2 DEF TypeOK, Job, Service
    <3> QED
      BY <1>1, <3>1, <3>2, <3>3, GoesIs DEF ReloadOf, Loaded, SameProcess
  <2>2. CASE state = "cold"
    <3>1. Plan(c, "payload", "cold")
      BY <1>2, <2>2 DEF Check
    <3>2. ~Loaded("app")
      BY <2>2, StatusMeans DEF StatusOf
    <3> QED
      BY <1>1, <3>1, <3>2, PlanIs DEF ReloadOf, Loaded
  <2>3. CASE state = "bridge_down"
    <3>1. Plan(c, "wakecheck", "bridge")
      BY <1>2, <2>3 DEF Check
    <3>2. job["app"].plist = plist["app"]
      BY <2>3, StatusMeans DEF StatusOf
    <3> QED
      BY <1>1, <3>1, <3>2, PlanIs DEF ReloadOf
  <2>4. CASE state = "reload_required_idle"
    <3>1. (proc[c].approved /\ Plan(c, "payload", "pair")) \/ NextRound(c)
      BY <1>2, <2>4 DEF Check
    <3>2. live = {}
      BY <2>4, StatusMeans DEF StatusOf
    <3> QED
      BY <1>1, <3>1, <3>2, PlanIs, NextRoundIs DEF ReloadOf, SameProcess
  <2>5. CASE state \in {"unsafe", "setup_required", "reload_deferred_busy"}
    BY <1>2, <2>5, FailsIs DEF Check, ReloadOf
  <2> QED
    BY <1>2, <2>1, <2>2, <2>3, <2>4, <2>5 DEF Check
<1>3. CASE Payload(c) \/ Ensure(c)
  <2>1. /\ proc[c].at \in {"payload", "ensure"}
        /\ proc'[c].at \in {"appwrite", "ensure", "idle", "look"}
    BY <1>3, PayloadIs, GoesIs, NextRoundIs DEF Payload, Ensure
  <2> QED
    BY <1>1, <2>1 DEF ReloadInv, ReloadOf, Loaded, SameProcess, Locked, Mutating
<1>4. CASE AppWait(c) \/ WakeCheck(c) \/ WakeWait(c)
  <2>1. /\ proc[c].at \in {"appwait", "wakecheck", "wakewait"}
        /\ proc'[c].at \in {"wakecheck", "wakewrite", "clear", "idle", "look"}
    BY <1>4, GoesIs, NextRoundIs, FailsIs DEF AppWait, WakeCheck, WakeWait
  <2> QED
    BY <1>1, <2>1 DEF ReloadInv, ReloadOf
<1> QED
  BY <1>2, <1>3, <1>4 DEF Considers

LEMMA InstallsKeepsReload ==
    ASSUME IInv, NEW c \in Launcher, Installs(c)
    PROVE  ReloadOf(c)' /\ MarkerUntilLoaded'
<1> USE DEF IInv, Place
<1>1. SameProcess(c) /\ UNCHANGED <<recorded, live, marker>>
  BY InstallsIs
<1>2. CASE AppWrite(c)
  <2>1. proc[c].at = "appwrite" /\ proc'[c].at = "appout" /\ UNCHANGED job
    BY <1>2, GoesIs DEF AppWrite, Writes
  <2>2. /\ stray' = IF plist'["app"] = plist["app"] THEN stray ELSE stray \cup {"app"}
    BY <1>2, WriteStep DEF Service
  <2> QED
    BY <1>1, <2>1, <2>2 DEF ReloadInv, ReloadOf, Loaded, SameProcess, MarkerUntilLoaded
<1>3. CASE AppOut(c)
  <2>1. proc'[c].at = "appin"
    BY <1>3, GoesIs DEF AppOut, Out
  <2>2. job'["app"] = NotLoaded
    BY <1>3, OutIs DEF AppOut, Service
  <2> QED
    BY <2>1, <2>2 DEF ReloadOf, MarkerUntilLoaded, NotLoaded
<1>4. CASE AppIn(c)
  <2>1. proc'[c].at = "appwait"
    BY <1>4, GoesIs DEF AppIn, In
  <2>2. job'["app"].plist = plist["app"] /\ UNCHANGED plist
    BY <1>4, InIs DEF AppIn, Service
  <2> QED
    BY <2>1, <2>2 DEF ReloadOf, MarkerUntilLoaded
<1>5. CASE WakeWrite(c)
  <2>1. proc[c].at = "wakewrite" /\ proc'[c].at = "wakeout" /\ UNCHANGED job
    BY <1>5, GoesIs DEF WakeWrite, Writes
  <2>2. /\ plist'["app"] = plist["app"]
        /\ stray \subseteq stray'
    BY <1>5, WriteStep DEF Service
  <2> QED
    BY <1>1, <2>1, <2>2 DEF ReloadInv, ReloadOf, MarkerUntilLoaded
<1>6. CASE WakeOut(c) \/ WakeIn(c)
  <2>1. /\ proc[c].at \in {"wakeout", "wakein"}
        /\ proc'[c].at \in {"wakein", "wakewait"}
    BY <1>6, GoesIs DEF WakeOut, WakeIn, Out, In
  <2>2. job'["app"] = job["app"] /\ UNCHANGED <<plist, stray>>
    BY <1>6, OutIs, InIs DEF WakeOut, WakeIn, Service
  <2> QED
    BY <1>1, <2>1, <2>2 DEF ReloadInv, ReloadOf, MarkerUntilLoaded
<1> QED
  BY <1>2, <1>3, <1>4, <1>5, <1>6 DEF Installs

LEMMA LauncherKeepsReloadInv ==
    ASSUME IInv, NEW c \in Launcher, LauncherStep(c)
    PROVE  ReloadInv' /\ MarkerUntilLoaded'
<1> USE DEF IInv
<1>1. CASE Decides(c)
  <2>1. Alone(c) /\ \A d \in Launcher \ {c} : proc'[d].at \notin Locked
    BY <1>1, DecidesIs, Exclusive DEF Alone
  <2>2. \A d \in Launcher \ {c} : ReloadOf(d)'
    BY <2>1 DEF ReloadOf, Locked, Mutating, Place
  <2>3. ReloadOf(c)' /\ MarkerUntilLoaded'
    <3>1. CASE Considers(c)
      BY <3>1, ConsidersKeepsReload, ConsidersIs DEF MarkerUntilLoaded
    <3>2. CASE Installs(c)
      BY <3>2, InstallsKeepsReload
    <3>3. CASE Claim(c)
      BY <3>3, FailsIs DEF Claim, ReloadOf, MarkerUntilLoaded, files
    <3>4. CASE Clear(c)
      <4>1. /\ proc[c].at = "clear" /\ proc'[c].at \in {"idle", "look"}
            /\ UNCHANGED <<job, plist, stray>>
        BY <3>4, FailsIs, NextRoundIs DEF Clear
      <4>2. job["app"].plist = plist["app"]
        BY <4>1 DEF ReloadInv, ReloadOf
      <4> QED
        BY <4>1, <4>2 DEF ReloadOf, MarkerUntilLoaded
    <3> QED
      BY <1>1, <3>1, <3>2, <3>3, <3>4 DEF Decides
  <2> QED
    BY <2>2, <2>3 DEF ReloadInv
<1>2. CASE Prepares(c)
  <2>1. /\ Alone(c) /\ proc'[c].at \in Free \cup {"setup", "check"}
        /\ UNCHANGED <<plist, marker, stray, job, live>>
    BY <1>2, PreparesIs
  <2> QED
    BY <2>1 DEF ReloadInv, ReloadOf, Alone, Loaded, Free, MarkerUntilLoaded
<1> QED
  BY <1>1, <1>2, LauncherStepIs

LEMMA HostKeepsReloadInv ==
    ASSUME IInv, HostStep
    PROVE  ReloadInv'
<1> USE DEF IInv, ReloadInv, ReloadOf, Loaded, files, locks, versions
<1>1. CASE SetupWorks
  <2>1. \A c \in Launcher : proc[c].at \notin Locked /\ proc'[c] = proc[c]
    BY <1>1, SetupAlone DEF SetupWorks, SetupMarks, SetupWrites, SetupRecords
  <2> QED
    BY <2>1 DEF Locked, Mutating, Place
<1>2. CASE \E s \in Service : Starts(s) \/ Crashes(s)
  <2>1. PICK s \in Service : Starts(s) \/ Crashes(s)
    BY <1>2
  <2>2. /\ \A t \in Service : job'[t].plist = job[t].plist
        /\ UNCHANGED <<plist, marker, proc, live>>
    BY <2>1, LaunchdIs
  <2>3. job'["wake"].up =>
          job'["wake"] = job["wake"] \/ job'["wake"].runs = build
    BY <2>1, LaunchdIs DEF Service
  <2>4. \A c \in Launcher : build >= proc[c].build
    BY DEF JobInv, TypeOK, Proc
  <2> HIDE DEF IInv
  <2> QED
    BY <2>2, <2>3, <2>4 DEF Service, IInv
<1>3. CASE \E c \in Launcher : Exit(c)
  BY <1>3 DEF Exit
<1>4. CASE UNCHANGED <<proc, plist, job, live, marker>>
  BY <1>4
<1> QED
  BY <1>1, <1>2, <1>3, <1>4 DEF HostStep, SetupBegins, SetupDies, Upgrade, CodexMoves,
     CodexUpgrade, HostSame

LEMMA LauncherKeepsJobInv ==
    ASSUME IInv, NEW c \in Launcher, LauncherStep(c)
    PROVE  JobInv'
<1> USE DEF IInv
<1>1. UNCHANGED build /\ Alone(c) /\ proc'[c].build \in {0, build, proc[c].build}
  <2>1. CASE Claim(c) \/ Clear(c)
    BY <2>1, FailsIs, NextRoundIs DEF Claim, Clear, versions
  <2>2. CASE Considers(c) \/ Installs(c)
    BY <2>2, ConsidersIs, InstallsIs DEF SameProcess
  <2> QED
    BY <2>1, <2>2, LauncherStepIs, PreparesIs DEF Decides
<1>2. \A d \in Launcher : proc'[d].build <= build'
  BY <1>1 DEF Alone, JobInv, TypeOK
<1>3. \A s \in Service : job'[s].up => job'[s].plist # NoPlist
  <2>1. CASE UNCHANGED job
    BY <2>1 DEF JobInv, Loaded
  <2>2. CASE AppOut(c) \/ WakeOut(c)
    <3>1. PICK s \in Service : job'[s] = NotLoaded /\ \A t \in Service \ {s} : job'[t] = job[t]
      BY <2>2, OutIs DEF AppOut, WakeOut, Service
    <3> QED
      BY <3>1 DEF JobInv, Loaded, NotLoaded
  <2>3. CASE AppIn(c) \/ WakeIn(c)
    <3>1. PICK s \in Service : ~job'[s].up /\ \A t \in Service \ {s} : job'[t] = job[t]
      BY <2>3, InIs DEF AppIn, WakeIn, Service
    <3> QED
      BY <3>1 DEF JobInv, Loaded
  <2>4. CASE AppWrite(c) \/ WakeWrite(c)
    BY <2>1, <2>4 DEF AppWrite, WakeWrite, Writes
  <2>5. CASE Prepares(c) \/ Considers(c) \/ Claim(c) \/ Clear(c)
    BY <2>1, <2>5, PreparesIs, ConsidersIs DEF Claim, Clear
  <2> QED
    BY <2>2, <2>3, <2>4, <2>5, LauncherStepIs DEF Decides, Installs
<1> QED
  BY <1>2, <1>3 DEF JobInv, Loaded

LEMMA HostKeepsJobInv ==
    ASSUME IInv, HostStep
    PROVE  JobInv'
<1> USE DEF IInv, JobInv, Loaded, files, locks, versions
<1>1. CASE \E s \in Service : Starts(s) \/ Crashes(s)
  <2>1. PICK s \in Service : Starts(s) \/ Crashes(s)
    BY <1>1
  <2>2. /\ \A t \in Service : job'[t].plist = job[t].plist
        /\ \A t \in Service \ {s} : job'[t] = job[t]
        /\ Crashes(s) => ~job'[s].up
        /\ UNCHANGED <<proc, build>>
    BY <2>1, LaunchdIs
  <2>3. Starts(s) => job[s].plist # NoPlist
    BY DEF Starts
  <2> QED
    BY <2>1, <2>2, <2>3
<1>2. CASE Upgrade
  BY <1>2 DEF Upgrade, HostSame, TypeOK, Proc
<1>3. CASE UNCHANGED <<proc, job, build>>
  BY <1>3
<1> QED
  BY <1>1, <1>2, <1>3 DEF HostStep, Exit, SetupBegins, SetupWorks, SetupMarks, SetupWrites,
     SetupRecords, SetupDies, CodexMoves, CodexUpgrade, HostSame

\* Setup is not disturbed by a launcher: what both could change is behind the setup lock.
LEMMA LauncherKeepsSetupInv ==
    ASSUME IInv, NEW c \in Launcher, LauncherStep(c)
    PROVE  SetupInv'
<1> USE DEF IInv, SetupInv, Prepared
<1>1. CASE Decides(c)
  <2>1. setup.at = "idle" /\ UNCHANGED setup
    BY <1>1, DecidesIs, Exclusive
  <2> QED
    BY <2>1
<1>2. CASE Prepares(c)
  BY <1>2, PreparesIs
<1> QED
  BY <1>1, <1>2, LauncherStepIs

\* What setup writes when it has prepared its plists
LEMMA PreparedIs ==
    ASSUME TypeOK, NEW place \in {"marker", "app", "wake", "manifest"},
           setup' = [setup EXCEPT !.at = place]
    PROVE  /\ setup' \in SetupProc /\ setup'.at = place /\ setup'.path = setup.path
           /\ \A s \in Service : Prepared(s) \in Plist /\ Prepared(s)' = Prepared(s)
<1>1. setup' \in SetupProc /\ setup'.at = place /\ setup'.path = setup.path
        /\ setup'.file = setup.file
  BY DEF TypeOK, SetupProc
<1>2. setup.path \in Nat /\ setup.file \in File
  BY DEF TypeOK, SetupProc
<1> QED
  BY <1>1, <1>2 DEF Prepared, Content, Plist, File

\* Setup writes the marker before the plist of the app-server.
LEMMA HostKeepsSetupInv ==
    ASSUME IInv, HostStep
    PROVE  SetupInv' /\ MarkerUntilLoaded'
<1> USE DEF IInv, SetupInv, MarkerUntilLoaded
<1>1. CASE \E f \in File : SetupBegins(f)
  <2>1. PICK f \in File : SetupBegins(f)
    BY <1>1
  <2>2. /\ setup' = [at |-> "marker", path |-> path, file |-> f]
        /\ UNCHANGED <<plist, recorded, marker, stray, job>>
    BY <2>1 DEF SetupBegins, files
  <2>3. stray = {}
    BY <2>1 DEF SetupBegins, SetupAccepts, StrayInv, TypeOK
  <2> QED
    BY <2>2, <2>3 DEF TypeOK
<1>2. CASE SetupMarks
  <2>1. /\ setup.at = "marker" /\ setup' = [setup EXCEPT !.at = "app"]
        /\ marker' = IF plist["app"] # Prepared("app") THEN setup.path ELSE marker
        /\ UNCHANGED <<plist, job, stray>>
    BY <1>2 DEF SetupMarks
  <2>2. setup'.at = "app" /\ setup'.path = setup.path /\ Prepared("app")' = Prepared("app")
    BY <2>1, PreparedIs DEF Service
  <2> QED
    BY <2>1, <2>2
<1>3. CASE SetupWrites("app", "wake")
  <2>1. /\ setup.at = "app" /\ setup' = [setup EXCEPT !.at = "wake"]
        /\ plist' = [plist EXCEPT !["app"] = Prepared("app")]
        /\ UNCHANGED <<marker, job, stray>>
    BY <1>3 DEF SetupWrites
  <2>2. setup'.at = "wake" /\ setup'.path = setup.path
    BY <2>1, PreparedIs
  <2>3. plist'["app"] = Prepared("app")
    BY <2>1 DEF TypeOK, Service
  <2> QED
    BY <2>1, <2>2, <2>3
<1>4. CASE SetupWrites("wake", "manifest")
  <2>1. /\ setup.at = "wake" /\ setup' = [setup EXCEPT !.at = "manifest"]
        /\ plist'["app"] = plist["app"]
        /\ UNCHANGED <<marker, job, stray>>
    BY <1>4 DEF SetupWrites, TypeOK, Service
  <2>2. setup'.at = "manifest" /\ setup'.path = setup.path
    BY <2>1, PreparedIs
  <2> QED
    BY <2>1, <2>2
<1>5. CASE SetupRecords \/ SetupDies
  <2>1. setup'.at = "idle" /\ UNCHANGED <<plist, marker, job, stray>>
    BY <1>5 DEF SetupRecords, SetupDies, IdleSetup, files
  <2> QED
    BY <2>1
<1>6. CASE \E s \in Service : Starts(s) \/ Crashes(s)
  <2>1. /\ job'["app"].plist = job["app"].plist
        /\ UNCHANGED <<plist, marker, setup, stray>>
    BY <1>6, LaunchdIs DEF Service
  <2> QED
    BY <2>1 DEF Prepared
<1>7. CASE UNCHANGED <<plist, marker, job, setup, stray>>
  BY <1>7 DEF Prepared
<1> QED
  BY <1>1, <1>2, <1>3, <1>4, <1>5, <1>6, <1>7 DEF HostStep, SetupWorks, Exit, Upgrade,
     CodexMoves, CodexUpgrade, HostSame, files

LEMMA LauncherKeepsTypeOK ==
    ASSUME IInv, NEW c \in Launcher, LauncherStep(c)
    PROVE  TypeOK'
<1> USE DEF IInv
<1>1. Prepares(c) \/ Decides(c)
  BY LauncherStepIs
<1>2. /\ proc' \in [Launcher -> Proc]
      /\ UNCHANGED <<recorded, path, codex, build, setup>>
  <2>1. UNCHANGED <<path, codex, build>>
    BY <1>1, PreparesIs, ConsidersIs, InstallsIs DEF Decides, Claim, Clear, versions
  <2> QED
    BY <1>1, <2>1, PreparesIs, DecidesIs, LauncherKeepsFilesInv DEF Alone
<1>3. marker' \in Nat /\ live' \subseteq Launcher
  <2>1. marker' \in {0, marker} /\ live' \in {live, live \cup {c}}
    BY <1>1, PreparesIs, ConsidersIs, InstallsIs DEF Decides, Claim, Clear, files
  <2> QED
    BY <2>1 DEF TypeOK
<1>4. /\ repairLock' \in Launcher \cup {Nobody}
      /\ setupLock' \in Launcher \cup {Nobody, SetupCommand}
  <2>1. CASE Decides(c)
    BY <2>1, DecidesIs DEF TypeOK, Unlocks, locks
  <2>2. CASE Prepares(c)
    BY <2>2 DEF Prepares, Launch, Look, Answer, LockRepair, LockSetup, TimesOut, Dies, TypeOK,
       locks
  <2> QED
    BY <1>1, <2>1, <2>2
<1>5. /\ job' \in [Service -> Job] /\ plist' \in [Service -> Plist]
      /\ stray' \subseteq Service
  <2>1. CASE AppOut(c) \/ WakeOut(c) \/ AppIn(c) \/ WakeIn(c)
    BY <2>1, OutIs, InIs DEF AppOut, WakeOut, AppIn, WakeIn, Service, TypeOK
  <2>2. CASE AppWrite(c) \/ WakeWrite(c)
    <3>1. \E s \in Service :
            /\ plist' \in [Service -> Plist] /\ UNCHANGED job
            /\ stray' = IF plist'[s] = plist[s] THEN stray ELSE stray \cup {s}
      BY <2>2, WriteStep DEF Service
    <3> QED
      BY <3>1 DEF TypeOK
  <2>3. CASE Prepares(c) \/ Considers(c) \/ Claim(c) \/ Clear(c)
    BY <2>3, PreparesIs, ConsidersIs DEF Claim, Clear, TypeOK, files
  <2> QED
    BY <1>1, <2>1, <2>2, <2>3 DEF Decides, Installs
<1> QED
  BY <1>2, <1>3, <1>4, <1>5 DEF TypeOK

LEMMA HostKeepsTypeOK ==
    ASSUME IInv, HostStep
    PROVE  TypeOK'
<1> USE DEF IInv, TypeOK, files, versions, locks
<1>1. CASE \E f \in File : SetupBegins(f)
  <2>1. \A f \in File : [at |-> "marker", path |-> path, file |-> f] \in SetupProc
    BY DEF SetupProc
  <2> QED
    BY <1>1, <2>1 DEF SetupBegins
<1>2. CASE SetupMarks
  <2>1. setup' \in SetupProc
    BY <1>2, PreparedIs DEF SetupMarks
  <2>2. marker' \in Nat
    BY <1>2 DEF SetupMarks, SetupProc
  <2> QED
    BY <1>2, <2>1, <2>2 DEF SetupMarks
<1>3. CASE SetupWrites("app", "wake") \/ SetupWrites("wake", "manifest")
  <2>1. PICK s \in Service, next \in {"wake", "manifest"} : SetupWrites(s, next)
    BY <1>3 DEF Service
  <2>2. setup' \in SetupProc /\ Prepared(s) \in Plist
    BY <2>1, PreparedIs DEF SetupWrites
  <2> QED
    BY <2>1, <2>2 DEF SetupWrites
<1>4. CASE SetupRecords \/ SetupDies
  <2>1. IdleSetup \in SetupProc /\ \A s \in Service : Prepared(s) \in Plist
    BY DEF IdleSetup, SetupProc, Prepared, Content, Plist, File
  <2> QED
    BY <1>4, <2>1 DEF SetupRecords, SetupDies
<1>5. CASE \E s \in Service : Starts(s) \/ Crashes(s)
  <2>1. /\ job' \in [Service -> Job]
        /\ UNCHANGED <<plist, recorded, marker, stray, path, codex, build, proc, live, setup,
                       repairLock, setupLock>>
    BY <1>5, LaunchdIs
  <2> QED
    BY <2>1
<1>6. CASE Upgrade \/ CodexMoves \/ CodexUpgrade
  <2>1. /\ {path', codex', build'} \subseteq Nat \ {0}
        /\ HostSame
    BY <1>6 DEF Upgrade, CodexMoves, CodexUpgrade
  <2> QED
    BY <2>1 DEF HostSame
<1>7. CASE \E c \in Launcher : Exit(c)
  BY <1>7 DEF Exit
<1> QED
  BY <1>1, <1>2, <1>3, <1>4, <1>5, <1>6, <1>7 DEF HostStep, SetupWorks

-----------------------------------------------------------------------------
(* Theorems *)

\* A host that is not set up and one that runs.
LEMMA InitIInv == Init => IInv
<1> SUFFICES ASSUME Init PROVE IInv
  OBVIOUS
<1> USE ServicesAssumption DEF Init
<1>1. TypeOK
  <2>1. {0, 1} \subseteq Nat /\ 0 \in 0..Attempts /\ NoFile \in File
    BY DEF File
  <2>2. NoPlist \in Plist /\ \A s \in Service : Content(s, 1, NoFile) \in Plist
    BY <2>1 DEF NoPlist, Content, Plist
  <2>3. NotLoaded \in Job /\ \A p \in Plist : [plist |-> p, up |-> TRUE, runs |-> 1] \in Job
    BY <2>1, <2>2 DEF NotLoaded, Job
  <2>4. /\ plist \in [Service -> Plist] /\ recorded \in [Service -> Plist]
        /\ job \in [Service -> Job]
    BY <2>2, <2>3
  <2>5. IdleProc \in Proc /\ IdleSetup \in SetupProc
    BY <2>1 DEF IdleProc, Proc, Place, IdleSetup, SetupProc
  <2> QED
    BY <2>1, <2>4, <2>5 DEF TypeOK
<1>2. LockInv /\ FilesInv /\ ReloadInv
  BY DEF LockInv, FilesInv, FilesOf, ReloadInv, ReloadOf, Locked, Mutating, IdleProc, IdleSetup
<1>3. StrayInv /\ SetupInv
  BY DEF StrayInv, SetupInv, IdleSetup
<1>4. JobInv
  <2>1. \A s \in Service : NoPlist # Content(s, 1, NoFile)
    BY DEF NoPlist, Content
  <2> QED
    BY <2>1 DEF JobInv, Loaded, NotLoaded, IdleProc
<1>5. MarkerUntilLoaded
  BY DEF MarkerUntilLoaded, Service, NotLoaded
<1> QED
  BY <1>1, <1>2, <1>3, <1>4, <1>5 DEF IInv

LEMMA NextIInv == IInv /\ [Next]_vars => IInv'
<1> SUFFICES ASSUME IInv, [Next]_vars PROVE IInv'
  OBVIOUS
<1>1. CASE \E c \in Launcher : LauncherStep(c)
  BY <1>1, LauncherKeepsTypeOK, LauncherKeepsLockInv, LauncherKeepsFilesInv,
     LauncherKeepsReloadInv, LauncherKeepsJobInv, LauncherKeepsSetupInv DEF IInv
<1>2. CASE HostStep
  BY <1>2, HostKeepsTypeOK, HostKeepsLockInv, HostKeepsFilesInv, HostKeepsReloadInv,
     HostKeepsJobInv, HostKeepsSetupInv DEF IInv
<1>3. CASE UNCHANGED vars
  BY <1>3 DEF vars, IInv, TypeOK, LockInv, FilesInv, FilesOf, StrayInv, Owned, ReloadInv,
     ReloadOf, Loaded, JobInv, SetupInv, Prepared, MarkerUntilLoaded
<1> QED
  BY <1>1, <1>2, <1>3, Steps

\* The inductive invariant holds of every behaviour.
THEOREM Invariant == Spec => []IInv
<1>1. Init => IInv
  BY InitIInv
<1>2. IInv /\ [Next]_vars => IInv'
  BY NextIInv
<1> QED
  BY <1>1, <1>2, PTL DEF Spec

\* The variables keep their types.
THEOREM TypeCorrect == Spec => []TypeOK
<1>1. IInv => TypeOK
  BY DEF IInv
<1> QED
  BY <1>1, Invariant, PTL

\* A running app-server that is older than its plist always has the reload marker, unless
\* it was a repair that changed the plist.
THEOREM MarkerKept == Spec => []MarkerUntilLoaded
<1>1. IInv => MarkerUntilLoaded
  BY DEF IInv
<1> QED
  BY <1>1, Invariant, PTL

\* What unloads the app-server is an approved repair while no seat is live.
LEMMA UnloadStep ==
    ASSUME IInv, Next, job["app"].plist # NoPlist, job'["app"].plist = NoPlist
    PROVE  live = {} /\ \E c \in Launcher : proc[c].at = "appout" /\ proc[c].approved
<1> USE DEF IInv
<1>1. CASE HostStep
  <2>1. UNCHANGED job \/ \E s \in Service : Starts(s) \/ Crashes(s)
    BY <1>1 DEF HostStep, Exit, SetupBegins, SetupWorks, SetupMarks, SetupWrites,
       SetupRecords, SetupDies, Upgrade, CodexMoves, CodexUpgrade, HostSame
  <2> QED
    BY <2>1, LaunchdIs DEF Service
<1>2. ASSUME NEW c \in Launcher, LauncherStep(c)
      PROVE  AppOut(c)
  <2>1. CASE AppIn(c)
    <3>1. proc[c].at = "appin" /\ job'["app"].plist = plist["app"]
      BY <2>1, InIs DEF AppIn, In, Service
    <3>2. plist["app"].path # 0
      BY <3>1 DEF FilesInv, FilesOf, Mutating, Place, Service
    <3> QED
      BY <3>1, <3>2 DEF NoPlist
  <2>2. CASE WakeOut(c) \/ WakeIn(c)
    BY <2>2, OutIs, InIs DEF WakeOut, WakeIn, Service
  <2>3. CASE AppWrite(c) \/ WakeWrite(c)
    BY <2>3 DEF AppWrite, WakeWrite, Writes
  <2>4. CASE Prepares(c) \/ Considers(c) \/ Claim(c) \/ Clear(c)
    BY <2>4, PreparesIs, ConsidersIs DEF Claim, Clear
  <2> QED
    BY <1>2, <2>1, <2>2, <2>3, <2>4, LauncherStepIs DEF Decides, Installs
<1>3. ASSUME NEW c \in Launcher, AppOut(c)
      PROVE  live = {} /\ proc[c].at = "appout" /\ proc[c].approved
  BY <1>3 DEF AppOut, Out, ReloadInv, ReloadOf, Loaded
<1> QED
  BY <1>1, <1>2, <1>3, Steps

\* No launcher unloads the app-server under a live seat, or without its user's consent.
THEOREM NobodyIsCutOff == Spec => NobodyCutOff
<1>1. IInv /\ [Next]_vars =>
        [job["app"].plist # NoPlist /\ job'["app"].plist = NoPlist =>
            /\ live = {}
            /\ \E c \in Launcher : proc[c].at = "appout" /\ proc[c].approved]_vars
  BY UnloadStep
<1> QED
  BY <1>1, Invariant, PTL DEF Spec, NobodyCutOff

\* A seat becomes live in a Claim only.
LEMMA OnlyClaims ==
    ASSUME IInv, Next, NEW c \in live' \ live
    PROVE  c \in Launcher /\ Claim(c)
<1> USE DEF IInv
<1>1. CASE HostStep
  BY <1>1 DEF HostStep, Exit, SetupBegins, SetupWorks, SetupMarks, SetupWrites,
     SetupRecords, SetupDies, Upgrade, CodexMoves, CodexUpgrade, HostSame, Starts, Crashes
<1>2. ASSUME NEW d \in Launcher, LauncherStep(d)
      PROVE  c = d /\ Claim(d)
  BY <1>2, LauncherStepIs, PreparesIs, ConsidersIs, InstallsIs DEF Decides, Claim, Clear
<1> QED
  BY <1>1, <1>2, Steps

\* A seat is taken only on the services that its launcher wants and setup has recorded.
THEOREM ClaimsAreCurrent == Spec => ClaimOnCurrentService
<1>1. ASSUME IInv, Next, NEW c \in live' \ live
      PROVE  /\ marker = 0 /\ recorded = plist
             /\ \A s \in Service : plist[s] = Content(s, plist["app"].path, proc[c].file)
             /\ job["app"].plist = plist["app"] /\ job["wake"].plist # NoPlist
             /\ job["wake"].up => job["wake"].runs >= proc[c].build
  <2>1. c \in Launcher /\ proc[c].at = "claim"
    BY <1>1, OnlyClaims DEF Claim
  <2>2. \A s \in Service :
          plist[s] = recorded[s] /\ recorded[s] = Content(s, recorded["app"].path, proc[c].file)
    BY <1>1, <2>1 DEF IInv, FilesInv, FilesOf, Unwritten, Mutating, Service
  <2>3. recorded = plist
    BY <1>1, <2>2 DEF IInv, TypeOK
  <2>4. ReloadOf(c)
    BY <1>1, <2>1 DEF IInv, ReloadInv
  <2> QED
    BY <2>1, <2>2, <2>3, <2>4 DEF ReloadOf, Loaded
<1>2. IInv /\ [Next]_vars =>
        [\A c \in live' \ live :
            /\ marker = 0 /\ recorded = plist
            /\ \A s \in Service : plist[s] = Content(s, plist["app"].path, proc[c].file)
            /\ job["app"].plist = plist["app"] /\ job["wake"].plist # NoPlist
            /\ job["wake"].up => job["wake"].runs >= proc[c].build]_vars
  BY <1>1
<1> QED
  BY <1>2, Invariant, PTL DEF Spec, ClaimOnCurrentService

\* A repair leaves a plist that setup has recorded alone unless Codex has moved, and once
\* one has not, no seat is taken.
THEOREM OwnershipKept == Spec => RepairKeepsOwnership
<1>1. ASSUME IInv, Next, plist' # plist
      PROVE  \/ setup.at \in Service
             \/ recorded["app"].path # path
                /\ \E c \in Launcher : proc[c].at \in {"appwrite", "wakewrite"}
  <2>1. CASE HostStep
    BY <1>1, <2>1 DEF HostStep, Exit, SetupBegins, SetupWorks, SetupMarks, SetupWrites,
       SetupRecords, SetupDies, Upgrade, CodexMoves, CodexUpgrade, HostSame, Starts, Crashes,
       files, Service
  <2>2. ASSUME NEW c \in Launcher, LauncherStep(c)
        PROVE  recorded["app"].path # path /\ proc[c].at \in {"appwrite", "wakewrite"}
    <3>1. AppWrite(c) \/ WakeWrite(c)
      BY <1>1, <2>2, LauncherStepIs, PreparesIs, ConsidersIs, OutIs, InIs
         DEF IInv, Decides, Installs, AppOut, AppIn, WakeOut, WakeIn, Claim, Clear, files,
             Service
    <3>2. PICK s \in Service : (s = "app" => AppWrite(c)) /\ (s = "wake" => WakeWrite(c))
      BY <3>1 DEF Service
    <3>3. plist'[s] # plist[s]
      BY <1>1, <3>2, WriteStep DEF IInv, TypeOK
    <3> QED
      BY <1>1, <3>2, <3>3, WriteStep
  <2> QED
    BY <1>1, <2>1, <2>2, Steps
<1>2. ASSUME IInv, Next, stray # {}
      PROVE  live' \subseteq live
  <2>1. ASSUME NEW c \in live' \ live
        PROVE  FALSE
    <3>1. c \in Launcher /\ proc[c].at = "claim"
      BY <1>2, <2>1, OnlyClaims DEF Claim
    <3>2. \A s \in Service : plist[s] = recorded[s]
      BY <1>2, <3>1 DEF IInv, FilesInv, FilesOf, Unwritten, Mutating, Service
    <3> QED
      BY <1>2, <3>2 DEF IInv, StrayInv, Owned, TypeOK
  <2> QED
    BY <2>1
<1>3. IInv /\ [Next]_vars =>
        [/\ plist' # plist =>
              \/ setup.at \in Service
              \/ recorded["app"].path # path
                 /\ \E c \in Launcher : proc[c].at \in {"appwrite", "wakewrite"}
         /\ stray # {} => live' \subseteq live]_vars
  BY <1>1, <1>2
<1> QED
  BY <1>3, Invariant, PTL DEF Spec, RepairKeepsOwnership

=============================================================================
