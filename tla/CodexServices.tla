---------------------------- MODULE CodexServices ----------------------------
(***************************************************************************)
(* The two launchd services that all Codex seats of a host share, the      *)
(* app-server and the wake bridge, and the preflight by which every        *)
(* rt-codex makes them ready before it takes its seat (bin/_rtcodex.py,    *)
(* codex_launch_preflight).  It inspects them, asks before it reloads      *)
(* them, and decides again under two locks: the repair lock of the host    *)
(* and the lock of roundtable-setup, which writes the plists (module       *)
(* HarnessSetup has that command in detail; here it is one file at a       *)
(* time).                                                                  *)
(*                                                                         *)
(* What a plist holds is not fixed for a process: the path of Codex is     *)
(* looked up whenever a plist is built, so it may have moved between the   *)
(* inspection and the write.                                               *)
(***************************************************************************)
EXTENDS Naturals

CONSTANTS Launcher,     \* rt-codex processes, each with a seat of its own
          ProjectsFile, \* what RT_PROJECTS_FILE may be set to
          Attempts,     \* rounds of the preflight, 6 in the code
          MaxChange,    \* bound: upgrades, moves of Codex and setup commands, together
          MaxLaunch,    \* bound: launches
          MaxTrouble    \* bound: deaths, failures and crashes

\* Holders of a lock that are no launcher
Nobody == "nobody"
SetupCommand == "setup"

\* RT_PROJECTS_FILE is not set
NoFile == "none"
File == ProjectsFile \cup {NoFile}

ASSUME ServicesAssumption ==
    /\ Attempts \in Nat \ {0}
    /\ {MaxChange, MaxLaunch, MaxTrouble} \subseteq Nat
    /\ {Nobody, SetupCommand} \cap Launcher = {}

VARIABLES plist,        \* the plist of each service
          recorded,     \* the plist of each service in the manifest of setup
          marker,       \* the Codex of the plist that the reload marker names, or 0
          job,          \* each service in launchd
          path,         \* where codex_bin finds Codex
          codex,        \* version of the Codex binary
          build,        \* build of the package that is installed
          proc,         \* the launchers
          live,         \* seats with a live lease
          setup,        \* the setup command
          repairLock,   \* holder of the repair lock
          setupLock,    \* holder of the setup lock
          stray,        \* history: the services whose plist a repair has changed
          spent         \* changes, launches and troubles so far

files == <<plist, recorded, marker, stray>>
versions == <<path, codex, build>>
locks == <<repairLock, setupLock>>
vars == <<plist, recorded, marker, job, path, codex, build, proc, live, setup,
          repairLock, setupLock, stray, spent>>

Service == {"app", "wake"}

\* No plist when path is 0
Plist == [path : Nat, file : File]
NoPlist == [path |-> 0, file |-> NoFile]

\* up: it answers, and its heartbeat is in order; runs: the version of Codex (app) or the
\* build of the package (wake) that was started
Job == [plist : Plist, up : BOOLEAN, runs : Nat]
NotLoaded == [plist |-> NoPlist, up |-> FALSE, runs |-> 0]
Loaded(s) == job[s].plist # NoPlist

Place == {"idle", "look", "ask", "repair", "setup", "check", "claim", "payload", "ensure",
          "appwrite", "appout", "appin", "appwait",
          "wakecheck", "wakewrite", "wakeout", "wakein", "wakewait", "clear"}
Mutating == Place \ {"idle", "look", "ask", "repair", "setup", "check", "claim"}
Locked == Mutating \cup {"check", "claim"}

\* build, file: of this process; payload: the Codex of reload_payload; plan: what it repairs
Proc == [at : Place, build : Nat, file : File,
         payload : Nat, round : 0..Attempts, approved : BOOLEAN,
         plan : {"none", "cold", "ensure", "pair", "bridge"}]
IdleProc == [at |-> "idle", build |-> 0, file |-> NoFile, payload |-> 0, round |-> 0,
             approved |-> FALSE, plan |-> "none"]

\* path, file: of the plists it has prepared
SetupProc == [at : {"idle", "marker", "app", "wake", "manifest"}, path : Nat,
              file : File]
IdleSetup == [at |-> "idle", path |-> 0, file |-> NoFile]

Spend(what, limit) == spent[what] < limit /\ spent' = [spent EXCEPT ![what] = @ + 1]
Trouble == Spend("trouble", MaxTrouble)
Change == Spend("change", MaxChange)

\* app_server_plist and wake_plist: only the latter depends on RT_PROJECTS_FILE
Content(s, codexPath, file) ==
    [path |-> codexPath, file |-> IF s = "app" THEN NoFile ELSE file]
Wanted(s, file) == Content(s, path, file)

-----------------------------------------------------------------------------
(* inspect_codex_services in a process of build b that has RT_PROJECTS_FILE f *)

MarkerNames(codexPath) == marker \in {0, codexPath}
Owned(s) == recorded[s] = plist[s]
Unsafe(f) == \/ ~MarkerNames(path)
             \/ \E s \in Service : plist[s] \notin {NoPlist, Wanted(s, f)} /\ ~Owned(s)
SetupRequired(f) == \E s \in Service : plist[s] # Wanted(s, f) \/ ~Owned(s)
Answers == job["app"].up
OwnerIsCurrent == job["app"].plist = Wanted("app", NoFile)
VersionIsCurrent == job["app"].runs = codex
\* The heartbeat tells the build of the bridge that runs, and nothing of its plist
BridgeHealthy(b) == job["wake"].up /\ job["wake"].runs = b
MustReload == \/ ~Answers /\ Loaded("app")
              \/ Answers /\ ~(OwnerIsCurrent /\ VersionIsCurrent /\ marker = 0)
Busy == live # {}

Status(b, f) == CASE Unsafe(f) -> "unsafe"
                  [] ~Unsafe(f) /\ SetupRequired(f) -> "setup_required"
                  [] ~Unsafe(f) /\ ~SetupRequired(f) ->
                       CASE MustReload /\ Busy -> "reload_deferred_busy"
                         [] MustReload /\ ~Busy -> "reload_required_idle"
                         [] ~MustReload /\ ~Loaded("app") -> "cold"
                         [] ~MustReload /\ Loaded("app") /\ ~BridgeHealthy(b) -> "bridge_down"
                         [] ~MustReload /\ Loaded("app") /\ BridgeHealthy(b) -> "ready"
StatusOf(c) == Status(proc[c].build, proc[c].file)

-----------------------------------------------------------------------------
(* A launcher *)

Goes(c, place) == proc' = [proc EXCEPT ![c].at = place]
Unlocks == repairLock' = Nobody /\ setupLock' = Nobody

\* SelectionError: rt-codex ends without a seat
Fails(c) == proc' = [proc EXCEPT ![c] = IdleProc] /\ Unlocks
\* mutant: a preflight that has repaired something is over
NextRoundEnds(c) == Fails(c)

\* The next round of the preflight, or the end of them
NextRound(c) ==
    /\ IF proc[c].round < Attempts
       THEN proc' = [proc EXCEPT ![c].at = "look", ![c].round = @ + 1,
                                 ![c].payload = 0, ![c].plan = "none"]
       ELSE proc' = [proc EXCEPT ![c] = IdleProc]
    /\ Unlocks

Launch(c) ==
    /\ proc[c].at = "idle" /\ c \notin live
    /\ Spend("launch", MaxLaunch)
    /\ \E f \in File :
        proc' = [proc EXCEPT ![c] = [at |-> "look", build |-> build, file |-> f, payload |-> 0,
                                     round |-> 1, approved |-> FALSE, plan |-> "none"]]
    /\ UNCHANGED <<job, live, setup>> /\ UNCHANGED <<files, versions, locks>>

\* The first look, for the question: under the setup lock, which is free again after it
Look(c) ==
    /\ proc[c].at = "look" /\ setupLock = Nobody
    /\ proc' = [proc EXCEPT ![c] =
        CASE StatusOf(c) \in {"unsafe", "setup_required", "reload_deferred_busy"} -> IdleProc
          [] StatusOf(c) = "reload_required_idle" /\ ~@.approved -> [@ EXCEPT !.at = "ask"]
          [] OTHER -> [@ EXCEPT !.at = "repair"]]
    /\ UNCHANGED <<job, live, setup, spent>> /\ UNCHANGED <<files, versions, locks>>

Answer(c) ==
    /\ proc[c].at = "ask"
    /\ \/ proc' = [proc EXCEPT ![c].at = "repair", ![c].approved = TRUE]
       \/ proc' = [proc EXCEPT ![c] = IdleProc]
    /\ UNCHANGED <<job, live, setup, spent>> /\ UNCHANGED <<files, versions, locks>>

LockRepair(c) ==
    /\ proc[c].at = "repair" /\ repairLock = Nobody
    /\ repairLock' = c /\ Goes(c, "setup")
    /\ UNCHANGED <<job, live, setup, spent, setupLock>> /\ UNCHANGED <<files, versions>>

\* mutant: the launcher does not wait for the setup command
LockSetupBarges(c) ==
    /\ proc[c].at = "setup"
    /\ setupLock' = c /\ Goes(c, "check")
    /\ UNCHANGED <<job, live, setup, spent, repairLock>> /\ UNCHANGED <<files, versions>>

LockSetup(c) ==
    /\ proc[c].at = "setup" /\ setupLock = Nobody
    /\ setupLock' = c /\ Goes(c, "check")
    /\ UNCHANGED <<job, live, setup, spent, repairLock>> /\ UNCHANGED <<files, versions>>

\* Ten seconds have passed and the lock is still another's
TimesOut(c) ==
    /\ \/ proc[c].at = "look" /\ setupLock # Nobody /\ UNCHANGED repairLock
       \/ proc[c].at = "repair" /\ repairLock # Nobody /\ UNCHANGED repairLock
       \/ proc[c].at = "setup" /\ setupLock # Nobody /\ repairLock' = Nobody
    /\ proc' = [proc EXCEPT ![c] = IdleProc]
    /\ UNCHANGED <<job, live, setup, spent, setupLock>> /\ UNCHANGED <<files, versions>>

Plan(c, place, plan) == proc' = [proc EXCEPT ![c].at = place, ![c].plan = plan]

\* mutant: the locks are released before the seat is claimed
CheckUnlocks(c) ==
    LET state == StatusOf(c) IN
    /\ proc[c].at = "check"
    /\ \/ state = "ready" /\ Goes(c, "claim") /\ Unlocks
       \/ state = "cold" /\ Plan(c, "payload", "cold") /\ UNCHANGED locks
       \/ state = "bridge_down" /\ Plan(c, "wakecheck", "bridge") /\ UNCHANGED locks
       \/ /\ state = "reload_required_idle"
          /\ \/ proc[c].approved /\ Plan(c, "payload", "pair") /\ UNCHANGED locks
             \/ ~proc[c].approved /\ NextRound(c)
       \/ state \in {"unsafe", "setup_required", "reload_deferred_busy"} /\ Fails(c)
    /\ UNCHANGED <<job, live, setup, spent>> /\ UNCHANGED <<files, versions>>

\* The decision that counts, under both locks
Check(c) ==
    LET state == StatusOf(c) IN
    /\ proc[c].at = "check"
    /\ \/ state = "ready" /\ Goes(c, "claim") /\ UNCHANGED locks
       \/ state = "cold" /\ Plan(c, "payload", "cold") /\ UNCHANGED locks
       \/ state = "bridge_down" /\ Plan(c, "wakecheck", "bridge") /\ UNCHANGED locks
       \/ /\ state = "reload_required_idle"
          /\ \/ proc[c].approved /\ Plan(c, "payload", "pair") /\ UNCHANGED locks
             \/ ~proc[c].approved /\ NextRound(c)
       \/ state \in {"unsafe", "setup_required", "reload_deferred_busy"} /\ Fails(c)
    /\ UNCHANGED <<job, live, setup, spent>> /\ UNCHANGED <<files, versions>>

\* claim_and_arm_codex: the seat is taken and the intent armed, then the locks go and the
\* process becomes Codex
Claim(c) ==
    /\ proc[c].at = "claim"
    /\ live' = live \cup {c}
    /\ Fails(c)
    /\ UNCHANGED <<job, setup, spent>> /\ UNCHANGED <<files, versions>>

\* The plist whose marker will be cleared; a cold app-server with a marker is reloaded
Payload(c) ==
    /\ proc[c].at = "payload"
    /\ \/ /\ proc[c].plan = "pair" \/ (marker # 0 /\ MarkerNames(path))
          /\ proc' = [proc EXCEPT ![c].at = "appwrite", ![c].plan = "pair",
                                  ![c].payload = path]
          /\ UNCHANGED locks
       \/ proc[c].plan = "cold" /\ marker = 0 /\ Plan(c, "ensure", "ensure") /\ UNCHANGED locks
       \/ proc[c].plan = "cold" /\ ~MarkerNames(path) /\ Fails(c)
    /\ UNCHANGED <<job, live, setup, spent>> /\ UNCHANGED <<files, versions>>

\* ensure_daemon looks once more before it installs
Ensure(c) ==
    /\ proc[c].at = "ensure"
    /\ IF Answers THEN NextRound(c) ELSE Goes(c, "appwrite") /\ UNCHANGED locks
    /\ UNCHANGED <<job, live, setup, spent>> /\ UNCHANGED <<files, versions>>

\* install_launch_agent: the plist as it is built now, ...
Writes(c, s, place, next) ==
    /\ proc[c].at = place
    /\ plist' = [plist EXCEPT ![s] = Wanted(s, proc[c].file)]
    /\ stray' = IF plist' = plist THEN stray ELSE stray \cup {s}
    /\ Goes(c, next)
    /\ UNCHANGED <<recorded, marker, job, live, setup, spent>> /\ UNCHANGED <<versions, locks>>
\* ... a job that is loaded goes, ...
Out(c, s, place, next) ==
    /\ proc[c].at = place
    /\ job' = [job EXCEPT ![s] = NotLoaded]
    /\ Goes(c, next)
    /\ UNCHANGED <<live, setup, spent>> /\ UNCHANGED <<files, versions, locks>>
\* ... and is loaded from the file that is there
In(c, s, place, next) ==
    /\ proc[c].at = place
    /\ job' = [job EXCEPT ![s] = [plist |-> plist[s], up |-> FALSE, runs |-> 0]]
    /\ Goes(c, next)
    /\ UNCHANGED <<live, setup, spent>> /\ UNCHANGED <<files, versions, locks>>

AppWrite(c) == Writes(c, "app", "appwrite", "appout")
AppOut(c) == Out(c, "app", "appout", "appin")
AppIn(c) == In(c, "app", "appin", "appwait")

\* require_validated_daemon
Validated == Answers /\ OwnerIsCurrent /\ VersionIsCurrent

\* _wait_for_daemon, and the same wait in ensure_daemon, which does not validate
AppWait(c) ==
    /\ proc[c].at = "appwait" /\ Answers
    /\ \/ proc[c].plan = "ensure" /\ NextRound(c)
       \/ proc[c].plan # "ensure" /\ Validated /\ Goes(c, "wakecheck") /\ UNCHANGED locks
       \/ proc[c].plan # "ensure" /\ ~Validated /\ Fails(c)
    /\ UNCHANGED <<job, live, setup, spent>> /\ UNCHANGED <<files, versions>>

\* _restart_wake_bridge
WakeCheck(c) ==
    /\ proc[c].at = "wakecheck"
    /\ IF Validated THEN Goes(c, "wakewrite") /\ UNCHANGED locks ELSE Fails(c)
    /\ UNCHANGED <<job, live, setup, spent>> /\ UNCHANGED <<files, versions>>

WakeWrite(c) == Writes(c, "wake", "wakewrite", "wakeout")
WakeOut(c) == Out(c, "wake", "wakeout", "wakein")
WakeIn(c) == In(c, "wake", "wakein", "wakewait")

\* The wait for a healthy bridge is in vain when the package is another one by now
WakeWait(c) ==
    /\ proc[c].at = "wakewait" /\ job["wake"].up
    /\ LET healthy == BridgeHealthy(proc[c].build) IN
       \/ healthy /\ proc[c].plan = "pair" /\ Goes(c, "clear") /\ UNCHANGED locks
       \/ healthy /\ proc[c].plan # "pair" /\ NextRound(c)
       \/ ~healthy /\ Fails(c)
    /\ UNCHANGED <<job, live, setup, spent>> /\ UNCHANGED <<files, versions>>

\* clear_codex_reload_marker: only the marker of the plist that was loaded
Clear(c) ==
    /\ proc[c].at = "clear"
    /\ IF MarkerNames(proc[c].payload) THEN marker' = 0 /\ NextRound(c)
                                           ELSE Fails(c) /\ UNCHANGED marker
    /\ UNCHANGED <<plist, recorded, stray, job, live, setup, spent>> /\ UNCHANGED versions

\* launchctl fails, a wait ends without an answer, or the process dies: it ends where
\* it is, and the kernel releases its locks
Dies(c) ==
    /\ proc[c].at # "idle"
    /\ Trouble
    /\ proc' = [proc EXCEPT ![c] = IdleProc]
    /\ repairLock' = IF repairLock = c THEN Nobody ELSE repairLock
    /\ setupLock' = IF setupLock = c THEN Nobody ELSE setupLock
    /\ UNCHANGED <<job, live, setup>> /\ UNCHANGED <<files, versions>>

Exit(c) ==
    /\ c \in live
    /\ live' = live \ {c}
    /\ UNCHANGED <<job, proc, setup, spent>> /\ UNCHANGED <<files, versions, locks>>

-----------------------------------------------------------------------------
(* roundtable-setup apply, launchd, and the rest of the host *)

SetupAccepts(f) ==
    \A s \in Service :
        IF recorded[s] = NoPlist THEN marker = 0 /\ plist[s] \in {NoPlist, Wanted(s, f)}
                                 ELSE Owned(s) /\ MarkerNames(recorded["app"].path)

\* The plists that it has prepared
Prepared(s) == Content(s, setup.path, setup.file)

SetupBegins(f) ==
    /\ setup.at = "idle" /\ setupLock = Nobody
    /\ SetupAccepts(f) /\ SetupRequired(f)
    /\ Change
    /\ setup' = [at |-> "marker", path |-> path, file |-> f]
    /\ setupLock' = SetupCommand
    /\ UNCHANGED <<job, proc, live, repairLock>> /\ UNCHANGED <<files, versions>>

\* mutant: the marker is written only for an app-server that answers
SetupMarksRunning ==
    /\ setup.at = "marker"
    /\ marker' = IF plist["app"] # Prepared("app") /\ job["app"].up THEN setup.path ELSE marker
    /\ setup' = [setup EXCEPT !.at = "app"]
    /\ UNCHANGED <<plist, recorded, stray, job, proc, live, spent>>
    /\ UNCHANGED <<versions, locks>>

\* Only a new plist of the app-server has a marker, not one of the wake bridge
SetupMarks ==
    /\ setup.at = "marker"
    /\ marker' = IF plist["app"] # Prepared("app") THEN setup.path ELSE marker
    /\ setup' = [setup EXCEPT !.at = "app"]
    /\ UNCHANGED <<plist, recorded, stray, job, proc, live, spent>>
    /\ UNCHANGED <<versions, locks>>

SetupWrites(s, next) ==
    /\ setup.at = s
    /\ plist' = [plist EXCEPT ![s] = Prepared(s)]
    /\ setup' = [setup EXCEPT !.at = next]
    /\ UNCHANGED <<recorded, marker, stray, job, proc, live, spent>>
    /\ UNCHANGED <<versions, locks>>

SetupRecords ==
    /\ setup.at = "manifest"
    /\ recorded' = [s \in Service |-> Prepared(s)]
    /\ setup' = IdleSetup /\ setupLock' = Nobody
    /\ UNCHANGED <<plist, marker, stray, job, proc, live, spent, repairLock>>
    /\ UNCHANGED versions

SetupDies ==
    /\ setup.at # "idle"
    /\ Trouble
    /\ setup' = IdleSetup /\ setupLock' = Nobody
    /\ UNCHANGED <<job, proc, live, repairLock>> /\ UNCHANGED <<files, versions>>

\* launchd starts what is loaded, and starts it again: KeepAlive. The wake bridge is
\* started from the package that is current
Starts(s) ==
    /\ Loaded(s) /\ ~job[s].up
    /\ s = "wake" => job["app"].up
    /\ job' = [job EXCEPT ![s] = [@ EXCEPT !.up = TRUE,
                                          !.runs = IF s = "app" THEN codex ELSE build]]
    /\ UNCHANGED <<proc, live, setup, spent>> /\ UNCHANGED <<files, versions, locks>>

Crashes(s) ==
    /\ job[s].up
    /\ Trouble
    /\ job' = [job EXCEPT ![s] = [@ EXCEPT !.up = FALSE, !.runs = 0]]
    /\ UNCHANGED <<proc, live, setup>> /\ UNCHANGED <<files, versions, locks>>

HostSame == UNCHANGED <<job, proc, live, setup>> /\ UNCHANGED <<files, locks>>

\* Another package: the fingerprint is another one, the plists are the same
Upgrade == Change /\ build' = build + 1 /\ UNCHANGED <<path, codex>> /\ HostSame

\* Codex is found at another path: both plists are other ones
CodexMoves == Change /\ path' = path + 1 /\ UNCHANGED <<build, codex>> /\ HostSame

\* Another Codex at the same path
CodexUpgrade == Change /\ codex' = codex + 1 /\ UNCHANGED <<build, path>> /\ HostSame

-----------------------------------------------------------------------------
\* A host that is not set up yet, and one that runs and was set up without RT_PROJECTS_FILE
Init ==
    /\ path = 1 /\ codex = 1 /\ build = 1
    /\ \/ /\ plist = [s \in Service |-> NoPlist]
          /\ job = [s \in Service |-> NotLoaded]
       \/ /\ plist = [s \in Service |-> Content(s, 1, NoFile)]
          /\ job = [s \in Service |-> [plist |-> plist[s], up |-> TRUE, runs |-> 1]]
    /\ recorded = plist
    /\ marker = 0 /\ stray = {}
    /\ proc = [c \in Launcher |-> IdleProc]
    /\ live = {}
    /\ setup = IdleSetup
    /\ repairLock = Nobody /\ setupLock = Nobody
    /\ spent = [k \in {"change", "launch", "trouble"} |-> 0]

Works(c) == \/ Look(c) \/ LockRepair(c) \/ LockSetup(c) \/ TimesOut(c) \/ Check(c) \/ Claim(c)
            \/ Payload(c) \/ Ensure(c) \/ AppWrite(c) \/ AppOut(c) \/ AppIn(c) \/ AppWait(c)
            \/ WakeCheck(c) \/ WakeWrite(c) \/ WakeOut(c) \/ WakeIn(c) \/ WakeWait(c) \/ Clear(c)

SetupWorks == SetupMarks \/ SetupWrites("app", "wake") \/ SetupWrites("wake", "manifest")
              \/ SetupRecords

Next == \/ \E c \in Launcher : Launch(c) \/ Works(c) \/ Answer(c) \/ Dies(c) \/ Exit(c)
        \/ \E f \in File : SetupBegins(f)
        \/ SetupWorks \/ SetupDies
        \/ \E s \in Service : Starts(s) \/ Crashes(s)
        \/ Upgrade \/ CodexMoves \/ CodexUpgrade

Spec == Init /\ [][Next]_vars

\* Processes run, and launchd keeps its jobs alive when their program is there: nobody
\* dies or waits in vain unless that is counted as a trouble
Fairness ==
    /\ \A c \in Launcher : WF_vars(Works(c))
    /\ WF_vars(SetupWorks)
    /\ WF_vars(OwnerIsCurrent /\ Starts("app")) /\ WF_vars(Starts("wake"))
LiveSpec == Spec /\ Fairness

-----------------------------------------------------------------------------
(* Properties *)

TypeOK ==
    /\ plist \in [Service -> Plist] /\ recorded \in [Service -> Plist]
    /\ marker \in Nat /\ stray \subseteq Service
    /\ job \in [Service -> Job]
    /\ {path, codex, build} \subseteq Nat \ {0}
    /\ proc \in [Launcher -> Proc] /\ live \subseteq Launcher
    /\ setup \in SetupProc
    /\ repairLock \in Launcher \cup {Nobody}
    /\ setupLock \in Launcher \cup {Nobody, SetupCommand}

\* The shared app-server is unloaded only while no seat has a live lease, and only by a
\* launcher whose user has agreed: "never interpreted as permission to silently restart
\* the shared app-server" (docs/compatibility.md:183-184)
NobodyCutOff ==
    [][job["app"].plist # NoPlist /\ job'["app"].plist = NoPlist =>
        /\ live = {}
        /\ \E c \in Launcher : proc[c].at = "appout" /\ proc[c].approved]_vars

\* No setup and no reload slips in between the last inspection and the claim: a seat is
\* taken on plists that the manifest records and that are both of one Codex, the wake one
\* of this launcher's RT_PROJECTS_FILE, with no reload pending, on the app-server of that
\* very plist, and with a loaded wake bridge that is no older a build than the launcher.
\* Of which plist the bridge was loaded nothing is said: the code does not look.
ClaimOnCurrentService ==
    [][\A c \in live' \ live :
        /\ marker = 0 /\ recorded = plist
        /\ \A s \in Service : plist[s] = Content(s, plist["app"].path, proc[c].file)
        /\ job["app"].plist = plist["app"] /\ job["wake"].plist # NoPlist
        /\ job["wake"].up => job["wake"].runs >= proc[c].build]_vars

\* An app-server that runs on another plist than its file is known to: the reload marker
\* stays until that very file is loaded, whoever dies and whatever setup writes. Only a
\* repair that found Codex moved under it may leave a new file without a marker.
MarkerUntilLoaded ==
    job["app"].plist # NoPlist /\ plist["app"] \notin {NoPlist, job["app"].plist} =>
        marker # 0 \/ "app" \in stray

\* A repair changes a plist only when Codex has moved since the manifest was written, and
\* after such a change no launcher takes a seat any more: the file is not owned, so every
\* preflight fails closed ("must never create an ownership gap", inspect_codex_services)
RepairKeepsOwnership ==
    [][/\ plist' # plist =>
            \/ setup.at \in Service
            \/ recorded["app"].path # path
               /\ \E c \in Launcher : proc[c].at \in {"appwrite", "wakewrite"}
       /\ stray # {} => live' \subseteq live]_vars

\* When the last trouble is over and nothing but this launch goes on, the preflight
\* brings the services up, whatever state they are in, and the seat is taken, unless
\* the user has to be asked
Calm(c) ==
    /\ spent.launch = MaxLaunch /\ spent.trouble = MaxTrouble
    /\ spent.change = MaxChange /\ proc[c].build = build
    /\ proc[c].round = 1 /\ (proc[c].at = "look" \/ (proc[c].at = "repair" /\ proc[c].approved))
    /\ \A d \in Launcher \ {c} : proc[d].at = "idle"
    /\ setup.at = "idle" /\ live = {} /\ ~Unsafe(proc[c].file) /\ ~SetupRequired(proc[c].file)
Recovers ==
    (\E c \in Launcher : Calm(c)) ~> (live # {} \/ \E c \in Launcher : proc[c].at = "ask")

=============================================================================
