# Roundtable messaging: a TLA+ model

Roundtable lets several coding agents (Claude, Codex, Hermes) work in one
project folder and send each other mail through files. There is no server that
could serialise anything: launchers, hooks, watchers, one wake bridge and short
commands share a project folder and a host-local runtime folder, and what keeps
them apart are `flock(2)` locks, atomic renames, hard links, fences (a lease
revision that a process carries in its environment) and re-validation after
every unlocked call. This directory models that coordination, checks it on small
instances with TLC, and proves the parts that matter most with TLAPS.

All definitions are translated from the source; `PROJECT.json` ("map") names the
lines each one stands for. Paths below are relative to the repository.

## 1. The system

### Components, their state and their operations

| Component | Source | State | Operations | Modelled in |
| --- | --- | --- | --- | --- |
| Seat lease store | `bin/_rtruntime.py` | `claim.lock`, per agent `state.lock` and `lease.json` under `~/.roundtable/.runtime` | claim, release, fenced updates (activity, wake slot), shared seat guard, legacy harness guard, liveness of owners | `SeatLease`, `SeatRegister`, `SeatLeaseProofs` |
| Codex launch intent | `bin/_rtruntime.py` | `codex-launch-intent.json` | arm, resolve and advance | `CodexBinding` |
| Harness launcher | `bin/_rtlauncher.py`, `rt-claude`, `rt-codex`, `rt-hermes` | none of its own | choose a seat, preflight, claim, arm, `exec` the harness | its claim in `SeatLease`, its arming in `CodexBinding`, its preflight in `CodexServices` |
| Mail: send | `bin/rt-say` | `tmp/`, `new/` of the recipient, ledger, `ledger.lock` | publish, append to the ledger | `Maildir`, `Mailbox`, `MaildirProofs` |
| Mail: acknowledge | `bin/rt-ack` | `new/`, `cur/` | one acknowledgement for each sender, then archive | `Maildir`, `MaildirProofs`, `MailboxProofs` |
| Mail: list and drain | `bin/rt-inbox` | `new/`, `cur/` | archive quiet acknowledgements, hide answered mail | only the drain of acknowledgements, in `Maildir` |
| Inbox tripwire | `bin/rt-wait-inbox` | wake slot of the lease (pid, heartbeat, last generation, attempts) | claim the slot, poll, record a wake, clear | `TripwireWatcher`, `TripwireWatcherProofs` |
| Codex SessionStart hook | `bin/rt-codex-session-start` | bind-request queue and its guard | advance the intent, publish a request | `CodexBinding`, `CodexBindingProofs` |
| Wake bridge: binding | `bin/rt-codex-wake` | `rt-codex-wake-state.json`, in-memory quarantine | drain requests, bind, consume, quarantine; commands `bind`, `unbind` | `CodexBinding` |
| Wake bridge: phases | `bin/rt-codex-wake` | project state in the same file, a copy in memory, what the connection has told | step a project, wake, judge a turn, back off, breaker, human gate | `WakeBridge`, `WakeBridgeProofs` |
| Codex services | `bin/_rtcodex.py`, `rt-codex-daemon` | launchd jobs, plists, repair lock, reload marker, heartbeat file | inspect, preflight, repair, reload | `CodexServices`, `CodexServicesProofs` |
| Harness setup | `roundtable_packaging/setup.py` | `harness-setup.json`, backups, owned fragments of harness configs | plan, apply, roll back, remove | `HarnessSetup`, `HarnessSetupProofs`; its writes of the plists also in `CodexServices` |
| Project registry | `bin/_rtlib.py` | `projects.yaml` and its lock | register, unregister, load | no: see section 7 |
| Hermes plugin | `integrations/hermes/roundtable` | a waiter process, the generation it reported | lifecycle callbacks | no: see section 7 |
| Stop gate | `bin/rt-stop-gate` | none | one read of `new/` and of the lease | no: see section 7 |
| Project creation | `bin/roundtable-init` | project files | preflight, apply | no: see section 7 |
| Package install | `roundtable_packaging/cli.py`, `scripts/*.sh` | versioned prefix, install manifest | install, upgrade, uninstall | no: see section 7 |
| Diagnostics, selector, keyboard route, release tools | `rt-doctor`, `rt-startup-advisory`, `roundtable`, `rt-projects`, `rt-refresh`, `rt-resolve`, `scripts/*.py` | none that others rely on | reports, menus, archives | no: read-only, interactive, or drivers of another program |

### How they interact

* A **launcher** claims a seat under the project's claim lock, puts the lease
  revision into the environment and becomes the harness: pid and start
  fingerprint in the lease are those of the session. Everything that inherits
  the environment can act for the seat as long as its revision is the one in the
  file and the owner runs.
* **Hooks** of the session call `rt-wait-inbox` (Claude) or
  `rt-codex-session-start` (Codex), which write the lease's wake slot, or the
  launch intent and the bind request of the seat.
* **`rt-say`** publishes a file into another agent's `new/`. It calls nobody. The
  recipient's watcher, or the wake bridge, polls `new/`.
* **`rt-ack`** runs `rt-say` for the acknowledgement and moves the mail to `cur/`
  only when that command reported success.
* The **wake bridge** is one process for the host. It turns bind requests into
  bindings (project, thread, lease revision, binding revision), polls `new/`, and
  starts a turn of the bound thread through the Codex app-server. The commands
  `bind` and `unbind` write its store from other processes.
* **`roundtable-setup`** writes Roundtable's entries into the configuration of the
  harnesses, links and two launchd plists, and keeps a manifest of what it owns. The user
  and the harnesses write the same files without its lock.
* The Codex app-server and the wake bridge are two **launchd services** that all Codex
  seats of the host share. Every `rt-codex` inspects them before it claims its seat and may
  repair or reload them, under the repair lock and the lock of `roundtable-setup`; a
  reload that has to wait for the seats to end is remembered in a marker file.

### What is hard about it

Locks are held for short sections only, so most operations read, let go, and act
later: claims against updates of the old lease, guards against claims, watchers
that stall for longer than their heartbeat lives, a bridge that copies its store
over a network call, launchers that inspect shared services while setup replaces
them. A setup command changes up to nine files of three programs and has to take all of
it back when one write fails. Files are made durable by an order of `fsync`, `rename`,
`link` and `unlink`, and any process may die between two of them. Requests and
notifications come late, twice or never. Pids and message ids come back. A model
turn costs money, so wakes must be bounded, yet mail must not be left lying
because two watchers each believed in the other. `PROJECT.json` ("hazards") lists
40 such places at their lines, each with the property that would catch it going
wrong or the reason there is none.

### What makes each component correct

* **Leases**: one running session for a seat and one for a harness; a running
  owner keeps its seat; inside a guard the lease stands still; a replaced lease
  never comes back; no update is lost; no order of the locks leaves everybody waiting.
* **Mail**: what was reported as sent survives power loss; nothing is archived of
  which the sender has no acknowledgement; a name never changes its message; only
  whole messages are seen; a finished `rt-ack` has emptied `new/`; nobody hangs.
* **Tripwire**: waiting mail starts a turn; a generation wakes at most twice; one
  poller; a superseded watcher leaves its successor alone.
* **Binding**: a younger thread is never replaced by an older one; no replaced
  thread is woken; a command's binding is not removed for another one's sake; the
  active thread is bound in the end; nobody waits for ever.
* **Setup**: a command that says it was rolled back has left no trace; nothing of the user
  goes; what setup added stays in the manifest; a service that runs on an old plist keeps
  its marker.
* **Services**: no live seat is cut off; a seat is taken only on recorded plists and on an
  app-server of that very plist; no pending reload is forgotten; a repair changes no plist that
  the manifest records, unless Codex has moved, and then no seat is taken; an undisturbed
  preflight ends with running services.
* **Wakes**: a bind is never undone; a wake on record is of the present binding;
  the breaker and the human gate hold; waiting mail gets its thread woken.

## 2. The modules

| Module | What it is |
| --- | --- |
| `SeatLease` | The lease store: processes, locks, files, pid reuse, deaths anywhere |
| `SeatRegister` | What it promises: an atomic register of who holds which seat |
| `SeatLeaseProofs` | TLAPS proofs about `SeatLease`, the refinement included |
| `Maildir` | `rt-say`, `rt-ack`, `rt-inbox` as file operations, with kills, errors and power loss |
| `Mailbox` | What they promise: post, report, acknowledge, archive, each one step |
| `MaildirProofs` | TLAPS proofs about `Maildir`: durability |
| `MailboxProofs` | TLAPS proofs about `Maildir`: acknowledgements, and that it implements `Mailbox` |
| `CodexBinding` | Launch intent, SessionStart hooks, request queue, bridge, binding store |
| `CodexBindingProofs` | TLAPS proofs about `CodexBinding` |
| `WakeBridge` | The passes of the bridge over one bound project |
| `WakeBridgeProofs` | TLAPS proofs about `WakeBridge` |
| `TripwireWatcher` | `rt-wait-inbox` as a Claude hook |
| `TripwireWatcherProofs` | TLAPS proofs about `TripwireWatcher` |
| `HarnessSetup` | `roundtable-setup apply` and `remove` over the three harnesses |
| `HarnessSetupProofs` | TLAPS proofs about `HarnessSetup` |
| `CodexServices` | The launch preflight of several `rt-codex` over the two shared services, with setup and upgrades |
| `CodexServicesProofs` | TLAPS proofs about `CodexServices` |
| `MCSeatLease`, `MCMaildir`, `MCCodexBinding`, `MCWakeBridge`, `MCTripwireWatcher`, `MCHarnessSetup`, `MCCodexServices` | Instances for TLC |

Operators whose comment begins with "mutant:" are not part of a model: they are
plausible bugs of the definition below them, used to see that a property fails
when the code is wrong ("mutants" in `PROJECT.json`).

### SeatLease

A process is a program counter with its environment: `seat` (agent and harness),
`rev` (`RT_LEASE_REVISION`), and whether it is itself the session that claimed
(`own`). Who holds a lock is read off the program counters, because a process
holds it exactly while it is inside the `with` block and loses it when it dies.
`lease[a]` is `lease.json`. `StartClaim`, `ClaimLock`, `ClaimScan`,
`ClaimStateLock`, `ClaimCommit` are `claim()`; `Release*`, `Update*`, `Guard*`,
`Legacy*` are `release`, a fenced update, `seat_shared_guard` and
`legacy_harness_guard`. `Liveness` gives the answers `_owner_liveness` can give: a
pid that runs may be impossible to inspect. `Spawn` reuses pids, possibly with the
same start fingerprint, because `ps -o lstart` counts seconds. `Raise` unwinds an
operation at any place, `Die` kills a process at any place.

The register (`SeatRegister`) has no locks, files or revisions: a seat is taken
when it and its harness are free and no guarded side effect runs, and it is left
when its session ends or gives it up. `ImplementsRegister` maps the running owners
to its `holder` and the guarded processes to its `users`.

### Maildir

`dir[<<f, n>>]` is the inode a name has in the page cache, `disk[<<f, n>>]` the set of
inodes a power loss may leave there: every change adds one, an `fsync` of the folder
leaves the present one. `PowerLoss` chooses. Each system call of the three
commands is an action; `PublishFault`, `ArchiveFault`, `Kill` and `KillParent` end
a command anywhere, the last one with the `rt-say` that `rt-ack` runs going on.
A message's text counts as empty, cached or synced. Names are records (sender,
recipient, stamp, quiet or not), so an id that comes back (a reused pid and a
clock set back) is the same name; `Fresh` and `Settled` state what is assumed of
ids: two running senders do not share one, and an id comes back only when no
running command is about a message of that id.

`Mailbox` is the promise: post, report, acknowledge, archive as single steps, a
power loss that may take unreported mail and archives but never a reported message
or an acknowledgement. `ImplementsMailbox` says that ordinary mail behaves so.

### CodexBinding

`intent`, `queue[r]` (the request file of lease r, its inode an increasing number),
`binding` and the bridge's place and variables. The bind-request guard and the
claim lock are read off the places (`HoldsGuard`, `SharesClaim`); the store's lock
is held for one step at a time. A hook is `StartHook`, `TakeGuard`, `Resolve` or
`Ignore`, `Publish`; the bridge is `ListQueue`, `Open`, `Guard`, `Bind`, `Native`,
`Consume`, `Quarantine`, `Reject`, `Drained` and the wake (`WakeRead`, `WakeGuard`,
`WakeStart`). `Defer` is a failed call, `Restart` a death of the bridge, which
takes the in-memory quarantine with it. `newest` and `seen` are histories.

### WakeBridge

`disk` is the store, `mem` the bridge's copy of it, `bridge` its place and local
variables, `conn` what it knows as long as its connection lasts, `buffer` the
notifications it has not read, `turns` and `asked` the app-server's truth. Every
step is one call, one store transaction or one `save`. `save` merges as the code
does: it writes the copy's project state unless the binding on disk has changed.
Abstractions: "completed" stands for failed turns too; `retryAt` is a flag that
`Elapse` clears, so the arithmetic of the delays is left out; a generation is the
set of pending messages; `Window` stands for the last 20 turns that `thread/turns/list`
returns; `Lost` is a timeout, a broken connection, or a kill with a restart; a
seat guard that fails counts as a failed call. Legacy auto-discovery, loading of
unloaded threads, heartbeats and the reload of the registry are left out. A bind
request that the bridge drains is one step here (`CodexBinding` has its detail): it is bound
and consumed, consumed because the binding is there already, or found replaced. Then
the project is in the in-memory `bind_quarantined` (`conn.quarantined`), and the bridge rests until
it has consumed a request or is started again, also when `rt-codex-wake bind` has bound the project.

### TripwireWatcher

A hook is `Load`, `List`, `ClaimSlot`, `Recheck`, `Look`, `Beat`, `Found`,
`TimedOut`, `Clear`; each step that touches the lease holds its state lock. The
Claude session is modelled from how the hooks in the repository use it: a turn
ends with a Stop hook (unless interrupted), exit code 2 of an asynchronous hook
starts a turn of an idle session. The heartbeat's age is "fresh" or "stale"; `Stale`
lets it pass 30 seconds, and counts as a stall when the watcher lives. A pid is not
reused while the heartbeat of its last owner is fresh. Back-off times and terminal
output are left out.

### HarnessSetup

`file[p]` is what is at a path: the configuration of each harness, its links, the two
plists, the reload marker and the manifest. A configuration is the set of Roundtable's
entries in it with the author of each (which the code cannot see), a container for them, a
flag for the user's other text and one for a choice of his that forbids the integration.
`proc[s]` is a running command: the operations still `todo`, the `paths` it may change,
what it has `saved` of them. `Begin` collapses the reading part: the command takes the
lock, reads the files, validates the manifest against them (`ValidRecord`), prepares each
harness (`Prepares`) and compiles its operations (`ApplyOps`, `RemoveOps`) in the order
of `_apply_prepared` and `_remove`. The check before the lock only reads and is left out.
`Snapshot` saves all the paths in one step; `Step` does one operation; `Fault` is an
operation that raises, after which `Undo` restores the paths one at a time in the
order of `_rollback_snapshots` and may itself fail; `Report` says whether all is restored.
`Kill` ends a command anywhere: KeyboardInterrupt counts too, since the handler is
`except Exception`. `EditConfig` and `EditLink` are the user, at any moment, `Upgrade` a new
package. `Init` offers a new host, one with entries of the user, one set up by an
earlier release, and one that is set up.

Left out: backups, file modes, directories, duplicate and disabled fragments, version and
source checks, the layout of the YAML, JSON and TOML files, `plan` and `status`. The
permission rules are one entry and the containers of a file one `box`. The user does
not put an entry of setup's back while a command runs. The two plists are of one generation: a
change of the wake bridge's plist alone (`RT_PROJECTS_FILE`) is in `CodexServices` only.

### CodexServices

`plist`, `recorded` and `marker` are the files. What a plist holds is the path of Codex and, in
the one of the wake bridge, `RT_PROJECTS_FILE`; `path` is where `codex_bin` finds Codex now, and
`Wanted` the plist that a process builds from it. A launcher builds a plist anew each time it
looks at one or writes one, so Codex may have moved between its inspection under the locks and its
write. `job` is launchd: the plist a job was loaded from, whether it is up, and which version of
Codex (app-server) or build of the package (wake bridge) was started. The inspection compares the
first for the app-server, and for the wake bridge only the build in its heartbeat
(`BridgeHealthy`).

A launcher goes `look`, `ask`, `repair`, `setup`, `check`, then `claim` or one of the three
repairs (`ensure`, `appwrite`, `appout`, `appin`, `appwait`; the same and then `wakecheck`, `wakewrite`,
`wakeout`, `wakein`, `wakewait` and `clear` for the pair; from `wakecheck` to `wakewait` for the bridge),
and back to `look` for the next of its `Attempts` rounds. `StatusOf` is
`inspect_codex_services` with seven of its answers. Both locks are taken with their time-outs
and are let go when the process ends, at the end of a round and after the claim. The
setup command prepares its plists, and writes marker, plists and manifest one step each; it may die between
them. `Starts` is launchd's KeepAlive, `Crashes` a service that ends, `Upgrade` a new package behind
the same plists, `CodexUpgrade` a new binary behind the same path, `CodexMoves` another path.

Abstractions: an inspection, which is many reads, is one step; Codex moves to new paths only,
never back to an earlier one; `PATH`, `HOME` and `RT_CODEX_BIN` are the same for all processes,
`RT_PROJECTS_FILE` is each one's own. A process keeps the build it was started with, since
`SOURCE_ROOT` resolves the link of the package when the interpreter starts
(`_rtcodex.py:571-580`), while plists name that link. The answer "unsupported" and the hook in the
manifest are left out. A session that was started inside Codex and a lease that cannot be
attributed count as busy (`Busy`); time-outs of the waits are troubles. A setup `remove`, which
with `--unload` unloads the app-server without a look at the seats, is in `HarnessSetup` only.
`rt-codex-daemon` and `rt-codex-wake install`, which the installation guide keeps for experts
(`docs/install.md:224-226`), take neither lock and are not modelled.

## 3. What TLC checks

| Run | Configuration | Shows |
| --- | --- | --- |
| `seats` | 2 processes, 2 agents, 2 harnesses, 2 births, 2 revisions, 2 activity updates | the seat invariants, no deadlock, no lease goes back, and that the store implements the register |
| `mail` | 2 processes, 1 sender, 1 reader, 1 stamp, 3 files, 1 power loss | durability, no overwriting, `new/` emptied, refinement of `Mailbox` |
| `mail_ends` | 1 process, 2 senders, 1 reader, 3 files, fairness | two groups in one `rt-ack` with a failure between them: acknowledged before archived; every command ends although `ledger.lock` was left behind |
| `bind` | 2 hooks, 2 threads, 2 leases, 3 events, 1 command, 1 fault, 1 restart | the order of binds, no wake of a replaced thread, commands' bindings stay |
| `bind_order` | 2 hooks, 3 threads (1 refused), 1 lease, 3 events, 1 restart, fairness | the queue follows the intent, the active thread is bound in the end, nobody waits |
| `bind_quarantine_kept` | 2 hooks, 1 command, fairness | **violated**: see section 6 |
| `wake` | 2 threads (1 without a turn yet), 1 message, 1 human request, limit 2, window 1, 3 turns, 2 events, fairness | binds stand, wakes are of the binding, breaker and gate hold, mail is served |
| `wake_past_latch` | the same with 2 turns | **violated**: see section 6 |
| `tripwire` | 2 hooks, 1 message, 2 leases, 2 events, fairness | few wakes, one poller, the successor stays, mail wakes |
| `setup` | 2 processes, 3 harnesses, 3 generations of plists, 2 commands, 1 edit, 2 troubles, 4 initial hosts | a rollback leaves no trace, the user's entries stay, the manifest covers what setup added, jobs match plists or have a marker, commands exclude each other |
| `setup_again` | 1 harness, 1 generation, 2 commands, 1 trouble | **violated**: see section 6 |
| `services` | 2 launchers, 3 rounds, 1 value of `RT_PROJECTS_FILE`, 2 changes (upgrades, moves of Codex, setups), 2 launches, 2 troubles, fairness | no seat cut off, claims on recorded plists and their app-server, marker kept, recorded plists left to setup unless Codex moves, undisturbed preflights end well |

### Bounds, and why they are enough

* `seats`: every property relates two sessions, so two processes with two agents and
  two harnesses give every collision of seat and harness; two births let a pid
  come back with the same and with another fingerprint; with two revisions a lease is
  replaced while the old token is still carried. The proofs remove the bounds.
* `mail`: three files are a message, its acknowledgement and a second message under the
  same id (one stamp forces the reuse); two processes give two archives of one
  message, an archive against a publication, a retry against a first try. Two senders
  are needed for groups only and are in `mail_ends`.
* `bind`: two hooks and three events are the shortest history in which a request is
  replaced, quarantined and followed by a third; two leases with one restart let an old
  request be replayed. The proofs remove the bounds.
* `wake`: three turns are the first wake, its retry and the one that the breaker
  must refuse with limit 2 (3 in the code, which only repeats the step); window 1 makes
  a turn of the user push the wake turn out of the list; the events (binds, unbinds, user
  turns, human requests, failed calls, lost connections, malformed entries) are counted
  together, so every pair of them in any order occurs. A lost reply between two wakes on record
  is among the histories; that the row then goes on for more than three turns is left to the proof.
* `tripwire`: two hooks overlap; two leases give a watcher of a replaced one; two
  events give a stall with a signal, a compaction or a user turn. One message gives two
  generations, with and without it. The proofs remove the bounds of the safety properties.
* `setup`: two commands are an apply and a removal, an apply and its upgrade, or two that race
  for the lock; two troubles are a write that fails and a restore that fails, a kill and an
  edit, or an edit and a fault. Three generations are what an upgrade between two commands
  over a host that is set up needs. All three harnesses are there, since a fault in one takes
  back the others. For a single harness the same properties were run with one process up to three
  commands, five edits and six troubles (`codex`: two, four and four), which is where the exceptions of
  `UserEntriesStay` come from.
* `services`: two launchers give one that repairs and one that claims in between, each with or without
  `RT_PROJECTS_FILE`; two changes are a move of Codex and the setup that follows it, a setup with another
  `RT_PROJECTS_FILE` and a move or an upgrade during a repair, or a new package and a new Codex;
  `Attempts` is 3 instead of the six rounds of the code (`_rtcodex.py:1349`), and
  `Recovers` shows that an undisturbed preflight needs no more. The proofs remove the bounds
  of the safety properties.

`CHECK_DEADLOCK FALSE` is set where the modelled bounds let the system stop: in `seats` all
processes may be dead (`NobodyLockedIn` states what a deadlock would be), in `bind_order`,
`tripwire`, `setup` and `services` the events or the commands are used up. In the other runs TLC
checks that something can always happen.

### Fairness

* `mail_ends`: weak fairness of a running command; the ledger lock has a
  time-out in the code, so no strong fairness is needed, and a lock that was left
  behind must not matter.
* `bind_order`: weak fairness of the bridge, which loops as long as it is installed,
  strong fairness of each hook, which waits for two `flock` locks that the bridge takes
  again and again.
* `wake`: weak fairness of the bridge's steps, of time, and of the end of turns that
  do not wait for a human. Calls may fail and connections may be lost, but the events
  are bounded, so they do not do so for ever.
* `tripwire`: weak fairness of each hook that is not killed; a session in a turn ends
  it when the turns go on being able to end (strong, because a hook process must be
  free for it).
* `services`: weak fairness of each launcher, of the setup command and of launchd's KeepAlive,
  which for the app-server means a job whose program is still where its plist says. The locks have
  time-outs in the code, so no strong fairness is assumed. Nothing makes a user answer, a session
  end or a new launch happen. `Recovers` speaks of a launch that nothing disturbs any more; what a
  user may do meanwhile is `ask`.

## 4. What is proved

TLAPS checks the proofs for every value of the constants, under the assumptions named in the
modules: the bounds are natural numbers (`BoundsAssumption`, `MaildirBounds`, `BindingAssumption`,
`BridgeAssumption`, `WatcherAssumption`, `SetupAssumption`, `ServicesAssumption`), the refused
threads are threads, no thread is called `none`, and the harnesses are some of the three there
are. Sets of processes, agents, hooks, threads, messages and launchers are arbitrary, also
infinite. In each module `Invariant` is the inductive invariant `IInv`, none of the properties
being inductive by itself, and `TypeCorrect` is the type invariant.

### SeatLeaseProofs

`SeatsExclusive`, `OwnersKeepSeats` and `GuardsExclude` are the invariants, `NoDeadlock` says
that somebody can always go on, `ForwardOnly` is the action property and `Refinement` the
implementation of `SeatRegister`. `SeatsExclusive`
needs to know that a claim that has finished its scan still meets no running owner
when it commits (`ScannedInv`), which holds because the exclusive claim lock keeps every
other claim out (`ClaimLockInv`) and a running owner has its own record in the file
(`OwnerInv`). That an owner's record stays depends on updates, which write back a
whole record: what an update is about to write is what the file holds (`SnapInv`),
which in turn needs the state lock (`StateLockInv`), because an update does not take
the claim lock. Fresh revisions (`FreshInv`) make a fence mean something. `NoDeadlock`
follows from the order of the locks, claim lock before state lock: a process that holds a
state lock waits for none, and if nobody holds one, the holder of the claim lock waits for
none. There is one lemma for each conjunct and in it one case for each operation.

### MaildirProofs

`WholeMessages`, `SentSurvives` and `NothingOverwritten`. The invariant says, for each command, what
it works on (`CommandOf`, `InodeOf`, `TmpOf`, `ArchiveOf`, `LetterOf`); for each pair of
commands, that the exclusive creation in `tmp/` keeps two senders of one id apart and that
nobody publishes what an `rt-ack` is about (`PairInv`); for the folders, that what one
shows is among what a power loss may leave, and that contents are flushed before a name is
published (`FolderInv`); and that a message whose sender was told so is on the disk, under
every state that may show, in `new/` or in `cur/` (`ConfirmedInv`). The last one is the
argument: the rename into `new/` finds the name free, and is flushed before the sender is told;
the link into `cur/` is made only when that name is free; and when `rt-ack` unlinks the name
in `new/`, `cur/` is flushed and holds the same inode. A power loss then picks a state of
each folder, and whichever it picks has the message.

### CodexBindingProofs

`NoReplacedThreadWoken`, `BoundInOrder`, `OthersNotUnbound` and `QueueNamesActive`. The argument
is about the numbers of the requests. The guard lets one hook at a time advance the intent and
publish (`GuardInv`), so the requests of a later lease are younger than all of an earlier one, and
the request that waits for the newest lease is younger than everything that was bound or put into
quarantine (`QueueInv`). What the bridge has read keeps that relation until it is done with it
(`BridgeInv`), because the claim lock it shares while it binds keeps the lease the newest one, and
because only the inode that was read is ever consumed. Between the bind and the consumption only a
command can change the binding, and a command's binding comes from no request (`BindingInv`); so
the quarantine removes the replaced thread and nothing else, and a thread that was put into
quarantine is bound again by a younger request only. `CountInv` counts the running hooks, which
bounds the events for the type invariant.

`QueueNamesActive` is `QueueFollowsIntent` as long as no hook has died or failed, which is what its run
assumes too (a hook that dies after it has advanced the intent leaves an older request in the queue).
`IntentInv` says that a hook publishes for the thread it has put into the intent, and that a
waiting request names the active thread or is about to be replaced by a `clear`: the only other event that
advances the intent past a request is the first one of a lease, when the queue has none.

### MailboxProofs

`ArchivedIsAcked`, `AckedAndGone` and `Refinement`, on top of the invariant of `MaildirProofs`.
`MInv` adds what is true of acknowledgements: the one that `rt-ack` publishes is for the
sender of every letter at hand (`AddressOf`) and names them all (`AnswerOf`); it is younger than any
letter of those names, because nobody publishes a name while `rt-ack` is about it; so what
is being archived has a confirmed acknowledgement that is younger (`AckedOf`), which is what
makes the property true when a name is used again. `EmptiedOf` counts what is out of `new/` already.

The refinement maps a letter to its inode, so that a name used twice is two letters. Most
file operations stutter. The rename of `rt-say` posts, the report at its end reports or
acknowledges, the link into `cur/` and the removal from `new/` archive, and a power loss maps to
one of `Mailbox`: what it may take there is what `ConfirmedInv` and `AckedOf` leave.

### WakeBridgeProofs

`TheBindingStands`, `TheWakeIsOfTheBinding`, `TheBreakerHolds`, `TheLatchHolds` and
`TheRequestLatches`. The bridge works on a copy of its store while commands write the store, so
the invariant is about three things at once: the copy, the store, and what the bridge has read
from the copy. A store keeps a wake with the binding it belongs to (`StoreInv`); the revision
tells which binding it is (`SameInv`); as long as the binding is the same, copy and store agree,
and when it has changed the store is that of a fresh bind (`CopyInv`, `RecordInv`), which is why
`save`, which gives way to another binding, never puts an old wake under it.

For the breaker, `streak` is the history of the turns that wake one thread for one generation in a
row, each of them interrupted before the next, and its `n` how many of them were put on record. A
turn whose reply to `turn/start` is lost is in the row, and not in `n`: the code cannot count what
it has not recorded. The wake on record is the last turn of the row, and the ones on record before
it are counted in the breaker on the disk (`OnRecordInv`); when no wake is on record and another
one in a row may follow, now or when a lost turn that still runs is interrupted, all are counted
and they are fewer than `Limit` (`OffRecordInv`); between the judgement of a turn and its save the
count is in the copy or in the bridge (`CountedInv`). `TurnInv` and `NoticeInv` make the judgement
right: a thread runs one turn at a time, and what a notification says stays true. The latch needs
that the bridge never gets past its look at it (`HeldInv`), and that a wake which has closed the
breaker closes it again when it is judged again after a restart (`ClosedInv`).

### TripwireWatcherProofs

`PollersExclude`, `WakesBounded` and `SuccessorKept`. `PollInv` says that a hook which polls for
the live lease has the slot, with a fresh heartbeat, as long as no hook stalls; hence one poller.
For the number of wakes, `WakeInv` looks at the histories without a turn of the user and without a
compaction: there the hooks of one lease follow each other, so that at most one is alive
(`OneHookInv`); the record in the slot is what the session was woken for (`RecordInv`); a second
wake is by a Stop hook (`StopInv`); and a hook that has not paused waits for another generation
than the one on record (`NewMailInv`). So a third wake for one generation has nobody left to make
it.

### HarnessSetupProofs

`TypeCorrect`, `NoTraceLeft`, `JobsFollowPlists`, `EverythingRecorded` and `UserKeepsHis`. `Fits`
says what may be at a path; the types of all that a command writes follow from the files it was
compiled from (`ApplyOpsAre`, `RemoveOpsAre`). The heart is a relation between two lists that the
code makes in different places: every operation of a command is on a path of its snapshots, or
writes nothing (`OpsOn`; `_apply_mutation_paths` against `_apply_prepared`,
`_remove_mutation_paths` against `_remove_record`). `Keeps` then says of a running command that a
path without a snapshot is as it was found, and that a snapshot is of what was found, unless the
user has changed the path since; so a rollback that sees all snapshots restored has restored all.

`JobsFollowPlists` is about a command that may die at any place, so `JobsMatchPlists` alone is not
inductive: `JobsInv` adds, for every place of a command, what it has done and what is left of its
list. An apply has its marker before its plist left to write and the manifest last (`ApplyTodo`),
and takes its snapshots in that order, so that a rollback, which goes backwards, puts the plist
back before the marker (`ApplyOrder`, `Undone`); a removal unloads the job before it takes the
plist or the marker away (`RemoveTodo`).

`EverythingRecorded` says that between two commands the manifest knows all that setup has put
anywhere (`NoOrphans`), which a later removal depends on. `Claimed` is that of one path against
one record, and `TidyInv` its form for a running command. Before the manifest is written, every
operation left fits the manifest that will be written (`FitsIn`), and every path is in that one
already or has an operation left that replaces what is there (`Leads`, from `ApplyLeads` and
`RemoveLeads` for the lists as they are made, and `LeadsNext`, `LeadsEdit` for each step, the
user's edits of other paths in between); what the snapshots hold, and what has none, is in the
manifest as it was (`Returns`). The induction also needs what every record has (`Sound`): a record
that says setup added the container lists one of today's entries as added, because a removal edits
a configuration only for entries (`EditOut`) and would leave a container alone behind.

`UserKeepsHis` (`UserEntriesStay`) is about single steps, but what makes a step harmless was
decided when the command read the files. `UserInv` has three parts. The manifest claims nothing
that is the user's (`Free`), neither now nor after the command, and every record lists what it has
added among what it has (`Proper`). Every operation left writes what differs from the files at the
beginning in setup's own things only (`Minds`, `Spares`; `Alike` and `SameBox` compare two
contents of a path). And whatever the user may still add while the command runs is claimed neither
by the manifest that is to be written (`Leaves`) nor by the one a rollback puts back (`Keeping`),
which is where his edits and the command meet: `UserEdits`. A step that goes on then shows a path
that agrees with the beginning before and after it. The part about containers needs `TidyInv` too,
since a removal gives the container back by what the record says of it (`WithoutMinds`).

### CodexServicesProofs

`MarkerKept`, `NobodyIsCutOff`, `ClaimsAreCurrent` and `OwnershipKept`. `LockInv` says which
places of a launcher and of the setup command hold which lock, hence that the parts between
inspection and claim, a repair, and the writes of setup exclude each other. `FilesInv` says that
from the decision on the manifest records what the launcher wanted when it decided, and that a
plist it has not written yet is the recorded one; what it writes may differ in the path of Codex
only. `StrayInv` follows up such a plist: it stays without an owner, since a launcher and setup
both go on only from plists that the manifest records, which is why no seat is taken any more.
`SetupInv` says that setup runs only on plists no repair has changed, and has written a new one of
the app-server only behind a marker; `ReloadInv`, what a launcher knows at each place of a repair:
before it unloads the app-server nobody is live and its user has agreed, or the job is not loaded;
after it the job is of the plist that is there, and before the claim no marker is left and a
bridge that is up is of a build no older than the launcher's, for which `JobInv` says that nobody
is of a later build than the package. `MarkerKept` is part of the induction: setup writes the
marker before the plist, so that a death in between errs on the safe side, and `Clear` is reached
only after the app-server was loaded from the plist that is there.

### Only model-checked

All liveness (`CommandsEnd`, `SessionIsBound`, `NobodyWaits`, `MailWakes`, `MailIsServed`,
`Recovers`): fairness and ENABLED are out of the prover's reach. Every safety property of a
passing run is proved.

## 5. What is assumed

* `flock`, `rename`, `link`, `O_EXCL` and `fsync` do what POSIX says; a folder shows
  after a power loss, for each name, any state since its last `fsync`. The kernel releases
  the locks of a process that dies.
* The folders of the mailboxes exist on the disk: `rt-say` makes them without flushing
  their parents, so a power loss just after the first message ever may take it.
* An id comes back only when no running command is about a message of that id, and two running
  senders never share one, so the exclusive creation in `tmp/` never has to decide between two of
  them. A pid comes back only when the heartbeat of its last owner is stale. Inodes do not come
  back in `Maildir` and `CodexBinding`.
* All processes of a project see the same start fingerprint of a pid: `ps -o lstart` runs with
  a fixed locale, but the code leaves the time zone to the environment (`bin/_rtruntime.py:456-463`).
* The harnesses are external: Claude's hooks, Codex' threads, turns and notifications
  are modelled from how the code uses them.
* launchd starts a loaded job and starts it again when it ends, from the plist that was
  there when it was loaded; nobody else loads or unloads the two jobs.
* One bridge runs (it holds a lock for its life), for one project; the ledger's contents are
  left out, only its lock and its order in the delivery are modelled.

## 6. Where the code differs from what the repository says

Three disagreements have a run that shows them (`PROJECT.json`, "findings").

* `bind_quarantine_kept`: a replaced request puts the project into the bridge's in-memory
  `bind_quarantined`. Only a consumed request or a restart takes it out, so a project bound
  again by `rt-codex-wake bind` is not served (`bin/rt-codex-wake:2139`, docstring at 391).
  `MailIsServed` therefore excuses a bridge that has quarantined the project.
* `wake_past_latch`: an entry in `new/` that `pending_generation` refuses makes the bridge
  record `IDENTITY_ERROR` over `NEEDS_HUMAN` (`bin/rt-codex-wake:1898`); when the entry is gone
  the thread is woken without a human having decided (`docs/rt-codex-phase3.md:98`).
* `setup_again`: an `apply` that dies after it wrote the reload marker and before it wrote the manifest
  is refused afterwards, until the user removes the files by hand
  (`roundtable_packaging/setup.py:1474`); `docs/install.md:181-182` calls it idempotent.

Others were met while modelling and have no run of their own:

* A wake turn whose reply to `turn/start` is lost (a time-out, a broken connection, a death of the
  bridge) is not put on record (`bin/rt-codex-wake:1788-1813`), so the breaker does not count it
  when it is interrupted, and more than three interrupted wakes in a row are possible for one
  generation and thread. `docs/rt-codex-phase3.md:54-57` says that three open the circuit.
  `BreakerHolds` bounds the wakes that were put on record.
* When Codex moves between the inspection under the locks and the write of a plist in a repair,
  `_write_plist` writes one that the manifest does not record (`bin/_rtcodex.py:1307`,
  `1320-1322`, `483`), against the comment at 1056-1059 ("must never create an ownership gap or
  make the setup manifest stale"). Every preflight fails closed afterwards, and `setup apply`
  refuses the plist as not its own. `RepairKeepsOwnership` says that this takes a moved Codex, and
  that no seat is taken afterwards.
* A new plist of the wake bridge alone (another `RT_PROJECTS_FILE`) gets no reload marker
  (`roundtable_packaging/setup.py:1512`, `1882-1893`), and the preflight compares the wake job by
  the build in its heartbeat only (`bin/_rtcodex.py:904-967`): seats are taken while the bridge
  goes on with the projects file of the plist it was loaded from. `ClaimOnCurrentService` says
  nothing of the plist of the wake job.
* `rt-inbox` completes an archive that was cut short after its link
  without flushing `cur/` (`bin/rt-inbox:239`), which `rt-ack` does. A power loss then takes
  a quiet acknowledgement, which `docs/architecture.md:109` lists as durable state. No
  ordinary message is concerned.
* A duplicate hook that was refused the slot by a watcher which then
  ends exits with a fence error, which wakes Claude (`bin/rt-wait-inbox:243`, comment at 201).
* After a kill between the acknowledgement and the archive (`bin/rt-ack:183-190`) `rt-inbox`
  hides the message while the watchers go on waking the agent for it.
* A hook that dies between the advance of the intent and the publication leaves an intent
  that names a thread nobody binds (`bin/rt-codex-session-start:274` calls the two one
  linearized action). `bind` has such faults, `QueueFollowsIntent` is checked without them.
* A `clear` of a Codex that the launcher did not start takes over the launch intent
  (`bin/_rtruntime.py:1050`).
* Mail that arrives after a hook has paused for the generation before finds no watcher until the next
  turn (`docs/compatibility.md:97` promises a fresh set of attempts). `MailWakes` excuses the
  time after a pause.
* A SessionStart hook after a compaction does not look at the attempts, so a generation that
  had its two wakes gets another one. `FewWakes` counts histories without a compaction.
* Between the judgement of a wake turn and the reload in `_clear_pending_human_requests` a
  rebind lets the back-off and the count of the old wake be saved on the new binding's state
  (`bin/rt-codex-wake:1983-2055`). An unbind in a pass leaves project state without a binding.
* A thread in `WAIT_BUSY` may be woken when it is idle without its matching
  `turn/completed`, if an older completion of it is still on record (`bin/rt-codex-wake:2084-2093`).
* A human request and the interruption of its turn that both arrive between the drain of the
  notifications and the refresh of the turn are not latched: the wake is taken off the record
  before the request is looked at. `RequestLatches` speaks of requests on record.
* What a user writes into a configuration between setup's reading of it and its replacement of
  it is lost (`docs/install.md:371`); `UserEntriesStay` excuses the files for which that
  race happened (`raced`).
* An `apply` that was killed between the configurations and the manifest, and is then repeated
  successfully, records the fragments it finds as the user's own, so that a removal leaves
  them there (`docs/release.md:122`). A removal that was killed in the middle is refused as drift.
* An `apply` of an upgrade that dies between marker and plist leaves a marker of a newer generation
  than the plist. The Codex services stay as they were, and the next `apply` is refused.
* When a rollback leaves something behind, or dies, the manifest may list entries that are not in
  the configuration. An entry of the same kind that the user then adds himself is taken for
  Roundtable's and goes with the next removal (`roundtable_packaging/setup.py:2043`;
  `setup.py:480` has collected the failed restore, which the command reports). `UserEntriesStay`
  is about the other cases.
* KeyboardInterrupt ends `apply` and `remove` without a rollback: the handler is
  `except Exception`.

## 7. Plan

Done: leases, mail, binding, wakes and tripwire; the harness setup transaction; the preflight of the Codex
services; proofs of safety for all seven; that the lease store implements `SeatRegister` and the mail
commands `Mailbox`.

Left, the most important first:

1. Compositions: the mail of `Mailbox` as the environment of `TripwireWatcher` and `WakeBridge`
   instead of their own `new`; `rt-stop-gate` with `TripwireWatcher`.
2. `HermesBridge`: the plugin's callbacks, its waiter process and the generation it has
   reported, on top of the slot of `TripwireWatcher`.

### Not modelled, and why

* Project registry: one read-modify-write of `projects.yaml` under one `flock`, with the write by an
  atomic replacement. Two registrations cannot overlap; the rest is parsing of entries.
* Hermes plugin: callbacks whose order and threads an external host decides. What is common with
  the other harnesses, the slot and its fences, is in `TripwireWatcher`.
* Stop gate: one read of `new/` and of the lease, and an answer. It keeps no state.
* Project creation: it checks, then writes files that nobody else uses yet.
* Package commands: a versioned prefix and links, under one lock. They touch no
  state of the running system; a new build appears to the models as `Upgrade`.
* Expert commands (`rt-codex-daemon`, `rt-codex-wake install`): they take no lock, and
  the installation guide keeps them for experts.
* Diagnostics, the selector, the keyboard route, release tools, templates: read-only, interactive or drivers
  of another program.

## 8. Running it

    tlc -config SeatLease.cfg MCSeatLease        # and so on: "runs" in PROJECT.json
    tlapm SeatLeaseProofs.tla                    # and MaildirProofs, MailboxProofs, CodexBindingProofs,
                                                 # WakeBridgeProofs, TripwireWatcherProofs,
                                                 # HarnessSetupProofs, CodexServicesProofs

`wake` and `services` take about two minutes each with two workers, `tripwire`, `bind_order` and
`setup` about one each, the others less.
