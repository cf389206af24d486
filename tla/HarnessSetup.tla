---------------------------- MODULE HarnessSetup ----------------------------
(***************************************************************************)
(* roundtable-setup (roundtable_packaging/setup.py): commands that add     *)
(* Roundtable's own entries to the configuration of the harnesses, and     *)
(* take them out again, as a transaction over several files with a         *)
(* manifest that is written last.  Commands take one lock; the user and    *)
(* the harnesses, who write the same files, do not.                        *)
(*                                                                         *)
(* A configuration file is what the properties can tell apart: the entries *)
(* of Roundtable that are in it, whether there is a container for them,    *)
(* whether the user has text of his own, and whether a choice of his       *)
(* forbids the integration.  Each entry carries its author, which the code *)
(* cannot see: it knows only whether the entry is there.                   *)
(***************************************************************************)
EXTENDS Naturals, Sequences, FiniteSets

CONSTANTS Setup,        \* processes that run roundtable-setup
          Harness,      \* the harnesses of this host
          MaxBuild,     \* generations of the plists the package builds
          MaxCommand,   \* apply and remove commands
          MaxEdit,      \* changes by the user
          MaxTrouble    \* those, operations that fail, and commands that die

ASSUME SetupAssumption ==
    /\ Harness \subseteq {"claude", "hermes", "codex"}
    /\ {MaxCommand, MaxEdit, MaxTrouble} \subseteq Nat
    /\ MaxBuild \in Nat \ {0}

VARIABLES file,     \* what is at each path
          loaded,   \* generation of each launchd job, 0 when not loaded
          build,    \* generation the installed package builds
          proc,     \* the commands
          raced,    \* history: paths the user has changed since the running command began
          killed,   \* history: where commands died, at work or in the rollback
          broken,   \* history: a rollback has left something
          spent     \* events counted so far

ghosts == <<raced, killed, broken>>
vars == <<file, loaded, build, proc, raced, killed, broken, spent>>

-----------------------------------------------------------------------------
(* Files *)

Author == {"no", "user", "setup"}
Item == {"start", "stop", "gate", "allow", "plugin", "hook"}
Label == {"app", "wake"}
LinkName == {"plugin", "skill"}

\* The entries setup adds to the configuration of h; "gate" is the stop hook of
\* earlier releases
Wanted(h) == CASE h = "claude" -> {"start", "stop", "allow"}
               [] h = "hermes" -> {"plugin"}
               [] h = "codex" -> {"hook"}

Links(h) == IF h = "hermes" THEN {"plugin", "skill"} ELSE {"skill"}

Manifest == <<"prefix", "manifest">>
Marker == <<"codex", "marker">>
Path == (Harness \X {"config", "skill"}) \cup {Manifest}
        \cup (IF "hermes" \in Harness THEN {<<"hermes", "plugin">>} ELSE {})
        \cup (IF "codex" \in Harness THEN {<<"codex", "app">>, <<"codex", "wake">>, Marker} ELSE {})

NoFile == [kind |-> "none"]
Config == [kind : {"config"}, setup : SUBSET Item, user : SUBSET Item, box : Author,
           text : BOOLEAN, veto : BOOLEAN]
LinkFile == [kind : {"link"}, to : {"roundtable", "elsewhere"}, by : {"user", "setup"}]
OwnLink == [kind |-> "link", to |-> "roundtable", by |-> "setup"]
Plist == [kind : {"plist"}, gen : 0..MaxBuild, by : {"user", "setup"}]
MarkerFile == [kind : {"marker"}, gen : 1..MaxBuild]
MarkerOf(g) == [kind |-> "marker", gen |-> g]

\* What the manifest says of one harness: entries it lists and the ones setup added,
\* whether it added the container and made the file, links and plists it added, and
\* the digests of the plists
NoRecord == [kind |-> "norecord"]
Record == [kind : {"record"}, has : SUBSET Item, own : SUBSET Item, box : BOOLEAN,
           made : BOOLEAN, links : SUBSET LinkName, plists : SUBSET Label, gen : 0..MaxBuild]
ManifestFile == [kind : {"manifest"}, of : [Harness -> Record \cup {NoRecord}]]

Empty == [kind |-> "config", setup |-> {}, user |-> {}, box |-> "no",
          text |-> FALSE, veto |-> FALSE]

At(h, leaf) == file[<<h, leaf>>]
View(c) == IF c = NoFile THEN Empty ELSE c
Present(c) == View(c).setup \cup View(c).user
RecordOf(h) == IF file[Manifest] = NoFile THEN NoRecord ELSE file[Manifest].of[h]
Has(rec) == IF rec = NoRecord THEN {} ELSE rec.has
Own(rec) == IF rec = NoRecord THEN {} ELSE rec.own
Owned == {h \in Harness : RecordOf(h) # NoRecord}
When(condition, ops) == IF condition THEN ops ELSE <<>>

-----------------------------------------------------------------------------
(* Checks before the first mutation *)

\* A record agrees with the files, all of it or only what setup has added
LinkStands(h, l) == At(h, l).kind = "link" /\ At(h, l).to = "roundtable"
EntriesStand(h, addedOnly) ==
    LET rec == RecordOf(h)
    IN  (IF addedOnly THEN rec.own ELSE rec.has) \subseteq Present(At(h, "config"))
HermesStands(h) == h = "hermes" => ~View(At(h, "config")).veto
CodexStands(h, addedOnly) ==
    LET rec == RecordOf(h) IN
    h = "codex" =>
        /\ \A l \in Label : (addedOnly => l \in rec.plists) =>
            At(h, l).kind = "plist" /\ At(h, l).gen = rec.gen
        /\ file[Marker] \in {NoFile, MarkerOf(rec.gen)}
ValidRecord(h, addedOnly) ==
    /\ EntriesStand(h, addedOnly) /\ HermesStands(h) /\ CodexStands(h, addedOnly)
    /\ \A l \in Links(h) : (addedOnly => l \in RecordOf(h).links) => LinkStands(h, l)

Fresh(h) == (Wanted(h) \ Has(RecordOf(h))) \ Present(At(h, "config"))
Gone(h) == Has(RecordOf(h)) \ Wanted(h)
ConfigAfter(h) ==
    [View(At(h, "config")) EXCEPT
        !.setup = (@ \ Gone(h)) \cup Fresh(h),
        !.user = @ \ Gone(h),
        !.box = IF @ = "no" /\ h # "hermes" THEN "setup" ELSE @]
ConfigChanges(h) == Fresh(h) \cup Gone(h) # {}
PlistChanges(l) == At("codex", l).kind = "plist" => At("codex", l).gen # build

\* _prepare_claude: hooks are not disabled, no rule overrides the permission, and the
\* stop hook of an earlier release can be replaced
ClaudeAccepts(h) ==
    h = "claude" =>
        /\ ~View(At(h, "config")).veto
        /\ Gone(h) \subseteq Own(RecordOf(h))
        /\ Gone(h) # {} => "stop" \notin Present(At(h, "config"))
HermesAccepts(h) == h = "hermes" => ~View(At(h, "config")).veto
CodexAccepts(h) ==
    h = "codex" /\ RecordOf(h) = NoRecord =>
        /\ file[Marker] = NoFile
        /\ \A l \in Label : At(h, l) # NoFile => ~PlistChanges(l)
LinkPlan(h, l) == At(h, l) # NoFile => LinkStands(h, l)
Prepares(h) ==
    /\ ClaudeAccepts(h) /\ HermesAccepts(h) /\ CodexAccepts(h)
    /\ RecordOf(h) = NoRecord => \A l \in Links(h) : LinkPlan(h, l)

\* The record a command writes for h
NewRecord(h) ==
    LET rec == RecordOf(h)
        new == rec = NoRecord
        known == Has(rec) # {}
    IN  [kind |-> "record",
         has |-> Wanted(h),
         own |-> (Own(rec) \cap Wanted(h)) \cup Fresh(h),
         box |-> IF known THEN rec.box ELSE h # "hermes" /\ View(At(h, "config")).box = "no",
         made |-> IF known THEN rec.made ELSE At(h, "config") = NoFile,
         links |-> IF new THEN {l \in Links(h) : At(h, l) = NoFile} ELSE rec.links,
         plists |-> IF h # "codex" THEN {}
                    ELSE IF new THEN {l \in Label : At(h, l) = NoFile} ELSE rec.plists,
         gen |-> IF h = "codex" THEN build ELSE 0]

ApplyChecks(set) == \A h \in set : (h \in Owned => ValidRecord(h, FALSE)) /\ Prepares(h)

\* The harnesses of the command for which there is something to do
NeedsWork(h) == \/ NewRecord(h) # RecordOf(h)
                \/ ConfigChanges(h)
                \/ h = "codex" /\ \E l \in Label : PlistChanges(l)
ToApply(set) == {h \in set : NeedsWork(h)}

ToRemove(set) == set \cap Owned
UnloadNeeded(set) == "codex" \in ToRemove(set) /\ RecordOf("codex").plists # {}
RemoveChecks(set, unload) ==
    /\ \A h \in ToRemove(set) : ValidRecord(h, TRUE)
    /\ UnloadNeeded(set) => unload

-----------------------------------------------------------------------------
(* The operations of a command, and the paths it takes a snapshot of *)

Put(path, value) == [op |-> "put", path |-> path, value |-> value]
Op(name, path) == [op |-> name, path |-> path, value |-> NoFile]

Each(set, F(_)) == LET For(h) == IF h \in set THEN F(h) ELSE <<>>
                   IN  For("claude") \o For("hermes") \o For("codex")

NewPlist(l) == [kind |-> "plist", gen |-> build,
                by |-> IF At("codex", l) = NoFile THEN "setup" ELSE At("codex", l).by]
WritePlist(l) == When(PlistChanges(l), <<Put(<<"codex", l>>, NewPlist(l))>>)
NewLink(h, l) == When(RecordOf(h) = NoRecord /\ At(h, l) = NoFile, <<Op("link", <<h, l>>)>>)

ApplyConfig(h) == When(ConfigChanges(h), <<Put(<<h, "config">>, ConfigAfter(h))>>)
ApplyCodex == When(PlistChanges("app"), <<Put(Marker, MarkerOf(build))>>)
              \o WritePlist("app") \o WritePlist("wake")
Apply(h) ==
    ApplyConfig(h)
    \o (CASE h = "hermes" -> NewLink(h, "plugin") [] h = "codex" -> ApplyCodex [] OTHER -> <<>>)
    \o NewLink(h, "skill")

\* _preflight_codex_runtime: the plists are built again before the first write
CheckRuntime(set) ==
    When("codex" \in set /\ \E l \in Label : PlistChanges(l),
         <<[op |-> "check", path |-> Marker, value |-> MarkerOf(build)]>>)

ManifestWith(new) == [kind |-> "manifest",
                      of |-> [h \in Harness |-> IF h \in DOMAIN new THEN new[h] ELSE RecordOf(h)]]

ApplyOps(set) ==
    LET work == ToApply(set) IN
    When(work # {}, CheckRuntime(work) \o Each(work, Apply)
                    \o <<Put(Manifest, ManifestWith([h \in work |-> NewRecord(h)]))>>)

\* The paths a command may change, as the list of snapshots is made
ApplyPathsOf(h) ==
    When(ConfigChanges(h), <<<<h, "config">>>>)
    \o (IF h = "hermes"
        THEN When("plugin" \in NewRecord(h).links /\ RecordOf(h) = NoRecord, <<<<h, "plugin">>>>)
        ELSE <<>>)
    \o (IF h = "codex"
        THEN When(PlistChanges("app"), <<Marker, <<h, "app">>>>)
             \o When(PlistChanges("wake"), <<<<h, "wake">>>>)
        ELSE <<>>)
    \o When("skill" \in NewRecord(h).links /\ RecordOf(h) = NoRecord, <<<<h, "skill">>>>)

\* mutant: the reload marker is not among the snapshots
ApplyPathsUnmarked(set) ==
    LET work == ToApply(set) IN
    When(work # {}, SelectSeq(Each(work, ApplyPathsOf), LAMBDA p : p # Marker) \o <<Manifest>>)

ApplyPaths(set) ==
    LET work == ToApply(set) IN When(work # {}, Each(work, ApplyPathsOf) \o <<Manifest>>)

Unlink(h, leaf, condition) == When(condition, <<Op("unlink", <<h, leaf>>)>>)

EditOut(h) == When(RecordOf(h).own # {}, <<Op("edit", <<h, "config">>)>>)
UnlinkSkill(h) == Unlink(h, "skill", "skill" \in RecordOf(h).links)
RemoveClaude == EditOut("claude") \o UnlinkSkill("claude")
RemoveHermes == EditOut("hermes") \o Unlink("hermes", "plugin", "plugin" \in RecordOf("hermes").links)
                \o UnlinkSkill("hermes")
RemoveCodex ==
    LET RemovePlist(l) == Unlink("codex", l, l \in RecordOf("codex").plists)
    IN  EditOut("codex") \o RemovePlist("app") \o RemovePlist("wake") \o UnlinkSkill("codex")
        \o <<Op("clear", Marker)>>
Remove(h) ==
    CASE h = "claude" -> RemoveClaude [] h = "hermes" -> RemoveHermes [] h = "codex" -> RemoveCodex

\* _unload_codex_jobs
Unload(set) ==
    IF ~UnloadNeeded(set) THEN <<>>
    ELSE LET Job(l) == When(l \in RecordOf("codex").plists, <<Op("bootout", <<"codex", l>>)>>)
         IN  Job("app") \o Job("wake")

RemoveOps(set) ==
    LET work == ToRemove(set) IN
    When(work # {}, Unload(set) \o Each(work, Remove)
                    \o (IF Owned = work THEN <<Op("unlink", Manifest)>>
                        ELSE <<Put(Manifest, ManifestWith([h \in work |-> NoRecord]))>>))

RemovePathsOf(h) ==
    LET rec == RecordOf(h) IN
    When(rec.own # {}, <<<<h, "config">>>>)
    \o When("plugin" \in rec.links, <<<<h, "plugin">>>>)
    \o When(h = "codex", <<Marker>>)
    \o When("app" \in rec.plists, <<<<h, "app">>>>) \o When("wake" \in rec.plists, <<<<h, "wake">>>>)
    \o When("skill" \in rec.links, <<<<h, "skill">>>>)

RemovePaths(set) ==
    LET work == ToRemove(set) IN When(work # {}, Each(work, RemovePathsOf) \o <<Manifest>>)

-----------------------------------------------------------------------------
(* Commands *)

\* at: idle, snap, work, undo; paths and saved: the snapshots; left: snapshots the
\* rollback has still to look at; external: it has asked launchd to unload a job; base:
\* history, the files and the loaded jobs when it took the lock
IdleProc == [at |-> "idle", todo |-> <<>>, paths |-> <<>>, saved |-> <<>>, left |-> 0,
             external |-> FALSE, base |-> <<>>]

Holds(s) == proc[s].at \in {"snap", "work", "undo"}
LockFree == \A s \in Setup : ~Holds(s)

Spend(what, limit) ==
    /\ spent[what] < limit
    /\ spent' = [spent EXCEPT ![what] = @ + 1]
Trouble(what) == /\ spent.edit + spent.other < MaxTrouble
                 /\ Spend(what, IF what = "edit" THEN MaxEdit ELSE MaxTrouble)

Ends(s) == proc' = [proc EXCEPT ![s] = IdleProc]

Chosen(cmd, set, unload) ==
    IF cmd = "apply" THEN ApplyChecks(set) /\ ~unload ELSE RemoveChecks(set, unload)
Begun(cmd, set) ==
    [IdleProc EXCEPT !.at = "snap", !.base = <<file, loaded>>,
                     !.todo = IF cmd = "apply" THEN ApplyOps(set) ELSE RemoveOps(set),
                     !.paths = IF cmd = "apply" THEN ApplyPaths(set) ELSE RemovePaths(set)]

\* mutant: the work is prepared before the lock is there
BeginUnlocked(s) ==
    /\ proc[s].at = "idle"
    /\ Spend("command", MaxCommand)
    /\ \E cmd \in {"apply", "remove"}, set \in SUBSET Harness \ {{}}, unload \in BOOLEAN :
        /\ Chosen(cmd, set, unload)
        /\ Begun(cmd, set).todo # <<>>
        /\ proc' = [proc EXCEPT ![s] = Begun(cmd, set)]
    /\ raced' = raced
    /\ UNCHANGED <<file, loaded, build, killed, broken>>

\* main, _apply and _remove up to the snapshots.  The checks are made once before the
\* lock and again under it; only the second ones count.  A command that they refuse, or
\* that has nothing to do, changes nothing
Begin(s) ==
    /\ LockFree
    /\ Spend("command", MaxCommand)
    /\ \E cmd \in {"apply", "remove"}, set \in SUBSET Harness \ {{}}, unload \in BOOLEAN :
        /\ Chosen(cmd, set, unload)
        /\ Begun(cmd, set).todo # <<>>
        /\ proc' = [proc EXCEPT ![s] = Begun(cmd, set)]
    /\ raced' = {}
    /\ UNCHANGED <<file, loaded, build, killed, broken>>

Snapshot(s) ==
    /\ proc[s].at = "snap"
    /\ proc' = [proc EXCEPT ![s].at = "work",
                            ![s].saved = [i \in DOMAIN proc[s].paths |-> file[proc[s].paths[i]]]]
    /\ UNCHANGED <<file, loaded, build, spent>> /\ UNCHANGED ghosts

\* mutant: an entry is taken out whoever has added it
WithoutAll(h, c) ==
    [c EXCEPT !.setup = {}, !.user = {}, !.box = IF RecordOf(h).box THEN "no" ELSE @]

\* A configuration without the entries setup has added, and without the container that
\* it has added when nothing is left in that; otherwise the container is the user's
Without(h, c) ==
    LET rec == RecordOf(h)
        rest == Present(c) \ rec.own
    IN  [c EXCEPT !.setup = @ \ rec.own, !.user = @ \ rec.own,
                  !.box = IF ~rec.box THEN @ ELSE IF rest = {} THEN "no" ELSE "user"]

\* The write that follows when a configuration was read again: the file goes when setup
\* has made it and nothing else is in it
EditOp(h) ==
    LET c == Without(h, At(h, "config")) IN
    IF RecordOf(h).made /\ c = Empty THEN Op("unlink", <<h, "config">>) ELSE Put(<<h, "config">>, c)

Can(op) == CASE op.op = "check" -> op.value.gen = build
             [] op.op = "link" -> file[op.path] = NoFile
             [] op.op = "unlink" -> file[op.path] # NoFile
             [] op.op = "edit" -> /\ file[op.path] # NoFile
                                  /\ op.path[1] # "hermes" =>
                                        RecordOf(op.path[1]).own \subseteq Present(file[op.path])
             [] OTHER -> TRUE

NewFile(op) == CASE op.op = "put" -> [file EXCEPT ![op.path] = op.value]
                 [] op.op = "link" -> [file EXCEPT ![op.path] = OwnLink]
                 [] op.op \in {"unlink", "clear"} -> [file EXCEPT ![op.path] = NoFile]
                 [] OTHER -> file

NewLoaded(op) == IF op.op = "bootout" THEN [loaded EXCEPT ![op.path[2]] = 0] ELSE loaded
IsLoaded(op) == op.op = "bootout" /\ loaded[op.path[2]] # 0

\* One operation of the command.  One that finds what it does not expect raises
Step(s) ==
    LET op == Head(proc[s].todo)
        rest == Tail(proc[s].todo)
    IN  /\ proc[s].at = "work"
        /\ \/ /\ Can(op)
              /\ file' = NewFile(op) /\ loaded' = NewLoaded(op)
              /\ IF op.op = "edit"
                 THEN proc' = [proc EXCEPT ![s].todo = <<EditOp(op.path[1])>> \o rest]
                 ELSE IF rest = <<>> THEN Ends(s)
                 ELSE proc' = [proc EXCEPT ![s].todo = rest, ![s].external = @ \/ IsLoaded(op)]
           \/ /\ ~Can(op)
              /\ proc' = [proc EXCEPT ![s].at = "undo", ![s].left = Len(proc[s].paths)]
              /\ UNCHANGED <<file, loaded>>
        /\ UNCHANGED <<build, spent>> /\ UNCHANGED ghosts

\* An operation fails, before or after it has had its effect.  A bootout that launchd
\* reports as failed counts as a change
Fault(s) ==
    LET op == Head(proc[s].todo) IN
    /\ proc[s].at = "work"
    /\ Trouble("other")
    /\ \E tried \in BOOLEAN :
        /\ \/ UNCHANGED <<file, loaded>>
           \/ tried /\ Can(op) /\ file' = NewFile(op) /\ loaded' = NewLoaded(op)
        /\ proc' = [proc EXCEPT ![s].at = "undo", ![s].left = Len(proc[s].paths),
                                ![s].external = @ \/ (tried /\ IsLoaded(op))]
    /\ UNCHANGED build /\ UNCHANGED ghosts

\* mutant: the snapshots are restored in the order they were taken in
UndoForward(s) ==
    LET n == Len(proc[s].paths) + 1 - proc[s].left
        path == proc[s].paths[n]
    IN  /\ proc[s].at = "undo" /\ proc[s].left > 0
        /\ proc' = [proc EXCEPT ![s].left = proc[s].left - 1]
        /\ file' = [file EXCEPT ![path] = proc[s].saved[n]]
        /\ UNCHANGED <<loaded, build, spent>> /\ UNCHANGED ghosts

\* _rollback_snapshots: the last snapshot first; one that fails does not stop it
Undo(s) ==
    LET n == proc[s].left
        path == proc[s].paths[n]
    IN  /\ proc[s].at = "undo" /\ n > 0
        /\ proc' = [proc EXCEPT ![s].left = n - 1]
        /\ \/ file' = [file EXCEPT ![path] = proc[s].saved[n]] /\ UNCHANGED <<spent, broken>>
           \/ /\ file[path] # proc[s].saved[n] /\ Trouble("other")
              /\ broken' = TRUE /\ UNCHANGED file
        /\ UNCHANGED <<loaded, build, raced, killed>>

\* The report: it says that everything was restored only when it is
Restored(s) == \A i \in DOMAIN proc[s].paths : file[proc[s].paths[i]] = proc[s].saved[i]
Report(s) ==
    /\ proc[s].at = "undo" /\ proc[s].left = 0
    /\ Ends(s)
    /\ broken' = (broken \/ ~Restored(s))
    /\ UNCHANGED <<file, loaded, build, raced, killed, spent>>

\* The process dies, or is interrupted: a KeyboardInterrupt is no Exception
Kill(s) ==
    /\ proc[s].at # "idle"
    /\ Trouble("other")
    /\ Ends(s)
    /\ killed' = killed \cup ({proc[s].at} \ {"snap"})
    /\ UNCHANGED <<file, loaded, build, raced, broken>>

-----------------------------------------------------------------------------
(* The user, the package and the launcher *)

\* The user, or a harness, changes a configuration.  An entry of setup that was taken
\* out and is put back counts as setup's
Edited(h, c) ==
    {[c EXCEPT !.text = ~@], [c EXCEPT !.veto = ~@ /\ h # "codex"]}
    \cup {[c EXCEPT !.setup = @ \ {i}, !.user = @ \ {i}] : i \in Present(c)}
    \cup {[c EXCEPT !.user = @ \cup {i}, !.box = IF @ = "no" /\ h # "hermes" THEN "user" ELSE @]
          : i \in IF LockFree \/ <<h, "config">> \notin raced
                  THEN Wanted(h) \ (Present(c) \cup Own(RecordOf(h)))
                  ELSE {}}
    \cup (IF LockFree /\ h \in Owned
          THEN {[c EXCEPT !.setup = @ \cup {i},
                          !.box = IF @ # "no" \/ h = "hermes" THEN @
                                  ELSE IF RecordOf(h).box THEN "setup" ELSE "user"]
                : i \in RecordOf(h).own \ Present(c)}
          ELSE {})

EditConfig(h) ==
    /\ Trouble("edit")
    /\ \E c \in Edited(h, View(At(h, "config"))) : file' = [file EXCEPT ![<<h, "config">>] = c]
    /\ raced' = IF LockFree THEN {} ELSE raced \cup {<<h, "config">>}
    /\ UNCHANGED <<loaded, build, proc, killed, broken>>

EditLink(h) ==
    /\ Trouble("edit")
    /\ \E v \in {NoFile} \cup [kind : {"link"}, to : {"roundtable", "elsewhere"}, by : {"user"}] :
        /\ v # NoFile => /\ At(h, "skill") = NoFile /\ h \notin Owned
                         /\ LockFree \/ <<h, "skill">> \notin raced
        /\ file' = [file EXCEPT ![<<h, "skill">>] = v]
    /\ raced' = IF LockFree THEN {} ELSE raced \cup {<<h, "skill">>}
    /\ UNCHANGED <<loaded, build, proc, killed, broken>>

\* A new package, or a Codex at another path, builds other plists
Upgrade ==
    /\ build < MaxBuild
    /\ build' = build + 1
    /\ UNCHANGED <<file, loaded, proc, spent>> /\ UNCHANGED ghosts

\* A launcher, under the same lock, loads the jobs from plists that setup has recorded
\* and that are the present ones, and clears the marker (module CodexServices)
Reload ==
    /\ LockFree /\ "codex" \in Owned
    /\ LET rec == RecordOf("codex") IN
        /\ rec.has # {} /\ rec.gen = build
        /\ \A l \in Label : At("codex", l).kind = "plist" /\ At("codex", l).gen = build
        /\ file[Marker] \in {NoFile, MarkerOf(build)}
    /\ loaded' = [l \in Label |-> build]
    /\ file' = [file EXCEPT ![Marker] = NoFile]
    /\ UNCHANGED <<build, proc, spent>> /\ UNCHANGED ghosts

-----------------------------------------------------------------------------
\* A new host, one on which the user has files of his own where setup would write, one
\* that was set up by an earlier release, and one that runs the present one
OldRecord == [kind |-> "record", has |-> {"start", "gate"}, own |-> {"start", "gate"},
              box |-> TRUE, made |-> TRUE, links |-> {"skill"}, plists |-> {}, gen |-> 0]
NewHost == [p \in Path |-> NoFile]
UserHost == [p \in Path |->
    CASE p[2] = "config" -> [Empty EXCEPT !.text = TRUE]
      [] p = <<"codex", "app">> -> [kind |-> "plist", gen |-> 1, by |-> "user"]
      [] OTHER -> NoFile]
OldHost == [p \in Path |->
    CASE p = Manifest -> [kind |-> "manifest",
                          of |-> [h \in Harness |-> IF h = "claude" THEN OldRecord ELSE NoRecord]]
      [] p = <<"claude", "config">> -> [Empty EXCEPT !.setup = {"start", "gate"}, !.box = "setup"]
      [] p = <<"claude", "skill">> -> OwnLink
      [] OTHER -> NoFile]
FullRecord(h) == [kind |-> "record", has |-> Wanted(h), own |-> Wanted(h), box |-> h # "hermes",
                  made |-> TRUE, links |-> Links(h),
                  plists |-> IF h = "codex" THEN Label ELSE {}, gen |-> IF h = "codex" THEN 1 ELSE 0]
FullHost == [p \in Path |->
    CASE p = Manifest -> [kind |-> "manifest", of |-> [h \in Harness |-> FullRecord(h)]]
      [] p = Marker -> NoFile
      [] p[2] = "config" -> [Empty EXCEPT !.setup = Wanted(p[1]),
                                          !.box = IF p[1] = "hermes" THEN "no" ELSE "setup"]
      [] p[2] \in Label -> [kind |-> "plist", gen |-> 1, by |-> "setup"]
      [] OTHER -> OwnLink]

Init ==
    /\ \/ file \in {NewHost, UserHost} /\ loaded = [l \in Label |-> 0]
       \/ "claude" \in Harness /\ file = OldHost /\ loaded = [l \in Label |-> 0]
       \/ file = FullHost /\ loaded = [l \in Label |-> 1]
    /\ build = 1
    /\ proc = [s \in Setup |-> IdleProc]
    /\ spent = [k \in {"command", "edit", "other"} |-> 0]
    /\ raced = {} /\ killed = {} /\ broken = FALSE

Next == \/ \E s \in Setup : \/ Begin(s) \/ Snapshot(s) \/ Step(s)
                            \/ Fault(s) \/ Undo(s) \/ Report(s) \/ Kill(s)
        \/ \E h \in Harness : EditConfig(h) \/ EditLink(h)
        \/ Upgrade \/ Reload

Spec == Init /\ [][Next]_vars

-----------------------------------------------------------------------------
(* Properties *)

TypeOK ==
    /\ \A h \in Harness :
        /\ At(h, "config") \in {NoFile} \cup Config
        /\ \A l \in Links(h) : At(h, l) \in {NoFile} \cup LinkFile
    /\ "codex" \in Harness => /\ \A l \in Label : At("codex", l) \in {NoFile} \cup Plist
                             /\ file[Marker] \in {NoFile} \cup MarkerFile
    /\ file[Manifest] \in {NoFile} \cup ManifestFile
    /\ loaded \in [Label -> 0..MaxBuild] /\ build \in 1..MaxBuild
    /\ \A s \in Setup :
        /\ proc[s].at \in {"idle", "snap", "work", "undo"}
        /\ \A i \in DOMAIN proc[s].todo : proc[s].todo[i].path \in Path
    /\ \A s, t \in Setup : Holds(s) /\ Holds(t) => s = t

\* A command that fails and says that its files were restored has left no trace: every
\* path the user has not changed meanwhile, the manifest and the reload marker included,
\* is as it was before the first mutation (_rollback_snapshots), and so are the launchd
\* jobs unless it says that they may have changed
FailureLeavesNoTrace ==
    \A s \in Setup : proc[s].at = "undo" /\ proc[s].left = 0 /\ Restored(s) =>
        /\ \A p \in Path \ raced : file[p] = proc[s].base[1][p]
        /\ ~proc[s].external => loaded = proc[s].base[2]

\* No command takes away what the user has: his entries, his containers, the rest of his
\* file, his choices, his links and his plists; for the files he has not changed while the
\* command runs, and unless a rollback has left something or died.  Then the manifest may
\* claim entries that are not there, and the next removal takes the ones he adds.  A
\* container that is left of a command that died at work may be claimed in the same way
UserEntriesStay ==
    [][spent'.edit = spent.edit /\ ~broken /\ "undo" \notin killed =>
        \A p \in Path \ raced :
            /\ p[2] = "config" =>
                LET c == View(file[p])
                    d == View(file'[p])
                IN  c.user \subseteq d.user /\ c.text = d.text /\ c.veto = d.veto
                    /\ (c.box = "user" /\ killed = {} => d.box # "no")
            /\ file[p].kind \in {"link", "plist"} /\ file[p].by = "user" =>
                file'[p].kind = file[p].kind /\ file'[p].by = "user"]_vars

\* Whatever setup has added is in the manifest, so that remove can take it out again, as
\* long as no command died at work or in its rollback, and no rollback was incomplete
NoOrphans ==
    LockFree /\ killed = {} /\ ~broken =>
        \A h \in Harness :
            LET rec == RecordOf(h)
                c == View(At(h, "config"))
            IN  /\ c.setup # {} => rec # NoRecord /\ c.setup \subseteq rec.own
                /\ c.box = "setup" => rec # NoRecord /\ rec.box
                /\ \A l \in Links(h) : At(h, l).kind = "link" /\ At(h, l).by = "setup" =>
                    rec # NoRecord /\ l \in rec.links
                /\ h = "codex" =>
                    /\ \A l \in Label : At(h, l).kind = "plist" /\ At(h, l).by = "setup" =>
                        rec # NoRecord /\ l \in rec.plists
                    /\ file[Marker] # NoFile => rec # NoRecord

\* A loaded job always has its plist, and an app-server that runs on another generation
\* than its plist has a reload marker, whenever a command dies; between two commands the
\* marker is that of the plist, unless one was killed after the marker and before the plist
JobsMatchPlists ==
    "codex" \in Owned /\ ~broken /\ loaded["app"] # 0 =>
        LET plist == At("codex", "app") IN
        /\ plist # NoFile
        /\ "app" \in RecordOf("codex").plists /\ plist.gen # loaded["app"] =>
            file[Marker] # NoFile /\ (LockFree /\ killed = {} => file[Marker] = MarkerOf(plist.gen))

\* "`apply` ... is idempotent" (docs/install.md:181-182): on a host where nothing is
\* recorded yet and the user has changed nothing, apply may be run again after it died.
\* It may not: the marker of the first run is refused as one that nobody owns
ApplyIsRepeatable ==
    LockFree /\ Owned = {} /\ spent.edit = 0 /\ build = 1 /\ ~broken =>
        \A h \in Harness : Prepares(h)

=============================================================================
