-------------------------- MODULE HarnessSetupProofs --------------------------
(***************************************************************************)
(* Proofs about HarnessSetup for any number of commands, edits, failures   *)
(* and builds: types, the one lock, that a rollback which says so has put  *)
(* everything back, that a loaded job of the app-server keeps its plist    *)
(* and marker wherever a command dies, that the manifest knows all that    *)
(* setup has put anywhere, and that the user keeps what is his.            *)
(***************************************************************************)
EXTENDS HarnessSetup, SequenceTheorems, TLAPS

Elems(q) == {q[i] : i \in DOMAIN q}

\* A manifest with the links and plists there are for each harness.
GoodManifest ==
    {m \in ManifestFile : \A h \in Harness : m.of[h] # NoRecord =>
        m.of[h].links \subseteq Links(h) /\ (h # "codex" => m.of[h].plists = {})}

\* What may be at a path.
Fits(p, v) ==
    /\ p = Manifest => v \in {NoFile} \cup GoodManifest
    /\ p = Marker => v \in {NoFile} \cup MarkerFile
    /\ p[2] = "config" => v \in {NoFile} \cup Config
    /\ p[2] \in LinkName => v \in {NoFile} \cup LinkFile
    /\ p[2] \in Label => v \in {NoFile} \cup Plist

Value == {NoFile} \cup ManifestFile \cup MarkerFile \cup Config \cup LinkFile \cup Plist
Jobs == [Label -> 0..MaxBuild]
Base == [Path -> Value] \X Jobs

Writes == {"put", "link", "unlink", "clear", "edit"}
OpRecord == [op : Writes \cup {"check", "bootout"}, path : Path, value : Value]

\* The operations of a command that has taken snapshots of the paths Q.
OpsOn(Q) ==
    {o \in OpRecord : /\ o.op \in Writes => o.path \in Q
                      /\ o.op = "put" => Fits(o.path, o.value)
                      /\ o.op = "link" => o.path[2] \in LinkName
                      /\ o.op = "edit" => o.path[2] = "config"
                      /\ o.op = "bootout" => o.path[2] \in Label}

Proc == [at : {"idle", "snap", "work", "undo"}, todo : Seq(OpRecord), paths : Seq(Path),
         saved : Seq(Value), left : Nat, external : BOOLEAN, base : {<<>>} \cup Base]

StateInv ==
    /\ file \in [Path -> Value] /\ \A p \in Path : Fits(p, file[p])
    /\ loaded \in Jobs /\ build \in 1..MaxBuild
    /\ raced \subseteq Path

LockInv ==
    /\ proc \in [Setup -> Proc]
    /\ \A s \in Setup : ~Holds(s) => proc[s] = IdleProc
    /\ \A s, t \in Setup : Holds(s) /\ Holds(t) => s = t

\* A command works on the paths of its snapshots.  The files the user leaves alone are
\* those of its beginning, until it changes them: then the snapshot is.
Keeps(c, files, jobs, changed) ==
    LET touched == Elems(c.paths)
    IN  /\ c.base \in Base
        /\ c.at \in {"snap", "work"} => c.todo # <<>>
        /\ c.todo \in Seq(OpsOn(touched))
        /\ c.left \in 0..Len(c.paths)
        /\ c.at # "snap" =>
             /\ Len(c.saved) = Len(c.paths)
             /\ \A i \in DOMAIN c.paths :
                  /\ Fits(c.paths[i], c.saved[i])
                  /\ c.paths[i] \notin changed => c.saved[i] = c.base[1][c.paths[i]]
        /\ \A p \in Path \ changed :
             c.at = "snap" \/ p \notin touched => files[p] = c.base[1][p]
        /\ ~c.external => jobs = c.base[2]

CommandInv == \A s \in Setup : Holds(s) => Keeps(proc[s], file, loaded, raced)

IInv == StateInv /\ LockInv /\ CommandInv

-----------------------------------------------------------------------------
(* Paths, values and sequences *)

LEMMA PathIs ==
    ASSUME NEW p \in Path
    PROVE  /\ p[2] \in {"config", "skill", "plugin", "manifest", "marker"} \cup Label
           /\ p[2] = "config" => p[1] \in Harness /\ p = <<p[1], "config">>
           /\ p[2] = "manifest" => p = Manifest
           /\ p[2] = "marker" => p = Marker
           /\ p[2] \in Label => "codex" \in Harness /\ p = <<"codex", p[2]>>
           /\ p[2] = "plugin" => "hermes" \in Harness /\ p = <<"hermes", "plugin">>
           /\ p[2] = "skill" => p[1] \in Harness /\ p = <<p[1], "skill">>
BY DEF Path, Manifest, Marker, Label

LEMMA PathsAre ==
    /\ Manifest \in Path
    /\ \A h \in Harness : <<h, "config">> \in Path /\ <<h, "skill">> \in Path
    /\ \A h \in Harness : \A l \in Links(h) : <<h, l>> \in Path /\ l \in LinkName
    /\ "hermes" \in Harness => <<"hermes", "plugin">> \in Path
    /\ "codex" \in Harness => /\ Marker \in Path /\ <<"codex", "app">> \in Path
                             /\ <<"codex", "wake">> \in Path
                             /\ \A l \in Label : <<"codex", l>> \in Path
BY DEF Path, Links, LinkName, Label

LEMMA FitsIs ==
    ASSUME NEW p \in Path, NEW v, Fits(p, v)
    PROVE  v \in Value
BY PathIs DEF Fits, Value, GoodManifest, LinkName

LEMMA NothingFits == \A p : Fits(p, NoFile)
BY DEF Fits

LEMMA ConcatIs ==
    ASSUME NEW S, NEW a \in Seq(S), NEW b \in Seq(S)
    PROVE  a \o b \in Seq(S) /\ Elems(a \o b) = Elems(a) \cup Elems(b)
<1>1. /\ a \o b \in Seq(S) /\ Len(a \o b) = Len(a) + Len(b)
      /\ \A i \in 1..(Len(a) + Len(b)) : (a \o b)[i] = IF i <= Len(a) THEN a[i] ELSE b[i - Len(a)]
  BY ConcatProperties
<1>2. /\ Len(a) \in Nat /\ Len(b) \in Nat /\ DOMAIN a = 1..Len(a) /\ DOMAIN b = 1..Len(b)
      /\ DOMAIN (a \o b) = 1..(Len(a) + Len(b))
  BY <1>1
<1> DEFINE c == a \o b
<1>3. \A i \in DOMAIN a : i \in DOMAIN c /\ c[i] = a[i]
  BY <1>1, <1>2
<1>4. \A i \in DOMAIN b : i + Len(a) \in DOMAIN c /\ c[i + Len(a)] = b[i]
  BY <1>1, <1>2
<1>5. \A i \in DOMAIN c : i \in DOMAIN a \/ (i - Len(a) \in DOMAIN b /\ c[i] = b[i - Len(a)])
  BY <1>1, <1>2
<1> HIDE DEF c
<1>6. Elems(c) = Elems(a) \cup Elems(b)
  BY <1>3, <1>4, <1>5 DEF Elems
<1> QED
  BY <1>1, <1>6 DEF c

LEMMA ConcatThree ==
    ASSUME NEW S, NEW a \in Seq(S), NEW b \in Seq(S), NEW c \in Seq(S)
    PROVE  (a \o b) \o c \in Seq(S) /\ Elems((a \o b) \o c) = Elems(a) \cup Elems(b) \cup Elems(c)
<1>1. PICK x : x = a \o b
  OBVIOUS
<1>2. x \in Seq(S) /\ Elems(x) = Elems(a) \cup Elems(b)
  BY <1>1, ConcatIs
<1>3. x \o c \in Seq(S) /\ Elems(x \o c) = Elems(x) \cup Elems(c)
  BY <1>2, ConcatIs
<1> QED
  BY <1>1, <1>2, <1>3

LEMMA ConcatFour ==
    ASSUME NEW S, NEW a \in Seq(S), NEW b \in Seq(S), NEW c \in Seq(S), NEW d \in Seq(S)
    PROVE  /\ ((a \o b) \o c) \o d \in Seq(S)
           /\ Elems(((a \o b) \o c) \o d) = Elems(a) \cup Elems(b) \cup Elems(c) \cup Elems(d)
<1>1. PICK x : x = (a \o b) \o c
  OBVIOUS
<1>2. x \in Seq(S) /\ Elems(x) = Elems(a) \cup Elems(b) \cup Elems(c)
  BY <1>1, ConcatThree
<1>3. x \o d \in Seq(S) /\ Elems(x \o d) = Elems(x) \cup Elems(d)
  BY <1>2, ConcatIs
<1> QED
  BY <1>1, <1>2, <1>3

LEMMA OneIs ==
    ASSUME NEW S, NEW x \in S
    PROVE  <<x>> \in Seq(S) /\ Elems(<<x>>) = {x}
BY DEF Elems

LEMMA NoneIs ==
    ASSUME NEW S
    PROVE  << >> \in Seq(S) /\ Elems(<< >>) = {}
BY DEF Elems

LEMMA PushIs ==
    ASSUME NEW S, NEW x \in S, NEW q \in Seq(S)
    PROVE  <<x>> \o q \in Seq(S) /\ <<x>> \o q # << >>
<1>1. PICK a : a = <<x>>
  OBVIOUS
<1>2. a \in Seq(S) /\ Len(a) = 1
  BY <1>1
<1>3. a \o q \in Seq(S) /\ Len(a \o q) = 1 + Len(q) /\ Len(q) \in Nat
  BY <1>2, ConcatProperties
<1>4. a \o q # << >>
  BY <1>3
<1> QED
  BY <1>1, <1>3, <1>4

LEMMA WhenIs ==
    ASSUME NEW S, NEW c \in BOOLEAN, NEW q, c => q \in Seq(S)
    PROVE  When(c, q) \in Seq(S) /\ Elems(When(c, q)) = IF c THEN Elems(q) ELSE {}
BY NoneIs DEF When

LEMMA WhenMember ==
    ASSUME NEW S, NEW x, NEW set, NEW q, x \in set => q \in Seq(S)
    PROVE  /\ When(x \in set, q) \in Seq(S)
           /\ Elems(When(x \in set, q)) = IF x \in set THEN Elems(q) ELSE {}
BY NoneIs DEF When

LEMMA ElemsAre ==
    ASSUME NEW S, NEW q \in Seq(S)
    PROVE  Elems(q) \subseteq S
BY DEF Elems

LEMMA FirstIs ==
    ASSUME NEW S, NEW q \in Seq(S), q # << >>
    PROVE  Head(q) \in S /\ Tail(q) \in Seq(S)
BY HeadTailProperties

\* More snapshots let more operations through.
LEMMA MoreOps ==
    ASSUME NEW Q, NEW R, Q \subseteq R
    PROVE  Seq(OpsOn(Q)) \subseteq Seq(OpsOn(R))
<1>1. OpsOn(Q) \subseteq OpsOn(R)
  BY DEF OpsOn
<1> QED
  BY <1>1

-----------------------------------------------------------------------------
(* What is in the files *)

LEMMA BoundsAre == MaxBuild \in Nat /\ MaxBuild # 0
BY SetupAssumption

LEMMA ConfigIs ==
    ASSUME StateInv, NEW h \in Harness
    PROVE  /\ At(h, "config") \in {NoFile} \cup Config
           /\ View(At(h, "config")) \in Config
           /\ Present(At(h, "config")) \subseteq Item
           /\ At(h, "config") # NoFile => View(At(h, "config")) = At(h, "config")
<1>1. At(h, "config") \in {NoFile} \cup Config
  BY PathsAre DEF StateInv, Fits, At
<1>2. Empty \in Config
  BY DEF Empty, Config, Author
<1>3. View(At(h, "config")) \in Config
  BY <1>1, <1>2 DEF View
<1>4. \A c \in Config : c.setup \cup c.user \subseteq Item
  BY DEF Config
<1> QED
  BY <1>1, <1>3, <1>4 DEF View, Present

LEMMA RecordIs ==
    ASSUME StateInv, NEW h \in Harness
    PROVE  LET rec == RecordOf(h)
           IN  /\ rec \in Record \cup {NoRecord}
               /\ rec # NoRecord => /\ rec \in Record /\ rec.links \subseteq Links(h)
                                    /\ h # "codex" => rec.plists = {}
               /\ Has(rec) \subseteq Item /\ Own(rec) \subseteq Item
<1> DEFINE m == file[Manifest]
<1>1. m \in {NoFile} \cup GoodManifest
  BY PathsAre DEF StateInv, Fits
<1>2. CASE m = NoFile
  BY <1>2 DEF RecordOf, Has, Own
<1>3. CASE m # NoFile
  <2>1. /\ m \in ManifestFile /\ RecordOf(h) = m.of[h]
        /\ m.of[h] # NoRecord => m.of[h].links \subseteq Links(h) /\ (h # "codex" => m.of[h].plists = {})
    BY <1>1, <1>3 DEF RecordOf, GoodManifest
  <2>2. RecordOf(h) \in Record \cup {NoRecord}
    BY <2>1 DEF ManifestFile
  <2>3. RecordOf(h) # NoRecord => RecordOf(h) \in Record
    BY <2>2
  <2>4. \A r \in Record : r.has \subseteq Item /\ r.own \subseteq Item
    BY DEF Record
  <2> QED
    BY <2>1, <2>3, <2>4 DEF Has, Own
<1> QED
  BY <1>2, <1>3

LEMMA WantedIs ==
    ASSUME NEW h \in Harness
    PROVE  Wanted(h) \subseteq Item
BY SetupAssumption DEF Wanted, Item

LEMMA PlistIs ==
    ASSUME StateInv, NEW l \in Label, "codex" \in Harness
    PROVE  At("codex", l) \in {NoFile} \cup Plist
BY PathsAre DEF StateInv, Fits, At, Label

\* Applying to h gives a configuration, a record and plists of their types.
LEMMA ConfigAfterIs ==
    ASSUME StateInv, NEW h \in Harness
    PROVE  ConfigAfter(h) \in Config
<1> DEFINE c == View(At(h, "config"))
           box == IF c.box = "no" /\ h # "hermes" THEN "setup" ELSE c.box
           a == (c.setup \ Gone(h)) \cup Fresh(h)
           b == c.user \ Gone(h)
<1>1. c \in Config /\ Fresh(h) \subseteq Item
  BY ConfigIs, WantedIs DEF Fresh
<1>2. ConfigAfter(h) = [c EXCEPT !.setup = a, !.user = b, !.box = box]
  BY DEF ConfigAfter
<1>3. a \subseteq Item /\ b \subseteq Item /\ box \in Author
  BY <1>1 DEF Config, Author
<1> HIDE DEF c, a, b, box
<1> QED
  BY <1>1, <1>2, <1>3 DEF Config

LEMMA NewRecordIs ==
    ASSUME StateInv, NEW h \in Harness
    PROVE  /\ NewRecord(h) \in Record /\ NewRecord(h) # NoRecord
           /\ NewRecord(h).links \subseteq Links(h) /\ (h # "codex" => NewRecord(h).plists = {})
           /\ RecordOf(h) = NoRecord => NewRecord(h).links = {l \in Links(h) : At(h, l) = NoFile}
<1> DEFINE rec == RecordOf(h)
           new == rec = NoRecord
           known == Has(rec) # {}
           own == (Own(rec) \cap Wanted(h)) \cup Fresh(h)
           box == IF known THEN rec.box ELSE h # "hermes" /\ View(At(h, "config")).box = "no"
           made == IF known THEN rec.made ELSE At(h, "config") = NoFile
           links == IF new THEN {l \in Links(h) : At(h, l) = NoFile} ELSE rec.links
           plists == IF h # "codex" THEN {}
                     ELSE IF new THEN {l \in Label : At(h, l) = NoFile} ELSE rec.plists
           gen == IF h = "codex" THEN build ELSE 0
<1>1. rec = NoRecord \/ (rec \in Record /\ rec.links \subseteq Links(h) /\ (h # "codex" => rec.plists = {}))
  BY RecordIs
<1>2. known => rec # NoRecord
  BY DEF Has
<1>3. own \subseteq Item /\ Wanted(h) \subseteq Item
  BY WantedIs DEF Fresh
<1>4. box \in BOOLEAN /\ made \in BOOLEAN
  BY <1>1, <1>2 DEF Record
<1>5. links \subseteq Links(h) /\ Links(h) \subseteq LinkName
  BY <1>1, PathsAre
<1>6. plists \subseteq Label /\ (h # "codex" => plists = {})
  BY <1>1 DEF Record
<1>7. gen \in 0..MaxBuild
  BY BoundsAre DEF StateInv
<1>8. NewRecord(h) = [kind |-> "record", has |-> Wanted(h), own |-> own, box |-> box, made |-> made,
                      links |-> links, plists |-> plists, gen |-> gen]
  BY DEF NewRecord
<1>9. new => links = {l \in Links(h) : At(h, l) = NoFile}
  OBVIOUS
<1> HIDE DEF rec, known, own, box, made, links, plists, gen
<1>10. NewRecord(h) \in Record /\ NewRecord(h).links = links /\ NewRecord(h).plists = plists
       /\ NewRecord(h).kind = "record"
  BY <1>3, <1>4, <1>5, <1>6, <1>7, <1>8 DEF Record
<1>11. NewRecord(h) # NoRecord
  BY <1>10 DEF NoRecord
<1> QED
  BY <1>5, <1>6, <1>9, <1>10, <1>11 DEF rec

LEMMA NewPlistIs ==
    ASSUME StateInv, NEW l \in Label, "codex" \in Harness
    PROVE  NewPlist(l) \in Plist
<1>1. build \in 0..MaxBuild
  BY BoundsAre DEF StateInv
<1> QED
  BY <1>1, PlistIs DEF NewPlist, Plist

LEMMA MarkerIs ==
    ASSUME StateInv
    PROVE  MarkerOf(build) \in MarkerFile
BY DEF StateInv, MarkerOf, MarkerFile

LEMMA ManifestIs ==
    ASSUME StateInv, NEW work \in SUBSET Harness, NEW new, DOMAIN new = work,
           \A h \in work : \/ new[h] = NoRecord
                           \/ /\ new[h] \in Record /\ new[h].links \subseteq Links(h)
                              /\ h # "codex" => new[h].plists = {}
    PROVE  ManifestWith(new) \in GoodManifest
<1> DEFINE of == [h \in Harness |-> IF h \in DOMAIN new THEN new[h] ELSE RecordOf(h)]
<1>1. \A h \in Harness : \/ of[h] = NoRecord
                         \/ /\ of[h] \in Record /\ of[h].links \subseteq Links(h)
                            /\ h # "codex" => of[h].plists = {}
  BY RecordIs
<1>2. of \in [Harness -> Record \cup {NoRecord}]
  BY <1>1
<1>3. ManifestWith(new) = [kind |-> "manifest", of |-> of]
  BY DEF ManifestWith
<1> HIDE DEF of
<1> QED
  BY <1>1, <1>2, <1>3 DEF GoodManifest, ManifestFile

-----------------------------------------------------------------------------
(* The operations of a command are on the paths of its snapshots *)

LEMMA EachIs ==
    ASSUME NEW S, NEW set, NEW a, NEW b, NEW c,
           "claude" \in set => a \in Seq(S), "hermes" \in set => b \in Seq(S),
           "codex" \in set => c \in Seq(S)
    PROVE  LET q == (IF "claude" \in set THEN a ELSE << >>)
                    \o (IF "hermes" \in set THEN b ELSE << >>)
                    \o (IF "codex" \in set THEN c ELSE << >>)
           IN  /\ q \in Seq(S)
               /\ "claude" \in set => Elems(a) \subseteq Elems(q)
               /\ "hermes" \in set => Elems(b) \subseteq Elems(q)
               /\ "codex" \in set => Elems(c) \subseteq Elems(q)
<1> DEFINE x == IF "claude" \in set THEN a ELSE << >>
           y == IF "hermes" \in set THEN b ELSE << >>
           z == IF "codex" \in set THEN c ELSE << >>
<1>1. x \in Seq(S) /\ ("claude" \in set => x = a)
  BY NoneIs
<1>2. y \in Seq(S) /\ ("hermes" \in set => y = b)
  BY NoneIs
<1>3. z \in Seq(S) /\ ("codex" \in set => z = c)
  BY NoneIs
<1> HIDE DEF x, y, z
<1>5. (x \o y) \o z \in Seq(S) /\ Elems((x \o y) \o z) = Elems(x) \cup Elems(y) \cup Elems(z)
  BY <1>1, <1>2, <1>3, ConcatThree
<1>6. /\ (x \o y) \o z \in Seq(S)
      /\ "claude" \in set => Elems(a) \subseteq Elems((x \o y) \o z)
      /\ "hermes" \in set => Elems(b) \subseteq Elems((x \o y) \o z)
      /\ "codex" \in set => Elems(c) \subseteq Elems((x \o y) \o z)
  BY <1>1, <1>2, <1>3, <1>5
<1> QED
  BY <1>6 DEF x, y, z

LEMMA PutIs ==
    ASSUME NEW Q, NEW p \in Path, p \in Q, NEW v, Fits(p, v)
    PROVE  Put(p, v) \in OpsOn(Q) /\ <<Put(p, v)>> \in Seq(OpsOn(Q))
<1>1. Put(p, v) \in OpRecord
  BY FitsIs DEF Put, OpRecord, Writes
<1>2. Put(p, v) \in OpsOn(Q)
  BY <1>1 DEF Put, OpsOn
<1> QED
  BY <1>2

LEMMA OpIs ==
    ASSUME NEW Q, NEW p \in Path, NEW name \in {"link", "unlink", "clear", "edit", "bootout"},
           name # "bootout" => p \in Q,
           name = "link" => p[2] \in LinkName, name = "edit" => p[2] = "config",
           name = "bootout" => p[2] \in Label
    PROVE  Op(name, p) \in OpsOn(Q) /\ <<Op(name, p)>> \in Seq(OpsOn(Q))
<1>1. Op(name, p) \in OpRecord
  BY DEF Op, OpRecord, Writes, Value
<1>2. Op(name, p).op = name /\ Op(name, p).path = p
  BY DEF Op
<1>3. Op(name, p) \in OpsOn(Q)
  BY <1>1, <1>2 DEF OpsOn, Writes
<1> QED
  BY <1>3

\* The paths there may be in the snapshots for h.
OwnPaths(h) ==
    {<<h, "config">>, <<h, "plugin">>, <<h, "skill">>}
    \cup (IF h = "codex" THEN {Marker, <<h, "app">>, <<h, "wake">>} ELSE {})

LEMMA ApplyPathsOfAre ==
    ASSUME StateInv, NEW h \in Harness
    PROVE  LET q == ApplyPathsOf(h)
           IN  /\ q \in Seq(Path) /\ Elems(q) \subseteq OwnPaths(h)
               /\ ConfigChanges(h) => <<h, "config">> \in Elems(q)
               /\ h = "hermes" /\ RecordOf(h) = NoRecord /\ At(h, "plugin") = NoFile =>
                    <<h, "plugin">> \in Elems(q)
               /\ h = "codex" /\ PlistChanges("app") => Marker \in Elems(q) /\ <<h, "app">> \in Elems(q)
               /\ h = "codex" /\ PlistChanges("wake") => <<h, "wake">> \in Elems(q)
               /\ RecordOf(h) = NoRecord /\ At(h, "skill") = NoFile => <<h, "skill">> \in Elems(q)
<1> DEFINE plugin == "plugin" \in NewRecord(h).links /\ RecordOf(h) = NoRecord
           skill == "skill" \in NewRecord(h).links /\ RecordOf(h) = NoRecord
           a == When(ConfigChanges(h), <<<<h, "config">>>>)
           b == IF h = "hermes" THEN When(plugin, <<<<h, "plugin">>>>) ELSE << >>
           app == When(PlistChanges("app"), <<Marker, <<h, "app">>>>)
           wake == When(PlistChanges("wake"), <<<<h, "wake">>>>)
           c == IF h = "codex" THEN app \o wake ELSE << >>
           d == When(skill, <<<<h, "skill">>>>)
<1>1. /\ a \in Seq(Path) /\ Elems(a) \subseteq {<<h, "config">>}
      /\ ConfigChanges(h) => <<h, "config">> \in Elems(a)
  <2>1. ConfigChanges(h) \in BOOLEAN
    BY DEF ConfigChanges
  <2>2. <<<<h, "config">>>> \in Seq(Path) /\ Elems(<<<<h, "config">>>>) = {<<h, "config">>}
    BY PathsAre, OneIs
  <2> QED
    BY <2>1, <2>2, WhenIs
<1>2. /\ b \in Seq(Path) /\ Elems(b) \subseteq {<<h, "plugin">>}
      /\ h = "hermes" /\ plugin => <<h, "plugin">> \in Elems(b)
  <2>1. CASE h = "hermes"
    <3>1. <<<<h, "plugin">>>> \in Seq(Path) /\ Elems(<<<<h, "plugin">>>>) = {<<h, "plugin">>}
      BY <2>1, PathsAre, OneIs
    <3> QED
      BY <2>1, <3>1, WhenIs
  <2>2. CASE h # "hermes"
    BY <2>2, NoneIs
  <2> QED
    BY <2>1, <2>2
<1>3. /\ c \in Seq(Path)
      /\ Elems(c) \subseteq IF h = "codex" THEN {Marker, <<h, "app">>, <<h, "wake">>} ELSE {}
      /\ h = "codex" /\ PlistChanges("app") => Marker \in Elems(c) /\ <<h, "app">> \in Elems(c)
      /\ h = "codex" /\ PlistChanges("wake") => <<h, "wake">> \in Elems(c)
  <2>1. CASE h = "codex"
    <3>1. PlistChanges("app") \in BOOLEAN /\ PlistChanges("wake") \in BOOLEAN
      BY DEF PlistChanges
    <3>2. /\ <<Marker, <<h, "app">>>> \in Seq(Path)
          /\ Elems(<<Marker, <<h, "app">>>>) = {Marker, <<h, "app">>}
      BY <2>1, PathsAre DEF Elems
    <3>3. <<<<h, "wake">>>> \in Seq(Path) /\ Elems(<<<<h, "wake">>>>) = {<<h, "wake">>}
      BY <2>1, PathsAre, OneIs
    <3>4. app \in Seq(Path) /\ Elems(app) = IF PlistChanges("app") THEN Elems(<<Marker, <<h, "app">>>>) ELSE {}
      BY <3>1, <3>2, WhenIs
    <3>5. wake \in Seq(Path) /\ Elems(wake) = IF PlistChanges("wake") THEN Elems(<<<<h, "wake">>>>) ELSE {}
      BY <3>1, <3>3, WhenIs
    <3> HIDE DEF app, wake
    <3>6. app \o wake \in Seq(Path) /\ Elems(app \o wake) = Elems(app) \cup Elems(wake)
      BY <3>4, <3>5, ConcatIs
    <3> QED
      BY <2>1, <3>2, <3>3, <3>4, <3>5, <3>6
  <2>2. CASE h # "codex"
    BY <2>2, NoneIs
  <2> QED
    BY <2>1, <2>2
<1>4. /\ d \in Seq(Path) /\ Elems(d) \subseteq {<<h, "skill">>}
      /\ skill => <<h, "skill">> \in Elems(d)
  <2>1. <<<<h, "skill">>>> \in Seq(Path) /\ Elems(<<<<h, "skill">>>>) = {<<h, "skill">>}
    BY PathsAre, OneIs
  <2> QED
    BY <2>1, WhenIs
<1>5. ApplyPathsOf(h) = ((a \o b) \o c) \o d
  BY DEF ApplyPathsOf
<1>6. RecordOf(h) = NoRecord =>
        /\ At(h, "skill") = NoFile => skill
        /\ h = "hermes" /\ At(h, "plugin") = NoFile => plugin
  BY NewRecordIs DEF Links
<1> HIDE DEF a, b, c, d, plugin, skill
<1>9. /\ ((a \o b) \o c) \o d \in Seq(Path)
      /\ Elems(((a \o b) \o c) \o d) = Elems(a) \cup Elems(b) \cup Elems(c) \cup Elems(d)
  BY <1>1, <1>2, <1>3, <1>4, ConcatFour
<1>10. Elems(a) \cup Elems(b) \cup Elems(c) \cup Elems(d) \subseteq OwnPaths(h)
  BY <1>1, <1>2, <1>3, <1>4 DEF OwnPaths
<1> QED
  BY <1>1, <1>2, <1>3, <1>4, <1>5, <1>6, <1>9, <1>10

LEMMA ApplyPathsAre ==
    ASSUME StateInv, NEW set \in SUBSET Harness, ToApply(set) # {}
    PROVE  /\ ApplyPaths(set) \in Seq(Path)
           /\ Manifest \in Elems(ApplyPaths(set))
           /\ \A h \in ToApply(set) : Elems(ApplyPathsOf(h)) \subseteq Elems(ApplyPaths(set))
<1> DEFINE work == ToApply(set)
           e == Each(work, ApplyPathsOf)
<1>1. work \subseteq Harness /\ Harness \subseteq {"claude", "hermes", "codex"}
  BY SetupAssumption DEF ToApply
<1>2. /\ e \in Seq(Path)
      /\ \A h \in work : Elems(ApplyPathsOf(h)) \subseteq Elems(e)
  <2>1. \A h \in work : ApplyPathsOf(h) \in Seq(Path)
    BY <1>1, ApplyPathsOfAre
  <2> DEFINE A(h) == ApplyPathsOf(h)
  <2>2. /\ "claude" \in work => A("claude") \in Seq(Path)
        /\ "hermes" \in work => A("hermes") \in Seq(Path)
        /\ "codex" \in work => A("codex") \in Seq(Path)
    BY <2>1
  <2>3. e = (IF "claude" \in work THEN A("claude") ELSE << >>)
            \o (IF "hermes" \in work THEN A("hermes") ELSE << >>)
            \o (IF "codex" \in work THEN A("codex") ELSE << >>)
    BY DEF Each
  <2> HIDE DEF A, e, work
  <2>4. /\ e \in Seq(Path)
        /\ "claude" \in work => Elems(A("claude")) \subseteq Elems(e)
        /\ "hermes" \in work => Elems(A("hermes")) \subseteq Elems(e)
        /\ "codex" \in work => Elems(A("codex")) \subseteq Elems(e)
    BY <2>2, <2>3, EachIs
  <2> QED
    BY <1>1, <2>4 DEF A
<1>3. ApplyPaths(set) = e \o <<Manifest>>
  BY DEF ApplyPaths, When
<1>4. <<Manifest>> \in Seq(Path) /\ Elems(<<Manifest>>) = {Manifest}
  BY PathsAre, OneIs
<1> DEFINE m == <<Manifest>>
<1>5. m \in Seq(Path) /\ Elems(m) = {Manifest}
  BY <1>4
<1> HIDE DEF e, m
<1>6. e \o m \in Seq(Path) /\ Elems(e \o m) = Elems(e) \cup Elems(m)
  BY <1>2, <1>5, ConcatIs
<1> QED
  BY <1>2, <1>3, <1>5, <1>6 DEF m

LEMMA ApplyIs ==
    ASSUME StateInv, NEW h \in Harness, NEW Q, Elems(ApplyPathsOf(h)) \subseteq Q
    PROVE  Apply(h) \in Seq(OpsOn(Q))
<1> DEFINE S == OpsOn(Q)
           plugin == NewLink(h, "plugin")
           skill == NewLink(h, "skill")
           mark == When(PlistChanges("app"), <<Put(Marker, MarkerOf(build))>>)
<1>1. /\ ConfigChanges(h) => <<h, "config">> \in Q
      /\ h = "hermes" /\ RecordOf(h) = NoRecord /\ At(h, "plugin") = NoFile => <<h, "plugin">> \in Q
      /\ h = "codex" /\ PlistChanges("app") => Marker \in Q /\ <<h, "app">> \in Q
      /\ h = "codex" /\ PlistChanges("wake") => <<h, "wake">> \in Q
      /\ RecordOf(h) = NoRecord /\ At(h, "skill") = NoFile => <<h, "skill">> \in Q
  BY ApplyPathsOfAre
<1>2. ApplyConfig(h) \in Seq(S)
  <2>1. Fits(<<h, "config">>, ConfigAfter(h)) /\ <<h, "config">> \in Path
    BY ConfigAfterIs, PathsAre DEF Fits, Manifest, Marker, LinkName, Label
  <2>2. ConfigChanges(h) \in BOOLEAN /\ (ConfigChanges(h) => <<Put(<<h, "config">>, ConfigAfter(h))>> \in Seq(S))
    BY <1>1, <2>1, PutIs DEF ConfigChanges
  <2> QED
    BY <2>2, WhenIs DEF ApplyConfig
<1>3. skill \in Seq(S)
  <2>1. RecordOf(h) = NoRecord /\ At(h, "skill") = NoFile => <<Op("link", <<h, "skill">>)>> \in Seq(S)
    BY <1>1, PathsAre, OpIs DEF LinkName
  <2> QED
    BY <2>1, WhenIs DEF NewLink
<1>4. h = "hermes" => plugin \in Seq(S)
  <2>1. h = "hermes" /\ RecordOf(h) = NoRecord /\ At(h, "plugin") = NoFile =>
          <<Op("link", <<h, "plugin">>)>> \in Seq(S)
    BY <1>1, PathsAre, OpIs DEF LinkName
  <2> QED
    BY <2>1, WhenIs DEF NewLink
<1>5. h = "codex" => ApplyCodex \in Seq(S)
  <2> SUFFICES ASSUME h = "codex" PROVE ApplyCodex \in Seq(S)
    OBVIOUS
  <2>1. PlistChanges("app") \in BOOLEAN /\ PlistChanges("wake") \in BOOLEAN
    BY DEF PlistChanges
  <2>2. mark \in Seq(S)
    <3>1. Fits(Marker, MarkerOf(build)) /\ Marker \in Path
      BY MarkerIs, PathsAre DEF Fits, Manifest, Marker, LinkName, Label
    <3>2. PlistChanges("app") => <<Put(Marker, MarkerOf(build))>> \in Seq(S)
      BY <1>1, <3>1, PutIs
    <3> QED
      BY <2>1, <3>2, WhenIs
  <2>3. \A l \in Label : WritePlist(l) \in Seq(S)
    <3> SUFFICES ASSUME NEW l \in Label PROVE WritePlist(l) \in Seq(S)
      OBVIOUS
    <3>1. Fits(<<"codex", l>>, NewPlist(l)) /\ <<"codex", l>> \in Path
      BY NewPlistIs, PathsAre DEF Fits, Manifest, Marker, LinkName, Label
    <3>2. PlistChanges(l) => <<Put(<<"codex", l>>, NewPlist(l))>> \in Seq(S)
      BY <1>1, <3>1, PutIs DEF Label
    <3>3. PlistChanges(l) \in BOOLEAN
      BY DEF PlistChanges
    <3> QED
      BY <3>2, <3>3, WhenIs DEF WritePlist
  <2>4. WritePlist("app") \in Seq(S) /\ WritePlist("wake") \in Seq(S)
    BY <2>3 DEF Label
  <2> HIDE DEF mark
  <2>5. mark \o WritePlist("app") \in Seq(S)
    BY <2>2, <2>4, ConcatIs
  <2>6. (mark \o WritePlist("app")) \o WritePlist("wake") \in Seq(S)
    BY <2>4, <2>5, ConcatIs
  <2> QED
    BY <2>6 DEF ApplyCodex, mark
<1> DEFINE mid == CASE h = "hermes" -> plugin [] h = "codex" -> ApplyCodex [] OTHER -> << >>
<1>6. mid \in Seq(S)
  <2>1. CASE h = "hermes"
    BY <1>4, <2>1
  <2>2. CASE h = "codex"
    BY <1>5, <2>2
  <2>3. CASE h \notin {"hermes", "codex"}
    <3>1. mid = << >>
      BY <2>3
    <3> QED
      BY <3>1, NoneIs
  <2> QED
    BY <2>1, <2>2, <2>3
<1>7. Apply(h) = (ApplyConfig(h) \o mid) \o skill
  BY DEF Apply
<1> HIDE DEF mid, skill
<1>8. ApplyConfig(h) \o mid \in Seq(S)
  BY <1>2, <1>6, ConcatIs
<1>9. (ApplyConfig(h) \o mid) \o skill \in Seq(S)
  BY <1>3, <1>8, ConcatIs
<1> QED
  BY <1>7, <1>9

LEMMA ApplyOpsAre ==
    ASSUME StateInv, NEW set \in SUBSET Harness, ApplyOps(set) # << >>
    PROVE  /\ ApplyPaths(set) \in Seq(Path)
           /\ ApplyOps(set) \in Seq(OpsOn(Elems(ApplyPaths(set))))
<1> DEFINE work == ToApply(set)
           S == OpsOn(Elems(ApplyPaths(set)))
           check == CheckRuntime(work)
           e == Each(work, Apply)
           new == [h \in work |-> NewRecord(h)]
           last == <<Put(Manifest, ManifestWith(new))>>
<1>1. work # {}
  BY DEF ApplyOps, When
<1>2. work \subseteq Harness /\ Harness \subseteq {"claude", "hermes", "codex"}
  BY SetupAssumption DEF ToApply
<1>3. /\ ApplyPaths(set) \in Seq(Path) /\ Manifest \in Elems(ApplyPaths(set))
      /\ \A h \in work : Apply(h) \in Seq(S)
  BY <1>1, <1>2, ApplyPathsAre, ApplyIs
<1>4. check \in Seq(S)
  <2> DEFINE o == [op |-> "check", path |-> Marker, value |-> MarkerOf(build)]
             changes == "codex" \in work /\ \E l \in Label : PlistChanges(l)
  <2>1. changes => o \in S
    BY <1>2, MarkerIs, PathsAre DEF OpsOn, OpRecord, Writes, Value
  <2>2. check = When(changes, <<o>>)
    BY DEF CheckRuntime
  <2>3. changes \in BOOLEAN
    OBVIOUS
  <2> HIDE DEF S, o, changes, check
  <2>4. changes => <<o>> \in Seq(S)
    BY <2>1, OneIs
  <2> QED
    BY <2>2, <2>3, <2>4, WhenIs
<1>5. e \in Seq(S)
  <2> DEFINE A(h) == Apply(h)
  <2>1. /\ "claude" \in work => A("claude") \in Seq(S)
        /\ "hermes" \in work => A("hermes") \in Seq(S)
        /\ "codex" \in work => A("codex") \in Seq(S)
    BY <1>3
  <2>2. e = (IF "claude" \in work THEN A("claude") ELSE << >>)
            \o (IF "hermes" \in work THEN A("hermes") ELSE << >>)
            \o (IF "codex" \in work THEN A("codex") ELSE << >>)
    BY DEF Each
  <2> HIDE DEF A, e, work, S
  <2> QED
    BY <2>1, <2>2, EachIs
<1>6. last \in Seq(S)
  <2>1. ManifestWith(new) \in GoodManifest
    <3>1. DOMAIN new = work /\ \A h \in work : new[h] = NewRecord(h)
      OBVIOUS
    <3> HIDE DEF new
    <3> QED
      BY <1>2, <3>1, NewRecordIs, ManifestIs
  <2>2. Fits(Manifest, ManifestWith(new))
    BY <2>1 DEF Fits, Manifest, Marker, LinkName, Label
  <2> HIDE DEF new
  <2> QED
    BY <1>3, <2>2, PathsAre, PutIs
<1>7. ApplyOps(set) = (check \o e) \o last
  BY <1>1 DEF ApplyOps, When
<1> HIDE DEF S, check, e, last
<1>8. check \o e \in Seq(S)
  BY <1>4, <1>5, ConcatIs
<1>9. (check \o e) \o last \in Seq(S)
  BY <1>6, <1>8, ConcatIs
<1> QED
  BY <1>3, <1>7, <1>9 DEF S

LEMMA RemovePathsOfAre ==
    ASSUME StateInv, NEW h \in Harness, RecordOf(h) # NoRecord
    PROVE  LET rec == RecordOf(h)
               q == RemovePathsOf(h)
           IN  /\ q \in Seq(Path) /\ Elems(q) \subseteq OwnPaths(h)
               /\ <<h, "app">> \in Elems(q) => "app" \in rec.plists
               /\ rec.own # {} => <<h, "config">> \in Elems(q)
               /\ "plugin" \in rec.links => <<h, "plugin">> \in Elems(q)
               /\ h = "codex" => Marker \in Elems(q)
               /\ \A l \in rec.plists : <<h, l>> \in Elems(q)
               /\ "skill" \in rec.links => <<h, "skill">> \in Elems(q)
<1> DEFINE rec == RecordOf(h)
           One(x, set, p) == When(x \in set, <<p>>)
           a == When(rec.own # {}, <<<<h, "config">>>>)
           b == One("plugin", rec.links, <<h, "plugin">>)
           c == When(h = "codex", <<Marker>>)
           d == One("app", rec.plists, <<h, "app">>)
           e == One("wake", rec.plists, <<h, "wake">>)
           f == One("skill", rec.links, <<h, "skill">>)
<1>1. rec \in Record /\ rec.links \subseteq Links(h) /\ (h # "codex" => rec.plists = {})
  BY RecordIs
<1>2. rec.plists \subseteq {"app", "wake"} /\ rec.links \subseteq {"plugin", "skill"}
  BY <1>1 DEF Record, Label, LinkName
<1>3. ASSUME NEW x, NEW set, NEW p, x \in set => p \in Path
      PROVE  One(x, set, p) \in Seq(Path) /\ Elems(One(x, set, p)) = IF x \in set THEN {p} ELSE {}
  <2>1. x \in set => <<p>> \in Seq(Path) /\ Elems(<<p>>) = {p}
    BY <1>3, OneIs
  <2> QED
    BY <2>1, WhenMember
<1>4. /\ "plugin" \in rec.links => <<h, "plugin">> \in Path
      /\ h = "codex" => Marker \in Path
      /\ "app" \in rec.plists => <<h, "app">> \in Path
      /\ "wake" \in rec.plists => <<h, "wake">> \in Path
      /\ <<h, "config">> \in Path /\ <<h, "skill">> \in Path
  BY <1>1, PathsAre
<1> HIDE DEF One, rec
<1>5. a \in Seq(Path) /\ Elems(a) = IF rec.own # {} THEN {<<h, "config">>} ELSE {}
  <2>1. <<<<h, "config">>>> \in Seq(Path) /\ Elems(<<<<h, "config">>>>) = {<<h, "config">>}
    BY <1>4, OneIs
  <2> QED
    BY <2>1, WhenIs
<1>6. b \in Seq(Path) /\ Elems(b) = IF "plugin" \in rec.links THEN {<<h, "plugin">>} ELSE {}
  BY <1>3, <1>4
<1>7. c \in Seq(Path) /\ Elems(c) = IF h = "codex" THEN {Marker} ELSE {}
  <2>1. h = "codex" => <<Marker>> \in Seq(Path) /\ Elems(<<Marker>>) = {Marker}
    BY <1>4, OneIs
  <2> QED
    BY <2>1, WhenIs
<1>8. d \in Seq(Path) /\ Elems(d) = IF "app" \in rec.plists THEN {<<h, "app">>} ELSE {}
  BY <1>3, <1>4
<1>9. e \in Seq(Path) /\ Elems(e) = IF "wake" \in rec.plists THEN {<<h, "wake">>} ELSE {}
  BY <1>3, <1>4
<1>10. f \in Seq(Path) /\ Elems(f) = IF "skill" \in rec.links THEN {<<h, "skill">>} ELSE {}
  BY <1>3, <1>4
<1>11. RemovePathsOf(h) = ((((a \o b) \o c) \o d) \o e) \o f
  BY DEF RemovePathsOf, One, rec
<1> HIDE DEF a, b, c, d, e, f
<1>12. PICK x : x = ((a \o b) \o c) \o d
  OBVIOUS
<1>13. x \in Seq(Path) /\ Elems(x) = Elems(a) \cup Elems(b) \cup Elems(c) \cup Elems(d)
  BY <1>5, <1>6, <1>7, <1>8, <1>12, ConcatFour
<1>14. (x \o e) \o f \in Seq(Path) /\ Elems((x \o e) \o f) = Elems(x) \cup Elems(e) \cup Elems(f)
  BY <1>9, <1>10, <1>13, ConcatThree
<1>15. RemovePathsOf(h) = (x \o e) \o f
  BY <1>11, <1>12
<1>16. /\ RemovePathsOf(h) \in Seq(Path)
       /\ rec.own # {} => <<h, "config">> \in Elems(RemovePathsOf(h))
       /\ "plugin" \in rec.links => <<h, "plugin">> \in Elems(RemovePathsOf(h))
       /\ h = "codex" => Marker \in Elems(RemovePathsOf(h))
       /\ "app" \in rec.plists => <<h, "app">> \in Elems(RemovePathsOf(h))
       /\ "wake" \in rec.plists => <<h, "wake">> \in Elems(RemovePathsOf(h))
       /\ "skill" \in rec.links => <<h, "skill">> \in Elems(RemovePathsOf(h))
  BY <1>5, <1>6, <1>7, <1>8, <1>9, <1>10, <1>13, <1>14, <1>15
<1>17. \A l \in rec.plists : <<h, l>> \in Elems(RemovePathsOf(h))
  BY <1>2, <1>16
<1>18. rec.plists # {} => h = "codex"
  BY <1>1
<1>19. Elems(a) \cup Elems(b) \cup Elems(c) \cup Elems(d) \cup Elems(e) \cup Elems(f) \subseteq OwnPaths(h)
  BY <1>5, <1>6, <1>7, <1>8, <1>9, <1>10, <1>18 DEF OwnPaths
<1>20. Elems(RemovePathsOf(h)) = Elems(a) \cup Elems(b) \cup Elems(c) \cup Elems(d) \cup Elems(e) \cup Elems(f)
  BY <1>13, <1>14, <1>15
<1>21. <<h, "app">> \in Elems(RemovePathsOf(h)) => "app" \in rec.plists
  BY <1>5, <1>6, <1>7, <1>8, <1>9, <1>10, <1>20 DEF Marker
<1> QED
  BY <1>16, <1>17, <1>19, <1>20, <1>21 DEF rec

LEMMA RemovePathsAre ==
    ASSUME StateInv, NEW set \in SUBSET Harness, ToRemove(set) # {}
    PROVE  /\ RemovePaths(set) \in Seq(Path)
           /\ Manifest \in Elems(RemovePaths(set))
           /\ \A h \in ToRemove(set) : Elems(RemovePathsOf(h)) \subseteq Elems(RemovePaths(set))
<1> DEFINE work == ToRemove(set)
           e == Each(work, RemovePathsOf)
           m == <<Manifest>>
<1>1. work \subseteq Harness /\ Harness \subseteq {"claude", "hermes", "codex"}
  BY SetupAssumption DEF ToRemove
<1>2. e \in Seq(Path) /\ \A h \in work : Elems(RemovePathsOf(h)) \subseteq Elems(e)
  <2> DEFINE A(h) == RemovePathsOf(h)
  <2>1. \A h \in work : A(h) \in Seq(Path)
    BY <1>1, RemovePathsOfAre DEF ToRemove, Owned
  <2>2. /\ "claude" \in work => A("claude") \in Seq(Path)
        /\ "hermes" \in work => A("hermes") \in Seq(Path)
        /\ "codex" \in work => A("codex") \in Seq(Path)
    BY <2>1
  <2>3. e = (IF "claude" \in work THEN A("claude") ELSE << >>)
            \o (IF "hermes" \in work THEN A("hermes") ELSE << >>)
            \o (IF "codex" \in work THEN A("codex") ELSE << >>)
    BY DEF Each
  <2> HIDE DEF A, e, work
  <2>4. /\ e \in Seq(Path)
        /\ "claude" \in work => Elems(A("claude")) \subseteq Elems(e)
        /\ "hermes" \in work => Elems(A("hermes")) \subseteq Elems(e)
        /\ "codex" \in work => Elems(A("codex")) \subseteq Elems(e)
    BY <2>2, <2>3, EachIs
  <2> QED
    BY <1>1, <2>4 DEF A
<1>3. RemovePaths(set) = e \o m
  BY DEF RemovePaths, When
<1>4. m \in Seq(Path) /\ Elems(m) = {Manifest}
  BY PathsAre, OneIs
<1> HIDE DEF e, m
<1>5. e \o m \in Seq(Path) /\ Elems(e \o m) = Elems(e) \cup Elems(m)
  BY <1>2, <1>4, ConcatIs
<1> QED
  BY <1>2, <1>3, <1>4, <1>5

LEMMA ListsMember ==
    ASSUME NEW S, NEW x, NEW set, NEW o, x \in set => o \in S
    PROVE  When(x \in set, <<o>>) \in Seq(S)
BY DEF When

LEMMA UnlinkIs ==
    ASSUME NEW Q, NEW h, NEW leaf, NEW set, leaf \in set => <<h, leaf>> \in Path \cap Q
    PROVE  Unlink(h, leaf, leaf \in set) \in Seq(OpsOn(Q))
<1>1. leaf \in set => Op("unlink", <<h, leaf>>) \in OpsOn(Q)
  BY OpIs
<1>2. PICK o : o = Op("unlink", <<h, leaf>>)
  OBVIOUS
<1> QED
  BY <1>1, <1>2, ListsMember DEF Unlink

LEMMA RemoveIs ==
    ASSUME StateInv, NEW h \in Harness, RecordOf(h) # NoRecord,
           NEW Q, Elems(RemovePathsOf(h)) \subseteq Q
    PROVE  Remove(h) \in Seq(OpsOn(Q))
<1> DEFINE S == OpsOn(Q)
           rec == RecordOf(h)
<1>1. /\ rec.own # {} => <<h, "config">> \in Q
      /\ "plugin" \in rec.links => <<h, "plugin">> \in Q
      /\ h = "codex" => Marker \in Q
      /\ \A l \in rec.plists : <<h, l>> \in Q
      /\ "skill" \in rec.links => <<h, "skill">> \in Q
  BY RemovePathsOfAre
<1>2. rec \in Record /\ rec.links \subseteq Links(h) /\ rec.plists \subseteq Label
  BY RecordIs DEF Record
<1>3. EditOut(h) \in Seq(S)
  <2>1. rec.own # {} => <<Op("edit", <<h, "config">>)>> \in Seq(S)
    BY <1>1, PathsAre, OpIs
  <2> QED
    BY <2>1, WhenIs DEF EditOut
<1>4. UnlinkSkill(h) \in Seq(S)
  <2>1. "skill" \in rec.links => <<h, "skill">> \in Path \cap Q
    BY <1>1, PathsAre
  <2> HIDE DEF rec
  <2>2. Unlink(h, "skill", "skill" \in rec.links) \in Seq(S)
    BY <2>1, UnlinkIs
  <2> QED
    BY <2>2 DEF UnlinkSkill, rec
<1> HIDE DEF S, rec
<1>5. CASE h = "claude"
  <2>1. EditOut("claude") \o UnlinkSkill("claude") \in Seq(S)
    BY <1>3, <1>4, <1>5, ConcatIs
  <2> QED
    BY <1>5, <2>1 DEF Remove, RemoveClaude, S
<1>6. CASE h = "hermes"
  <2> DEFINE plugin == Unlink("hermes", "plugin", "plugin" \in rec.links)
  <2>1. plugin \in Seq(S)
    <3>1. "plugin" \in rec.links => <<"hermes", "plugin">> \in Path \cap Q
      BY <1>1, <1>6, PathsAre
    <3> QED
      BY <3>1, UnlinkIs DEF S
  <2> HIDE DEF plugin
  <2>2. (EditOut("hermes") \o plugin) \o UnlinkSkill("hermes") \in Seq(S)
    BY <1>3, <1>4, <1>6, <2>1, ConcatThree
  <2> QED
    BY <1>6, <2>2 DEF Remove, RemoveHermes, S, plugin, rec
<1>7. CASE h = "codex"
  <2> DEFINE RemovePlist(l) == Unlink("codex", l, l \in rec.plists)
             a == RemovePlist("app")
             b == RemovePlist("wake")
             c == <<Op("clear", Marker)>>
  <2>1. a \in Seq(S) /\ b \in Seq(S)
    <3> SUFFICES ASSUME NEW l \in Label PROVE RemovePlist(l) \in Seq(S)
      BY DEF Label
    <3>1. l \in rec.plists => <<"codex", l>> \in Path \cap Q
      BY <1>1, <1>7, PathsAre
    <3> QED
      BY <3>1, UnlinkIs DEF S
  <2>2. c \in Seq(S)
    BY <1>1, <1>7, PathsAre, OpIs DEF S
  <2>3. RemoveCodex = (((EditOut("codex") \o a) \o b) \o UnlinkSkill("codex")) \o c
    BY <1>7 DEF RemoveCodex, rec
  <2> HIDE DEF a, b, c
  <2>4. PICK x : x = ((EditOut("codex") \o a) \o b) \o UnlinkSkill("codex")
    OBVIOUS
  <2>5. x \in Seq(S)
    BY <1>3, <1>4, <1>7, <2>1, <2>4, ConcatFour
  <2>6. x \o c \in Seq(S)
    BY <2>2, <2>5, ConcatIs
  <2> QED
    BY <1>7, <2>3, <2>4, <2>6 DEF Remove, S
<1> QED
  BY <1>5, <1>6, <1>7, SetupAssumption DEF S

LEMMA UnloadIs ==
    ASSUME StateInv, NEW set \in SUBSET Harness, NEW Q
    PROVE  Unload(set) \in Seq(OpsOn(Q))
<1> DEFINE S == OpsOn(Q)
           Job(l) == When(l \in RecordOf("codex").plists, <<Op("bootout", <<"codex", l>>)>>)
           a == Job("app")
           b == Job("wake")
<1>1. CASE UnloadNeeded(set)
  <2>1. ASSUME NEW l \in Label PROVE Job(l) \in Seq(S)
    <3>1. <<"codex", l>> \in Path /\ <<"codex", l>>[2] \in Label
      BY <1>1, PathsAre DEF UnloadNeeded, ToRemove
    <3>2. PICK p : p = <<"codex", l>>
      OBVIOUS
    <3>3. Op("bootout", p) \in S
      BY <3>1, <3>2, OpIs
    <3>4. PICK o : o = Op("bootout", p)
      OBVIOUS
    <3>5. When(l \in RecordOf("codex").plists, <<o>>) \in Seq(S)
      BY <3>3, <3>4, ListsMember
    <3> QED
      BY <3>2, <3>4, <3>5
  <2>2. a \in Seq(S) /\ b \in Seq(S)
    BY <2>1 DEF Label
  <2>3. Unload(set) = a \o b
    BY <1>1 DEF Unload
  <2> HIDE DEF a, b, S
  <2>4. a \o b \in Seq(S)
    BY <2>2, ConcatIs
  <2> QED
    BY <2>3, <2>4 DEF S
<1>2. CASE ~UnloadNeeded(set)
  BY <1>2, NoneIs DEF Unload
<1> QED
  BY <1>1, <1>2

LEMMA RemoveOpsAre ==
    ASSUME StateInv, NEW set \in SUBSET Harness, RemoveOps(set) # << >>
    PROVE  /\ RemovePaths(set) \in Seq(Path)
           /\ RemoveOps(set) \in Seq(OpsOn(Elems(RemovePaths(set))))
<1> DEFINE work == ToRemove(set)
           S == OpsOn(Elems(RemovePaths(set)))
           unload == Unload(set)
           e == Each(work, Remove)
           new == [h \in work |-> NoRecord]
           last == IF Owned = work THEN <<Op("unlink", Manifest)>>
                   ELSE <<Put(Manifest, ManifestWith(new))>>
<1>1. work # {}
  BY DEF RemoveOps, When
<1>2. work \subseteq Harness /\ \A h \in work : RecordOf(h) # NoRecord
  BY DEF ToRemove, Owned
<1>3. /\ RemovePaths(set) \in Seq(Path) /\ Manifest \in Elems(RemovePaths(set))
      /\ \A h \in work : Elems(RemovePathsOf(h)) \subseteq Elems(RemovePaths(set))
  BY <1>1, RemovePathsAre
<1>4. \A h \in work : Remove(h) \in Seq(S)
  BY <1>2, <1>3, RemoveIs
<1>5. unload \in Seq(S)
  BY UnloadIs
<1>6. e \in Seq(S)
  <2> DEFINE A(h) == Remove(h)
  <2>1. /\ "claude" \in work => A("claude") \in Seq(S)
        /\ "hermes" \in work => A("hermes") \in Seq(S)
        /\ "codex" \in work => A("codex") \in Seq(S)
    BY <1>4
  <2>2. e = (IF "claude" \in work THEN A("claude") ELSE << >>)
            \o (IF "hermes" \in work THEN A("hermes") ELSE << >>)
            \o (IF "codex" \in work THEN A("codex") ELSE << >>)
    BY DEF Each
  <2> HIDE DEF A, e, work, S
  <2> QED
    BY <2>1, <2>2, EachIs
<1>7. last \in Seq(S)
  <2>1. ManifestWith(new) \in GoodManifest
    <3>1. DOMAIN new = work /\ \A h \in work : new[h] = NoRecord
      OBVIOUS
    <3> HIDE DEF new
    <3> QED
      BY <1>2, <3>1, ManifestIs
  <2>2. Fits(Manifest, ManifestWith(new))
    BY <2>1 DEF Fits, Manifest, Marker, LinkName, Label
  <2> HIDE DEF new
  <2>3. <<Put(Manifest, ManifestWith(new))>> \in Seq(S)
    BY <1>3, <2>2, PathsAre, PutIs
  <2>4. <<Op("unlink", Manifest)>> \in Seq(S)
    BY <1>3, PathsAre, OpIs
  <2> QED
    BY <2>3, <2>4
<1>8. RemoveOps(set) = (unload \o e) \o last
  BY <1>1 DEF RemoveOps, When
<1> HIDE DEF S, unload, e, last
<1>9. (unload \o e) \o last \in Seq(S)
  BY <1>5, <1>6, <1>7, ConcatThree
<1> QED
  BY <1>3, <1>8, <1>9 DEF S

-----------------------------------------------------------------------------
(* One operation *)

LEMMA NewFileIs ==
    ASSUME StateInv, NEW Q, NEW op \in OpsOn(Q)
    PROVE  /\ NewFile(op) \in [Path -> Value]
           /\ \A p \in Path : Fits(p, NewFile(op)[p])
           /\ \A p \in Path \ Q : NewFile(op)[p] = file[p]
<1>1. /\ op.path \in Path /\ op.op \in Writes \cup {"check", "bootout"}
      /\ op.op \in Writes => op.path \in Q
      /\ op.op = "put" => Fits(op.path, op.value)
      /\ op.op = "link" => op.path[2] \in LinkName
  BY DEF OpsOn, OpRecord
<1>2. file \in [Path -> Value] /\ \A p \in Path : Fits(p, file[p])
  BY DEF StateInv
<1>3. ASSUME NEW v, Fits(op.path, v), op.op \in Writes
      PROVE  LET f == [file EXCEPT ![op.path] = v]
             IN  /\ f \in [Path -> Value] /\ \A p \in Path : Fits(p, f[p])
                 /\ \A p \in Path \ Q : f[p] = file[p]
  <2>1. v \in Value
    BY <1>1, <1>3, FitsIs
  <2> QED
    BY <1>1, <1>2, <1>3, <2>1
<1>4. CASE op.op = "put"
  BY <1>1, <1>3, <1>4 DEF NewFile, Writes
<1>5. CASE op.op = "link"
  <2>1. Fits(op.path, OwnLink)
    BY <1>1, <1>5 DEF Fits, OwnLink, LinkFile, Manifest, Marker, LinkName, Label
  <2> QED
    BY <1>3, <1>5, <2>1 DEF NewFile, Writes
<1>6. CASE op.op \in {"unlink", "clear"}
  BY <1>3, <1>6, NothingFits DEF NewFile, Writes
<1>7. CASE op.op \in {"edit", "check", "bootout"}
  <2>1. NewFile(op) = file
    BY <1>7 DEF NewFile
  <2> QED
    BY <1>2, <2>1
<1> QED
  BY <1>1, <1>4, <1>5, <1>6, <1>7 DEF Writes

LEMMA NewLoadedIs ==
    ASSUME StateInv, NEW Q, NEW op \in OpsOn(Q)
    PROVE  /\ NewLoaded(op) \in Jobs
           /\ ~IsLoaded(op) => NewLoaded(op) = loaded
           /\ IsLoaded(op) \in BOOLEAN
<1>1. loaded \in [Label -> 0..MaxBuild] /\ 0 \in 0..MaxBuild
  BY BoundsAre DEF StateInv, Jobs
<1>2. op.op = "bootout" => op.path[2] \in Label
  BY DEF OpsOn
<1>3. CASE op.op = "bootout"
  <2> DEFINE l == op.path[2]
  <2>1. NewLoaded(op) = [loaded EXCEPT ![l] = 0] /\ (IsLoaded(op) <=> loaded[l] # 0)
    BY <1>3 DEF NewLoaded, IsLoaded
  <2> HIDE DEF l
  <2>2. [loaded EXCEPT ![l] = 0] \in [Label -> 0..MaxBuild]
    BY <1>1
  <2>3. loaded[l] = 0 => [loaded EXCEPT ![l] = 0] = loaded
    BY <1>1
  <2> QED
    BY <2>1, <2>2, <2>3 DEF Jobs, IsLoaded
<1>4. CASE op.op # "bootout"
  BY <1>1, <1>4 DEF NewLoaded, IsLoaded, Jobs
<1> QED
  BY <1>3, <1>4

LEMMA EditOpIs ==
    ASSUME StateInv, NEW h \in Harness, NEW Q, <<h, "config">> \in Q,
           At(h, "config") # NoFile
    PROVE  EditOp(h) \in OpsOn(Q)
<1> DEFINE c == At(h, "config")
           own == RecordOf(h).own
           rest == Present(c) \ own
           a == c.setup \ own
           b == c.user \ own
           box == IF ~RecordOf(h).box THEN c.box ELSE IF rest = {} THEN "no" ELSE "user"
           d == Without(h, c)
<1>1. c \in Config
  BY ConfigIs
<1>2. d = [c EXCEPT !.setup = a, !.user = b, !.box = box]
  BY DEF Without
<1>3. a \subseteq Item /\ b \subseteq Item /\ box \in Author
  BY <1>1 DEF Config, Author
<1>4. <<h, "config">> \in Path
  BY PathsAre
<1>5. EditOp(h) = IF RecordOf(h).made /\ d = Empty THEN Op("unlink", <<h, "config">>)
                  ELSE Put(<<h, "config">>, d)
  BY DEF EditOp
<1> HIDE DEF a, b, box, c, d
<1>6. d \in Config
  BY <1>1, <1>2, <1>3 DEF Config
<1>7. Fits(<<h, "config">>, d)
  BY <1>6 DEF Fits, Manifest, Marker, LinkName, Label
<1>8. Put(<<h, "config">>, d) \in OpsOn(Q)
  BY <1>4, <1>7, PutIs
<1>9. Op("unlink", <<h, "config">>) \in OpsOn(Q)
  BY <1>4, OpIs
<1> QED
  BY <1>5, <1>8, <1>9

-----------------------------------------------------------------------------
(* Steps of a command *)

LEMMA IdleIs == IdleProc \in Proc /\ IdleProc.at = "idle"
<1>1. << >> \in Seq(OpRecord) /\ << >> \in Seq(Path) /\ << >> \in Seq(Value)
  OBVIOUS
<1>2. << >> \in {<< >>} \cup Base
  OBVIOUS
<1>3. PICK e : e = << >>
  OBVIOUS
<1>4. /\ IdleProc = [at |-> "idle", todo |-> e, paths |-> e, saved |-> e, left |-> 0,
                     external |-> FALSE, base |-> e]
      /\ e \in Seq(OpRecord) /\ e \in Seq(Path) /\ e \in Seq(Value) /\ e \in {<< >>} \cup Base
  BY <1>1, <1>2, <1>3 DEF IdleProc
<1> QED
  BY <1>4 DEF Proc

\* A step of the command that has the lock, or takes the free one.
LEMMA CommandStep ==
    ASSUME LockInv, NEW s \in Setup, LockFree \/ Holds(s),
           NEW c \in Proc, proc' = [proc EXCEPT ![s] = c],
           \/ c = IdleProc
           \/ c.at # "idle" /\ Keeps(c, file', loaded', raced')
    PROVE  LockInv' /\ CommandInv'
<1>1. proc' \in [Setup -> Proc] /\ proc'[s] = c /\ \A t \in Setup \ {s} : proc'[t] = proc[t]
  BY DEF LockInv
<1>2. \A t \in Setup \ {s} : ~Holds(t) /\ proc[t] = IdleProc
  BY DEF LockInv, LockFree
<1>3. \A t \in Setup \ {s} : ~Holds(t)' /\ proc'[t] = IdleProc
  BY <1>1, <1>2, IdleIs DEF Holds
<1>4. ~Holds(s)' => c = IdleProc
  BY <1>1 DEF Holds, Proc
<1>5. Holds(s)' => c # IdleProc
  BY <1>1, IdleIs DEF Holds
<1>6. LockInv'
  BY <1>1, <1>3, <1>4 DEF LockInv
<1>7. CommandInv'
  BY <1>1, <1>3, <1>5 DEF CommandInv
<1> QED
  BY <1>6, <1>7

LEMMA EndStep ==
    ASSUME LockInv, NEW s \in Setup, Holds(s), Ends(s)
    PROVE  LockInv' /\ CommandInv'
<1>1. proc' = [proc EXCEPT ![s] = IdleProc]
  BY DEF Ends
<1> QED
  BY <1>1, IdleIs, CommandStep

LEMMA HeldIs ==
    ASSUME IInv, NEW s \in Setup, proc[s].at # "idle"
    PROVE  /\ proc[s] \in Proc /\ Holds(s) /\ ~LockFree
           /\ Keeps(proc[s], file, loaded, raced)
BY DEF IInv, LockInv, CommandInv, Proc, Holds, LockFree

LEMMA BeginStep ==
    ASSUME IInv, NEW s \in Setup, Begin(s)
    PROVE  IInv'
<1>1. PICK cmd \in {"apply", "remove"}, set \in SUBSET Harness \ {{}} :
        /\ Begun(cmd, set).todo # << >>
        /\ proc' = [proc EXCEPT ![s] = Begun(cmd, set)]
  BY DEF Begin
<1>2. /\ LockFree /\ raced' = {} /\ StateInv /\ LockInv
      /\ file' = file /\ loaded' = loaded /\ build' = build
  BY DEF Begin, IInv
<1> DEFINE todo == IF cmd = "apply" THEN ApplyOps(set) ELSE RemoveOps(set)
           paths == IF cmd = "apply" THEN ApplyPaths(set) ELSE RemovePaths(set)
           base == <<file, loaded>>
           c == Begun(cmd, set)
<1>3. c = [IdleProc EXCEPT !.at = "snap", !.base = base, !.todo = todo, !.paths = paths]
  BY DEF Begun
<1>4. todo # << >>
  BY <1>1, <1>3 DEF IdleProc
<1>5. paths \in Seq(Path) /\ todo \in Seq(OpsOn(Elems(paths)))
  <2>1. CASE cmd = "apply"
    BY <1>2, <1>4, <2>1, ApplyOpsAre
  <2>2. CASE cmd # "apply"
    BY <1>2, <1>4, <2>2, RemoveOpsAre
  <2> QED
    BY <2>1, <2>2
<1>6. base \in Base /\ base[1] = file /\ base[2] = loaded
  BY <1>2 DEF StateInv, Base
<1>7. todo \in Seq(OpRecord)
  <2>1. OpsOn(Elems(paths)) \subseteq OpRecord
    BY DEF OpsOn
  <2> QED
    BY <1>5, <2>1
<1> HIDE DEF todo, paths, base, c
<1>8. /\ c \in Proc /\ c.at = "snap" /\ c.base = base /\ c.todo = todo /\ c.paths = paths
      /\ c.left = 0 /\ c.external = FALSE
  <2>1. IdleProc \in Proc /\ IdleProc.left = 0 /\ IdleProc.external = FALSE
    BY IdleIs DEF IdleProc
  <2> QED
    BY <1>3, <1>5, <1>6, <1>7, <2>1 DEF Proc
<1>9. Keeps(c, file, loaded, {})
  BY <1>4, <1>5, <1>6, <1>8 DEF Keeps
<1>10. LockInv' /\ CommandInv'
  <2>1. c.at # "idle" /\ Keeps(c, file', loaded', raced') /\ proc' = [proc EXCEPT ![s] = c]
    BY <1>1, <1>2, <1>8, <1>9 DEF c
  <2> QED
    BY <1>2, <1>8, <2>1, CommandStep
<1>11. StateInv'
  BY <1>2 DEF StateInv
<1> QED
  BY <1>10, <1>11 DEF IInv

LEMMA SnapshotStep ==
    ASSUME IInv, NEW s \in Setup, Snapshot(s)
    PROVE  IInv'
<1> DEFINE p == proc[s]
           saved == [i \in DOMAIN p.paths |-> file[p.paths[i]]]
           c == [p EXCEPT !.at = "work", !.saved = saved]
<1>1. /\ p.at = "snap" /\ UNCHANGED <<file, loaded, build, raced>>
      /\ proc' = [proc EXCEPT ![s].at = "work", ![s].saved = saved]
  BY DEF Snapshot, ghosts
<1>2. p \in Proc /\ Holds(s) /\ Keeps(p, file, loaded, raced) /\ LockInv /\ StateInv
  BY <1>1, HeldIs DEF IInv
<1>3. proc' = [proc EXCEPT ![s] = c]
  BY <1>1
<1>4. p.paths \in Seq(Path) /\ DOMAIN p.paths = 1..Len(p.paths) /\ Len(p.paths) \in Nat
  BY <1>2 DEF Proc
<1>5. \A i \in DOMAIN p.paths : p.paths[i] \in Path /\ file[p.paths[i]] \in Value
  BY <1>2, <1>4 DEF StateInv
<1>6. saved \in Seq(Value) /\ Len(saved) = Len(p.paths)
  BY <1>4, <1>5
<1>7. \A i \in DOMAIN p.paths : saved[i] = file[p.paths[i]]
  OBVIOUS
<1> HIDE DEF p, saved
<1>8. /\ c \in Proc /\ c.at = "work" /\ c.saved = saved /\ c.paths = p.paths /\ c.base = p.base
      /\ c.todo = p.todo /\ c.left = p.left /\ c.external = p.external
  BY <1>2, <1>6 DEF Proc
<1> HIDE DEF c
<1>9. \A i \in DOMAIN c.paths :
        /\ Fits(c.paths[i], c.saved[i])
        /\ c.paths[i] \notin raced => c.saved[i] = c.base[1][c.paths[i]]
  BY <1>1, <1>2, <1>5, <1>7, <1>8 DEF Keeps, StateInv
<1>10. Keeps(c, file, loaded, raced)
  BY <1>1, <1>2, <1>6, <1>8, <1>9 DEF Keeps
<1>11. Keeps(c, file', loaded', raced')
  BY <1>1, <1>10
<1>12. LockInv' /\ CommandInv'
  BY <1>2, <1>3, <1>8, <1>11, CommandStep
<1>13. StateInv'
  BY <1>1, <1>2 DEF StateInv
<1> QED
  BY <1>12, <1>13 DEF IInv

LEMMA OpsAreRecords == \A Q : Seq(OpsOn(Q)) \subseteq Seq(OpRecord)
<1> SUFFICES ASSUME NEW Q PROVE Seq(OpsOn(Q)) \subseteq Seq(OpRecord)
  OBVIOUS
<1>1. OpsOn(Q) \subseteq OpRecord
  BY DEF OpsOn
<1> QED
  BY <1>1

\* The first operation of a command and what it does, as far as the invariant goes.
LEMMA OperationIs ==
    ASSUME IInv, NEW s \in Setup, proc[s].at = "work"
    PROVE  LET c == proc[s]
               op == Head(c.todo)
               rest == Tail(c.todo)
               Q == Elems(c.paths)
           IN  /\ c.todo # << >> /\ op \in OpsOn(Q) /\ rest \in Seq(OpsOn(Q)) /\ Q \subseteq Path
               /\ NewFile(op) \in [Path -> Value] /\ NewLoaded(op) \in Jobs
               /\ \A p \in Path : Fits(p, NewFile(op)[p])
               /\ \A p \in Path \ Q : NewFile(op)[p] = file[p]
               /\ ~IsLoaded(op) => NewLoaded(op) = loaded
               /\ IsLoaded(op) \in BOOLEAN
               /\ op.op = "edit" => NewFile(op) = file /\ NewLoaded(op) = loaded
               /\ op.op = "edit" /\ Can(op) => EditOp(op.path[1]) \in OpsOn(Q)
<1> DEFINE c == proc[s]
           op == Head(c.todo)
           rest == Tail(c.todo)
           Q == Elems(c.paths)
<1>1. c \in Proc /\ Keeps(c, file, loaded, raced) /\ StateInv
  BY HeldIs DEF IInv
<1>2. c.todo # << >> /\ c.todo \in Seq(OpsOn(Q)) /\ c.paths \in Seq(Path)
  BY <1>1 DEF Keeps, Proc
<1>3. op \in OpsOn(Q) /\ rest \in Seq(OpsOn(Q)) /\ Q \subseteq Path
  BY <1>2, FirstIs, ElemsAre
<1> HIDE DEF op, rest, Q
<1>4. /\ NewFile(op) \in [Path -> Value] /\ NewLoaded(op) \in Jobs
      /\ \A p \in Path : Fits(p, NewFile(op)[p])
      /\ \A p \in Path \ Q : NewFile(op)[p] = file[p]
      /\ ~IsLoaded(op) => NewLoaded(op) = loaded
      /\ IsLoaded(op) \in BOOLEAN
  BY <1>1, <1>3, NewFileIs, NewLoadedIs
<1>5. op.op = "edit" => NewFile(op) = file /\ NewLoaded(op) = loaded
  BY DEF NewFile, NewLoaded
<1>6. op.op = "edit" /\ Can(op) => EditOp(op.path[1]) \in OpsOn(Q)
  <2> SUFFICES ASSUME op.op = "edit", Can(op) PROVE EditOp(op.path[1]) \in OpsOn(Q)
    OBVIOUS
  <2>1. op.path \in Q /\ op.path \in Path /\ op.path[2] = "config"
    BY <1>3 DEF OpsOn, OpRecord, Writes
  <2>2. op.path[1] \in Harness /\ op.path = <<op.path[1], "config">>
    BY <2>1, PathIs
  <2>3. file[op.path] # NoFile
    BY DEF Can
  <2>4. At(op.path[1], "config") # NoFile
    BY <2>2, <2>3 DEF At
  <2> QED
    BY <1>1, <2>1, <2>2, <2>4, EditOpIs
<1> QED
  BY <1>2, <1>3, <1>4, <1>5, <1>6 DEF op, rest, Q

\* Where a command that was c may be after an operation: d.
Onward(c, d) ==
    /\ d \in Proc /\ d.at \in {"work", "undo"} /\ d.left \in 0..Len(c.paths)
    /\ d.todo \in Seq(OpsOn(Elems(c.paths))) /\ (d.at = "work" => d.todo # << >>)
    /\ d.paths = c.paths /\ d.saved = c.saved /\ d.base = c.base
    /\ c.external => d.external

\* A command goes on, or turns back, after an operation that did what it does or nothing.
LEMMA WorkStep ==
    ASSUME IInv, NEW s \in Setup, proc[s].at = "work", NEW c, Onward(proc[s], c),
           proc' = [proc EXCEPT ![s] = c],
           file' = file \/ file' = NewFile(Head(proc[s].todo)),
           loaded' = loaded \/ loaded' = NewLoaded(Head(proc[s].todo)),
           ~c.external => loaded' = loaded,
           build' = build, raced' = raced
    PROVE  IInv'
<1> DEFINE p == proc[s]
           Q == Elems(p.paths)
<1>1. p \in Proc /\ Holds(s) /\ Keeps(p, file, loaded, raced) /\ StateInv /\ LockInv
  BY HeldIs DEF IInv
<1>2. /\ file' \in [Path -> Value] /\ \A q \in Path : Fits(q, file'[q])
      /\ \A q \in Path \ Q : file'[q] = file[q]
      /\ loaded' \in Jobs
  BY <1>1, OperationIs DEF StateInv
<1>3. StateInv'
  BY <1>1, <1>2 DEF StateInv
<1> HIDE DEF Q
<1>5. Keeps(c, file', loaded', raced')
  <2>1. p.base \in Base /\ Len(p.saved) = Len(p.paths) /\ (~p.external => loaded = p.base[2])
    BY <1>1 DEF Keeps
  <2>2. \A i \in DOMAIN p.paths : Fits(p.paths[i], p.saved[i])
                                   /\ (p.paths[i] \notin raced => p.saved[i] = p.base[1][p.paths[i]])
    BY <1>1 DEF Keeps
  <2>3. \A q \in Path \ raced : q \notin Q => file'[q] = p.base[1][q]
    BY <1>1, <1>2 DEF Keeps, Q
  <2> QED
    BY <2>1, <2>2, <2>3 DEF Keeps, Q, Onward
<1>6. LockInv' /\ CommandInv'
  BY <1>1, <1>5, CommandStep DEF Onward
<1> QED
  BY <1>3, <1>6 DEF IInv

LEMMA StepStep ==
    ASSUME IInv, NEW s \in Setup, Step(s)
    PROVE  IInv'
<1> DEFINE p == proc[s]
           op == Head(p.todo)
           rest == Tail(p.todo)
           Q == Elems(p.paths)
<1>1. p.at = "work" /\ build' = build /\ raced' = raced
  BY DEF Step, ghosts
<1>2. p \in Proc /\ Holds(s) /\ Keeps(p, file, loaded, raced) /\ StateInv /\ LockInv
  BY <1>1, HeldIs DEF IInv
<1>3. p.todo \in Seq(OpsOn(Q)) /\ p.left \in 0..Len(p.paths) /\ Len(p.paths) \in Nat
  BY <1>2 DEF Keeps, Proc
<1>4. /\ rest \in Seq(OpsOn(Q)) /\ IsLoaded(op) \in BOOLEAN
      /\ ~IsLoaded(op) => NewLoaded(op) = loaded
      /\ op.op = "edit" => NewFile(op) = file /\ NewLoaded(op) = loaded
      /\ op.op = "edit" /\ Can(op) => EditOp(op.path[1]) \in OpsOn(Q)
      /\ NewFile(op) \in [Path -> Value] /\ \A q \in Path : Fits(q, NewFile(op)[q])
      /\ NewLoaded(op) \in Jobs
  BY <1>1, OperationIs
<1>5. CASE ~Can(op)
  <2> DEFINE c == [p EXCEPT !.at = "undo", !.left = Len(p.paths)]
  <2>1. proc' = [proc EXCEPT ![s] = c] /\ UNCHANGED <<file, loaded>>
    BY <1>5 DEF Step
  <2>2. /\ c.at = "undo" /\ c.left = Len(p.paths) /\ c.todo = p.todo /\ c.paths = p.paths
        /\ c.saved = p.saved /\ c.base = p.base /\ c.external = p.external /\ c \in Proc
    BY <1>2, <1>3 DEF Proc
  <2> HIDE DEF c
  <2>3. Onward(p, c)
    BY <1>3, <2>2 DEF Onward
  <2>4. ~c.external => loaded' = loaded
    BY <2>1
  <2> QED
    BY <1>1, <2>1, <2>3, <2>4, WorkStep
<1>6. CASE Can(op)
  <2>1. /\ file' = NewFile(op) /\ loaded' = NewLoaded(op)
        /\ IF op.op = "edit"
           THEN proc' = [proc EXCEPT ![s].todo = <<EditOp(op.path[1])>> \o rest]
           ELSE IF rest = << >> THEN Ends(s)
           ELSE proc' = [proc EXCEPT ![s].todo = rest, ![s].external = @ \/ IsLoaded(op)]
    BY <1>6 DEF Step
  <2>2. CASE op.op = "edit"
    <3> DEFINE todo == <<EditOp(op.path[1])>> \o rest
               c == [p EXCEPT !.todo = todo]
    <3>1. todo \in Seq(OpsOn(Q)) /\ todo # << >>
      BY <1>4, <1>6, <2>2, PushIs
    <3>2. proc' = [proc EXCEPT ![s] = c]
      BY <2>1, <2>2
    <3> HIDE DEF todo
    <3>3. /\ c.at = "work" /\ c.left = p.left /\ c.todo = todo /\ c.paths = p.paths
          /\ c.saved = p.saved /\ c.base = p.base /\ c.external = p.external /\ c \in Proc
      BY <1>1, <1>2, <3>1, OpsAreRecords DEF Proc
    <3> HIDE DEF c
    <3>4. Onward(p, c)
      BY <1>3, <3>1, <3>3 DEF Onward
    <3>5. loaded' = loaded /\ file' = file
      BY <1>4, <2>1, <2>2
    <3> QED
      BY <1>1, <3>2, <3>4, <3>5, WorkStep
  <2>3. CASE op.op # "edit" /\ rest = << >>
    <3>1. Ends(s)
      BY <2>1, <2>3
    <3>2. LockInv' /\ CommandInv'
      BY <1>2, <3>1, EndStep
    <3>3. StateInv'
      BY <1>1, <1>2, <1>4, <2>1 DEF StateInv
    <3> QED
      BY <3>2, <3>3 DEF IInv
  <2>4. CASE op.op # "edit" /\ rest # << >>
    <3> DEFINE external == p.external \/ IsLoaded(op)
               c == [p EXCEPT !.todo = rest, !.external = external]
    <3>1. proc' = [proc EXCEPT ![s] = c]
      BY <2>1, <2>4
    <3>2. external \in BOOLEAN /\ (~external => ~p.external /\ ~IsLoaded(op))
      BY <1>2, <1>4 DEF Proc
    <3> HIDE DEF external, rest
    <3>3. /\ c.at = "work" /\ c.left = p.left /\ c.todo = rest /\ c.paths = p.paths
          /\ c.saved = p.saved /\ c.base = p.base /\ c.external = external /\ c \in Proc
      BY <1>1, <1>2, <1>4, <3>2, OpsAreRecords DEF Proc
    <3> HIDE DEF c
    <3>4. Onward(p, c)
      BY <1>3, <1>4, <2>4, <3>2, <3>3 DEF Onward, rest
    <3>5. ~c.external => loaded' = loaded
      BY <1>4, <2>1, <3>2, <3>3
    <3> QED
      BY <1>1, <2>1, <3>1, <3>4, <3>5, WorkStep
  <2> QED
    BY <2>2, <2>3, <2>4
<1> QED
  BY <1>5, <1>6

LEMMA FaultStep ==
    ASSUME IInv, NEW s \in Setup, Fault(s)
    PROVE  IInv'
<1> DEFINE p == proc[s]
           op == Head(p.todo)
           Q == Elems(p.paths)
<1>1. PICK tried \in BOOLEAN :
        /\ \/ UNCHANGED <<file, loaded>>
           \/ tried /\ Can(op) /\ file' = NewFile(op) /\ loaded' = NewLoaded(op)
        /\ proc' = [proc EXCEPT ![s].at = "undo", ![s].left = Len(proc[s].paths),
                                ![s].external = @ \/ (tried /\ IsLoaded(op))]
  BY DEF Fault
<1>2. p.at = "work" /\ build' = build /\ raced' = raced
  BY DEF Fault, ghosts, Trouble, Spend
<1>3. p \in Proc /\ Keeps(p, file, loaded, raced)
  BY <1>2, HeldIs
<1>4. p.todo \in Seq(OpsOn(Q)) /\ Len(p.paths) \in Nat
  BY <1>3 DEF Keeps, Proc
<1>5. IsLoaded(op) \in BOOLEAN /\ (~IsLoaded(op) => NewLoaded(op) = loaded)
  BY <1>2, OperationIs
<1> DEFINE external == p.external \/ (tried /\ IsLoaded(op))
           left == Len(p.paths)
           c == [p EXCEPT !.at = "undo", !.left = left, !.external = external]
<1>6. proc' = [proc EXCEPT ![s] = c]
  BY <1>1
<1>7. external \in BOOLEAN /\ (~external => ~p.external /\ loaded' = loaded)
  BY <1>1, <1>3, <1>5 DEF Proc
<1>8. left \in 0..Len(p.paths) /\ left \in Nat
  BY <1>4
<1> HIDE DEF external, left
<1>9. /\ c.at = "undo" /\ c.left = left /\ c.todo = p.todo /\ c.paths = p.paths
      /\ c.saved = p.saved /\ c.base = p.base /\ c.external = external /\ c \in Proc
  BY <1>3, <1>4, <1>7, <1>8 DEF Proc
<1> HIDE DEF c
<1>10. Onward(p, c)
  BY <1>4, <1>7, <1>8, <1>9 DEF Onward
<1>11. (file' = file \/ file' = NewFile(op)) /\ (loaded' = loaded \/ loaded' = NewLoaded(op))
  BY <1>1
<1>12. ~c.external => loaded' = loaded
  BY <1>7, <1>9
<1> QED
  BY <1>2, <1>6, <1>10, <1>11, <1>12, WorkStep

LEMMA UndoStep ==
    ASSUME IInv, NEW s \in Setup, Undo(s)
    PROVE  IInv'
<1> DEFINE p == proc[s]
           n == p.left
           path == p.paths[n]
           Q == Elems(p.paths)
           left == n - 1
           c == [p EXCEPT !.left = left]
<1>1. /\ p.at = "undo" /\ n > 0 /\ loaded' = loaded /\ build' = build /\ raced' = raced
      /\ proc' = [proc EXCEPT ![s].left = left]
      /\ file' = [file EXCEPT ![path] = p.saved[n]] \/ file' = file
  BY DEF Undo
<1>2. p \in Proc /\ Holds(s) /\ Keeps(p, file, loaded, raced) /\ StateInv /\ LockInv
  BY <1>1, HeldIs DEF IInv
<1>3. p.paths \in Seq(Path) /\ Len(p.paths) \in Nat /\ DOMAIN p.paths = 1..Len(p.paths)
      /\ n \in 0..Len(p.paths)
  BY <1>2 DEF Keeps, Proc
<1>4. left \in 0..Len(p.paths) /\ left \in Nat /\ n \in DOMAIN p.paths
  BY <1>1, <1>3
<1>5. path \in Path /\ path \in Q /\ Fits(path, p.saved[n])
  BY <1>1, <1>2, <1>3, <1>4 DEF Keeps, Elems
<1>6. p.saved[n] \in Value
  BY <1>5, FitsIs
<1>7. proc' = [proc EXCEPT ![s] = c]
  BY <1>1
<1>8. /\ file' \in [Path -> Value] /\ \A q \in Path : Fits(q, file'[q])
      /\ \A q \in Path \ Q : file'[q] = file[q]
  BY <1>1, <1>2, <1>5, <1>6 DEF StateInv
<1> HIDE DEF left, n, path
<1>9. /\ c.at = "undo" /\ c.left = left /\ c.todo = p.todo /\ c.paths = p.paths
      /\ c.saved = p.saved /\ c.base = p.base /\ c.external = p.external /\ c \in Proc
  BY <1>1, <1>2, <1>4 DEF Proc
<1> HIDE DEF c, Q
<1>10. Keeps(c, file', loaded', raced')
  <2>1. /\ p.base \in Base /\ Len(p.saved) = Len(p.paths) /\ (~p.external => loaded = p.base[2])
        /\ p.todo \in Seq(OpsOn(Q))
    BY <1>2, <1>1 DEF Keeps, Q
  <2>2. \A i \in DOMAIN p.paths : Fits(p.paths[i], p.saved[i])
                                   /\ (p.paths[i] \notin raced => p.saved[i] = p.base[1][p.paths[i]])
    BY <1>1, <1>2 DEF Keeps
  <2>3. \A q \in Path \ raced : q \notin Q => file'[q] = p.base[1][q]
    BY <1>2, <1>8 DEF Keeps, Q
  <2> QED
    BY <1>1, <1>4, <1>9, <2>1, <2>2, <2>3 DEF Keeps, Q
<1>11. LockInv' /\ CommandInv'
  BY <1>2, <1>7, <1>9, <1>10, CommandStep
<1>12. StateInv'
  BY <1>1, <1>2, <1>8 DEF StateInv
<1> QED
  BY <1>11, <1>12 DEF IInv

LEMMA ReportStep ==
    ASSUME IInv, NEW s \in Setup, Report(s) \/ Kill(s)
    PROVE  IInv'
<1>1. proc[s].at # "idle" /\ Ends(s) /\ UNCHANGED <<file, loaded, build, raced>>
  BY DEF Report, Kill
<1>2. LockInv' /\ CommandInv'
  BY <1>1, HeldIs, EndStep DEF IInv
<1>3. StateInv'
  BY <1>1 DEF IInv, StateInv
<1> QED
  BY <1>2, <1>3 DEF IInv

-----------------------------------------------------------------------------
(* Steps of the user, the package and the launcher *)

\* Without a command nothing is to be kept; otherwise what the user changes is raced.
LEMMA UserStep ==
    ASSUME IInv, NEW p \in Path, NEW v, Fits(p, v), file' = [file EXCEPT ![p] = v],
           raced' = IF LockFree THEN {} ELSE raced \cup {p}, UNCHANGED <<loaded, build, proc>>
    PROVE  IInv'
<1>1. StateInv /\ LockInv /\ CommandInv
  BY DEF IInv
<1>2. v \in Value
  BY FitsIs
<1>3. /\ file' \in [Path -> Value] /\ \A q \in Path : Fits(q, file'[q])
      /\ \A q \in Path \ {p} : file'[q] = file[q]
  BY <1>1, <1>2 DEF StateInv
<1>4. StateInv'
  BY <1>1, <1>3 DEF StateInv
<1>5. LockInv'
  BY <1>1 DEF LockInv, Holds
<1>6. ASSUME NEW s \in Setup, Holds(s)'
      PROVE  Keeps(proc[s], file', loaded, raced')
  <2>1. Holds(s) /\ Keeps(proc[s], file, loaded, raced) /\ ~LockFree
    BY <1>1, <1>6 DEF Holds, CommandInv, LockFree
  <2>2. raced' = raced \cup {p}
    BY <2>1
  <2> QED
    BY <1>3, <2>1, <2>2 DEF Keeps
<1>7. CommandInv'
  BY <1>6 DEF CommandInv
<1> QED
  BY <1>4, <1>5, <1>7 DEF IInv

LEMMA EditedIs ==
    ASSUME StateInv, NEW h \in Harness, NEW c \in Config, NEW d \in Edited(h, c)
    PROVE  d \in Config
<1>1. Wanted(h) \subseteq Item /\ RecordOf(h) \in Record \cup {NoRecord}
  BY WantedIs, RecordIs
<1>2. h \in Owned => RecordOf(h).own \subseteq Item
  BY <1>1 DEF Owned, Record
<1>3. CASE d = [c EXCEPT !.text = ~@]
  BY <1>3 DEF Config
<1>4. CASE d = [c EXCEPT !.veto = ~@ /\ h # "codex"]
  BY <1>4 DEF Config
<1>5. CASE \E i \in Present(c) : d = [c EXCEPT !.setup = @ \ {i}, !.user = @ \ {i}]
  BY <1>5 DEF Config
<1>6. CASE \E i \in Wanted(h) : d = [c EXCEPT !.user = @ \cup {i},
                                              !.box = IF @ = "no" /\ h # "hermes" THEN "user" ELSE @]
  <2>1. PICK i \in Item : d = [c EXCEPT !.user = @ \cup {i},
                                        !.box = IF @ = "no" /\ h # "hermes" THEN "user" ELSE @]
    BY <1>1, <1>6
  <2> DEFINE user == c.user \cup {i}
             box == IF c.box = "no" /\ h # "hermes" THEN "user" ELSE c.box
  <2>2. user \subseteq Item /\ box \in Author
    BY DEF Config, Author
  <2>3. d = [c EXCEPT !.user = user, !.box = box]
    BY <2>1
  <2> HIDE DEF user, box
  <2> QED
    BY <2>2, <2>3 DEF Config
<1>7. CASE /\ h \in Owned
           /\ \E i \in RecordOf(h).own :
                d = [c EXCEPT !.setup = @ \cup {i},
                              !.box = IF @ # "no" \/ h = "hermes" THEN @
                                      ELSE IF RecordOf(h).box THEN "setup" ELSE "user"]
  <2> DEFINE box == IF c.box # "no" \/ h = "hermes" THEN c.box
                    ELSE IF RecordOf(h).box THEN "setup" ELSE "user"
  <2>1. PICK i \in Item : d = [c EXCEPT !.setup = @ \cup {i}, !.box = box]
    BY <1>2, <1>7
  <2> DEFINE setup == c.setup \cup {i}
  <2>2. setup \subseteq Item /\ box \in Author
    <3>1. c.box \in Author /\ c.setup \subseteq Item /\ {"setup", "user"} \subseteq Author
      BY DEF Config, Author
    <3>2. CASE c.box # "no" \/ h = "hermes"
      BY <3>1, <3>2
    <3>3. CASE ~(c.box # "no" \/ h = "hermes") /\ RecordOf(h).box
      BY <3>1, <3>3
    <3>4. CASE ~(c.box # "no" \/ h = "hermes") /\ ~RecordOf(h).box
      BY <3>1, <3>4
    <3> QED
      BY <3>1, <3>2, <3>3, <3>4
  <2>3. d = [c EXCEPT !.setup = setup, !.box = box]
    BY <2>1
  <2> HIDE DEF setup, box
  <2> QED
    BY <2>2, <2>3 DEF Config
<1> QED
  BY <1>3, <1>4, <1>5, <1>6, <1>7 DEF Edited

LEMMA EditStep ==
    ASSUME IInv, NEW h \in Harness, EditConfig(h) \/ EditLink(h)
    PROVE  IInv'
<1>1. StateInv
  BY DEF IInv
<1>2. CASE EditConfig(h)
  <2>1. PICK c \in Edited(h, View(At(h, "config"))) : file' = [file EXCEPT ![<<h, "config">>] = c]
    BY <1>2 DEF EditConfig
  <2>2. c \in Config
    BY <1>1, <2>1, ConfigIs, EditedIs
  <2>3. Fits(<<h, "config">>, c) /\ <<h, "config">> \in Path
    BY <2>2, PathsAre DEF Fits, Manifest, Marker, LinkName, Label
  <2>4. raced' = IF LockFree THEN {} ELSE raced \cup {<<h, "config">>}
    BY <1>2 DEF EditConfig
  <2>5. UNCHANGED <<loaded, build, proc>>
    BY <1>2 DEF EditConfig
  <2> QED
    BY <2>1, <2>3, <2>4, <2>5, UserStep
<1>3. CASE EditLink(h)
  <2>1. PICK v \in {NoFile} \cup [kind : {"link"}, to : {"roundtable", "elsewhere"}, by : {"user"}] :
          file' = [file EXCEPT ![<<h, "skill">>] = v]
    BY <1>3 DEF EditLink
  <2>2. v \in {NoFile} \cup LinkFile
    BY DEF LinkFile
  <2>3. Fits(<<h, "skill">>, v) /\ <<h, "skill">> \in Path
    BY <2>2, PathsAre DEF Fits, Manifest, Marker, LinkName, Label
  <2>4. raced' = IF LockFree THEN {} ELSE raced \cup {<<h, "skill">>}
    BY <1>3 DEF EditLink
  <2>5. UNCHANGED <<loaded, build, proc>>
    BY <1>3 DEF EditLink
  <2> QED
    BY <2>1, <2>3, <2>4, <2>5, UserStep
<1> QED
  BY <1>2, <1>3

LEMMA UpgradeStep ==
    ASSUME IInv, Upgrade
    PROVE  IInv'
<1>1. UNCHANGED <<file, loaded, proc, raced>> /\ build < MaxBuild /\ build' = build + 1
  BY DEF Upgrade, ghosts
<1>2. build' \in 1..MaxBuild
  BY <1>1, BoundsAre DEF IInv, StateInv
<1>3. StateInv'
  BY <1>1, <1>2 DEF IInv, StateInv
<1>4. LockInv' /\ CommandInv'
  BY <1>1 DEF IInv, LockInv, CommandInv, Holds
<1> QED
  BY <1>3, <1>4 DEF IInv

LEMMA ReloadStep ==
    ASSUME IInv, Reload
    PROVE  IInv'
<1>1. /\ LockFree /\ UNCHANGED <<build, proc, raced>> /\ loaded' = [l \in Label |-> build]
      /\ file' = [file EXCEPT ![Marker] = NoFile]
  BY DEF Reload, ghosts
<1>2. StateInv /\ LockInv
  BY DEF IInv
<1>3. loaded' \in Jobs
  <2>1. build \in 0..MaxBuild
    BY <1>2, BoundsAre DEF StateInv
  <2> QED
    BY <1>1, <2>1 DEF Jobs
<1>4. file' \in [Path -> Value] /\ \A q \in Path : Fits(q, file'[q])
  BY <1>1, <1>2, NothingFits DEF StateInv, Value
<1>5. StateInv'
  BY <1>1, <1>2, <1>3, <1>4 DEF StateInv
<1>6. LockInv' /\ CommandInv'
  BY <1>1, <1>2 DEF LockInv, CommandInv, Holds, LockFree
<1> QED
  BY <1>5, <1>6 DEF IInv

-----------------------------------------------------------------------------
(* The hosts of Init *)

LEMMA HostIs ==
    ASSUME NEW f, f = [p \in Path |-> f[p]], \A p \in Path : Fits(p, f[p])
    PROVE  f \in [Path -> Value]
<1>1. \A p \in Path : f[p] \in Value
  BY FitsIs
<1> QED
  BY <1>1

LEMMA NewHostFits == \A p \in Path : Fits(p, NewHost[p])
BY NothingFits DEF NewHost

LEMMA UserHostFits == \A p \in Path : Fits(p, UserHost[p])
<1> SUFFICES ASSUME NEW p \in Path PROVE Fits(p, UserHost[p])
  OBVIOUS
<1>1. CASE p[2] = "config"
  <2> DEFINE c == [Empty EXCEPT !.text = TRUE]
  <2>1. UserHost[p] = c
    BY <1>1 DEF UserHost
  <2>2. c \in Config
    BY DEF Empty, Config, Author
  <2> HIDE DEF c
  <2> QED
    BY <1>1, <2>1, <2>2 DEF Fits, Manifest, Marker, LinkName, Label
<1>2. CASE p[2] # "config" /\ p = <<"codex", "app">>
  <2> DEFINE v == [kind |-> "plist", gen |-> 1, by |-> "user"]
  <2>1. UserHost[p] = v
    BY <1>2 DEF UserHost
  <2>2. v \in Plist
    BY BoundsAre DEF Plist
  <2> HIDE DEF v
  <2> QED
    BY <1>2, <2>1, <2>2 DEF Fits, Manifest, Marker, LinkName, Label
<1>3. CASE p[2] # "config" /\ p # <<"codex", "app">>
  <2>1. UserHost[p] = NoFile
    BY <1>3 DEF UserHost
  <2> QED
    BY <2>1, NothingFits
<1> QED
  BY <1>1, <1>2, <1>3

LEMMA OldHostFits == "claude" \in Harness => \A p \in Path : Fits(p, OldHost[p])
<1> SUFFICES ASSUME "claude" \in Harness, NEW p \in Path PROVE Fits(p, OldHost[p])
  OBVIOUS
<1>1. CASE p = Manifest
  <2> DEFINE of == [h \in Harness |-> IF h = "claude" THEN OldRecord ELSE NoRecord]
             m == [kind |-> "manifest", of |-> of]
  <2>1. OldHost[p] = m
    BY <1>1 DEF OldHost, Manifest
  <2>2. OldRecord \in Record /\ OldRecord.links \subseteq Links("claude") /\ OldRecord.plists = {}
    BY BoundsAre DEF OldRecord, Record, Item, LinkName, Links
  <2>3. /\ of \in [Harness -> Record \cup {NoRecord}]
        /\ \A h \in Harness : of[h] # NoRecord => h = "claude" /\ of[h] = OldRecord
    BY <2>2
  <2> HIDE DEF of
  <2>4. m \in ManifestFile /\ m.of = of
    BY <2>3 DEF ManifestFile
  <2> HIDE DEF m
  <2>5. m \in GoodManifest
    BY <2>2, <2>3, <2>4 DEF GoodManifest
  <2> QED
    BY <1>1, <2>1, <2>5 DEF Fits, Manifest, Marker, LinkName, Label
<1>2. CASE p # Manifest /\ p = <<"claude", "config">>
  <2> DEFINE c == [Empty EXCEPT !.setup = {"start", "gate"}, !.box = "setup"]
  <2>1. OldHost[p] = c
    BY <1>2 DEF OldHost
  <2>2. c \in Config
    BY DEF Empty, Config, Author, Item
  <2> HIDE DEF c
  <2> QED
    BY <1>2, <2>1, <2>2 DEF Fits, Manifest, Marker, LinkName, Label
<1>3. CASE p # Manifest /\ p = <<"claude", "skill">>
  <2>1. OldHost[p] = OwnLink
    BY <1>3 DEF OldHost
  <2>2. OwnLink \in LinkFile
    BY DEF OwnLink, LinkFile
  <2> QED
    BY <1>3, <2>1, <2>2 DEF Fits, Manifest, Marker, LinkName, Label
<1>4. CASE p # Manifest /\ p # <<"claude", "config">> /\ p # <<"claude", "skill">>
  <2>1. OldHost[p] = NoFile
    BY <1>4 DEF OldHost
  <2> QED
    BY <2>1, NothingFits
<1> QED
  BY <1>1, <1>2, <1>3, <1>4

LEMMA FullRecordIs ==
    ASSUME NEW h \in Harness
    PROVE  FullRecord(h) \in Record /\ FullRecord(h).links = Links(h)
           /\ (h # "codex" => FullRecord(h).plists = {})
<1> DEFINE box == h # "hermes"
           links == Links(h)
           plists == IF h = "codex" THEN Label ELSE {}
           gen == IF h = "codex" THEN 1 ELSE 0
<1>1. /\ Wanted(h) \subseteq Item /\ links \subseteq LinkName /\ plists \subseteq Label
      /\ box \in BOOLEAN /\ gen \in 0..MaxBuild /\ (h # "codex" => plists = {})
  BY WantedIs, BoundsAre DEF Links, LinkName
<1>2. FullRecord(h) = [kind |-> "record", has |-> Wanted(h), own |-> Wanted(h), box |-> box,
                       made |-> TRUE, links |-> links, plists |-> plists, gen |-> gen]
  BY DEF FullRecord
<1> HIDE DEF box, links, plists, gen
<1>3. FullRecord(h) \in Record /\ FullRecord(h).links = links /\ FullRecord(h).plists = plists
  BY <1>1, <1>2 DEF Record
<1> QED
  BY <1>1, <1>3 DEF links

LEMMA FullHostFits == \A p \in Path : Fits(p, FullHost[p])
<1> SUFFICES ASSUME NEW p \in Path PROVE Fits(p, FullHost[p])
  OBVIOUS
<1>1. CASE p = Manifest
  <2> DEFINE of == [h \in Harness |-> FullRecord(h)]
             m == [kind |-> "manifest", of |-> of]
  <2>1. FullHost[p] = m
    BY <1>1 DEF FullHost, Manifest, Marker, Label
  <2>2. /\ of \in [Harness -> Record \cup {NoRecord}]
        /\ \A h \in Harness : of[h].links \subseteq Links(h) /\ (h # "codex" => of[h].plists = {})
    BY FullRecordIs
  <2> HIDE DEF of
  <2>3. m \in ManifestFile /\ m.of = of
    BY <2>2 DEF ManifestFile
  <2> HIDE DEF m
  <2>4. m \in GoodManifest
    BY <2>2, <2>3 DEF GoodManifest
  <2> QED
    BY <1>1, <2>1, <2>4 DEF Fits, Manifest, Marker, LinkName, Label
<1>2. CASE p = Marker
  <2>1. FullHost[p] = NoFile
    BY <1>2 DEF FullHost, Manifest, Marker, Label
  <2> QED
    BY <2>1, NothingFits
<1>3. CASE p[2] = "config"
  <2> DEFINE box == IF p[1] = "hermes" THEN "no" ELSE "setup"
             c == [Empty EXCEPT !.setup = Wanted(p[1]), !.box = box]
  <2>1. FullHost[p] = c
    BY <1>3 DEF FullHost, Manifest, Marker, Label
  <2>2. Wanted(p[1]) \subseteq Item /\ box \in Author
    BY <1>3, PathIs, WantedIs DEF Author
  <2> HIDE DEF box
  <2>3. c \in Config
    BY <2>2 DEF Empty, Config, Author
  <2> HIDE DEF c
  <2> QED
    BY <1>3, <2>1, <2>3 DEF Fits, Manifest, Marker, LinkName, Label
<1>4. CASE p[2] \in Label
  <2> DEFINE v == [kind |-> "plist", gen |-> 1, by |-> "setup"]
  <2>1. FullHost[p] = v
    BY <1>4 DEF FullHost, Manifest, Marker, Label
  <2>2. v \in Plist
    BY BoundsAre DEF Plist
  <2> HIDE DEF v
  <2> QED
    BY <1>4, <2>1, <2>2 DEF Fits, Manifest, Marker, LinkName, Label
<1>5. CASE p[2] \in LinkName
  <2>1. FullHost[p] = OwnLink
    BY <1>5 DEF FullHost, Manifest, Marker, Label, LinkName
  <2>2. OwnLink \in LinkFile
    BY DEF OwnLink, LinkFile
  <2> QED
    BY <1>5, <2>1, <2>2 DEF Fits, Manifest, Marker, LinkName, Label
<1> QED
  BY <1>1, <1>2, <1>3, <1>4, <1>5, PathIs DEF LinkName

LEMMA InitInv == Init => IInv
<1> SUFFICES ASSUME Init PROVE IInv
  OBVIOUS
<1>1. file \in [Path -> Value] /\ \A p \in Path : Fits(p, file[p])
  <2>1. \A p \in Path : Fits(p, file[p])
    BY NewHostFits, UserHostFits, OldHostFits, FullHostFits DEF Init
  <2>2. file = [p \in Path |-> file[p]]
    BY DEF Init, NewHost, UserHost, OldHost, FullHost
  <2> QED
    BY <2>1, <2>2, HostIs
<1>2. loaded \in Jobs
  BY BoundsAre DEF Init, Jobs
<1>3. build \in 1..MaxBuild /\ raced = {}
  BY BoundsAre DEF Init
<1>4. StateInv
  BY <1>1, <1>2, <1>3 DEF StateInv
<1>5. proc \in [Setup -> Proc] /\ \A s \in Setup : proc[s] = IdleProc /\ ~Holds(s)
  BY IdleIs DEF Init, Holds
<1> QED
  BY <1>4, <1>5 DEF IInv, LockInv, CommandInv

\* The invariant: what is in the files, one command at a time, and a command that works
\* on the paths of its snapshots, which keep what it found (_snapshot_path, _rollback_snapshots).
THEOREM Invariant == Spec => []IInv
<1>1. Init => IInv
  BY InitInv
<1>2. IInv /\ [Next]_vars => IInv'
  <2> SUFFICES ASSUME IInv, [Next]_vars PROVE IInv'
    OBVIOUS
  <2>1. ASSUME NEW s \in Setup, \/ Begin(s) \/ Snapshot(s) \/ Step(s) \/ Fault(s)
                                \/ Undo(s) \/ Report(s) \/ Kill(s)
        PROVE  IInv'
    BY <2>1, BeginStep, SnapshotStep, StepStep, FaultStep, UndoStep, ReportStep
  <2>2. ASSUME NEW h \in Harness, EditConfig(h) \/ EditLink(h)
        PROVE  IInv'
    BY <2>2, EditStep
  <2>3. CASE Upgrade \/ Reload
    BY <2>3, UpgradeStep, ReloadStep
  <2>4. CASE UNCHANGED vars
    BY <2>4 DEF vars, ghosts, IInv, StateInv, LockInv, CommandInv, Holds
  <2> QED
    BY <2>1, <2>2, <2>3, <2>4 DEF Next
<1> QED
  BY <1>1, <1>2, PTL DEF Spec

\* Every file, job and operation has its type, and at most one command holds the lock.
THEOREM TypeCorrect == Spec => []TypeOK
<1>1. IInv => TypeOK
  <2> SUFFICES ASSUME IInv PROVE TypeOK
    OBVIOUS
  <2>1. StateInv /\ LockInv
    BY DEF IInv
  <2>2. ASSUME NEW h \in Harness
        PROVE  /\ At(h, "config") \in {NoFile} \cup Config
               /\ \A l \in Links(h) : At(h, l) \in {NoFile} \cup LinkFile
    <3>1. At(h, "config") \in {NoFile} \cup Config
      BY <2>1, ConfigIs
    <3>2. \A l \in Links(h) : At(h, l) \in {NoFile} \cup LinkFile
      BY <2>1, PathsAre DEF StateInv, Fits, At
    <3> QED
      BY <3>1, <3>2
  <2>4. "codex" \in Harness => /\ \A l \in Label : At("codex", l) \in {NoFile} \cup Plist
                               /\ file[Marker] \in {NoFile} \cup MarkerFile
    BY <2>1, PlistIs, PathsAre DEF StateInv, Fits
  <2>5. file[Manifest] \in {NoFile} \cup ManifestFile
    BY <2>1, PathsAre DEF StateInv, Fits, GoodManifest
  <2>6. loaded \in [Label -> 0..MaxBuild] /\ build \in 1..MaxBuild
    BY <2>1 DEF StateInv, Jobs
  <2>7. \A s \in Setup : /\ proc[s].at \in {"idle", "snap", "work", "undo"}
                         /\ \A i \in DOMAIN proc[s].todo : proc[s].todo[i].path \in Path
    <3> SUFFICES ASSUME NEW s \in Setup
                 PROVE  /\ proc[s].at \in {"idle", "snap", "work", "undo"}
                        /\ \A i \in DOMAIN proc[s].todo : proc[s].todo[i].path \in Path
      OBVIOUS
    <3>1. proc[s].at \in {"idle", "snap", "work", "undo"} /\ proc[s].todo \in Seq(OpRecord)
      BY <2>1 DEF LockInv, Proc
    <3>2. \A i \in DOMAIN proc[s].todo : proc[s].todo[i] \in OpRecord
      BY <3>1
    <3> QED
      BY <3>1, <3>2 DEF OpRecord
  <2>8. \A s, t \in Setup : Holds(s) /\ Holds(t) => s = t
    BY <2>1 DEF LockInv
  <2>9. \A h \in Harness :
          /\ At(h, "config") \in {NoFile} \cup Config
          /\ \A l \in Links(h) : At(h, l) \in {NoFile} \cup LinkFile
    BY <2>2
  <2> QED
    BY <2>4, <2>5, <2>6, <2>7, <2>8, <2>9 DEF TypeOK
<1> QED
  BY <1>1, Invariant, PTL

\* A rollback that says that everything was restored has left no trace of the command: every
\* path that the user left alone is as it was, the manifest and the reload marker included, and
\* the launchd jobs are unless it says that they may have changed (_rollback_snapshots).
THEOREM NoTraceLeft == Spec => []FailureLeavesNoTrace
<1>1. IInv => FailureLeavesNoTrace
  <2> SUFFICES ASSUME IInv, NEW s \in Setup, proc[s].at = "undo", Restored(s)
               PROVE  /\ \A p \in Path \ raced : file[p] = proc[s].base[1][p]
                      /\ ~proc[s].external => loaded = proc[s].base[2]
    BY DEF FailureLeavesNoTrace
  <2>1. Keeps(proc[s], file, loaded, raced)
    BY HeldIs
  <2>2. \A i \in DOMAIN proc[s].paths : proc[s].paths[i] \notin raced =>
          file[proc[s].paths[i]] = proc[s].base[1][proc[s].paths[i]]
    BY <2>1 DEF Keeps, Restored
  <2>3. \A p \in Path \ raced : p \notin Elems(proc[s].paths) => file[p] = proc[s].base[1][p]
    BY <2>1 DEF Keeps
  <2>4. \A p \in Path \ raced : file[p] = proc[s].base[1][p]
    BY <2>2, <2>3 DEF Elems
  <2>5. ~proc[s].external => loaded = proc[s].base[2]
    BY <2>1 DEF Keeps
  <2> QED
    BY <2>4, <2>5
<1> QED
  BY <1>1, Invariant, PTL

-----------------------------------------------------------------------------
(* The jobs of codex: what JobsMatchPlists needs of a command under way *)

\* The paths it speaks of.
App == <<"codex", "app">>
Crit == {Marker, App, Manifest}

\* What a manifest says of codex, and whether it lists the plist of the app-server.
RecIn(f) == IF f[Manifest] = NoFile THEN NoRecord ELSE f[Manifest].of["codex"]
Lists(rec) == rec # NoRecord /\ "app" \in rec.plists

\* The two parts of JobsMatchPlists, of files f and jobs j.
Covered(f, j) ==
    RecIn(f) # NoRecord /\ j["app"] # 0 =>
        /\ f[App] # NoFile
        /\ Lists(RecIn(f)) /\ f[App].gen # j["app"] => f[Marker] # NoFile
Exact(f, j) ==
    Lists(RecIn(f)) /\ j["app"] # 0 /\ f[App].gen # j["app"] => f[Marker] = MarkerOf(f[App].gen)

WritesAt(p) == {o \in OpRecord : o.op \in Writes /\ o.path = p}
Pending(q, A) == Elems(q) \cap A # {}
Before(q, A, B) == \A i \in DOMAIN q : q[i] \in B => \E k \in DOMAIN q : k < i /\ q[k] \in A

\* The plist is the new one, behind its marker.
Replaced(f, g) == f[App].kind = "plist" /\ f[App].gen = g /\ f[Marker] = MarkerOf(g)

\* The record of an apply, on top of the files b.
Renewed(b, rec) ==
    IF RecIn(b) # NoRecord THEN rec # NoRecord /\ rec.plists = RecIn(b).plists
    ELSE Lists(rec) => b[App] = NoFile
Entered(b, rec) == RecIn(b) = NoRecord /\ rec # NoRecord /\ b[App] = NoFile

\* An apply that began with b and j0 has come to f and j.
ApplyFiles(b, j0, f, j, g) ==
    /\ j["app"] \in {j0["app"], 0}
    /\ f[Marker] \in {b[Marker], MarkerOf(g)}
    /\ f[App] = b[App] \/ Replaced(f, g)
    /\ Renewed(b, RecIn(f))
    /\ Entered(b, RecIn(f)) => Replaced(f, g)

ApplyOp(o, b, g) ==
    /\ o \in WritesAt(Marker) => o = Put(Marker, MarkerOf(g))
    /\ o \in WritesAt(App) => o.op = "put" /\ o.value.kind = "plist" /\ o.value.gen = g
    /\ o \in WritesAt(Manifest) => o.op = "put" /\ o.value # NoFile /\ Renewed(b, o.value.of["codex"])

ApplyTodo(q, b, f, g) ==
    LET done == Replaced(f, g) \/ Pending(q, WritesAt(App))
    IN  /\ \A i \in DOMAIN q :
             /\ ApplyOp(q[i], b, g)
             /\ q[i] \in WritesAt(Manifest) =>
                    i = Len(q) /\ (Entered(b, q[i].value.of["codex"]) => done)
        /\ f[Marker] = MarkerOf(g) \/ Before(q, WritesAt(Marker), WritesAt(App))
        /\ f[Marker] # b[Marker] \/ Pending(q, WritesAt(Marker)) => done

\* The snapshots of an apply: the marker before the plist, the manifest last.
ApplyOrder(paths) ==
    /\ paths # <<>> /\ paths[Len(paths)] = Manifest
    /\ \A i, k \in DOMAIN paths : paths[i] = Marker /\ paths[k] = App => i < k

\* A removal that began with b and j0 has come to f and j: it has unloaded the job first.
RemoveFiles(b, j0, f, j) ==
    /\ RecIn(f) \in {RecIn(b), NoRecord}
    /\ j["app"] \in {j0["app"], 0}
    /\ j["app"] # 0 => f[App] = b[App] /\ (Lists(RecIn(b)) => f[Marker] = b[Marker])

Guarded(b) == WritesAt(App) \cup (IF Lists(RecIn(b)) THEN WritesAt(Marker) ELSE {})
RemoveTodo(q, b, j) ==
    /\ \A i \in DOMAIN q : q[i] \in WritesAt(Manifest) =>
         \/ q[i].op = "unlink"
         \/ q[i].op = "put" /\ q[i].value # NoFile /\ q[i].value.of["codex"] \in {NoRecord, RecIn(b)}
    /\ j["app"] = 0 \/ Before(q, {Op("bootout", App)}, Guarded(b))

\* What the rollback has passed is as it was.
Undone(c, f) ==
    c.at = "undo" => \A k \in DOMAIN c.paths : k > c.left /\ c.paths[k] \in Crit =>
        f[c.paths[k]] = c.base[1][c.paths[k]]

IsApply(c, f, j, g) ==
    /\ ApplyFiles(c.base[1], c.base[2], f, j, g) /\ ApplyOrder(c.paths)
    /\ c.at # "undo" => ApplyTodo(c.todo, c.base[1], f, g)
IsRemove(c, f, j) ==
    /\ RemoveFiles(c.base[1], c.base[2], f, j)
    /\ c.at # "undo" => RemoveTodo(c.todo, c.base[1], j)

OnCodex(c, f, j) ==
    /\ Covered(c.base[1], c.base[2])
    /\ Undone(c, f)
    /\ IsRemove(c, f, j) \/ \E g \in 1..MaxBuild : IsApply(c, f, j, g)

JobsInv ==
    "codex" \in Harness =>
        /\ raced \cap Crit = {}
        /\ ~broken =>
             /\ Covered(file, loaded)
             /\ LockFree /\ killed = {} => Exact(file, loaded)
             /\ \A s \in Setup : Holds(s) =>
                  /\ OnCodex(proc[s], file, loaded)
                  /\ killed = {} => Exact(proc[s].base[1], proc[s].base[2])

-----------------------------------------------------------------------------
(* JobsMatchPlists of one step of a command *)

LEMMA NothingElse ==
    /\ NoFile.kind = "none" /\ \A g : MarkerOf(g) # NoFile /\ MarkerOf(g).gen = g
    /\ \A f, g : Replaced(f, g) => f[App] # NoFile
BY DEF NoFile, MarkerOf, Replaced

LEMMA CritIs ==
    /\ Marker # App /\ Marker # Manifest /\ App # Manifest
    /\ Crit = {Marker, App, Manifest} /\ Crit \cap {p \in Path : p[2] \in {"config", "skill", "plugin"}} = {}
    /\ "codex" \in Harness => Crit \subseteq Path
BY PathsAre DEF Marker, App, Manifest, Crit, Label

\* An apply keeps a plist for every job, and a marker for every new plist.
LEMMA CoveredByApply ==
    ASSUME NEW b, NEW j0, NEW f, NEW j, NEW g, Covered(b, j0), ApplyFiles(b, j0, f, j, g)
    PROVE  Covered(f, j)
<1> SUFFICES ASSUME RecIn(f) # NoRecord, j["app"] # 0
             PROVE  /\ f[App] # NoFile
                    /\ Lists(RecIn(f)) /\ f[App].gen # j["app"] => f[Marker] # NoFile
  BY DEF Covered
<1>1. /\ j["app"] = j0["app"] /\ f[Marker] \in {b[Marker], MarkerOf(g)}
      /\ f[App] = b[App] \/ Replaced(f, g)
      /\ Entered(b, RecIn(f)) => Replaced(f, g)
  BY DEF ApplyFiles
<1>2. CASE RecIn(b) # NoRecord
  <2>1. Lists(RecIn(f)) => Lists(RecIn(b))
    BY <1>2 DEF ApplyFiles, Renewed, Lists
  <2> QED
    BY <1>1, <1>2, <2>1, NothingElse DEF Covered, Replaced
<1>3. CASE RecIn(b) = NoRecord
  <2>1. Lists(RecIn(f)) => b[App] = NoFile
    BY <1>3 DEF ApplyFiles, Renewed
  <2>2. b[App] = NoFile => Replaced(f, g)
    BY <1>1, <1>3 DEF Entered
  <2> QED
    BY <1>1, <2>1, <2>2, NothingElse DEF Replaced
<1> QED
  BY <1>2, <1>3

\* At its end the marker is that of the plist.
LEMMA ExactByApply ==
    ASSUME NEW b, NEW j0, NEW f, NEW j, NEW g, Exact(b, j0), ApplyFiles(b, j0, f, j, g),
           f[Marker] = b[Marker] \/ Replaced(f, g)
    PROVE  Exact(f, j)
<1> SUFFICES ASSUME Lists(RecIn(f)), j["app"] # 0, f[App].gen # j["app"]
             PROVE  f[Marker] = MarkerOf(f[App].gen)
  BY DEF Exact
<1>1. /\ j["app"] = j0["app"]
      /\ f[App] = b[App] \/ Replaced(f, g)
      /\ Entered(b, RecIn(f)) => Replaced(f, g)
  BY DEF ApplyFiles
<1>2. CASE RecIn(b) # NoRecord
  <2>1. Lists(RecIn(b))
    BY <1>2 DEF ApplyFiles, Renewed, Lists
  <2> QED
    BY <1>1, <2>1 DEF Exact, Replaced
<1>3. CASE RecIn(b) = NoRecord
  BY <1>1, <1>3 DEF ApplyFiles, Renewed, Entered, Lists, Replaced
<1> QED
  BY <1>2, <1>3

\* A removal takes the plist, and the marker of one that it owns, from an unloaded job.
LEMMA CoveredByRemove ==
    ASSUME NEW b, NEW j0, NEW f, NEW j, Covered(b, j0), RemoveFiles(b, j0, f, j)
    PROVE  Covered(f, j)
BY DEF Covered, RemoveFiles, Lists

LEMMA ExactByRemove ==
    ASSUME NEW b, NEW j0, NEW f, NEW j, Exact(b, j0), RemoveFiles(b, j0, f, j)
    PROVE  Exact(f, j)
BY DEF Exact, RemoveFiles, Lists

LEMMA CoveredNow ==
    ASSUME NEW c, NEW f, NEW j, OnCodex(c, f, j)
    PROVE  Covered(f, j)
BY CoveredByApply, CoveredByRemove DEF OnCodex, IsApply, IsRemove

-----------------------------------------------------------------------------
(* The list of operations, one operation on *)

\* q is x and then r.
Cons(q, x, r) ==
    /\ q \in Seq(OpRecord) /\ r \in Seq(OpRecord) /\ Len(q) = Len(r) + 1
    /\ q[1] = x /\ \A i \in 1..Len(r) : q[i + 1] = r[i]

LEMMA TailCons ==
    ASSUME NEW q \in Seq(OpRecord), q # << >>
    PROVE  Cons(q, Head(q), Tail(q))
<1>1. /\ Tail(q) \in Seq(OpRecord) /\ Len(Tail(q)) = Len(q) - 1
      /\ \A i \in 1..Len(Tail(q)) : Tail(q)[i] = q[i + 1]
  BY HeadTailProperties
<1>2. Head(q) = q[1] /\ Len(q) \in Nat
  OBVIOUS
<1> QED
  BY <1>1, <1>2 DEF Cons

LEMMA PushCons ==
    ASSUME NEW x \in OpRecord, NEW r \in Seq(OpRecord)
    PROVE  Cons(<<x>> \o r, x, r)
<1>1. PICK a : a = <<x>>
  OBVIOUS
<1>2. a \in Seq(OpRecord) /\ Len(a) = 1 /\ a[1] = x
  BY <1>1
<1>3. /\ a \o r \in Seq(OpRecord) /\ Len(a \o r) = 1 + Len(r) /\ Len(r) \in Nat
      /\ \A i \in 1..(1 + Len(r)) : (a \o r)[i] = IF i <= 1 THEN a[i] ELSE r[i - 1]
  BY <1>2, ConcatProperties
<1>4. (a \o r)[1] = x /\ \A i \in 1..Len(r) : (a \o r)[i + 1] = r[i]
  BY <1>2, <1>3
<1> QED
  BY <1>1, <1>3, <1>4 DEF Cons

LEMMA ConsElems ==
    ASSUME NEW q, NEW x, NEW r, Cons(q, x, r)
    PROVE  Elems(q) = {x} \cup Elems(r) /\ Len(r) \in Nat /\ Len(q) \in Nat
<1>1. /\ DOMAIN q = 1..(Len(r) + 1) /\ DOMAIN r = 1..Len(r) /\ Len(r) \in Nat /\ Len(q) \in Nat
      /\ q[1] = x /\ \A i \in 1..Len(r) : q[i + 1] = r[i]
  BY DEF Cons
<1>2. \A i \in DOMAIN q : i = 1 \/ (i - 1 \in DOMAIN r /\ q[i] = r[i - 1])
  BY <1>1
<1>3. \A i \in DOMAIN r : i + 1 \in DOMAIN q /\ q[i + 1] = r[i]
  BY <1>1
<1>4. Elems(q) \subseteq {x} \cup Elems(r)
  BY <1>1, <1>2 DEF Elems
<1>5. 1 \in DOMAIN q
  BY <1>1
<1>6. {x} \cup Elems(r) \subseteq Elems(q)
  BY <1>1, <1>3, <1>5 DEF Elems
<1> QED
  BY <1>1, <1>4, <1>6

LEMMA ConsBefore ==
    ASSUME NEW q, NEW x, NEW r, Cons(q, x, r), NEW A, NEW B
    PROVE  /\ Before(q, A, B) => x \notin B
           /\ Before(q, A, B) /\ x \notin A => Before(r, A, B)
           /\ Before(r, A, B) /\ x \notin B => Before(q, A, B)
<1>1. /\ DOMAIN q = 1..(Len(r) + 1) /\ DOMAIN r = 1..Len(r) /\ Len(r) \in Nat
      /\ q[1] = x /\ \A i \in 1..Len(r) : q[i + 1] = r[i]
  BY DEF Cons
<1>2. \A i \in DOMAIN q : i = 1 \/ (i - 1 \in DOMAIN r /\ q[i] = r[i - 1])
  BY <1>1
<1>3. \A i \in DOMAIN r : i + 1 \in DOMAIN q /\ q[i + 1] = r[i]
  BY <1>1
<1>4. ASSUME Before(q, A, B) PROVE x \notin B
  <2>1. 1 \in DOMAIN q /\ ~ \E k \in DOMAIN q : k < 1
    BY <1>1
  <2> QED
    BY <1>1, <1>4, <2>1 DEF Before
<1>5. ASSUME Before(q, A, B), x \notin A PROVE Before(r, A, B)
  <2> SUFFICES ASSUME NEW i \in DOMAIN r, r[i] \in B
               PROVE  \E k \in DOMAIN r : k < i /\ r[k] \in A
    BY DEF Before
  <2>1. PICK k \in DOMAIN q : k < i + 1 /\ q[k] \in A
    BY <1>3, <1>5 DEF Before
  <2>2. k # 1
    BY <1>1, <1>5, <2>1
  <2>3. k - 1 \in DOMAIN r /\ r[k - 1] \in A /\ k - 1 < i
    BY <1>1, <1>2, <2>1, <2>2
  <2> QED
    BY <2>3
<1>6. ASSUME Before(r, A, B), x \notin B PROVE Before(q, A, B)
  <2> SUFFICES ASSUME NEW i \in DOMAIN q, q[i] \in B
               PROVE  \E k \in DOMAIN q : k < i /\ q[k] \in A
    BY DEF Before
  <2>1. i # 1 /\ i - 1 \in DOMAIN r /\ r[i - 1] \in B
    BY <1>1, <1>2, <1>6
  <2>2. PICK k \in DOMAIN r : k < i - 1 /\ r[k] \in A
    BY <1>6, <2>1 DEF Before
  <2>3. k + 1 \in DOMAIN q /\ q[k + 1] \in A /\ k + 1 < i
    BY <1>1, <1>3, <2>1, <2>2
  <2> QED
    BY <2>3
<1> QED
  BY <1>4, <1>5, <1>6

-----------------------------------------------------------------------------
(* One operation and the files of codex *)

LEMMA FileAfter ==
    ASSUME StateInv, "codex" \in Harness, NEW x \in OpRecord, NEW p \in Crit
    PROVE  /\ x \notin WritesAt(p) => NewFile(x)[p] = file[p]
           /\ x \in WritesAt(p) /\ x.op = "put" => NewFile(x)[p] = x.value
           /\ x \in WritesAt(p) /\ x.op = "unlink" => NewFile(x)[p] = NoFile
<1>1. p \in Path /\ file \in [Path -> Value] /\ x.path \in Path
  BY CritIs DEF StateInv, OpRecord
<1>2. x \in WritesAt(p) <=> x.op \in Writes /\ x.path = p
  BY DEF WritesAt
<1>3. CASE x.op \in {"put", "link", "unlink", "clear"}
  <2>1. PICK v : /\ NewFile(x) = [file EXCEPT ![x.path] = v]
                 /\ x.op = "put" => v = x.value
                 /\ x.op = "unlink" => v = NoFile
    BY <1>3 DEF NewFile
  <2> QED
    BY <1>1, <1>2, <1>3, <2>1 DEF Writes
<1>4. CASE x.op \notin {"put", "link", "unlink", "clear"}
  BY <1>1, <1>2, <1>4 DEF NewFile
<1> QED
  BY <1>3, <1>4

LEMMA RecAfter ==
    ASSUME StateInv, "codex" \in Harness, NEW x \in OpRecord
    PROVE  /\ x \notin WritesAt(Manifest) => RecIn(NewFile(x)) = RecIn(file)
           /\ x \in WritesAt(Manifest) /\ x.op = "put" /\ x.value # NoFile =>
                RecIn(NewFile(x)) = x.value.of["codex"]
           /\ x \in WritesAt(Manifest) /\ x.op = "unlink" => RecIn(NewFile(x)) = NoRecord
<1>1. Manifest \in Crit
  BY CritIs
<1> QED
  BY <1>1, FileAfter DEF RecIn

LEMMA JobAfter ==
    ASSUME StateInv, NEW Q, NEW x \in OpsOn(Q)
    PROVE  /\ NewLoaded(x)["app"] \in {loaded["app"], 0}
           /\ x = Op("bootout", App) => NewLoaded(x)["app"] = 0
<1>1. loaded \in [Label -> 0..MaxBuild] /\ "app" \in Label
  BY DEF StateInv, Jobs, Label
<1>2. x.op = "bootout" => x.path[2] \in Label
  BY DEF OpsOn
<1>3. CASE x.op = "bootout"
  <2>1. NewLoaded(x) = [loaded EXCEPT ![x.path[2]] = 0]
    BY <1>3 DEF NewLoaded
  <2>2. x = Op("bootout", App) => x.path[2] = "app"
    BY DEF Op, App
  <2> QED
    BY <1>1, <1>2, <1>3, <2>1, <2>2
<1>4. CASE x.op # "bootout"
  BY <1>4 DEF NewLoaded, Op
<1> QED
  BY <1>3, <1>4

\* An operation is on one path.
LEMMA WritesDiffer ==
    ASSUME NEW x
    PROVE  /\ x \in WritesAt(Marker) => x \notin WritesAt(App) /\ x \notin WritesAt(Manifest)
           /\ x \in WritesAt(App) => x \notin WritesAt(Manifest)
           /\ \A p : x \in WritesAt(p) => x.path = p /\ x.op \in Writes
BY CritIs DEF WritesAt

\* What is left of the operations of an apply, once what was to be done or pending still is.
LEMMA ApplyRest ==
    ASSUME NEW b, NEW g, NEW q, NEW x, NEW r, Cons(q, x, r), NEW f, NEW h, ApplyTodo(q, b, f, g),
           Replaced(f, g) \/ Pending(q, WritesAt(App)) => Replaced(h, g) \/ Pending(r, WritesAt(App)),
           h[Marker] = MarkerOf(g) \/ Before(r, WritesAt(Marker), WritesAt(App)),
           h[Marker] # b[Marker] => f[Marker] # b[Marker] \/ Pending(q, WritesAt(Marker))
    PROVE  ApplyTodo(r, b, h, g)
<1>1. /\ DOMAIN q = 1..(Len(r) + 1) /\ DOMAIN r = 1..Len(r) /\ Len(r) \in Nat /\ Len(q) = Len(r) + 1
      /\ \A i \in 1..Len(r) : q[i + 1] = r[i]
  BY DEF Cons
<1>2. \A i \in DOMAIN r : i + 1 \in DOMAIN q /\ q[i + 1] = r[i] /\ (i + 1 = Len(q) => i = Len(r))
  BY <1>1
<1> DEFINE done == Replaced(f, g) \/ Pending(q, WritesAt(App))
           later == Replaced(h, g) \/ Pending(r, WritesAt(App))
<1>3. \A i \in DOMAIN q : /\ ApplyOp(q[i], b, g)
                          /\ q[i] \in WritesAt(Manifest) =>
                               i = Len(q) /\ (Entered(b, q[i].value.of["codex"]) => done)
  BY DEF ApplyTodo
<1>4. Pending(r, WritesAt(Marker)) => Pending(q, WritesAt(Marker))
  BY ConsElems DEF Pending
<1>5. done => later
  OBVIOUS
<1> HIDE DEF done, later
<1>6. \A i \in DOMAIN r : /\ ApplyOp(r[i], b, g)
                          /\ r[i] \in WritesAt(Manifest) =>
                               i = Len(r) /\ (Entered(b, r[i].value.of["codex"]) => later)
  BY <1>2, <1>3, <1>5
<1>7. h[Marker] # b[Marker] \/ Pending(r, WritesAt(Marker)) => later
  BY <1>4, <1>5 DEF ApplyTodo, done
<1> QED
  BY <1>6, <1>7 DEF ApplyTodo, later

\* One operation of an apply.
LEMMA ApplyOperation ==
    ASSUME StateInv, "codex" \in Harness, NEW b, NEW j0, NEW g, NEW Q,
           NEW q, NEW x \in OpsOn(Q), NEW r, Cons(q, x, r),
           ApplyFiles(b, j0, file, loaded, g), ApplyTodo(q, b, file, g)
    PROVE  /\ ApplyFiles(b, j0, NewFile(x), NewLoaded(x), g)
           /\ ApplyTodo(r, b, NewFile(x), g)
<1> DEFINE f == NewFile(x)
           j == NewLoaded(x)
           todo == Replaced(file, g) \/ Pending(q, WritesAt(App))
           later == Replaced(f, g) \/ Pending(r, WritesAt(App))
<1>1. /\ x \in OpRecord /\ Marker \in Crit /\ App \in Crit /\ Manifest \in Crit
      /\ j["app"] \in {loaded["app"], 0}
  BY CritIs, JobAfter DEF OpsOn
<1>2. /\ Elems(q) = {x} \cup Elems(r) /\ Len(r) \in Nat /\ 1 \in DOMAIN q /\ q[1] = x
      /\ Len(q) = Len(r) + 1
  BY ConsElems DEF Cons
<1>3. /\ ApplyOp(x, b, g)
      /\ x \in WritesAt(Manifest) => 1 = Len(q) /\ (Entered(b, x.value.of["codex"]) => todo)
  BY <1>2 DEF ApplyTodo
<1>4. /\ file[Marker] = MarkerOf(g) \/ Before(q, WritesAt(Marker), WritesAt(App))
      /\ file[Marker] # b[Marker] \/ Pending(q, WritesAt(Marker)) => todo
  BY DEF ApplyTodo
<1>5. /\ j["app"] \in {j0["app"], 0} /\ file[Marker] \in {b[Marker], MarkerOf(g)}
      /\ file[App] = b[App] \/ Replaced(file, g)
      /\ Renewed(b, RecIn(file)) /\ (Entered(b, RecIn(file)) => Replaced(file, g))
  BY <1>1 DEF ApplyFiles
<1>6. \A p \in Crit : x \notin WritesAt(p) => f[p] = file[p]
  BY <1>1, FileAfter
<1>7. x \notin WritesAt(Manifest) => RecIn(f) = RecIn(file)
  BY <1>1, RecAfter
<1>8. /\ x \in WritesAt(Marker) => Pending(q, WritesAt(Marker))
      /\ Pending(q, WritesAt(App)) => x \in WritesAt(App) \/ Pending(r, WritesAt(App))
      /\ Before(q, WritesAt(Marker), WritesAt(App)) => x \notin WritesAt(App)
      /\ Before(q, WritesAt(Marker), WritesAt(App)) /\ x \notin WritesAt(Marker) =>
           Before(r, WritesAt(Marker), WritesAt(App))
  <2>1. /\ Before(q, WritesAt(Marker), WritesAt(App)) => x \notin WritesAt(App)
        /\ Before(q, WritesAt(Marker), WritesAt(App)) /\ x \notin WritesAt(Marker) =>
             Before(r, WritesAt(Marker), WritesAt(App))
    BY ConsBefore
  <2> QED
    BY <1>2, <2>1 DEF Pending
<1> HIDE DEF f, j, todo, later
<1>10. CASE x \in WritesAt(Marker)
  <2>1. f[Marker] = MarkerOf(g)
    BY <1>1, <1>3, <1>10, FileAfter DEF ApplyOp, Put, f
  <2>2. f[App] = file[App] /\ RecIn(f) = RecIn(file) /\ x \notin WritesAt(App)
    BY <1>1, <1>6, <1>7, <1>10, WritesDiffer
  <2>3. Replaced(file, g) => Replaced(f, g)
    BY <2>1, <2>2 DEF Replaced
  <2>4. ApplyFiles(b, j0, f, j, g)
    BY <1>5, <2>1, <2>2, <2>3 DEF ApplyFiles
  <2>5. Replaced(file, g) \/ Pending(q, WritesAt(App)) => Replaced(f, g) \/ Pending(r, WritesAt(App))
    BY <1>8, <2>2, <2>3
  <2>6. ApplyTodo(r, b, f, g)
    BY <1>8, <1>10, <2>1, <2>5, ApplyRest
  <2> QED
    BY <2>4, <2>6 DEF f, j
<1>11. CASE x \in WritesAt(App)
  <2>1. file[Marker] = MarkerOf(g)
    BY <1>4, <1>8, <1>11
  <2>2. f[Marker] = file[Marker] /\ RecIn(f) = RecIn(file)
    BY <1>1, <1>6, <1>7, <1>11, WritesDiffer
  <2>3. Replaced(f, g)
    <3>1. f[App] = x.value /\ x.value.kind = "plist" /\ x.value.gen = g
      BY <1>1, <1>3, <1>11, FileAfter DEF ApplyOp, f
    <3> QED
      BY <2>1, <2>2, <3>1 DEF Replaced
  <2>4. ApplyFiles(b, j0, f, j, g)
    BY <1>5, <2>1, <2>2, <2>3 DEF ApplyFiles
  <2>6. ApplyTodo(r, b, f, g)
    BY <2>1, <2>2, <2>3, ApplyRest
  <2> QED
    BY <2>4, <2>6 DEF f, j
<1>12. CASE x \in WritesAt(Manifest)
  <2>1. Len(r) = 0 /\ Elems(r) = {} /\ x \notin WritesAt(App)
    <3>1. Len(r) = 0
      BY <1>2, <1>3, <1>12
    <3>2. DOMAIN r = 1..0
      BY <3>1 DEF Cons
    <3> QED
      BY <1>12, <3>1, <3>2, WritesDiffer DEF Elems
  <2>2. f[Marker] = file[Marker] /\ f[App] = file[App]
    BY <1>1, <1>6, <1>12, WritesDiffer
  <2>3. RecIn(f) = x.value.of["codex"]
    BY <1>1, <1>3, <1>12, RecAfter DEF ApplyOp, f
  <2>4. todo => Replaced(f, g)
    BY <1>8, <2>1, <2>2 DEF Pending, Replaced, todo
  <2>5. Replaced(file, g) => Replaced(f, g)
    BY <2>2 DEF Replaced
  <2>6. ApplyFiles(b, j0, f, j, g)
    BY <1>3, <1>5, <1>12, <2>2, <2>3, <2>4, <2>5 DEF ApplyFiles, ApplyOp
  <2>7. Before(r, WritesAt(Marker), WritesAt(App))
    BY <2>1 DEF Before, Elems
  <2>8. ApplyTodo(r, b, f, g)
    BY <2>2, <2>4, <2>7, ApplyRest DEF todo
  <2> QED
    BY <2>6, <2>8 DEF f, j
<1>13. CASE x \notin WritesAt(Marker) /\ x \notin WritesAt(App) /\ x \notin WritesAt(Manifest)
  <2>1. f[Marker] = file[Marker] /\ f[App] = file[App] /\ RecIn(f) = RecIn(file)
    BY <1>1, <1>6, <1>7, <1>13
  <2>2. Replaced(file, g) => Replaced(f, g)
    BY <2>1 DEF Replaced
  <2>3. ApplyFiles(b, j0, f, j, g)
    BY <1>5, <2>1, <2>2 DEF ApplyFiles
  <2>4. ApplyTodo(r, b, f, g)
    BY <1>4, <1>8, <1>13, <2>1, <2>2, ApplyRest
  <2> QED
    BY <2>3, <2>4 DEF f, j
<1> QED
  BY <1>10, <1>11, <1>12, <1>13

\* One operation of a removal.
LEMMA RemoveOperation ==
    ASSUME StateInv, "codex" \in Harness, NEW b, NEW j0, NEW Q,
           NEW q, NEW x \in OpsOn(Q), NEW r, Cons(q, x, r),
           RemoveFiles(b, j0, file, loaded), RemoveTodo(q, b, loaded)
    PROVE  /\ RemoveFiles(b, j0, NewFile(x), NewLoaded(x))
           /\ RemoveTodo(r, b, NewLoaded(x))
<1> DEFINE f == NewFile(x)
           j == NewLoaded(x)
           A == {Op("bootout", App)}
<1>1. /\ x \in OpRecord /\ Marker \in Crit /\ App \in Crit
      /\ j["app"] \in {loaded["app"], 0} /\ (x = Op("bootout", App) => j["app"] = 0)
  BY CritIs, JobAfter DEF OpsOn
<1>2. /\ x \in WritesAt(Manifest) =>
           \/ x.op = "unlink"
           \/ x.op = "put" /\ x.value # NoFile /\ x.value.of["codex"] \in {NoRecord, RecIn(b)}
      /\ \A i \in DOMAIN r : r[i] \in WritesAt(Manifest) =>
           \/ r[i].op = "unlink"
           \/ r[i].op = "put" /\ r[i].value # NoFile /\ r[i].value.of["codex"] \in {NoRecord, RecIn(b)}
  <2>1. /\ 1 \in DOMAIN q /\ q[1] = x
        /\ \A i \in DOMAIN r : i + 1 \in DOMAIN q /\ q[i + 1] = r[i]
    BY DEF Cons
  <2> QED
    BY <2>1 DEF RemoveTodo
<1>3. RecIn(f) \in {RecIn(b), NoRecord}
  BY <1>1, <1>2, RecAfter DEF RemoveFiles
<1>4. j["app"] # 0 => /\ loaded["app"] # 0 /\ x \notin A /\ j["app"] = loaded["app"]
                      /\ x \notin Guarded(b) /\ Before(r, A, Guarded(b))
  <2>1. /\ Before(q, A, Guarded(b)) => x \notin Guarded(b)
        /\ Before(q, A, Guarded(b)) /\ x \notin A => Before(r, A, Guarded(b))
    BY ConsBefore
  <2> QED
    BY <1>1, <2>1 DEF RemoveTodo
<1>5. j["app"] # 0 => f[App] = b[App] /\ (Lists(RecIn(b)) => f[Marker] = b[Marker])
  BY <1>1, <1>4, FileAfter DEF Guarded, RemoveFiles
<1>6. j["app"] \in {j0["app"], 0}
  BY <1>1 DEF RemoveFiles
<1> HIDE DEF f, j
<1> QED
  BY <1>2, <1>3, <1>4, <1>5, <1>6 DEF RemoveFiles, RemoveTodo, f, j

\* The write that follows when a configuration was read again changes none of this.
LEMMA EditPushed ==
    ASSUME NEW b, NEW g, NEW f, NEW j, NEW q, NEW x \in OpRecord, NEW r, Cons(q, x, r), x.path[2] = "config"
    PROVE  /\ ApplyTodo(r, b, f, g) => ApplyTodo(q, b, f, g)
           /\ RemoveTodo(r, b, j) => RemoveTodo(q, b, j)
<1>1. /\ DOMAIN q = 1..(Len(r) + 1) /\ DOMAIN r = 1..Len(r) /\ Len(r) \in Nat /\ Len(q) = Len(r) + 1
      /\ q[1] = x /\ \A i \in 1..Len(r) : q[i + 1] = r[i]
  BY DEF Cons
<1>2. \A i \in DOMAIN q : i = 1 \/ (i - 1 \in DOMAIN r /\ q[i] = r[i - 1] /\ (i - 1 = Len(r) => i = Len(q)))
  BY <1>1
<1>3. x \notin WritesAt(Marker) /\ x \notin WritesAt(App) /\ x \notin WritesAt(Manifest)
  BY DEF WritesAt, Marker, App, Manifest
<1>4. /\ Pending(q, WritesAt(App)) <=> Pending(r, WritesAt(App))
      /\ Pending(q, WritesAt(Marker)) <=> Pending(r, WritesAt(Marker))
  BY <1>3, ConsElems DEF Pending
<1>5. x \notin Guarded(b)
  BY <1>3 DEF Guarded
<1>6. ASSUME ApplyTodo(r, b, f, g) PROVE ApplyTodo(q, b, f, g)
  <2> DEFINE done == Replaced(f, g) \/ Pending(r, WritesAt(App))
  <2>1. \A i \in DOMAIN r : /\ ApplyOp(r[i], b, g)
                            /\ r[i] \in WritesAt(Manifest) =>
                                 i = Len(r) /\ (Entered(b, r[i].value.of["codex"]) => done)
    BY <1>6 DEF ApplyTodo
  <2>2. ApplyOp(x, b, g)
    BY <1>3 DEF ApplyOp
  <2> HIDE DEF done
  <2>3. \A i \in DOMAIN q : /\ ApplyOp(q[i], b, g)
                            /\ q[i] \in WritesAt(Manifest) =>
                                 i = Len(q) /\ (Entered(b, q[i].value.of["codex"]) => done)
    BY <1>1, <1>2, <1>3, <2>1, <2>2
  <2>4. f[Marker] = MarkerOf(g) \/ Before(q, WritesAt(Marker), WritesAt(App))
    BY <1>3, <1>6, ConsBefore DEF ApplyTodo
  <2>5. f[Marker] # b[Marker] \/ Pending(q, WritesAt(Marker)) => done
    BY <1>4, <1>6 DEF ApplyTodo, done
  <2>6. done <=> Replaced(f, g) \/ Pending(q, WritesAt(App))
    BY <1>4 DEF done
  <2> QED
    BY <2>3, <2>4, <2>5, <2>6 DEF ApplyTodo
<1>7. ASSUME RemoveTodo(r, b, j) PROVE RemoveTodo(q, b, j)
  <2>1. j["app"] = 0 \/ Before(q, {Op("bootout", App)}, Guarded(b))
    BY <1>5, <1>7, ConsBefore DEF RemoveTodo
  <2>2. \A i \in DOMAIN q : q[i] \in WritesAt(Manifest) => i # 1
    BY <1>1, <1>3
  <2> QED
    BY <1>2, <1>7, <2>1, <2>2 DEF RemoveTodo
<1> QED
  BY <1>6, <1>7

-----------------------------------------------------------------------------
(* The lists of operations and snapshots of a command, as it begins *)

\* How two sequences lie in their concatenation.
LEMMA ConcatLies ==
    ASSUME NEW S, NEW a \in Seq(S), NEW b \in Seq(S)
    PROVE  LET q == a \o b
           IN  /\ q \in Seq(S) /\ Elems(q) = Elems(a) \cup Elems(b)
               /\ Len(a) \in Nat /\ Len(b) \in Nat /\ Len(q) = Len(a) + Len(b)
               /\ DOMAIN a = 1..Len(a) /\ DOMAIN b = 1..Len(b) /\ DOMAIN q = 1..(Len(a) + Len(b))
               /\ \A i \in DOMAIN a : i \in DOMAIN q /\ q[i] = a[i]
               /\ \A i \in DOMAIN b : i + Len(a) \in DOMAIN q /\ q[i + Len(a)] = b[i]
               /\ \A i \in DOMAIN q : \/ i \in DOMAIN a /\ q[i] = a[i]
                                      \/ i > Len(a) /\ i - Len(a) \in DOMAIN b /\ q[i] = b[i - Len(a)]
<1>1. /\ a \o b \in Seq(S) /\ Len(a \o b) = Len(a) + Len(b)
      /\ \A i \in 1..(Len(a) + Len(b)) : (a \o b)[i] = IF i <= Len(a) THEN a[i] ELSE b[i - Len(a)]
  BY ConcatProperties
<1>2. /\ Len(a) \in Nat /\ Len(b) \in Nat /\ DOMAIN a = 1..Len(a) /\ DOMAIN b = 1..Len(b)
      /\ DOMAIN (a \o b) = 1..(Len(a) + Len(b))
  BY <1>1
<1>3. Elems(a \o b) = Elems(a) \cup Elems(b)
  BY ConcatIs
<1> DEFINE q == a \o b
<1>4. \A i \in DOMAIN a : i \in DOMAIN q /\ q[i] = a[i]
  BY <1>1, <1>2
<1>5. \A i \in DOMAIN b : i + Len(a) \in DOMAIN q /\ q[i + Len(a)] = b[i]
  BY <1>1, <1>2
<1>6. \A i \in DOMAIN q : \/ i \in DOMAIN a /\ q[i] = a[i]
                          \/ i > Len(a) /\ i - Len(a) \in DOMAIN b /\ q[i] = b[i - Len(a)]
  BY <1>1, <1>2
<1> QED
  BY <1>1, <1>2, <1>3, <1>4, <1>5, <1>6

LEMMA BeforeConcat ==
    ASSUME NEW S, NEW a \in Seq(S), NEW b \in Seq(S), NEW A, NEW B, Before(a, A, B),
           Before(b, A, B) \/ Pending(a, A)
    PROVE  Before(a \o b, A, B)
<1> DEFINE q == a \o b
<1>1. /\ Len(a) \in Nat /\ DOMAIN a = 1..Len(a) /\ DOMAIN b = 1..Len(b) /\ Len(b) \in Nat
      /\ \A i \in DOMAIN a : i \in DOMAIN q /\ q[i] = a[i]
      /\ \A i \in DOMAIN b : i + Len(a) \in DOMAIN q /\ q[i + Len(a)] = b[i]
      /\ \A i \in DOMAIN q : \/ i \in DOMAIN a /\ q[i] = a[i]
                             \/ i > Len(a) /\ i - Len(a) \in DOMAIN b /\ q[i] = b[i - Len(a)]
  BY ConcatLies
<1>2. DOMAIN q = 1..(Len(a) + Len(b))
  BY ConcatLies
<1> HIDE DEF q
<1> SUFFICES ASSUME NEW i \in DOMAIN q, q[i] \in B
             PROVE  \E k \in DOMAIN q : k < i /\ q[k] \in A
  BY DEF Before, q
<1>3. CASE i \in DOMAIN a /\ q[i] = a[i]
  <2>1. PICK k \in DOMAIN a : k < i /\ a[k] \in A
    BY <1>3 DEF Before
  <2> QED
    BY <1>1, <2>1
<1>4. CASE i > Len(a) /\ i - Len(a) \in DOMAIN b /\ q[i] = b[i - Len(a)]
  <2>1. CASE Pending(a, A)
    <3>1. PICK k \in DOMAIN a : a[k] \in A
      BY <2>1 DEF Pending, Elems
    <3>2. k < i
      BY <1>1, <1>2, <1>4
    <3> QED
      BY <1>1, <3>1, <3>2
  <2>2. CASE Before(b, A, B)
    <3>1. PICK k \in DOMAIN b : k < i - Len(a) /\ b[k] \in A
      BY <1>4, <2>2 DEF Before
    <3>2. k + Len(a) \in DOMAIN q /\ q[k + Len(a)] \in A
      BY <1>1, <3>1
    <3>3. k + Len(a) < i
      BY <1>1, <1>2, <3>1
    <3> QED
      BY <3>2, <3>3
  <2> QED
    BY <2>1, <2>2
<1> QED
  BY <1>1, <1>3, <1>4

LEMMA BeforeNone ==
    ASSUME NEW q, NEW A, NEW B, Elems(q) \cap B = {}
    PROVE  Before(q, A, B)
BY DEF Before, Elems

LEMMA BeforeLone ==
    ASSUME NEW x, NEW A, NEW B, x \notin B
    PROVE  Before(<<x>>, A, B)
BY DEF Before

\* One operation on the plist behind one on the marker.
LEMMA BeforePair ==
    ASSUME NEW S, NEW x \in S, NEW y \in S, NEW A, NEW B, x \in A, x \notin B
    PROVE  Before(<<x>> \o <<y>>, A, B)
<1>1. PICK a : a = <<x>>
  OBVIOUS
<1>2. PICK b : b = <<y>>
  OBVIOUS
<1>3. a \in Seq(S) /\ b \in Seq(S) /\ Before(a, A, B) /\ Pending(a, A)
  BY <1>1, <1>2, BeforeLone DEF Pending, Elems
<1>4. Before(a \o b, A, B)
  BY <1>3, BeforeConcat
<1> QED
  BY <1>1, <1>2, <1>4

\* A part of the work of an apply: the manifest is not in it.
Part(q, g) ==
    /\ q \in Seq(OpRecord)
    /\ \A o \in Elems(q) :
         /\ o \in WritesAt(Marker) => o = Put(Marker, MarkerOf(g))
         /\ o \in WritesAt(App) => o.op = "put" /\ o.value.kind = "plist" /\ o.value.gen = g
         /\ o \notin WritesAt(Manifest)
    /\ Before(q, WritesAt(Marker), WritesAt(App))
    /\ Pending(q, WritesAt(Marker)) => Pending(q, WritesAt(App))

LEMMA PartConcat ==
    ASSUME NEW a, NEW b, NEW g, Part(a, g), Part(b, g)
    PROVE  Part(a \o b, g) /\ Elems(a \o b) = Elems(a) \cup Elems(b)
<1>1. a \in Seq(OpRecord) /\ b \in Seq(OpRecord)
  BY DEF Part
<1>2. a \o b \in Seq(OpRecord) /\ Elems(a \o b) = Elems(a) \cup Elems(b)
  BY <1>1, ConcatIs
<1>3. Before(a \o b, WritesAt(Marker), WritesAt(App))
  BY <1>1, BeforeConcat DEF Part
<1>4. PICK q : q = a \o b
  OBVIOUS
<1>5. Part(q, g)
  BY <1>2, <1>3, <1>4 DEF Part, Pending
<1> QED
  BY <1>2, <1>4, <1>5

\* So is one that leaves these files alone.
LEMMA QuietPart ==
    ASSUME NEW Q, NEW q \in Seq(OpsOn(Q)), Q \cap Crit = {}, NEW g
    PROVE  Part(q, g)
<1>1. q \in Seq(OpRecord) /\ Elems(q) \subseteq OpsOn(Q)
  BY OpsAreRecords, ElemsAre
<1>2. \A o \in OpsOn(Q) : \A p \in Crit : o \notin WritesAt(p)
  BY DEF OpsOn, WritesAt
<1>3. Marker \in Crit /\ App \in Crit /\ Manifest \in Crit
  BY CritIs
<1>4. \A o \in Elems(q) : o \notin WritesAt(Marker) /\ o \notin WritesAt(App) /\ o \notin WritesAt(Manifest)
  BY <1>1, <1>2, <1>3
<1>5. Before(q, WritesAt(Marker), WritesAt(App))
  BY <1>4, BeforeNone
<1> QED
  BY <1>1, <1>4, <1>5 DEF Part, Pending

LEMMA NonePart == \A g : Part(<< >>, g)
<1> SUFFICES ASSUME NEW g PROVE Part(<< >>, g)
  OBVIOUS
<1>1. PICK Q : Q = {}
  OBVIOUS
<1>2. PICK e : e = << >>
  OBVIOUS
<1>3. e \in Seq(OpsOn(Q)) /\ Q \cap Crit = {}
  BY <1>1, <1>2
<1>4. Part(e, g)
  BY <1>3, QuietPart
<1> QED
  BY <1>2, <1>4

LEMMA OwnPathsAre ==
    ASSUME NEW h \in Harness
    PROVE  /\ Manifest \notin OwnPaths(h)
           /\ h # "codex" => OwnPaths(h) \cap Crit = {}
           /\ h = "codex" => {<<h, "config">>, <<h, "plugin">>, <<h, "skill">>, <<h, "wake">>} \cap Crit = {}
<1>1. h \in {"claude", "hermes", "codex"}
  BY SetupAssumption
<1> QED
  BY <1>1 DEF OwnPaths, Crit, Manifest, Marker, App

LEMMA WhenPart ==
    ASSUME NEW c \in BOOLEAN, NEW q, NEW g, c => Part(q, g)
    PROVE  Part(When(c, q), g) /\ Elems(When(c, q)) = IF c THEN Elems(q) ELSE {}
<1>1. CASE c
  BY <1>1 DEF When
<1>2. CASE ~c
  <2>1. When(c, q) = << >>
    BY <1>2 DEF When
  <2>2. PICK e : e = << >>
    OBVIOUS
  <2>3. Part(e, g) /\ Elems(e) = {}
    BY <2>2, NonePart DEF Elems
  <2> QED
    BY <1>2, <2>1, <2>2, <2>3
<1> QED
  BY <1>1, <1>2

\* The marker is written before the plist, and with it (_write_codex_plists).
LEMMA ApplyCodexIs ==
    ASSUME StateInv, "codex" \in Harness
    PROVE  /\ Part(ApplyCodex, build)
           /\ PlistChanges("app") => Pending(ApplyCodex, WritesAt(App))
<1> DEFINE x == Put(Marker, MarkerOf(build))
           y == Put(<<"codex", "app">>, NewPlist("app"))
           z == Put(<<"codex", "wake">>, NewPlist("wake"))
           changes == PlistChanges("app")
           mark == When(changes, <<x>>)
           app == When(changes, <<y>>)
           wake == When(PlistChanges("wake"), <<z>>)
<1>1. changes \in BOOLEAN /\ PlistChanges("wake") \in BOOLEAN
  BY DEF PlistChanges
<1>2. App = <<"codex", "app">> /\ Marker # App /\ Marker # Manifest /\ App # Manifest
  BY CritIs DEF App
<1>3. /\ x \in OpRecord /\ x.op = "put" /\ x.path = Marker
      /\ x = Put(Marker, MarkerOf(build))
  BY PathsAre, MarkerIs DEF Put, OpRecord, Writes, Value
<1>4. /\ y \in OpRecord /\ y.op = "put" /\ y.path = App
      /\ y.value.kind = "plist" /\ y.value.gen = build
  BY <1>2, PathsAre, NewPlistIs DEF Put, OpRecord, Writes, Value, Label, NewPlist
<1>5. z \in OpRecord /\ z.op = "put" /\ z.path = <<"codex", "wake">>
  BY PathsAre, NewPlistIs DEF Put, OpRecord, Writes, Value, Label
<1>6. ApplyCodex = (mark \o app) \o wake
  BY DEF ApplyCodex, WritePlist
<1> HIDE DEF x, y, z, changes
<1>7. /\ x \in WritesAt(Marker) /\ x \notin WritesAt(App) /\ x \notin WritesAt(Manifest)
      /\ y \in WritesAt(App) /\ y \notin WritesAt(Marker) /\ y \notin WritesAt(Manifest)
  BY <1>2, <1>3, <1>4 DEF WritesAt, Writes
<1>8. Part(mark \o app, build) /\ (changes => Pending(mark \o app, WritesAt(App)))
  <2>1. CASE changes
    <3>1. <<x>> \o <<y>> \in Seq(OpRecord) /\ Elems(<<x>> \o <<y>>) = {x, y}
      <4>1. PICK a : a = <<x>>
        OBVIOUS
      <4>2. PICK b : b = <<y>>
        OBVIOUS
      <4>3. a \in Seq(OpRecord) /\ Elems(a) = {x} /\ b \in Seq(OpRecord) /\ Elems(b) = {y}
        BY <1>3, <1>4, <4>1, <4>2, OneIs
      <4>4. a \o b \in Seq(OpRecord) /\ Elems(a \o b) = {x, y}
        BY <4>3, ConcatIs
      <4> QED
        BY <4>1, <4>2, <4>4
    <3>2. Before(<<x>> \o <<y>>, WritesAt(Marker), WritesAt(App))
      BY <1>3, <1>4, <1>7, BeforePair
    <3>3. PICK q : q = <<x>> \o <<y>>
      OBVIOUS
    <3>4. Pending(q, WritesAt(App))
      BY <1>7, <3>1, <3>3 DEF Pending
    <3>5. \A o \in {x, y} : /\ o \in WritesAt(Marker) => o = Put(Marker, MarkerOf(build))
                            /\ o \in WritesAt(App) => o.op = "put" /\ o.value.kind = "plist" /\ o.value.gen = build
                            /\ o \notin WritesAt(Manifest)
      BY <1>3, <1>4, <1>7
    <3>6. Part(q, build)
      BY <3>1, <3>2, <3>3, <3>4, <3>5 DEF Part
    <3>7. mark \o app = q
      BY <2>1, <3>3 DEF When
    <3> QED
      BY <3>4, <3>6, <3>7
  <2>2. CASE ~changes
    <3>1. mark \o app = << >> \o << >>
      BY <2>2 DEF When
    <3>2. << >> \o << >> = << >>
      OBVIOUS
    <3> QED
      BY <2>2, <3>1, <3>2, NonePart
  <2> QED
    BY <1>1, <2>1, <2>2
<1>9. Part(wake, build)
  <2>1. z \in OpsOn({<<"codex", "wake">>})
    <3>1. Fits(<<"codex", "wake">>, NewPlist("wake")) /\ <<"codex", "wake">> \in Path
      BY NewPlistIs, PathsAre DEF Fits, Manifest, Marker, LinkName, Label
    <3> QED
      BY <3>1, PutIs DEF z
  <2>2. PICK Q : Q = {<<"codex", "wake">>}
    OBVIOUS
  <2>3. PICK q : q = <<z>>
    OBVIOUS
  <2>4. q \in Seq(OpsOn(Q)) /\ Q \cap Crit = {}
    BY <2>1, <2>2, <2>3, OneIs, OwnPathsAre
  <2>5. Part(q, build)
    BY <2>4, QuietPart
  <2> QED
    BY <1>1, <2>3, <2>5, WhenPart
<1> HIDE DEF mark, app, wake
<1>10. PICK a : a = mark \o app
  OBVIOUS
<1>11. Part(a \o wake, build) /\ Elems(a \o wake) = Elems(a) \cup Elems(wake)
  BY <1>8, <1>9, <1>10, PartConcat
<1>12. changes => Pending(a \o wake, WritesAt(App))
  BY <1>8, <1>10, <1>11 DEF Pending
<1> QED
  BY <1>6, <1>10, <1>11, <1>12 DEF changes

LEMMA ApplyPart ==
    ASSUME StateInv, NEW h \in Harness
    PROVE  /\ Part(Apply(h), build)
           /\ h = "codex" /\ PlistChanges("app") => Pending(Apply(h), WritesAt(App))
<1>1. CASE h # "codex"
  <2>1. PICK Q : Q = Elems(ApplyPathsOf(h))
    OBVIOUS
  <2>2. Q \cap Crit = {}
    BY <1>1, <2>1, ApplyPathsOfAre, OwnPathsAre
  <2>3. Apply(h) \in Seq(OpsOn(Q))
    BY <2>1, ApplyIs
  <2> QED
    BY <1>1, <2>2, <2>3, QuietPart
<1>2. CASE h = "codex"
  <2> DEFINE config == ApplyConfig(h)
             skill == NewLink(h, "skill")
             Q == {<<h, "config">>, <<h, "skill">>}
             x == Put(<<h, "config">>, ConfigAfter(h))
             y == Op("link", <<h, "skill">>)
  <2>1. Q \cap Crit = {}
    BY <1>2, OwnPathsAre
  <2>2. x \in OpsOn(Q) /\ y \in OpsOn(Q)
    <3>1. Fits(<<h, "config">>, ConfigAfter(h)) /\ <<h, "config">> \in Path /\ <<h, "skill">> \in Path
      BY ConfigAfterIs, PathsAre DEF Fits, Manifest, Marker, LinkName, Label
    <3>2. PICK p : p = <<h, "config">>
      OBVIOUS
    <3>3. PICK r : r = <<h, "skill">>
      OBVIOUS
    <3>4. r[2] = "skill" /\ p \in Q /\ r \in Q
      BY <3>2, <3>3
    <3> HIDE DEF Q
    <3> QED
      BY <3>1, <3>2, <3>3, <3>4, PutIs, OpIs DEF LinkName
  <2> HIDE DEF Q, x, y
  <2>3. Part(<<x>>, build) /\ Part(<<y>>, build)
    <3>1. PICK a : a = <<x>>
      OBVIOUS
    <3>2. PICK b : b = <<y>>
      OBVIOUS
    <3>3. a \in Seq(OpsOn(Q)) /\ b \in Seq(OpsOn(Q))
      BY <2>2, <3>1, <3>2, OneIs
    <3>4. Part(a, build) /\ Part(b, build)
      BY <2>1, <3>3, QuietPart
    <3> QED
      BY <3>1, <3>2, <3>4
  <2>4. Part(config, build)
    <3>1. ConfigChanges(h) \in BOOLEAN
      BY DEF ConfigChanges
    <3>2. config = When(ConfigChanges(h), <<x>>)
      BY DEF ApplyConfig, x
    <3> HIDE DEF config
    <3> QED
      BY <2>3, <3>1, <3>2, WhenPart
  <2>5. Part(skill, build)
    <3>1. PICK c \in BOOLEAN : c <=> RecordOf(h) = NoRecord /\ At(h, "skill") = NoFile
      OBVIOUS
    <3>2. skill = When(c, <<y>>)
      BY <3>1 DEF NewLink, y, When
    <3> HIDE DEF skill
    <3> QED
      BY <2>3, <3>2, WhenPart
  <2>6. Apply(h) = (config \o ApplyCodex) \o skill
    BY <1>2 DEF Apply
  <2>7. Part(ApplyCodex, build) /\ (PlistChanges("app") => Pending(ApplyCodex, WritesAt(App)))
    BY <1>2, ApplyCodexIs
  <2> HIDE DEF config, skill
  <2>8. Part(config \o ApplyCodex, build) /\ Elems(config \o ApplyCodex) = Elems(config) \cup Elems(ApplyCodex)
    BY <2>4, <2>7, PartConcat
  <2>9. PICK a : a = config \o ApplyCodex
    OBVIOUS
  <2>10. Part(a \o skill, build) /\ Elems(a \o skill) = Elems(a) \cup Elems(skill)
    BY <2>5, <2>8, <2>9, PartConcat
  <2>11. PlistChanges("app") => Pending(a \o skill, WritesAt(App))
    BY <2>7, <2>8, <2>9, <2>10 DEF Pending
  <2> QED
    BY <2>6, <2>9, <2>10, <2>11
<1> QED
  BY <1>1, <1>2

LEMMA PartEach ==
    ASSUME NEW g, NEW set, NEW a, NEW b, NEW c,
           "claude" \in set => Part(a, g), "hermes" \in set => Part(b, g), "codex" \in set => Part(c, g)
    PROVE  LET q == (IF "claude" \in set THEN a ELSE << >>)
                    \o (IF "hermes" \in set THEN b ELSE << >>)
                    \o (IF "codex" \in set THEN c ELSE << >>)
           IN  Part(q, g) /\ ("codex" \in set => Elems(c) \subseteq Elems(q))
<1> DEFINE x == IF "claude" \in set THEN a ELSE << >>
           y == IF "hermes" \in set THEN b ELSE << >>
           z == IF "codex" \in set THEN c ELSE << >>
<1>1. Part(x, g) /\ Part(y, g) /\ Part(z, g) /\ ("codex" \in set => z = c)
  BY NonePart
<1> HIDE DEF x, y, z
<1>2. Part(x \o y, g)
  BY <1>1, PartConcat
<1>3. PICK w : w = x \o y
  OBVIOUS
<1>4. Part(w \o z, g) /\ Elems(w \o z) = Elems(w) \cup Elems(z)
  BY <1>1, <1>2, <1>3, PartConcat
<1>5. Part((x \o y) \o z, g) /\ ("codex" \in set => Elems(c) \subseteq Elems((x \o y) \o z))
  BY <1>1, <1>3, <1>4
<1> QED
  BY <1>5 DEF x, y, z

\* What an apply writes of codex into the manifest.
LEMMA RecordAfter ==
    ASSUME StateInv, "codex" \in Harness, NEW work \in SUBSET Harness, NEW m,
           m = ManifestWith([h \in work |-> NewRecord(h)])
    PROVE  /\ m # NoFile
           /\ Renewed(file, m.of["codex"])
           /\ Entered(file, m.of["codex"]) => "codex" \in work /\ PlistChanges("app")
<1> DEFINE new == NewRecord("codex")
           rec == RecordOf("codex")
<1>1. m.kind = "manifest" /\ m.of["codex"] = IF "codex" \in work THEN new ELSE rec
  BY DEF ManifestWith
<1>2. rec = RecIn(file)
  BY DEF RecordOf, RecIn
<1>3. new # NoRecord /\ new.plists = IF rec = NoRecord THEN {l \in Label : At("codex", l) = NoFile} ELSE rec.plists
  BY NewRecordIs DEF NewRecord
<1>4. "app" \in Label /\ At("codex", "app") = file[App]
  BY DEF Label, At, App
<1> HIDE DEF new, rec
<1>5. CASE "codex" \in work
  <2>1. Renewed(file, new)
    BY <1>2, <1>3, <1>4 DEF Renewed, Lists
  <2>2. file[App] = NoFile => PlistChanges("app")
    BY <1>4, NothingElse DEF PlistChanges
  <2> QED
    BY <1>1, <1>5, <2>1, <2>2, NothingElse DEF Entered
<1>6. CASE "codex" \notin work
  BY <1>1, <1>2, <1>6, NothingElse DEF Renewed, Lists, Entered
<1> QED
  BY <1>5, <1>6

\* An apply begins with all of its work before it.
LEMMA ApplyBegins ==
    ASSUME StateInv, "codex" \in Harness, NEW set \in SUBSET Harness, ApplyOps(set) # << >>
    PROVE  ApplyTodo(ApplyOps(set), file, file, build)
<1> DEFINE work == ToApply(set)
           check == CheckRuntime(work)
           e == Each(work, Apply)
           v == ManifestWith([h \in work |-> NewRecord(h)])
           m == Put(Manifest, v)
<1>1. ApplyOps(set) = (check \o e) \o <<m>>
  BY DEF ApplyOps, When
<1>2. work \subseteq Harness
  BY DEF ToApply
<1>3. Part(check, build)
  <2> DEFINE o == [op |-> "check", path |-> Marker, value |-> MarkerOf(build)]
             changes == "codex" \in work /\ \E l \in Label : PlistChanges(l)
  <2>1. o \in OpsOn({})
    BY MarkerIs, PathsAre DEF OpsOn, OpRecord, Writes, Value
  <2>2. check = When(changes, <<o>>)
    BY DEF CheckRuntime
  <2> HIDE DEF o, changes, check
  <2>3. PICK q : q = <<o>>
    OBVIOUS
  <2>4. PICK Q : Q = {}
    OBVIOUS
  <2>5. q \in Seq(OpsOn(Q)) /\ Q \cap Crit = {}
    BY <2>1, <2>3, <2>4, OneIs
  <2>6. Part(q, build)
    BY <2>5, QuietPart
  <2>7. changes \in BOOLEAN
    BY DEF changes
  <2> QED
    BY <2>2, <2>3, <2>6, <2>7, WhenPart
<1>4. Part(e, build) /\ ("codex" \in work /\ PlistChanges("app") => Pending(e, WritesAt(App)))
  <2> DEFINE A(h) == Apply(h)
  <2>1. \A h \in work : Part(A(h), build) /\ (h = "codex" /\ PlistChanges("app") => Pending(A(h), WritesAt(App)))
    BY <1>2, ApplyPart
  <2>2. e = (IF "claude" \in work THEN A("claude") ELSE << >>)
            \o (IF "hermes" \in work THEN A("hermes") ELSE << >>)
            \o (IF "codex" \in work THEN A("codex") ELSE << >>)
    BY DEF Each
  <2> HIDE DEF A, e, work
  <2>3. Part(e, build) /\ ("codex" \in work => Elems(A("codex")) \subseteq Elems(e))
    BY <2>1, <2>2, PartEach
  <2> QED
    BY <2>1, <2>3 DEF Pending
<1>5. /\ v # NoFile /\ Renewed(file, v.of["codex"])
      /\ Entered(file, v.of["codex"]) => "codex" \in work /\ PlistChanges("app")
  BY <1>2, RecordAfter
<1>6. m.op = "put" /\ m.path = Manifest /\ m.value = v /\ m \in OpRecord
  <2>1. m \in OpRecord
    <3>1. ApplyOps(set) \in Seq(OpRecord)
      BY ApplyOpsAre, OpsAreRecords
    <3>2. check \o e \in Seq(OpRecord)
      BY <1>3, <1>4, PartConcat DEF Part
    <3>3. PICK a : a = check \o e
      OBVIOUS
    <3>4. PICK q : q = ApplyOps(set)
      OBVIOUS
    <3>5. q = a \o <<m>>
      BY <1>1, <3>3, <3>4
    <3> HIDE DEF m
    <3>6. Len(a \o <<m>>) = Len(a) + 1 /\ (a \o <<m>>)[Len(a) + 1] = m /\ Len(a) \in Nat
      BY <3>2, <3>3
    <3>7. Len(a) + 1 \in DOMAIN q /\ q[Len(a) + 1] = m
      BY <3>1, <3>4, <3>5, <3>6
    <3> QED
      BY <3>1, <3>4, <3>7
  <2> QED
    BY <2>1 DEF Put
<1> HIDE DEF check, e, m, v
<1>7. Part(check \o e, build) /\ Elems(check \o e) = Elems(check) \cup Elems(e)
  BY <1>3, <1>4, PartConcat
<1>8. PICK a : a = check \o e
  OBVIOUS
<1>9. PICK b : b = <<m>>
  OBVIOUS
<1>10. a \in Seq(OpRecord) /\ b \in Seq(OpRecord) /\ Len(b) = 1 /\ Elems(b) = {m} /\ b[1] = m
  BY <1>6, <1>7, <1>8, <1>9, OneIs DEF Part
<1> DEFINE q == a \o b
<1>11. /\ Elems(q) = Elems(a) \cup {m}
       /\ Len(a) \in Nat /\ DOMAIN q = 1..(Len(a) + 1) /\ Len(q) = Len(a) + 1
       /\ \A i \in DOMAIN q : (i \in DOMAIN a /\ q[i] = a[i]) \/ (i = Len(q) /\ q[i] = m)
  <2>1. /\ Elems(q) = Elems(a) \cup Elems(b) /\ Len(a) \in Nat
        /\ Len(q) = Len(a) + Len(b) /\ DOMAIN q = 1..(Len(a) + Len(b)) /\ DOMAIN b = 1..Len(b)
    BY <1>10, ConcatLies
  <2>2. \A i \in DOMAIN q : \/ i \in DOMAIN a /\ q[i] = a[i]
                            \/ i > Len(a) /\ i - Len(a) \in DOMAIN b /\ q[i] = b[i - Len(a)]
    BY <1>10, ConcatLies
  <2> HIDE DEF q
  <2>3. ASSUME NEW i \in DOMAIN q, i > Len(a), i - Len(a) \in DOMAIN b, q[i] = b[i - Len(a)]
        PROVE  i = Len(q) /\ q[i] = m
    <3>1. i - Len(a) = 1 /\ i \in Int
      BY <1>10, <2>1, <2>3
    <3>2. i = Len(a) + 1 /\ Len(q) = Len(a) + 1
      BY <1>10, <2>1, <3>1
    <3> QED
      BY <1>10, <2>3, <3>1, <3>2
  <2>4. \A i \in DOMAIN q : (i \in DOMAIN a /\ q[i] = a[i]) \/ (i = Len(q) /\ q[i] = m)
    BY <2>2, <2>3
  <2> QED
    BY <1>10, <2>1, <2>4
<1>12. m \notin WritesAt(Marker) /\ m \notin WritesAt(App)
  BY <1>6, CritIs DEF WritesAt
<1>13. Before(q, WritesAt(Marker), WritesAt(App))
  <2>1. Before(b, WritesAt(Marker), WritesAt(App))
    BY <1>10, <1>12, BeforeNone
  <2> QED
    BY <1>7, <1>8, <1>10, <2>1, BeforeConcat DEF Part
<1> HIDE DEF q
<1>14. Pending(q, WritesAt(Marker)) => Pending(q, WritesAt(App))
  BY <1>7, <1>8, <1>11, <1>12 DEF Part, Pending
<1>15. \A i \in DOMAIN q : /\ ApplyOp(q[i], file, build)
                           /\ q[i] \in WritesAt(Manifest) =>
                                i = Len(q) /\ (Entered(file, q[i].value.of["codex"]) => Pending(q, WritesAt(App)))
  <2>1. \A o \in Elems(a) : ApplyOp(o, file, build) /\ o \notin WritesAt(Manifest)
    BY <1>7, <1>8 DEF Part, ApplyOp
  <2>2. ApplyOp(m, file, build)
    BY <1>5, <1>6, <1>12 DEF ApplyOp
  <2>3. Entered(file, m.value.of["codex"]) => Pending(q, WritesAt(App))
    BY <1>4, <1>5, <1>6, <1>7, <1>8, <1>11 DEF Pending
  <2>4. \A i \in DOMAIN a : a[i] \in Elems(a)
    BY DEF Elems
  <2> QED
    BY <1>11, <2>1, <2>2, <2>3, <2>4
<1>16. ApplyTodo(q, file, file, build)
  BY <1>13, <1>14, <1>15 DEF ApplyTodo
<1> QED
  BY <1>1, <1>8, <1>9, <1>16 DEF q

\* The marker comes before the plist in the snapshots.
Order(q) == \A i, k \in DOMAIN q : q[i] = Marker /\ q[k] = App => i < k

LEMMA OrderNone ==
    ASSUME NEW q, Elems(q) \cap {Marker, App} = {}
    PROVE  Order(q)
BY DEF Order, Elems

LEMMA OrderConcat ==
    ASSUME NEW a \in Seq(Path), NEW b \in Seq(Path), Order(a), Order(b),
           Elems(a) \cap {Marker, App} = {} \/ Elems(b) \cap {Marker, App} = {}
    PROVE  Order(a \o b) /\ a \o b \in Seq(Path) /\ Elems(a \o b) = Elems(a) \cup Elems(b)
<1> DEFINE q == a \o b
<1>1. /\ q \in Seq(Path) /\ Elems(q) = Elems(a) \cup Elems(b)
      /\ Len(a) \in Nat /\ Len(b) \in Nat /\ DOMAIN b = 1..Len(b) /\ DOMAIN q = 1..(Len(a) + Len(b))
      /\ \A i \in DOMAIN q : \/ i \in DOMAIN a /\ q[i] = a[i]
                             \/ i > Len(a) /\ i - Len(a) \in DOMAIN b /\ q[i] = b[i - Len(a)]
  BY ConcatLies
<1> HIDE DEF q
<1>2. ASSUME NEW i \in DOMAIN q, NEW k \in DOMAIN q, q[i] = Marker, q[k] = App
      PROVE  i < k
  <2>1. CASE Elems(a) \cap {Marker, App} = {}
    <3>1. /\ i - Len(a) \in DOMAIN b /\ b[i - Len(a)] = Marker
          /\ k - Len(a) \in DOMAIN b /\ b[k - Len(a)] = App
      BY <1>1, <1>2, <2>1 DEF Elems
    <3>2. i - Len(a) < k - Len(a)
      BY <3>1 DEF Order
    <3> QED
      BY <1>1, <3>2
  <2>2. CASE Elems(b) \cap {Marker, App} = {}
    <3>1. i \in DOMAIN a /\ a[i] = Marker /\ k \in DOMAIN a /\ a[k] = App
      BY <1>1, <1>2, <2>2 DEF Elems
    <3> QED
      BY <3>1 DEF Order
  <2> QED
    BY <2>1, <2>2
<1>3. Order(q)
  BY <1>2 DEF Order
<1> QED
  BY <1>1, <1>3 DEF q

LEMMA CodexPathsOrder ==
    ASSUME StateInv, "codex" \in Harness
    PROVE  Order(ApplyPathsOf("codex"))
<1> DEFINE a == When(ConfigChanges("codex"), <<<<"codex", "config">>>>)
           app == When(PlistChanges("app"), <<Marker, <<"codex", "app">>>>)
           wake == When(PlistChanges("wake"), <<<<"codex", "wake">>>>)
           skill == "skill" \in NewRecord("codex").links /\ RecordOf("codex") = NoRecord
           d == When(skill, <<<<"codex", "skill">>>>)
           Q == {Marker, App}
<1>1. /\ App = <<"codex", "app">> /\ Marker # App
      /\ <<"codex", "config">> \notin Q /\ <<"codex", "wake">> \notin Q /\ <<"codex", "skill">> \notin Q
      /\ Marker \in Path /\ App \in Path /\ <<"codex", "config">> \in Path
      /\ <<"codex", "wake">> \in Path /\ <<"codex", "skill">> \in Path
  BY PathsAre DEF Marker, App
<1>2. ConfigChanges("codex") \in BOOLEAN /\ PlistChanges("app") \in BOOLEAN /\ PlistChanges("wake") \in BOOLEAN
  BY DEF ConfigChanges, PlistChanges
<1> HIDE DEF Q
<1>3. ASSUME NEW c \in BOOLEAN, NEW p \in Path \ Q
      PROVE  When(c, <<p>>) \in Seq(Path) /\ Elems(When(c, <<p>>)) \cap Q = {} /\ Order(When(c, <<p>>))
  <2>1. PICK q : q = <<p>>
    OBVIOUS
  <2>2. q \in Seq(Path) /\ Elems(q) = {p}
    BY <2>1, OneIs
  <2>3. When(c, q) \in Seq(Path) /\ Elems(When(c, q)) = IF c THEN Elems(q) ELSE {}
    BY <2>2, WhenIs
  <2>4. Elems(When(c, q)) \cap Q = {}
    BY <2>2, <2>3
  <2>5. Order(When(c, q))
    BY <2>4, OrderNone DEF Q
  <2> QED
    BY <2>1, <2>3, <2>4, <2>5
<1>4. a \in Seq(Path) /\ Elems(a) \cap Q = {} /\ Order(a)
  BY <1>1, <1>2, <1>3
<1>5. wake \in Seq(Path) /\ Elems(wake) \cap Q = {} /\ Order(wake)
  BY <1>1, <1>2, <1>3
<1>6. d \in Seq(Path) /\ Elems(d) \cap Q = {} /\ Order(d)
  <2>1. skill \in BOOLEAN
    OBVIOUS
  <2> HIDE DEF skill
  <2> QED
    BY <1>1, <1>3, <2>1
<1>7. app \in Seq(Path) /\ Order(app)
  <2>1. PICK q : q = <<Marker, <<"codex", "app">>>>
    OBVIOUS
  <2>2. q \in Seq(Path) /\ DOMAIN q = {1, 2} /\ q[1] = Marker /\ q[2] = App
    BY <1>1, <2>1
  <2>3. Order(q)
    <3> SUFFICES ASSUME NEW i \in {1, 2}, NEW k \in {1, 2}, q[i] = Marker, q[k] = App PROVE i < k
      BY <2>2 DEF Order
    <3>1. i = 1 /\ k = 2
      BY <1>1, <2>2
    <3> QED
      BY <3>1
  <2>4. CASE PlistChanges("app")
    BY <2>1, <2>2, <2>3, <2>4 DEF When
  <2>5. CASE ~PlistChanges("app")
    <3>1. app \in Seq(Path) /\ Elems(app) = {}
      BY <2>5, NoneIs DEF When
    <3> QED
      BY <3>1, OrderNone
  <2> QED
    BY <2>4, <2>5
<1>8. ApplyPathsOf("codex") = ((a \o << >>) \o (app \o wake)) \o d
  BY DEF ApplyPathsOf
<1> HIDE DEF a, app, wake, d
<1>9. a \o << >> = a
  BY <1>4
<1>10. PICK c : c = app \o wake
  OBVIOUS
<1>11. Order(c) /\ c \in Seq(Path)
  BY <1>5, <1>7, <1>10, OrderConcat DEF Q
<1>12. PICK x : x = a \o c
  OBVIOUS
<1>13. Order(x) /\ x \in Seq(Path)
  BY <1>4, <1>11, <1>12, OrderConcat DEF Q
<1>14. Order(x \o d)
  BY <1>6, <1>13, OrderConcat DEF Q
<1> QED
  BY <1>8, <1>9, <1>10, <1>12, <1>14

LEMMA EachOrder ==
    ASSUME NEW set, NEW a, NEW b, NEW c,
           "claude" \in set => a \in Seq(Path) /\ Elems(a) \cap {Marker, App} = {},
           "hermes" \in set => b \in Seq(Path) /\ Elems(b) \cap {Marker, App} = {},
           "codex" \in set => c \in Seq(Path) /\ Order(c)
    PROVE  LET q == (IF "claude" \in set THEN a ELSE << >>)
                    \o (IF "hermes" \in set THEN b ELSE << >>)
                    \o (IF "codex" \in set THEN c ELSE << >>)
           IN  q \in Seq(Path) /\ Order(q)
<1> DEFINE x == IF "claude" \in set THEN a ELSE << >>
           y == IF "hermes" \in set THEN b ELSE << >>
           z == IF "codex" \in set THEN c ELSE << >>
<1>1. PICK none : none = << >>
  OBVIOUS
<1>2. none \in Seq(Path) /\ Elems(none) = {}
  BY <1>1, NoneIs
<1>3. x \in Seq(Path) /\ Elems(x) \cap {Marker, App} = {} /\ Order(x)
  BY <1>1, <1>2, OrderNone
<1>4. y \in Seq(Path) /\ Elems(y) \cap {Marker, App} = {} /\ Order(y)
  BY <1>1, <1>2, OrderNone
<1>5. z \in Seq(Path) /\ Order(z)
  BY <1>1, <1>2, OrderNone
<1> HIDE DEF x, y, z
<1>6. x \o y \in Seq(Path) /\ Elems(x \o y) = Elems(x) \cup Elems(y) /\ Order(x \o y)
  BY <1>3, <1>4, OrderConcat
<1>7. PICK w : w = x \o y
  OBVIOUS
<1>8. w \o z \in Seq(Path) /\ Order(w \o z)
  BY <1>3, <1>4, <1>5, <1>6, <1>7, OrderConcat
<1>9. (x \o y) \o z \in Seq(Path) /\ Order((x \o y) \o z)
  BY <1>7, <1>8
<1> QED
  BY <1>9 DEF x, y, z

LEMMA ApplyPathsOrder ==
    ASSUME StateInv, "codex" \in Harness, NEW set \in SUBSET Harness, ToApply(set) # {}
    PROVE  ApplyOrder(ApplyPaths(set))
<1> DEFINE work == ToApply(set)
           e == Each(work, ApplyPathsOf)
<1>1. work \subseteq Harness
  BY DEF ToApply
<1>2. e \in Seq(Path) /\ Order(e)
  <2> DEFINE A(h) == ApplyPathsOf(h)
  <2>1. \A h \in work : A(h) \in Seq(Path) /\ (h # "codex" => Elems(A(h)) \cap {Marker, App} = {})
    BY <1>1, ApplyPathsOfAre, OwnPathsAre DEF Crit
  <2>2. "codex" \in work => Order(A("codex"))
    BY CodexPathsOrder
  <2>3. e = (IF "claude" \in work THEN A("claude") ELSE << >>)
            \o (IF "hermes" \in work THEN A("hermes") ELSE << >>)
            \o (IF "codex" \in work THEN A("codex") ELSE << >>)
    BY DEF Each
  <2> HIDE DEF A, e, work
  <2> QED
    BY <2>1, <2>2, <2>3, EachOrder
<1>3. ApplyPaths(set) = e \o <<Manifest>>
  BY DEF ApplyPaths, When
<1>4. PICK m : m = <<Manifest>>
  OBVIOUS
<1>5. m \in Seq(Path) /\ Elems(m) = {Manifest} /\ Len(m) = 1 /\ m[1] = Manifest
  BY <1>4, PathsAre, OneIs
<1> HIDE DEF e
<1>6. Order(m) /\ Elems(m) \cap {Marker, App} = {}
  BY <1>5, CritIs, OrderNone
<1>7. PICK q : q = e \o m
  OBVIOUS
<1>8. Order(q) /\ q \in Seq(Path)
  BY <1>2, <1>5, <1>6, <1>7, OrderConcat
<1>9. Len(q) = Len(e) + 1 /\ Len(e) \in Nat /\ 1 + Len(e) \in DOMAIN q /\ q[1 + Len(e)] = m[1]
  <2>1. /\ Len(q) = Len(e) + Len(m) /\ Len(e) \in Nat /\ 1 \in DOMAIN m
        /\ \A i \in DOMAIN m : i + Len(e) \in DOMAIN q /\ q[i + Len(e)] = m[i]
    BY <1>2, <1>5, <1>7, ConcatLies
  <2> QED
    BY <1>5, <2>1
<1>10. q[Len(q)] = Manifest /\ Len(q) # 0
  BY <1>5, <1>9
<1>11. q # << >>
  BY <1>10
<1> QED
  BY <1>3, <1>4, <1>7, <1>8, <1>10, <1>11 DEF ApplyOrder, Order

\* The paths the operations of a removal write, but for the manifest.
RemovalPaths(work) == UNION {Elems(RemovePathsOf(h)) : h \in work}

LEMMA RemovalPathsAre ==
    ASSUME StateInv, NEW work \in SUBSET Owned
    PROVE  /\ Each(work, Remove) \in Seq(OpsOn(RemovalPaths(work)))
           /\ Manifest \notin RemovalPaths(work)
           /\ Marker \in RemovalPaths(work) => "codex" \in work
           /\ App \in RemovalPaths(work) => "codex" \in work /\ "app" \in RecordOf("codex").plists
<1> DEFINE Q == RemovalPaths(work)
<1>1. work \subseteq Harness /\ \A h \in work : RecordOf(h) # NoRecord
  BY DEF Owned
<1>2. \A h \in work : Elems(RemovePathsOf(h)) \subseteq Q
  BY DEF RemovalPaths
<1>3. \A h \in work : Remove(h) \in Seq(OpsOn(Q))
  BY <1>1, <1>2, RemoveIs
<1>4. Each(work, Remove) \in Seq(OpsOn(Q))
  <2> DEFINE A(h) == Remove(h)
             e == Each(work, Remove)
             S == OpsOn(Q)
  <2>1. /\ "claude" \in work => A("claude") \in Seq(S)
        /\ "hermes" \in work => A("hermes") \in Seq(S)
        /\ "codex" \in work => A("codex") \in Seq(S)
    BY <1>3
  <2>2. e = (IF "claude" \in work THEN A("claude") ELSE << >>)
            \o (IF "hermes" \in work THEN A("hermes") ELSE << >>)
            \o (IF "codex" \in work THEN A("codex") ELSE << >>)
    BY DEF Each
  <2> HIDE DEF A, e, S
  <2>3. e \in Seq(S)
    BY <2>1, <2>2, EachIs
  <2> QED
    BY <2>3 DEF e, S
<1>5. \A h \in work : \A p \in Elems(RemovePathsOf(h)) :
        /\ p # Manifest /\ (p \in Crit => h = "codex")
        /\ p = <<h, "app">> => "app" \in RecordOf(h).plists
  <2> SUFFICES ASSUME NEW h \in work
               PROVE  \A p \in Elems(RemovePathsOf(h)) :
                        /\ p # Manifest /\ (p \in Crit => h = "codex")
                        /\ p = <<h, "app">> => "app" \in RecordOf(h).plists
    OBVIOUS
  <2>1. /\ Elems(RemovePathsOf(h)) \subseteq OwnPaths(h)
        /\ <<h, "app">> \in Elems(RemovePathsOf(h)) => "app" \in RecordOf(h).plists
    BY <1>1, RemovePathsOfAre
  <2>2. Manifest \notin OwnPaths(h) /\ (h # "codex" => OwnPaths(h) \cap Crit = {})
    BY <1>1, OwnPathsAre
  <2> QED
    BY <2>1, <2>2
<1>6. Marker \in Crit /\ App \in Crit /\ App = <<"codex", "app">>
  BY CritIs DEF App
<1> QED
  BY <1>4, <1>5, <1>6 DEF RemovalPaths

\* A removal begins with the job unloaded first, and takes out its record or all of them.
LEMMA RemoveBegins ==
    ASSUME StateInv, "codex" \in Harness, NEW set \in SUBSET Harness, RemoveOps(set) # << >>
    PROVE  RemoveTodo(RemoveOps(set), file, loaded)
<1> DEFINE work == ToRemove(set)
           Q == RemovalPaths(work)
           unload == Unload(set)
           e == Each(work, Remove)
           v == ManifestWith([h \in work |-> NoRecord])
           m == IF Owned = work THEN Op("unlink", Manifest) ELSE Put(Manifest, v)
           A == {Op("bootout", App)}
           B == Guarded(file)
<1>1. RemoveOps(set) = (unload \o e) \o <<m>>
  <2>1. RemoveOps(set) = (unload \o e) \o (IF Owned = work THEN <<Op("unlink", Manifest)>> ELSE <<Put(Manifest, v)>>)
    BY DEF RemoveOps, When
  <2> QED
    BY <2>1
<1>2. work \subseteq Owned
  BY DEF ToRemove
<1>3. /\ e \in Seq(OpsOn(Q)) /\ Manifest \notin Q
      /\ Marker \in Q => "codex" \in work
      /\ App \in Q => "codex" \in work /\ "app" \in RecordOf("codex").plists
  BY <1>2, RemovalPathsAre
<1>4. unload \in Seq(OpsOn({}))
  BY UnloadIs
<1>5. RecordOf("codex") = RecIn(file) /\ App = <<"codex", "app">>
  BY DEF RecordOf, RecIn, App
<1>6. /\ m.path = Manifest
      /\ \/ m.op = "unlink"
         \/ m.op = "put" /\ m.value # NoFile /\ m.value.of["codex"] \in {NoRecord, RecIn(file)}
  <2>1. v.kind = "manifest" /\ v.of["codex"] \in {NoRecord, RecIn(file)}
    BY <1>5 DEF ManifestWith
  <2> HIDE DEF v
  <2>2. v # NoFile
    BY <2>1, NothingElse
  <2> QED
    BY <2>1, <2>2 DEF Put, Op
<1>7. m \in OpRecord
  <2>1. CASE Owned = work
    BY <2>1, PathsAre DEF Op, OpRecord, Writes, Value
  <2>2. CASE Owned # work
    <3>1. v \in GoodManifest
      <4>1. work \in SUBSET Harness
        BY <1>2 DEF Owned
      <4>2. PICK new : new = [h \in work |-> NoRecord]
        OBVIOUS
      <4>3. DOMAIN new = work /\ \A h \in work : new[h] = NoRecord
        BY <4>2
      <4>4. ManifestWith(new) \in GoodManifest
        BY <4>1, <4>3, ManifestIs
      <4> QED
        BY <4>2, <4>4
    <3> HIDE DEF v
    <3> QED
      BY <2>2, <3>1, PathsAre DEF Put, OpRecord, Writes, Value, GoodManifest
  <2> QED
    BY <2>1, <2>2
<1>8. Lists(RecIn(file)) /\ "codex" \in work => Before(unload, A, B) /\ Pending(unload, A)
  <2> SUFFICES ASSUME Lists(RecIn(file)), "codex" \in work PROVE Before(unload, A, B) /\ Pending(unload, A)
    OBVIOUS
  <2> DEFINE Job(l) == When(l \in RecordOf("codex").plists, <<Op("bootout", <<"codex", l>>)>>)
             b == Job("wake")
             x == Op("bootout", App)
  <2>1. "app" \in RecordOf("codex").plists
    BY <1>5 DEF Lists
  <2>2. Unload(set) = <<x>> \o b
    BY <1>5, <2>1 DEF Unload, UnloadNeeded, When
  <2>3. PICK a : a = <<x>>
    OBVIOUS
  <2>4. x \in OpRecord /\ x \notin B
    BY <1>5, CritIs DEF Op, OpRecord, Writes, Value, Guarded, WritesAt, Crit
  <2>5. b \in Seq(OpRecord)
    <3>1. PICK o : o = Op("bootout", <<"codex", "wake">>)
      OBVIOUS
    <3>2. o \in OpRecord
      BY <3>1, PathsAre DEF Op, OpRecord, Writes, Value
    <3>3. When("wake" \in RecordOf("codex").plists, <<o>>) \in Seq(OpRecord)
      BY <3>2, ListsMember
    <3> QED
      BY <3>1, <3>3
  <2> HIDE DEF b, B
  <2>6. Before(a, A, B) /\ Pending(a, A) /\ a \in Seq(OpRecord) /\ Elems(a) = {x}
    <3> HIDE DEF x
    <3>1. Before(a, A, B)
      BY <2>3, <2>4, BeforeLone
    <3>2. a \in Seq(OpRecord) /\ Elems(a) = {x}
      BY <2>3, <2>4, OneIs
    <3>3. x \in A
      BY DEF x
    <3> QED
      BY <3>1, <3>2, <3>3 DEF Pending
  <2>7. Before(a \o b, A, B) /\ Elems(a \o b) = Elems(a) \cup Elems(b)
    BY <2>5, <2>6, BeforeConcat, ConcatIs
  <2>8. Pending(a \o b, A)
    BY <2>6, <2>7 DEF Pending
  <2> QED
    BY <2>2, <2>3, <2>7, <2>8
<1> HIDE DEF unload, e, m, v, Q
<1>9. PICK a : a = unload \o e
  OBVIOUS
<1>10. PICK b : b = <<m>>
  OBVIOUS
<1>11. unload \in Seq(OpRecord) /\ e \in Seq(OpRecord) /\ b \in Seq(OpRecord) /\ Elems(b) = {m}
  BY <1>3, <1>4, <1>7, <1>10, OpsAreRecords, OneIs
<1>12. a \in Seq(OpRecord) /\ Elems(a) = Elems(unload) \cup Elems(e)
  BY <1>9, <1>11, ConcatIs
<1> DEFINE q == a \o b
<1>13. q \in Seq(OpRecord) /\ Elems(q) = Elems(unload) \cup Elems(e) \cup {m}
  BY <1>11, <1>12, ConcatIs
<1>14. Elems(unload) \subseteq OpsOn({}) /\ Elems(e) \subseteq OpsOn(Q)
  BY <1>3, <1>4, ElemsAre
<1>15. \A p : /\ \A o \in Elems(unload) : o \notin WritesAt(p)
              /\ p \notin Q => \A o \in Elems(e) : o \notin WritesAt(p)
              /\ p # Manifest => m \notin WritesAt(p)
  BY <1>6, <1>14 DEF OpsOn, WritesAt
<1> HIDE DEF q
<1>16. \A i \in DOMAIN q : q[i] \in WritesAt(Manifest) =>
         \/ q[i].op = "unlink"
         \/ q[i].op = "put" /\ q[i].value # NoFile /\ q[i].value.of["codex"] \in {NoRecord, RecIn(file)}
  <2> SUFFICES ASSUME NEW i \in DOMAIN q, q[i] \in WritesAt(Manifest) PROVE q[i] = m
    BY <1>6
  <2>1. q[i] \in Elems(q)
    BY DEF Elems
  <2> QED
    BY <1>3, <1>13, <1>15, <2>1
<1>17. loaded["app"] = 0 \/ Before(q, A, B)
  <2>1. CASE Lists(RecIn(file)) /\ "codex" \in work
    <3>1. Before(a, A, B)
      BY <1>8, <1>9, <1>11, <2>1, BeforeConcat
    <3>2. Pending(a, A)
      BY <1>8, <1>12, <2>1 DEF Pending
    <3> QED
      BY <1>11, <1>12, <3>1, <3>2, BeforeConcat DEF q
  <2>2. CASE ~(Lists(RecIn(file)) /\ "codex" \in work)
    <3>1. App \notin Q
      BY <1>3, <1>5, <2>2, NothingElse DEF Lists, Owned, ToRemove
    <3>2. Lists(RecIn(file)) => Marker \notin Q
      BY <1>3, <2>2
    <3>3. \A o \in Elems(q) : o \notin B
      BY <1>13, <1>15, <3>1, <3>2, CritIs DEF Guarded
    <3> QED
      BY <3>3, BeforeNone
  <2> QED
    BY <2>1, <2>2
<1> QED
  BY <1>1, <1>9, <1>10, <1>16, <1>17 DEF RemoveTodo, q

-----------------------------------------------------------------------------
(* Steps of a command, on codex *)

LEMMA JobsHeld ==
    ASSUME IInv, JobsInv, "codex" \in Harness, NEW s \in Setup, proc[s].at # "idle"
    PROVE  /\ raced \cap Crit = {}
           /\ ~broken => /\ OnCodex(proc[s], file, loaded)
                         /\ killed = {} => Exact(proc[s].base[1], proc[s].base[2])
BY HeldIs DEF JobsInv

\* A command has the lock after the step,
LEMMA JobsGoOn ==
    ASSUME IInv, "codex" \in Harness, NEW s \in Setup, LockFree \/ Holds(s), NEW c,
           proc' = [proc EXCEPT ![s] = c], c.at \in {"snap", "work", "undo"},
           raced' \cap Crit = {},
           broken' \/ (/\ OnCodex(c, file', loaded')
                       /\ killed' = {} => Exact(c.base[1], c.base[2]))
    PROVE  JobsInv'
<1>1. proc'[s] = c /\ \A t \in Setup \ {s} : proc'[t] = proc[t] /\ ~Holds(t)
  BY DEF IInv, LockInv, LockFree
<1>2. /\ \A t \in Setup : Holds(t)' => t = s
      /\ Holds(s)'
  BY <1>1 DEF Holds
<1>3. ~LockFree'
  BY <1>2 DEF LockFree
<1>4. ~broken' => Covered(file', loaded')
  BY CoveredNow
<1> QED
  BY <1>1, <1>2, <1>3, <1>4 DEF JobsInv

\* or leaves it.
LEMMA JobsEnd ==
    ASSUME IInv, "codex" \in Harness, NEW s \in Setup, Holds(s), Ends(s),
           raced' \cap Crit = {},
           broken' \/ (Covered(file', loaded') /\ (killed' = {} => Exact(file', loaded')))
    PROVE  JobsInv'
<1>1. proc'[s] = IdleProc /\ \A t \in Setup \ {s} : proc'[t] = proc[t] /\ ~Holds(t)
  BY DEF IInv, LockInv, Ends
<1>2. \A t \in Setup : ~Holds(t)'
  BY <1>1, IdleIs DEF Holds
<1> QED
  BY <1>2 DEF JobsInv

\* Where the files of codex are as they were and its job is no other.
LEMMA SameIs ==
    ASSUME NEW b, NEW j0, NEW f, NEW j, \A p \in Crit : f[p] = b[p], j["app"] \in {j0["app"], 0}
    PROVE  /\ Exact(b, j0) => Exact(f, j)
           /\ Covered(b, j0) => Covered(f, j)
           /\ RecIn(f) = RecIn(b)
<1>1. f[Marker] = b[Marker] /\ f[App] = b[App] /\ f[Manifest] = b[Manifest]
  BY CritIs
<1>2. RecIn(f) = RecIn(b)
  BY <1>1 DEF RecIn
<1> QED
  BY <1>1, <1>2 DEF Exact, Covered

LEMMA JobIs ==
    ASSUME NEW c, NEW f, NEW j, OnCodex(c, f, j)
    PROVE  j["app"] \in {c.base[2]["app"], 0}
BY DEF OnCodex, IsApply, IsRemove, ApplyFiles, RemoveFiles

LEMMA StartIs ==
    ASSUME NEW f, NEW j, NEW g
    PROVE  ApplyFiles(f, j, f, j, g) /\ RemoveFiles(f, j, f, j)
BY DEF ApplyFiles, RemoveFiles, Renewed, Entered, Lists

LEMMA JobsBegin ==
    ASSUME IInv, JobsInv, "codex" \in Harness, NEW s \in Setup, Begin(s)
    PROVE  JobsInv'
<1>1. PICK cmd \in {"apply", "remove"}, set \in SUBSET Harness \ {{}} :
        /\ Begun(cmd, set).todo # << >>
        /\ proc' = [proc EXCEPT ![s] = Begun(cmd, set)]
  BY DEF Begin
<1>2. LockFree /\ raced' = {} /\ UNCHANGED <<file, loaded, build, killed, broken>> /\ StateInv
  BY DEF Begin, IInv
<1> DEFINE todo == IF cmd = "apply" THEN ApplyOps(set) ELSE RemoveOps(set)
           paths == IF cmd = "apply" THEN ApplyPaths(set) ELSE RemovePaths(set)
           base == <<file, loaded>>
           c == Begun(cmd, set)
<1>3. /\ c.at = "snap" /\ c.base = base /\ c.todo = todo /\ c.paths = paths
      /\ base[1] = file /\ base[2] = loaded
  BY DEF Begun, IdleProc
<1>4. ASSUME ~broken
      PROVE  OnCodex(c, file, loaded) /\ (killed = {} => Exact(file, loaded))
  <2>1. Covered(file, loaded) /\ (killed = {} => Exact(file, loaded))
    BY <1>2, <1>4 DEF JobsInv
  <2>2. CASE cmd = "apply"
    <3>1. todo = ApplyOps(set) /\ paths = ApplyPaths(set) /\ ApplyOps(set) # << >>
      BY <1>1, <1>3, <2>2
    <3>2. ToApply(set) # {}
      BY <3>1 DEF ApplyOps, When
    <3>3. ApplyTodo(todo, file, file, build) /\ ApplyOrder(paths)
      BY <1>2, <3>1, <3>2, ApplyBegins, ApplyPathsOrder
    <3>4. build \in 1..MaxBuild
      BY <1>2 DEF StateInv
    <3> HIDE DEF todo, paths, base, c
    <3>5. IsApply(c, file, loaded, build)
      BY <1>3, <3>3, StartIs DEF IsApply
    <3> QED
      BY <1>3, <2>1, <3>4, <3>5 DEF OnCodex, Undone
  <2>3. CASE cmd # "apply"
    <3>1. todo = RemoveOps(set) /\ RemoveOps(set) # << >>
      BY <1>1, <1>3, <2>3
    <3>2. RemoveTodo(todo, file, loaded)
      BY <1>2, <3>1, RemoveBegins
    <3> HIDE DEF todo, paths, base, c
    <3>3. IsRemove(c, file, loaded)
      BY <1>3, <3>2, StartIs DEF IsRemove
    <3> QED
      BY <1>3, <2>1, <3>3 DEF OnCodex, Undone
  <2> QED
    BY <2>2, <2>3
<1> HIDE DEF c, todo, paths, base
<1>5. proc' = [proc EXCEPT ![s] = c]
  BY <1>1 DEF c
<1> QED
  BY <1>2, <1>3, <1>4, <1>5, JobsGoOn

LEMMA JobsSnapshot ==
    ASSUME IInv, JobsInv, "codex" \in Harness, NEW s \in Setup, Snapshot(s)
    PROVE  JobsInv'
<1> DEFINE p == proc[s]
           saved == [i \in DOMAIN p.paths |-> file[p.paths[i]]]
           c == [p EXCEPT !.at = "work", !.saved = saved]
<1>1. p.at = "snap" /\ UNCHANGED <<file, loaded, raced, killed, broken>> /\ proc' = [proc EXCEPT ![s] = c]
  BY DEF Snapshot, ghosts
<1>2. p \in Proc /\ Holds(s)
  BY <1>1, HeldIs
<1>3. c.at = "work" /\ c.base = p.base /\ c.todo = p.todo /\ c.paths = p.paths
  BY <1>2 DEF Proc
<1>4. /\ raced \cap Crit = {}
      /\ ~broken => OnCodex(p, file, loaded) /\ (killed = {} => Exact(p.base[1], p.base[2]))
  BY <1>1, JobsHeld
<1> HIDE DEF c, p
<1>5. OnCodex(p, file, loaded) => OnCodex(c, file, loaded)
  BY <1>1, <1>3 DEF OnCodex, IsApply, IsRemove, Undone
<1> QED
  BY <1>1, <1>2, <1>3, <1>4, <1>5, JobsGoOn

\* Where a command is after its first operation.
LEMMA OnCodexNext ==
    ASSUME IInv, "codex" \in Harness, NEW s \in Setup, proc[s].at = "work", OnCodex(proc[s], file, loaded)
    PROVE  LET c == proc[s]
               x == Head(c.todo)
               r == Tail(c.todo)
           IN  \/ /\ RemoveFiles(c.base[1], c.base[2], NewFile(x), NewLoaded(x))
                  /\ RemoveTodo(r, c.base[1], NewLoaded(x))
               \/ \E g \in 1..MaxBuild :
                    /\ ApplyFiles(c.base[1], c.base[2], NewFile(x), NewLoaded(x), g)
                    /\ ApplyTodo(r, c.base[1], NewFile(x), g)
                    /\ ApplyOrder(c.paths)
<1> DEFINE c == proc[s]
           x == Head(c.todo)
           r == Tail(c.todo)
           Q == Elems(c.paths)
<1>1. StateInv /\ c.todo \in Seq(OpRecord) /\ c.todo # << >> /\ x \in OpsOn(Q)
  BY OperationIs, HeldIs DEF IInv, Proc
<1>2. Cons(c.todo, x, r)
  BY <1>1, TailCons
<1> HIDE DEF x, r, Q
<1>3. CASE IsRemove(c, file, loaded)
  <2>1. RemoveFiles(c.base[1], c.base[2], file, loaded) /\ RemoveTodo(c.todo, c.base[1], loaded)
    BY <1>3 DEF IsRemove
  <2>2. /\ RemoveFiles(c.base[1], c.base[2], NewFile(x), NewLoaded(x))
        /\ RemoveTodo(r, c.base[1], NewLoaded(x))
    BY <1>1, <1>2, <2>1, RemoveOperation
  <2> QED
    BY <2>2 DEF x, r
<1>4. ASSUME NEW g \in 1..MaxBuild, IsApply(c, file, loaded, g)
      PROVE  /\ ApplyFiles(c.base[1], c.base[2], NewFile(x), NewLoaded(x), g)
             /\ ApplyTodo(r, c.base[1], NewFile(x), g)
             /\ ApplyOrder(c.paths)
  <2>1. /\ ApplyFiles(c.base[1], c.base[2], file, loaded, g) /\ ApplyTodo(c.todo, c.base[1], file, g)
        /\ ApplyOrder(c.paths)
    BY <1>4 DEF IsApply
  <2> QED
    BY <1>1, <1>2, <2>1, ApplyOperation
<1> QED
  BY <1>3, <1>4 DEF OnCodex, x, r

\* A command that turns back has everything to undo.
LEMMA JobsTurn ==
    ASSUME NEW p, NEW c, NEW f, NEW j, NEW f0, NEW j0, OnCodex(p, f0, j0),
           c.at = "undo", c.base = p.base, c.paths = p.paths, c.paths \in Seq(Path),
           c.left = Len(c.paths),
           \/ RemoveFiles(c.base[1], c.base[2], f, j)
           \/ \E g \in 1..MaxBuild : ApplyFiles(c.base[1], c.base[2], f, j, g) /\ ApplyOrder(c.paths)
    PROVE  OnCodex(c, f, j)
<1>1. Undone(c, f)
  <2>1. DOMAIN c.paths = 1..Len(c.paths) /\ Len(c.paths) \in Nat
    OBVIOUS
  <2>2. \A k \in DOMAIN c.paths : ~(k > c.left)
    BY <2>1
  <2> QED
    BY <2>2 DEF Undone
<1>2. IsRemove(c, f, j) \/ \E g \in 1..MaxBuild : IsApply(c, f, j, g)
  BY DEF IsRemove, IsApply
<1> QED
  BY <1>1, <1>2 DEF OnCodex

LEMMA JobsStep ==
    ASSUME IInv, JobsInv, "codex" \in Harness, NEW s \in Setup, Step(s)
    PROVE  JobsInv'
<1> DEFINE p == proc[s]
           x == Head(p.todo)
           r == Tail(p.todo)
           Q == Elems(p.paths)
           b == p.base[1]
           j0 == p.base[2]
<1>1. p.at = "work" /\ UNCHANGED <<raced, killed, broken>>
  BY DEF Step, ghosts
<1>2. p \in Proc /\ Holds(s) /\ StateInv
  BY <1>1, HeldIs DEF IInv
<1>3. /\ raced \cap Crit = {}
      /\ ~broken => OnCodex(p, file, loaded) /\ (killed = {} => Exact(b, j0))
  BY <1>1, JobsHeld
<1>4. /\ r \in Seq(OpRecord) /\ p.paths \in Seq(Path) /\ p.todo # << >>
      /\ x.op = "edit" => NewFile(x) = file /\ NewLoaded(x) = loaded
      /\ x.op = "edit" /\ Can(x) => EditOp(x.path[1]) \in OpRecord
  <2>1. \A o \in OpsOn(Q) : o \in OpRecord
    BY DEF OpsOn
  <2>2. r \in Seq(OpsOn(Q)) /\ p.paths \in Seq(Path) /\ p.todo # << >>
    BY <1>1, <1>2, OperationIs DEF Proc
  <2>3. /\ x.op = "edit" => NewFile(x) = file /\ NewLoaded(x) = loaded
        /\ x.op = "edit" /\ Can(x) => EditOp(x.path[1]) \in OpsOn(Q)
    BY <1>1, OperationIs
  <2>4. Seq(OpsOn(Q)) \subseteq Seq(OpRecord)
    BY OpsAreRecords
  <2> HIDE DEF r, x, Q, p
  <2>5. r \in Seq(OpRecord)
    BY <2>2, <2>4
  <2>6. x.op = "edit" /\ Can(x) => EditOp(x.path[1]) \in OpRecord
    BY <2>1, <2>3
  <2> QED
    BY <2>2, <2>3, <2>5, <2>6
<1>5. ~broken =>
        \/ RemoveFiles(b, j0, NewFile(x), NewLoaded(x)) /\ RemoveTodo(r, b, NewLoaded(x))
        \/ \E g \in 1..MaxBuild : /\ ApplyFiles(b, j0, NewFile(x), NewLoaded(x), g)
                                  /\ ApplyTodo(r, b, NewFile(x), g)
                                  /\ ApplyOrder(p.paths)
  BY <1>1, <1>3, OnCodexNext
<1>6. CASE ~Can(x)
  <2> DEFINE c == [p EXCEPT !.at = "undo", !.left = Len(p.paths)]
  <2>1. proc' = [proc EXCEPT ![s] = c] /\ UNCHANGED <<file, loaded>>
    BY <1>6 DEF Step
  <2>2. c.at = "undo" /\ c.left = Len(p.paths) /\ c.paths = p.paths /\ c.base = p.base
    BY <1>2 DEF Proc
  <2> HIDE DEF c, p
  <2>3. OnCodex(p, file, loaded) => OnCodex(c, file, loaded)
    <3> SUFFICES ASSUME OnCodex(p, file, loaded) PROVE OnCodex(c, file, loaded)
      OBVIOUS
    <3>1. \/ RemoveFiles(c.base[1], c.base[2], file, loaded)
          \/ \E g \in 1..MaxBuild : ApplyFiles(c.base[1], c.base[2], file, loaded, g) /\ ApplyOrder(c.paths)
      BY <2>2 DEF OnCodex, IsApply, IsRemove
    <3>2. c.paths \in Seq(Path) /\ c.left = Len(c.paths)
      BY <1>4, <2>2
    <3> QED
      BY <2>2, <3>1, <3>2, JobsTurn
  <2> QED
    BY <1>1, <1>2, <1>3, <2>1, <2>2, <2>3, JobsGoOn DEF b, j0
<1>7. CASE Can(x)
  <2>1. /\ file' = NewFile(x) /\ loaded' = NewLoaded(x)
        /\ IF x.op = "edit"
           THEN proc' = [proc EXCEPT ![s].todo = <<EditOp(x.path[1])>> \o r]
           ELSE IF r = << >> THEN Ends(s)
           ELSE proc' = [proc EXCEPT ![s].todo = r, ![s].external = @ \/ IsLoaded(x)]
    BY <1>7 DEF Step
  <2>2. ASSUME NEW c, c.at = "work", c.base = p.base, c.paths = p.paths,
               ~broken => OnCodex(p, file, loaded),
               \/ RemoveFiles(b, j0, file', loaded') /\ RemoveTodo(c.todo, b, loaded')
               \/ \E g \in 1..MaxBuild : /\ ApplyFiles(b, j0, file', loaded', g)
                                         /\ ApplyTodo(c.todo, b, file', g)
                                         /\ ApplyOrder(p.paths)
        PROVE  ~broken => OnCodex(c, file', loaded')
    BY <2>2 DEF OnCodex, Undone, IsRemove, IsApply
  <2>3. CASE x.op = "edit"
    <3> DEFINE e == EditOp(x.path[1])
               todo == <<e>> \o r
               c == [p EXCEPT !.todo = todo]
    <3>1. proc' = [proc EXCEPT ![s] = c]
      BY <2>1, <2>3
    <3>2. e.path[2] = "config"
      BY DEF EditOp, Op, Put
    <3>3. e \in OpRecord
      BY <1>4, <1>7, <2>3
    <3> HIDE DEF e
    <3>4. Cons(todo, e, r)
      BY <1>4, <3>3, PushCons
    <3> HIDE DEF todo, r
    <3>5. ~broken =>
            \/ RemoveFiles(b, j0, file', loaded') /\ RemoveTodo(todo, b, loaded')
            \/ \E g \in 1..MaxBuild : /\ ApplyFiles(b, j0, file', loaded', g)
                                      /\ ApplyTodo(todo, b, file', g)
                                      /\ ApplyOrder(p.paths)
      <4>1. RemoveTodo(r, b, loaded') => RemoveTodo(todo, b, loaded')
        BY <3>2, <3>3, <3>4, EditPushed
      <4>2. \A g : ApplyTodo(r, b, file', g) => ApplyTodo(todo, b, file', g)
        BY <3>2, <3>3, <3>4, EditPushed
      <4> QED
        BY <1>5, <2>1, <4>1, <4>2
    <3>6. c.at = "work" /\ c.base = p.base /\ c.paths = p.paths /\ c.todo = todo
      BY <1>1, <1>2 DEF Proc
    <3> HIDE DEF c, p, x
    <3>7. ~broken => OnCodex(c, file', loaded')
      <4> SUFFICES ASSUME ~broken PROVE OnCodex(c, file', loaded')
        OBVIOUS
      <4>1. \/ RemoveFiles(b, j0, file', loaded') /\ RemoveTodo(c.todo, b, loaded')
            \/ \E g \in 1..MaxBuild : /\ ApplyFiles(b, j0, file', loaded', g)
                                      /\ ApplyTodo(c.todo, b, file', g)
                                      /\ ApplyOrder(p.paths)
        BY <3>5, <3>6
      <4> HIDE DEF b, j0
      <4> QED
        BY <1>3, <2>2, <3>6, <4>1
    <3> QED
      BY <1>1, <1>2, <1>3, <3>1, <3>6, <3>7, JobsGoOn DEF b, j0
  <2>4. CASE x.op # "edit" /\ r = << >>
    <3>1. Ends(s)
      BY <2>1, <2>4
    <3>2. \A A : ~Pending(r, A)
      BY <2>4 DEF Pending, Elems
    <3>3. ~broken => Covered(file', loaded') /\ (killed = {} => Exact(file', loaded'))
      <4> SUFFICES ASSUME ~broken PROVE Covered(file', loaded') /\ (killed = {} => Exact(file', loaded'))
        OBVIOUS
      <4>1. Covered(b, j0) /\ (killed = {} => Exact(b, j0))
        BY <1>3 DEF OnCodex
      <4> HIDE DEF b, j0, x, r
      <4>2. CASE RemoveFiles(b, j0, NewFile(x), NewLoaded(x))
        BY <2>1, <4>1, <4>2, CoveredByRemove, ExactByRemove
      <4>3. ASSUME NEW g, ApplyFiles(b, j0, NewFile(x), NewLoaded(x), g), ApplyTodo(r, b, NewFile(x), g)
            PROVE  Covered(file', loaded') /\ (killed = {} => Exact(file', loaded'))
        <5>1. NewFile(x)[Marker] = b[Marker] \/ Replaced(NewFile(x), g)
          BY <3>2, <4>3 DEF ApplyTodo
        <5> QED
          BY <2>1, <4>1, <4>3, <5>1, CoveredByApply, ExactByApply
      <4> QED
        BY <1>5, <4>2, <4>3
    <3> QED
      BY <1>1, <1>2, <1>3, <3>1, <3>3, JobsEnd
  <2>5. CASE x.op # "edit" /\ r # << >>
    <3> DEFINE external == p.external \/ IsLoaded(x)
               c == [p EXCEPT !.todo = r, !.external = external]
    <3>1. proc' = [proc EXCEPT ![s] = c]
      BY <2>1, <2>5
    <3>2. c.at = "work" /\ c.base = p.base /\ c.paths = p.paths /\ c.todo = r
      BY <1>1, <1>2 DEF Proc
    <3> HIDE DEF c, p, x, r, external
    <3>3. ~broken => OnCodex(c, file', loaded')
      <4> SUFFICES ASSUME ~broken PROVE OnCodex(c, file', loaded')
        OBVIOUS
      <4>1. \/ RemoveFiles(b, j0, file', loaded') /\ RemoveTodo(c.todo, b, loaded')
            \/ \E g \in 1..MaxBuild : /\ ApplyFiles(b, j0, file', loaded', g)
                                      /\ ApplyTodo(c.todo, b, file', g)
                                      /\ ApplyOrder(p.paths)
        BY <1>5, <2>1, <3>2
      <4> HIDE DEF b, j0
      <4> QED
        BY <1>3, <2>2, <3>2, <4>1
    <3> QED
      BY <1>1, <1>2, <1>3, <3>1, <3>2, <3>3, JobsGoOn DEF b, j0
  <2> QED
    BY <2>3, <2>4, <2>5
<1> QED
  BY <1>6, <1>7

LEMMA JobsFault ==
    ASSUME IInv, JobsInv, "codex" \in Harness, NEW s \in Setup, Fault(s)
    PROVE  JobsInv'
<1> DEFINE p == proc[s]
           x == Head(p.todo)
           b == p.base[1]
           j0 == p.base[2]
<1>1. PICK tried \in BOOLEAN :
        /\ \/ UNCHANGED <<file, loaded>>
           \/ tried /\ Can(x) /\ file' = NewFile(x) /\ loaded' = NewLoaded(x)
        /\ proc' = [proc EXCEPT ![s].at = "undo", ![s].left = Len(proc[s].paths),
                                ![s].external = @ \/ (tried /\ IsLoaded(x))]
  BY DEF Fault
<1>2. p.at = "work" /\ UNCHANGED <<raced, killed, broken>>
  BY DEF Fault, ghosts, Trouble, Spend
<1>3. p \in Proc /\ Holds(s)
  BY <1>2, HeldIs
<1>4. /\ raced \cap Crit = {}
      /\ ~broken => OnCodex(p, file, loaded) /\ (killed = {} => Exact(b, j0))
  BY <1>2, JobsHeld
<1> DEFINE external == p.external \/ (tried /\ IsLoaded(x))
           c == [p EXCEPT !.at = "undo", !.left = Len(p.paths), !.external = external]
<1>5. proc' = [proc EXCEPT ![s] = c]
  BY <1>1
<1>6. /\ c.at = "undo" /\ c.base = p.base /\ c.paths = p.paths /\ c.left = Len(c.paths)
      /\ c.paths \in Seq(Path)
  BY <1>3 DEF Proc
<1>7. ~broken => \/ RemoveFiles(b, j0, file', loaded')
                 \/ \E g \in 1..MaxBuild : ApplyFiles(b, j0, file', loaded', g) /\ ApplyOrder(p.paths)
  <2> SUFFICES ASSUME ~broken
               PROVE  \/ RemoveFiles(b, j0, file', loaded')
                      \/ \E g \in 1..MaxBuild : ApplyFiles(b, j0, file', loaded', g) /\ ApplyOrder(p.paths)
    OBVIOUS
  <2>1. CASE UNCHANGED <<file, loaded>>
    <3> HIDE DEF p
    <3> QED
      BY <1>4, <2>1 DEF OnCodex, IsApply, IsRemove
  <2>2. CASE file' = NewFile(x) /\ loaded' = NewLoaded(x)
    <3>1. \/ RemoveFiles(b, j0, NewFile(x), NewLoaded(x))
          \/ \E g \in 1..MaxBuild : ApplyFiles(b, j0, NewFile(x), NewLoaded(x), g) /\ ApplyOrder(p.paths)
      BY <1>2, <1>4, OnCodexNext
    <3> HIDE DEF p, x, b, j0
    <3> QED
      BY <2>2, <3>1
  <2> QED
    BY <1>1, <2>1, <2>2
<1> HIDE DEF c, p
<1>8. ~broken => OnCodex(c, file', loaded')
  BY <1>4, <1>6, <1>7, JobsTurn
<1> QED
  BY <1>2, <1>3, <1>4, <1>5, <1>6, <1>8, JobsGoOn

\* A snapshot of codex is of what was there before the command.
LEMMA SavedIs ==
    ASSUME IInv, raced \cap Crit = {}, NEW s \in Setup, proc[s].at = "undo"
    PROVE  /\ proc[s].paths \in Seq(Path) /\ Len(proc[s].paths) \in Nat /\ proc[s].left \in 0..Len(proc[s].paths)
           /\ DOMAIN proc[s].paths = 1..Len(proc[s].paths)
           /\ \A i \in DOMAIN proc[s].paths : proc[s].paths[i] \in Crit =>
                proc[s].saved[i] = proc[s].base[1][proc[s].paths[i]]
           /\ \A p \in Crit \cap Path : p \notin Elems(proc[s].paths) => file[p] = proc[s].base[1][p]
<1>1. Keeps(proc[s], file, loaded, raced) /\ proc[s] \in Proc
  BY HeldIs
<1>2. proc[s].paths \in Seq(Path)
  BY <1>1 DEF Proc
<1> QED
  BY <1>1, <1>2 DEF Keeps

LEMMA JobsUndo ==
    ASSUME IInv, JobsInv, "codex" \in Harness, NEW s \in Setup, Undo(s)
    PROVE  JobsInv'
<1> DEFINE p == proc[s]
           n == p.left
           path == p.paths[n]
           b == p.base[1]
           j0 == p.base[2]
           c == [p EXCEPT !.left = n - 1]
<1>1. /\ p.at = "undo" /\ n > 0 /\ UNCHANGED <<loaded, raced, killed>>
      /\ proc' = [proc EXCEPT ![s] = c]
      /\ broken' \/ (file' = [file EXCEPT ![path] = p.saved[n]] /\ broken' = broken)
  BY DEF Undo
<1>2. p \in Proc /\ Holds(s) /\ file \in [Path -> Value]
  BY <1>1, HeldIs DEF IInv, StateInv
<1>3. /\ raced \cap Crit = {}
      /\ ~broken => OnCodex(p, file, loaded) /\ (killed = {} => Exact(b, j0))
  BY <1>1, JobsHeld
<1>4. /\ p.paths \in Seq(Path) /\ Len(p.paths) \in Nat /\ n \in 0..Len(p.paths)
      /\ DOMAIN p.paths = 1..Len(p.paths)
      /\ \A i \in DOMAIN p.paths : p.paths[i] \in Crit => p.saved[i] = b[p.paths[i]]
      /\ \A q \in Crit \cap Path : q \notin Elems(p.paths) => file[q] = b[q]
  BY <1>1, <1>3, SavedIs
<1>5. /\ c.at = "undo" /\ c.left = n - 1 /\ c.base = p.base /\ c.paths = p.paths
  BY <1>1, <1>2 DEF Proc
<1> HIDE DEF c, p
<1>6. ASSUME ~broken, file' = [file EXCEPT ![path] = p.saved[n]]
      PROVE  OnCodex(c, file', loaded)
  <2>1. n \in DOMAIN p.paths /\ path \in Path /\ path \in Elems(p.paths) /\ n \in Nat
    BY <1>1, <1>4 DEF Elems
  <2>2. /\ path \in Crit => file'[path] = b[path]
        /\ \A q \in Path : q # path => file'[q] = file[q]
    BY <1>2, <1>4, <1>6, <2>1
  <2>3. Undone(p, file) /\ Covered(b, j0)
    BY <1>3, <1>6 DEF OnCodex
  <2>4. Crit \subseteq Path /\ Marker \in Crit /\ App \in Crit /\ Manifest \in Crit
    BY CritIs
  <2> HIDE DEF path, n, b, j0
  <2>5. Undone(c, file')
    <3> SUFFICES ASSUME NEW k \in DOMAIN p.paths, k > n - 1, p.paths[k] \in Crit
                 PROVE  file'[p.paths[k]] = b[p.paths[k]]
      BY <1>5 DEF Undone, b
    <3>1. CASE p.paths[k] = path
      BY <2>2, <3>1
    <3>2. CASE p.paths[k] # path
      <4>1. k # n /\ k \in Nat
        BY <1>4, <3>2 DEF path
      <4>2. k > n
        BY <2>1, <4>1
      <4>3. file[p.paths[k]] = b[p.paths[k]]
        BY <1>1, <2>3, <4>2 DEF Undone, b, n
      <4> QED
        BY <1>4, <2>2, <3>2, <4>3
    <3> QED
      BY <3>1, <3>2
  <2>6. CASE path \notin Crit
    <3>1. \A q \in Crit : file'[q] = file[q]
      BY <2>2, <2>4, <2>6
    <3>2. RecIn(file') = RecIn(file) /\ file'[Marker] = file[Marker] /\ file'[App] = file[App]
      BY <2>4, <3>1 DEF RecIn
    <3>3. \A g : Replaced(file', g) <=> Replaced(file, g)
      BY <3>2 DEF Replaced
    <3>4. \A g : ApplyFiles(b, j0, file, loaded, g) => ApplyFiles(b, j0, file', loaded, g)
      BY <3>2, <3>3 DEF ApplyFiles
    <3>5. RemoveFiles(b, j0, file, loaded) => RemoveFiles(b, j0, file', loaded)
      BY <3>2 DEF RemoveFiles
    <3>6. \/ RemoveFiles(b, j0, file, loaded)
          \/ \E g \in 1..MaxBuild : ApplyFiles(b, j0, file, loaded, g) /\ ApplyOrder(p.paths)
      BY <1>3, <1>6 DEF OnCodex, IsApply, IsRemove, b, j0
    <3> QED
      BY <1>1, <1>5, <2>3, <2>5, <3>4, <3>5, <3>6 DEF OnCodex, IsApply, IsRemove, b, j0
  <2>7. CASE path \in Crit
    <3>1. CASE IsRemove(p, file, loaded)
      <4>1. RemoveFiles(b, j0, file, loaded)
        BY <3>1 DEF IsRemove, b, j0
      <4>2. \A q \in Crit : file'[q] = b[q] \/ file'[q] = file[q]
        BY <2>2, <2>4, <2>7
      <4>3. RecIn(file') \in {RecIn(b), NoRecord}
        BY <2>4, <4>1, <4>2 DEF RemoveFiles, RecIn
      <4>4. RemoveFiles(b, j0, file', loaded)
        BY <2>4, <4>1, <4>2, <4>3 DEF RemoveFiles
      <4> QED
        BY <1>5, <2>3, <2>5, <4>4 DEF OnCodex, IsRemove, b, j0
    <3>2. ASSUME NEW g \in 1..MaxBuild, IsApply(p, file, loaded, g)
          PROVE  OnCodex(c, file', loaded)
      <4>1. ApplyFiles(b, j0, file, loaded, g) /\ ApplyOrder(p.paths)
        BY <3>2 DEF IsApply, b, j0
      <4>2. ApplyFiles(b, j0, file', loaded, g)
        <5>1. /\ loaded["app"] \in {j0["app"], 0} /\ file[Marker] \in {b[Marker], MarkerOf(g)}
              /\ file[App] = b[App] \/ Replaced(file, g)
              /\ Renewed(b, RecIn(file)) /\ (Entered(b, RecIn(file)) => Replaced(file, g))
          BY <4>1 DEF ApplyFiles
        <5>2. file'[Marker] \in {b[Marker], MarkerOf(g)}
          BY <2>2, <2>4, <2>7, <5>1
        <5>3. RecIn(file') \in {RecIn(b), RecIn(file)}
          BY <2>2, <2>4, <2>7 DEF RecIn
        <5>4. Renewed(b, RecIn(file'))
          BY <5>1, <5>3 DEF Renewed, Lists
        <5>5. path # Manifest => RecIn(file) = RecIn(b)
          <6> SUFFICES ASSUME path # Manifest PROVE RecIn(file) = RecIn(b)
            OBVIOUS
          <6> DEFINE last == Len(p.paths)
          <6>1. p.paths[last] = Manifest /\ last \in DOMAIN p.paths
            BY <1>4, <2>1, <4>1 DEF ApplyOrder
          <6>2. last # n
            BY <6>1 DEF path
          <6>3. last > n
            BY <1>4, <2>1, <6>2
          <6> HIDE DEF last
          <6>4. file[Manifest] = b[Manifest]
            BY <1>1, <2>3, <2>4, <6>1, <6>3 DEF Undone, n, b
          <6> QED
            BY <6>4 DEF RecIn
        <5>6. ~Entered(b, RecIn(file'))
          <6>1. RecIn(file') = RecIn(b)
            <7>1. CASE path = Manifest
              BY <2>2, <2>4, <7>1 DEF RecIn
            <7>2. CASE path # Manifest
              BY <5>3, <5>5, <7>2
            <7> QED
              BY <7>1, <7>2
          <6> QED
            BY <6>1 DEF Entered
        <5>7. path = Marker => file[App] = b[App]
          <6> SUFFICES ASSUME path = Marker PROVE file[App] = b[App]
            OBVIOUS
          <6>1. CASE App \notin Elems(p.paths)
            BY <1>4, <2>4, <6>1 DEF b
          <6>2. CASE App \in Elems(p.paths)
            <7>1. PICK k \in DOMAIN p.paths : p.paths[k] = App
              BY <6>2 DEF Elems
            <7>2. n < k
              BY <2>1, <4>1, <7>1 DEF ApplyOrder, path
            <7>3. k > n
              BY <1>4, <2>1, <7>2
            <7> QED
              BY <1>1, <2>3, <2>4, <7>1, <7>3 DEF Undone, n, b
          <6> QED
            BY <6>1, <6>2
        <5>8. file'[App] = b[App] \/ Replaced(file', g)
          <6>1. CASE path = App
            BY <2>2, <2>7, <6>1
          <6>2. CASE path = Marker
            BY <2>2, <2>4, <5>7, <6>2, CritIs
          <6>3. CASE path # App /\ path # Marker
            <7>1. file'[App] = file[App] /\ file'[Marker] = file[Marker]
              BY <2>2, <2>4, <6>3
            <7> QED
              BY <5>1, <7>1 DEF Replaced
          <6> QED
            BY <6>1, <6>2, <6>3
        <5> QED
          BY <5>1, <5>2, <5>4, <5>6, <5>8 DEF ApplyFiles
      <4> QED
        BY <1>5, <2>3, <2>5, <4>1, <4>2 DEF OnCodex, IsApply, b, j0
    <3> QED
      BY <1>3, <1>6, <3>1, <3>2 DEF OnCodex
  <2> QED
    BY <2>6, <2>7
<1>7. broken' \/ (OnCodex(c, file', loaded') /\ (killed' = {} => Exact(c.base[1], c.base[2])))
  BY <1>1, <1>3, <1>5, <1>6
<1> QED
  BY <1>1, <1>2, <1>3, <1>5, <1>7, JobsGoOn

LEMMA JobsReport ==
    ASSUME IInv, JobsInv, "codex" \in Harness, NEW s \in Setup, Report(s) \/ Kill(s)
    PROVE  JobsInv'
<1> DEFINE p == proc[s]
           b == p.base[1]
           j0 == p.base[2]
<1>1. /\ p.at # "idle" /\ Ends(s) /\ UNCHANGED <<file, loaded, raced>>
      /\ killed' = {} => killed = {}
  BY DEF Report, Kill
<1>2. Holds(s)
  BY <1>1, HeldIs
<1>3. /\ raced \cap Crit = {}
      /\ ~broken => OnCodex(p, file, loaded) /\ (killed = {} => Exact(b, j0))
  BY <1>1, JobsHeld
<1>4. Crit \subseteq Path
  BY CritIs
<1>5. CASE Report(s)
  <2>1. p.at = "undo" /\ broken' = (broken \/ ~Restored(s))
    BY <1>5 DEF Report
  <2>2. ASSUME ~broken, Restored(s), killed = {} PROVE Exact(file, loaded)
    <3>1. /\ DOMAIN p.paths = 1..Len(p.paths)
          /\ \A i \in DOMAIN p.paths : p.paths[i] \in Crit => p.saved[i] = b[p.paths[i]]
          /\ \A q \in Crit \cap Path : q \notin Elems(p.paths) => file[q] = b[q]
      BY <1>3, <2>1, SavedIs
    <3>2. \A i \in DOMAIN p.paths : file[p.paths[i]] = p.saved[i]
      BY <2>2 DEF Restored
    <3>3. \A q \in Crit : file[q] = b[q]
      BY <1>4, <3>1, <3>2 DEF Elems
    <3>4. loaded["app"] \in {j0["app"], 0}
      BY <1>3, <2>2, JobIs
    <3>5. Exact(b, j0)
      BY <1>3, <2>2
    <3> HIDE DEF b, j0
    <3> QED
      BY <3>3, <3>4, <3>5, SameIs
  <2>3. broken' \/ (Covered(file', loaded') /\ (killed' = {} => Exact(file', loaded')))
    <3>1. ~broken => Covered(file, loaded)
      BY <1>3, CoveredNow
    <3> HIDE DEF p
    <3> QED
      BY <1>1, <2>1, <2>2, <3>1
  <2> QED
    BY <1>1, <1>2, <1>3, <2>3, JobsEnd
<1>6. CASE Kill(s)
  <2>1. broken' = broken /\ killed' = killed \cup ({p.at} \ {"snap"})
    BY <1>6 DEF Kill
  <2>2. ASSUME ~broken, killed' = {} PROVE Exact(file, loaded)
    <3>1. p.at = "snap"
      BY <2>1, <2>2
    <3>2. \A q \in Path \ raced : file[q] = b[q]
      BY <1>1, <3>1, HeldIs DEF Keeps
    <3>3. \A q \in Crit : file[q] = b[q]
      BY <1>3, <1>4, <3>2
    <3>4. loaded["app"] \in {j0["app"], 0}
      BY <1>3, <2>2, JobIs
    <3>5. Exact(b, j0)
      BY <1>1, <1>3, <2>2
    <3> HIDE DEF b, j0
    <3> QED
      BY <3>3, <3>4, <3>5, SameIs
  <2>3. ~broken => Covered(file, loaded)
    BY <1>3, CoveredNow
  <2>4. broken' \/ (Covered(file', loaded') /\ (killed' = {} => Exact(file', loaded')))
    BY <1>1, <2>1, <2>2, <2>3
  <2> QED
    BY <1>1, <1>2, <1>3, <2>4, JobsEnd
<1> QED
  BY <1>5, <1>6

-----------------------------------------------------------------------------
(* Steps of the user, the package and the launcher, on codex *)

LEMMA OnCodexSame ==
    ASSUME NEW c, NEW f, NEW h, NEW j, OnCodex(c, f, j), \A p \in Crit : h[p] = f[p]
    PROVE  OnCodex(c, h, j)
<1>1. h[Marker] = f[Marker] /\ h[App] = f[App] /\ h[Manifest] = f[Manifest]
  BY CritIs
<1>2. RecIn(h) = RecIn(f) /\ \A g : Replaced(h, g) <=> Replaced(f, g)
  BY <1>1 DEF RecIn, Replaced
<1>3. Undone(c, h)
  BY DEF OnCodex, Undone
<1>4. ASSUME NEW g, IsApply(c, f, j, g) PROVE IsApply(c, h, j, g)
  <2>1. ApplyFiles(c.base[1], c.base[2], h, j, g)
    BY <1>1, <1>2, <1>4 DEF IsApply, ApplyFiles
  <2>2. ApplyTodo(c.todo, c.base[1], f, g) => ApplyTodo(c.todo, c.base[1], h, g)
    BY <1>1, <1>2 DEF ApplyTodo
  <2> QED
    BY <1>4, <2>1, <2>2 DEF IsApply
<1>5. IsRemove(c, f, j) => IsRemove(c, h, j)
  BY <1>1, <1>2 DEF IsRemove, RemoveFiles
<1> QED
  BY <1>3, <1>4, <1>5 DEF OnCodex

LEMMA JobsEdit ==
    ASSUME IInv, JobsInv, "codex" \in Harness, NEW h \in Harness, EditConfig(h) \/ EditLink(h)
    PROVE  JobsInv'
<1>1. PICK p \in {<<h, "config">>, <<h, "skill">>} :
        /\ \E v : file' = [file EXCEPT ![p] = v]
        /\ raced' = IF LockFree THEN {} ELSE raced \cup {p}
        /\ UNCHANGED <<loaded, build, proc, killed, broken>>
  BY DEF EditConfig, EditLink
<1>2. p \in Path /\ p \notin Crit
  <2>1. p[2] \in {"config", "skill", "plugin"}
    BY <1>1
  <2>2. p \in Path
    BY <1>1, PathsAre
  <2> QED
    BY <2>1, <2>2, CritIs
<1>3. \A q \in Crit : file'[q] = file[q]
  <2>1. file \in [Path -> Value] /\ Crit \subseteq Path
    BY CritIs DEF IInv, StateInv
  <2> QED
    BY <1>1, <1>2, <2>1
<1>4. raced' \cap Crit = {}
  BY <1>1, <1>2 DEF JobsInv
<1>5. /\ Exact(file, loaded) => Exact(file', loaded)
      /\ Covered(file, loaded) => Covered(file', loaded)
  BY <1>3, SameIs
<1>6. \A s \in Setup : OnCodex(proc[s], file, loaded) => OnCodex(proc[s], file', loaded)
  BY <1>3, OnCodexSame
<1>7. (\A s \in Setup : Holds(s)' <=> Holds(s)) /\ (LockFree' <=> LockFree)
  BY <1>1 DEF Holds, LockFree
<1> QED
  BY <1>1, <1>4, <1>5, <1>6, <1>7 DEF JobsInv

LEMMA JobsReload ==
    ASSUME IInv, JobsInv, "codex" \in Harness, Reload
    PROVE  JobsInv'
<1>1. /\ LockFree /\ UNCHANGED <<proc, raced, killed, broken>>
      /\ loaded' = [l \in Label |-> build] /\ file' = [file EXCEPT ![Marker] = NoFile]
      /\ \A l \in Label : At("codex", l).kind = "plist" /\ At("codex", l).gen = build
  BY DEF Reload, ghosts
<1>2. "app" \in Label /\ At("codex", "app") = file[App]
  BY DEF Label, At, App
<1>3. file \in [Path -> Value] /\ App \in Path /\ App # Marker
  BY CritIs DEF IInv, StateInv
<1>4. file'[App] = file[App] /\ file[App] # NoFile /\ file[App].gen = loaded'["app"]
  BY <1>1, <1>2, <1>3, NothingElse
<1>5. Covered(file', loaded') /\ Exact(file', loaded')
  BY <1>4 DEF Covered, Exact
<1>6. \A s \in Setup : ~Holds(s)'
  BY <1>1 DEF LockFree, Holds
<1> QED
  BY <1>1, <1>5, <1>6 DEF JobsInv

LEMMA JobsKept ==
    ASSUME JobsInv, UNCHANGED <<file, loaded, proc, raced, killed, broken>>
    PROVE  JobsInv'
BY DEF JobsInv, Holds, LockFree

LEMMA InitJobs == Init => JobsInv
<1> SUFFICES ASSUME Init, "codex" \in Harness PROVE JobsInv
  BY DEF JobsInv
<1>1. \A s \in Setup : ~Holds(s)
  BY DEF Init, Holds, IdleProc
<1>2. App \in Path /\ App # Marker /\ App # Manifest /\ App[2] = "app" /\ "app" \in Label
  BY CritIs DEF App, Label
<1>3. Covered(file, loaded) /\ Exact(file, loaded)
  <2>1. CASE loaded = [l \in Label |-> 0]
    BY <1>2, <2>1 DEF Covered, Exact
  <2>2. CASE file = FullHost /\ loaded = [l \in Label |-> 1]
    <3>1. file[App] = [kind |-> "plist", gen |-> 1, by |-> "setup"]
      BY <1>2, <2>2 DEF FullHost
    <3>2. file[App].gen = loaded["app"] /\ file[App].kind = "plist"
      BY <1>2, <2>2, <3>1
    <3> QED
      BY <3>2, NothingElse DEF Covered, Exact
  <2> QED
    BY <2>1, <2>2 DEF Init
<1>4. raced = {}
  BY DEF Init
<1> QED
  BY <1>1, <1>3, <1>4 DEF JobsInv

\* A loaded app-server job has its plist, and one that runs on another generation than its
\* plist has a reload marker, wherever a command has died; between two commands the marker is
\* that of the plist (_write_codex_plists, _unload_codex_jobs).
THEOREM JobsFollowPlists == Spec => []JobsMatchPlists
<1>1. Init => JobsInv
  BY InitJobs
<1>2. IInv /\ JobsInv /\ [Next]_vars => JobsInv'
  <2> SUFFICES ASSUME IInv, JobsInv, [Next]_vars, "codex" \in Harness PROVE JobsInv'
    BY DEF JobsInv
  <2>1. ASSUME NEW s \in Setup, \/ Begin(s) \/ Snapshot(s) \/ Step(s) \/ Fault(s)
                                \/ Undo(s) \/ Report(s) \/ Kill(s)
        PROVE  JobsInv'
    BY <2>1, JobsBegin, JobsSnapshot, JobsStep, JobsFault, JobsUndo, JobsReport
  <2>2. ASSUME NEW h \in Harness, EditConfig(h) \/ EditLink(h)
        PROVE  JobsInv'
    BY <2>2, JobsEdit
  <2>3. CASE Upgrade
    BY <2>3, JobsKept DEF Upgrade, ghosts
  <2>4. CASE Reload
    BY <2>4, JobsReload
  <2>5. CASE UNCHANGED vars
    BY <2>5, JobsKept DEF vars, ghosts
  <2> QED
    BY <2>1, <2>2, <2>3, <2>4, <2>5 DEF Next
<1>3. JobsInv => JobsMatchPlists
  <2> SUFFICES ASSUME JobsInv, "codex" \in Owned, ~broken, loaded["app"] # 0
               PROVE  /\ file[App] # NoFile
                      /\ "app" \in RecordOf("codex").plists /\ file[App].gen # loaded["app"] =>
                           /\ file[Marker] # NoFile
                           /\ LockFree /\ killed = {} => file[Marker] = MarkerOf(file[App].gen)
    BY DEF JobsMatchPlists, At, App
  <2>1. "codex" \in Harness /\ RecordOf("codex") = RecIn(file) /\ RecIn(file) # NoRecord
    BY DEF Owned, RecordOf, RecIn
  <2>2. Covered(file, loaded) /\ (LockFree /\ killed = {} => Exact(file, loaded))
    BY <2>1 DEF JobsInv
  <2> QED
    BY <2>1, <2>2 DEF Covered, Exact, Lists
<1> QED
  BY <1>1, <1>2, <1>3, Invariant, PTL DEF Spec

-----------------------------------------------------------------------------
(* NoOrphans *)

\* The record of h in a manifest.
RecFor(m, h) == IF m = NoFile THEN NoRecord ELSE m.of[h]

\* What every record has: a container it added is one it put entries of today in.
Sound(m) ==
    \A h \in Harness : LET rec == RecFor(m, h) IN rec # NoRecord =>
        /\ rec.own \subseteq rec.has /\ rec.has # {}
        /\ rec.box => h # "hermes" /\ rec.own \cap Wanted(h) # {}

\* What setup has added to a configuration is in the record; there are entries only in
\* a container.
Settled(h, c, rec) ==
    /\ c.setup # {} => rec # NoRecord /\ c.setup \subseteq rec.own
    /\ c.box = "setup" => rec # NoRecord /\ rec.box
    /\ IF h = "hermes" THEN c.box = "no" ELSE c.box = "no" => c.setup = {} /\ c.user = {}

\* What setup has put at p is in the record.
Claim(p, v, rec) ==
    /\ p[2] = "config" => Settled(p[1], View(v), rec)
    /\ p[2] \in LinkName /\ v.kind = "link" /\ v.by = "setup" => rec # NoRecord /\ p[2] \in rec.links
    /\ p[2] \in Label /\ v.kind = "plist" /\ v.by = "setup" => rec # NoRecord /\ p[2] \in rec.plists
    /\ p[2] = "marker" /\ v # NoFile => rec # NoRecord

\* And the container is there, and whose it is is in the record.
Claimed(p, v, rec) ==
    /\ Claim(p, v, rec)
    /\ p[2] = "config" /\ p[1] # "hermes" /\ rec # NoRecord =>
        View(v).box = IF rec.box THEN "setup" ELSE "user"

Files == Path \ {Manifest}
Tidy(f, m) == \A p \in Files : Claimed(p, f[p], RecFor(m, p[1]))

\* What an operation leaves at its path, and the operations after which nothing is left
\* of what was there.
Effect(o) == CASE o.op = "put" -> o.value [] o.op = "link" -> OwnLink [] OTHER -> NoFile
Replacing == {"put", "unlink", "clear", "edit"}
Final(q) == Effect(q[Len(q)])

\* An operation of a command that is to end with the manifest m and began with m0.
FitsIn(o, f, m0, m) ==
    /\ o.path \in Files
    /\ o.op \in {"put", "link", "unlink", "clear"} => Claimed(o.path, Effect(o), RecFor(m, o.path[1]))
    /\ o.op = "edit" =>
        /\ o.path[2] = "config" /\ RecFor(m0, o.path[1]) # NoRecord /\ RecFor(m, o.path[1]) = NoRecord
        /\ Claim(o.path, f[o.path], RecFor(m0, o.path[1]))

\* The manifest is written last, and then all that is there is in it.
Leads(q, f, m0) ==
    /\ Len(q) > 0 /\ q[Len(q)].path = Manifest /\ q[Len(q)].op \in {"put", "unlink"}
    /\ Sound(Final(q))
    /\ \A i \in 1..(Len(q) - 1) : FitsIn(q[i], f, m0, Final(q))
    /\ \A p \in Files : \/ Claimed(p, f[p], RecFor(Final(q), p[1]))
                        \/ \E i \in 1..(Len(q) - 1) : q[i].path = p /\ q[i].op \in Replacing

\* What a rollback puts back, and what it leaves alone, is in the old manifest.
Returns(c, f, m) ==
    /\ \A i \in DOMAIN c.paths : c.paths[i] # Manifest => Claimed(c.paths[i], c.saved[i], RecFor(m, c.paths[i][1]))
    /\ \E i \in DOMAIN c.paths : c.paths[i] = Manifest /\ c.saved[i] = m
    /\ \A p \in Files \ Elems(c.paths) : Claimed(p, f[p], RecFor(m, p[1]))

Accounted(c, f) ==
    LET m == c.base[1][Manifest] IN
    /\ Sound(m)
    /\ c.at = "snap" => Tidy(f, m)
    /\ c.at \in {"snap", "work"} => f[Manifest] = m /\ Leads(c.todo, f, m)
    /\ c.at \in {"work", "undo"} => Returns(c, f, m)

TidyInv ==
    /\ Manifest \notin raced
    /\ killed = {} /\ ~broken =>
        /\ LockFree => Sound(file[Manifest]) /\ Tidy(file, file[Manifest])
        /\ \A s \in Setup : Holds(s) => Accounted(proc[s], file)

LEMMA FilesAre ==
    /\ Files \subseteq Path
    /\ \A p \in Files : /\ p[1] \in Harness /\ p # Manifest
                        /\ p[2] \in {"config", "skill", "plugin", "marker"} \cup Label
    /\ \A h \in Harness : <<h, "config">> \in Files /\ \A l \in Links(h) : <<h, l>> \in Files
    /\ "codex" \in Harness => Marker \in Files /\ \A l \in Label : <<"codex", l>> \in Files
<1>1. ASSUME NEW p \in Files
      PROVE  p[1] \in Harness /\ p[2] \in {"config", "skill", "plugin", "marker"} \cup Label
  BY <1>1 DEF Files, Path, Marker, Label
<1>2. \A h, l : l # "manifest" => <<h, l>> # Manifest
  BY DEF Manifest
<1> QED
  BY <1>1, <1>2, PathsAre DEF Files, Marker, Label, LinkName

LEMMA ConfigView == \A c \in Config : c # NoFile /\ View(c) = c
BY DEF Config, NoFile, View

LEMMA NothingClaimed ==
    /\ \A p, rec : Claim(p, NoFile, rec)
    /\ \A p : Claimed(p, NoFile, NoRecord)
    /\ \A p, rec : p[2] # "config" => Claimed(p, NoFile, rec)
<1>1. View(NoFile).setup = {} /\ View(NoFile).user = {} /\ View(NoFile).box = "no"
  BY DEF View, Empty
<1>2. NoFile.kind = "none"
  BY DEF NoFile
<1>3. \A p, rec : Claim(p, NoFile, rec)
  BY <1>1, <1>2 DEF Claim, Settled
<1> QED
  BY <1>3 DEF Claimed

\* What a host without a record may have there, every record may be with.
LEMMA LooseClaim ==
    ASSUME NEW p, NEW v, NEW rec, Claim(p, v, NoRecord)
    PROVE  Claim(p, v, rec)
BY DEF Claim, Settled

\* What the user does to a configuration takes no claim away.
LEMMA EditedClaim ==
    ASSUME StateInv, NEW h \in Harness, NEW v \in {NoFile} \cup Config, NEW d \in Edited(h, View(v)),
           NEW rec, LockFree => rec = RecordOf(h)
    PROVE  LET p == <<h, "config">>
           IN  /\ Claim(p, v, rec) => Claim(p, d, rec)
               /\ Claimed(p, v, rec) => Claimed(p, d, rec)
<1> DEFINE c == View(v)
           p == <<h, "config">>
<1>1. c \in Config
  BY ConfigView DEF View, Empty, Config, Author
<1>2. d \in Config /\ View(d) = d
  BY <1>1, EditedIs, ConfigView
<1> HIDE DEF c
<1>3. SUFFICES ASSUME Settled(h, c, rec)
               PROVE  Settled(h, d, rec) /\ (c.box # "no" => d.box = c.box)
  <2>1. \A w : Claim(p, w, rec) <=> Settled(h, View(w), rec)
    BY DEF Claim, LinkName, Label
  <2>2. \A w : Claimed(p, w, rec) <=>
          Claim(p, w, rec) /\ (h # "hermes" /\ rec # NoRecord =>
                               View(w).box = IF rec.box THEN "setup" ELSE "user")
    BY DEF Claimed
  <2> QED
    BY <1>2, <1>3, <2>1, <2>2 DEF c
<1>4. CASE d.setup = c.setup /\ d.user = c.user /\ d.box = c.box
  BY <1>3, <1>4 DEF Settled
<1>5. CASE d.setup \subseteq c.setup /\ d.user \subseteq c.user /\ d.box = c.box
  BY <1>3, <1>5 DEF Settled
<1>6. CASE d.setup = c.setup /\ d.box = IF c.box = "no" /\ h # "hermes" THEN "user" ELSE c.box
  BY <1>3, <1>6 DEF Settled
<1>7. CASE /\ LockFree /\ h \in Owned
           /\ \E i \in RecordOf(h).own :
                d = [c EXCEPT !.setup = @ \cup {i},
                              !.box = IF @ # "no" \/ h = "hermes" THEN @
                                      ELSE IF RecordOf(h).box THEN "setup" ELSE "user"]
  <2>1. rec = RecordOf(h) /\ rec # NoRecord
    BY <1>7 DEF Owned
  <2> DEFINE box == IF c.box # "no" \/ h = "hermes" THEN c.box ELSE IF rec.box THEN "setup" ELSE "user"
  <2>2. PICK i \in rec.own : d = [c EXCEPT !.setup = @ \cup {i}, !.box = box]
    BY <1>7, <2>1
  <2>3. /\ box = "setup" => c.box = "setup" \/ rec.box
        /\ h = "hermes" => box = c.box
        /\ box = "no" => c.box = "no" /\ h = "hermes"
        /\ c.box # "no" => box = c.box
    OBVIOUS
  <2> HIDE DEF box
  <2>4. d.setup = c.setup \cup {i} /\ d.box = box
    BY <1>1, <2>2 DEF Config
  <2> QED
    BY <1>3, <2>1, <2>3, <2>4 DEF Settled
<1>8. \/ d = [c EXCEPT !.text = ~@]
      \/ d = [c EXCEPT !.veto = ~@ /\ h # "codex"]
      \/ \E i \in Present(c) : d = [c EXCEPT !.setup = @ \ {i}, !.user = @ \ {i}]
      \/ \E i \in Wanted(h) : d = [c EXCEPT !.user = @ \cup {i},
                                            !.box = IF @ = "no" /\ h # "hermes" THEN "user" ELSE @]
      \/ /\ LockFree /\ h \in Owned
         /\ \E i \in RecordOf(h).own :
              d = [c EXCEPT !.setup = @ \cup {i},
                            !.box = IF @ # "no" \/ h = "hermes" THEN @
                                    ELSE IF RecordOf(h).box THEN "setup" ELSE "user"]
  BY DEF Edited, c
<1>9. CASE d = [c EXCEPT !.text = ~@] \/ d = [c EXCEPT !.veto = ~@ /\ h # "codex"]
  BY <1>1, <1>4, <1>9 DEF Config
<1>10. CASE \E i \in Present(c) : d = [c EXCEPT !.setup = @ \ {i}, !.user = @ \ {i}]
  BY <1>1, <1>5, <1>10 DEF Config
<1>11. CASE \E i \in Wanted(h) : d = [c EXCEPT !.user = @ \cup {i},
                                               !.box = IF @ = "no" /\ h # "hermes" THEN "user" ELSE @]
  BY <1>1, <1>6, <1>11 DEF Config
<1> QED
  BY <1>7, <1>8, <1>9, <1>10, <1>11

LEMMA WhenOne ==
    ASSUME NEW S, NEW c \in BOOLEAN, NEW x, c => x \in S
    PROVE  /\ When(c, <<x>>) \in Seq(S)
           /\ c => x \in Elems(When(c, <<x>>))
<1>1. c => <<x>> \in Seq(S) /\ Elems(<<x>>) = {x}
  BY OneIs
<1>2. PICK q : q = <<x>>
  OBVIOUS
<1>3. When(c, q) \in Seq(S) /\ Elems(When(c, q)) = IF c THEN Elems(q) ELSE {}
  BY <1>1, <1>2, WhenIs
<1> QED
  BY <1>1, <1>2, <1>3

LEMMA MemberOne ==
    ASSUME NEW S, NEW a, NEW set, NEW x, a \in set => x \in S
    PROVE  /\ When(a \in set, <<x>>) \in Seq(S)
           /\ a \in set => x \in Elems(When(a \in set, <<x>>))
<1>1. a \in set => <<x>> \in Seq(S) /\ Elems(<<x>>) = {x}
  BY OneIs
<1>2. PICK q : q = <<x>>
  OBVIOUS
<1>3. When(a \in set, q) \in Seq(S) /\ Elems(When(a \in set, q)) = IF a \in set THEN Elems(q) ELSE {}
  BY <1>1, <1>2, WhenMember
<1> QED
  BY <1>1, <1>2, <1>3

\* Which operations an apply and a removal are made of.
LEMMA ApplyGoes ==
    ASSUME StateInv, NEW h \in Harness, NEW S,
           ConfigChanges(h) => Put(<<h, "config">>, ConfigAfter(h)) \in S,
           RecordOf(h) = NoRecord => \A l \in Links(h) : At(h, l) = NoFile => Op("link", <<h, l>>) \in S,
           h = "codex" /\ PlistChanges("app") => Put(Marker, MarkerOf(build)) \in S,
           h = "codex" => \A l \in Label : PlistChanges(l) => Put(<<"codex", l>>, NewPlist(l)) \in S
    PROVE  /\ Apply(h) \in Seq(S)
           /\ ConfigChanges(h) => Put(<<h, "config">>, ConfigAfter(h)) \in Elems(Apply(h))
           /\ RecordOf(h) = NoRecord =>
                \A l \in Links(h) : At(h, l) = NoFile => Op("link", <<h, l>>) \in Elems(Apply(h))
<1> DEFINE plugin == NewLink(h, "plugin")
           skill == NewLink(h, "skill")
           mark == When(PlistChanges("app"), <<Put(Marker, MarkerOf(build))>>)
           config == Put(<<h, "config">>, ConfigAfter(h))
<1>1. ApplyConfig(h) \in Seq(S) /\ (ConfigChanges(h) => config \in Elems(ApplyConfig(h)))
  <2>1. PICK x : x = config
    OBVIOUS
  <2>2. ConfigChanges(h) \in BOOLEAN
    BY DEF ConfigChanges
  <2>3. When(ConfigChanges(h), <<x>>) \in Seq(S) /\ (ConfigChanges(h) => x \in Elems(When(ConfigChanges(h), <<x>>)))
    BY <2>1, <2>2, WhenOne
  <2> QED
    BY <2>1, <2>3 DEF ApplyConfig
<1>2. ASSUME NEW l \in Links(h)
      PROVE  /\ NewLink(h, l) \in Seq(S)
             /\ RecordOf(h) = NoRecord /\ At(h, l) = NoFile => Op("link", <<h, l>>) \in Elems(NewLink(h, l))
  <2>1. PICK x : x = Op("link", <<h, l>>)
    OBVIOUS
  <2>2. PICK c \in BOOLEAN : c = (RecordOf(h) = NoRecord /\ At(h, l) = NoFile)
    OBVIOUS
  <2>3. When(c, <<x>>) \in Seq(S) /\ (c => x \in Elems(When(c, <<x>>)))
    BY <2>1, <2>2, WhenOne
  <2> QED
    BY <2>1, <2>2, <2>3 DEF NewLink
<1>3. skill \in Seq(S) /\ (h = "hermes" => plugin \in Seq(S))
  BY <1>2 DEF Links
<1>4. h = "codex" => ApplyCodex \in Seq(S)
  <2> SUFFICES ASSUME h = "codex" PROVE ApplyCodex \in Seq(S)
    OBVIOUS
  <2>1. mark \in Seq(S)
    <3>1. PICK x : x = Put(Marker, MarkerOf(build))
      OBVIOUS
    <3>2. PlistChanges("app") \in BOOLEAN
      BY DEF PlistChanges
    <3>3. When(PlistChanges("app"), <<x>>) \in Seq(S)
      BY <3>1, <3>2, WhenOne
    <3> QED
      BY <3>1, <3>3
  <2>2. ASSUME NEW l \in Label PROVE WritePlist(l) \in Seq(S)
    <3>1. PICK x : x = Put(<<"codex", l>>, NewPlist(l))
      OBVIOUS
    <3>2. PlistChanges(l) \in BOOLEAN
      BY DEF PlistChanges
    <3>3. When(PlistChanges(l), <<x>>) \in Seq(S)
      BY <3>1, <3>2, WhenOne
    <3> QED
      BY <3>1, <3>3 DEF WritePlist
  <2>3. WritePlist("app") \in Seq(S) /\ WritePlist("wake") \in Seq(S)
    BY <2>2 DEF Label
  <2> HIDE DEF mark
  <2>4. (mark \o WritePlist("app")) \o WritePlist("wake") \in Seq(S)
    BY <2>1, <2>3, ConcatThree
  <2> QED
    BY <2>4 DEF ApplyCodex, mark
<1> DEFINE mid == CASE h = "hermes" -> plugin [] h = "codex" -> ApplyCodex [] OTHER -> << >>
<1>5. mid \in Seq(S)
  <2>1. CASE h = "hermes"
    BY <1>3, <2>1
  <2>2. CASE h = "codex"
    BY <1>4, <2>2
  <2>3. CASE h \notin {"hermes", "codex"}
    <3>1. mid = << >>
      BY <2>3
    <3> QED
      BY <3>1, NoneIs
  <2> QED
    BY <2>1, <2>2, <2>3
<1>6. Apply(h) = (ApplyConfig(h) \o mid) \o skill
  BY DEF Apply
<1> HIDE DEF mid, skill, config
<1>7. /\ (ApplyConfig(h) \o mid) \o skill \in Seq(S)
      /\ Elems((ApplyConfig(h) \o mid) \o skill) = Elems(ApplyConfig(h)) \cup Elems(mid) \cup Elems(skill)
  BY <1>1, <1>3, <1>5, ConcatThree
<1>8. h = "hermes" => mid = plugin
  BY DEF mid
<1>9. \A l \in Links(h) : l = "skill" \/ (h = "hermes" /\ l = "plugin")
  BY DEF Links
<1> HIDE DEF plugin
<1>10. ASSUME NEW l \in Links(h), RecordOf(h) = NoRecord, At(h, l) = NoFile
       PROVE  Op("link", <<h, l>>) \in Elems(Apply(h))
  <2>1. Op("link", <<h, l>>) \in Elems(NewLink(h, l))
    BY <1>2, <1>10
  <2> QED
    BY <1>6, <1>7, <1>8, <1>9, <2>1 DEF plugin, skill
<1> QED
  BY <1>1, <1>6, <1>7, <1>10 DEF config

LEMMA RemoveGoes ==
    ASSUME StateInv, NEW h \in Harness, NEW rec, rec = RecordOf(h), rec # NoRecord, NEW S,
           rec.own # {} => Op("edit", <<h, "config">>) \in S,
           \A l \in rec.links \cup rec.plists : Op("unlink", <<h, l>>) \in S,
           h = "codex" => Op("clear", Marker) \in S
    PROVE  /\ Remove(h) \in Seq(S)
           /\ rec.own # {} => Op("edit", <<h, "config">>) \in Elems(Remove(h))
           /\ \A l \in rec.links \cup rec.plists : Op("unlink", <<h, l>>) \in Elems(Remove(h))
           /\ h = "codex" => Op("clear", Marker) \in Elems(Remove(h))
<1>1. rec \in Record /\ rec.links \subseteq Links(h) /\ rec.plists \subseteq Label /\ (h # "codex" => rec.plists = {})
  BY RecordIs DEF Record
<1>2. EditOut(h) \in Seq(S) /\ (rec.own # {} => Op("edit", <<h, "config">>) \in Elems(EditOut(h)))
  <2>1. PICK x : x = Op("edit", <<h, "config">>)
    OBVIOUS
  <2>2. PICK c \in BOOLEAN : c = (rec.own # {})
    OBVIOUS
  <2>3. When(c, <<x>>) \in Seq(S) /\ (c => x \in Elems(When(c, <<x>>)))
    BY <2>1, <2>2, WhenOne
  <2> QED
    BY <2>1, <2>2, <2>3 DEF EditOut
<1>3. ASSUME NEW l, NEW set, \A k \in set : Op("unlink", <<h, k>>) \in S
      PROVE  /\ Unlink(h, l, l \in set) \in Seq(S)
             /\ l \in set => Op("unlink", <<h, l>>) \in Elems(Unlink(h, l, l \in set))
  <2>1. PICK x : x = Op("unlink", <<h, l>>)
    OBVIOUS
  <2>2. /\ When(l \in set, <<x>>) \in Seq(S)
        /\ l \in set => x \in Elems(When(l \in set, <<x>>))
    BY <1>3, <2>1, MemberOne
  <2> QED
    BY <2>1, <2>2 DEF Unlink
<1>4. /\ \A k \in rec.links : Op("unlink", <<h, k>>) \in S
      /\ \A k \in rec.plists : Op("unlink", <<h, k>>) \in S
  OBVIOUS
<1>5. UnlinkSkill(h) \in Seq(S) /\ ("skill" \in rec.links => Op("unlink", <<h, "skill">>) \in Elems(UnlinkSkill(h)))
  BY <1>3, <1>4 DEF UnlinkSkill
<1>6. CASE h = "claude"
  <2>1. /\ EditOut("claude") \o UnlinkSkill("claude") \in Seq(S)
        /\ Elems(EditOut("claude") \o UnlinkSkill("claude")) = Elems(EditOut("claude")) \cup Elems(UnlinkSkill("claude"))
    BY <1>2, <1>5, <1>6, ConcatIs
  <2>2. rec.links \subseteq {"skill"} /\ rec.plists = {}
    BY <1>1, <1>6 DEF Links
  <2> QED
    BY <1>2, <1>5, <1>6, <2>1, <2>2 DEF Remove, RemoveClaude
<1>7. CASE h = "hermes"
  <2> DEFINE plugin == Unlink("hermes", "plugin", "plugin" \in rec.links)
  <2>1. plugin \in Seq(S) /\ ("plugin" \in rec.links => Op("unlink", <<h, "plugin">>) \in Elems(plugin))
    BY <1>3, <1>4, <1>7
  <2>2. Remove(h) = (EditOut("hermes") \o plugin) \o UnlinkSkill("hermes")
    BY <1>7 DEF Remove, RemoveHermes
  <2> HIDE DEF plugin
  <2>3. /\ (EditOut("hermes") \o plugin) \o UnlinkSkill("hermes") \in Seq(S)
        /\ Elems((EditOut("hermes") \o plugin) \o UnlinkSkill("hermes"))
             = Elems(EditOut("hermes")) \cup Elems(plugin) \cup Elems(UnlinkSkill("hermes"))
    BY <1>2, <1>5, <1>7, <2>1, ConcatThree
  <2>4. rec.links \subseteq {"skill", "plugin"} /\ rec.plists = {}
    BY <1>1, <1>7 DEF Links
  <2> QED
    BY <1>2, <1>5, <1>7, <2>1, <2>2, <2>3, <2>4
<1>8. CASE h = "codex"
  <2> DEFINE RemovePlist(l) == Unlink("codex", l, l \in rec.plists)
             a == RemovePlist("app")
             b == RemovePlist("wake")
             x == Op("clear", Marker)
             c == <<x>>
  <2>1. /\ a \in Seq(S) /\ ("app" \in rec.plists => Op("unlink", <<h, "app">>) \in Elems(a))
        /\ b \in Seq(S) /\ ("wake" \in rec.plists => Op("unlink", <<h, "wake">>) \in Elems(b))
    BY <1>3, <1>4, <1>8
  <2>2. Remove(h) = (((EditOut("codex") \o a) \o b) \o UnlinkSkill("codex")) \o c
    BY <1>8 DEF Remove, RemoveCodex
  <2> HIDE DEF x
  <2>3. c \in Seq(S) /\ Elems(c) = {x}
    BY <1>8, OneIs DEF x
  <2> HIDE DEF a, b, c
  <2>4. PICK y : y = ((EditOut("codex") \o a) \o b) \o UnlinkSkill("codex")
    OBVIOUS
  <2>5. /\ y \in Seq(S)
        /\ Elems(y) = Elems(EditOut("codex")) \cup Elems(a) \cup Elems(b) \cup Elems(UnlinkSkill("codex"))
    BY <1>2, <1>5, <1>8, <2>1, <2>4, ConcatFour
  <2>6. y \o c \in Seq(S) /\ Elems(y \o c) = Elems(y) \cup Elems(c)
    BY <2>3, <2>5, ConcatIs
  <2>7. /\ Remove(h) \in Seq(S)
        /\ Elems(Remove(h)) = Elems(EditOut(h)) \cup Elems(a) \cup Elems(b) \cup Elems(UnlinkSkill(h)) \cup {x}
    BY <1>8, <2>2, <2>3, <2>4, <2>5, <2>6
  <2>8. rec.links \subseteq {"skill"} /\ rec.plists \subseteq {"app", "wake"}
    BY <1>1, <1>8 DEF Links, Label
  <2>9. \A l \in rec.links \cup rec.plists : Op("unlink", <<h, l>>) \in Elems(Remove(h))
    BY <1>5, <2>1, <2>7, <2>8
  <2> QED
    BY <1>2, <2>7, <2>9 DEF x
<1> QED
  BY <1>6, <1>7, <1>8, SetupAssumption

LEMMA RecForIs ==
    /\ \A h \in Harness : RecFor(file[Manifest], h) = RecordOf(h)
    /\ \A h \in Harness : RecFor(NoFile, h) = NoRecord
    /\ \A new : \A h \in Harness :
         RecFor(ManifestWith(new), h) = IF h \in DOMAIN new THEN new[h] ELSE RecordOf(h)
<1>1. \A new : ManifestWith(new).kind = "manifest" /\ NoFile.kind = "none"
  BY DEF ManifestWith, NoFile
<1>2. \A new : \A h \in Harness : ManifestWith(new).of[h] = IF h \in DOMAIN new THEN new[h] ELSE RecordOf(h)
  BY DEF ManifestWith
<1> QED
  BY <1>1, <1>2 DEF RecFor, RecordOf

\* The record that is to be written has what it needs,
LEMMA NewRecordSound ==
    ASSUME StateInv, NEW h \in Harness, Sound(file[Manifest]),
           Claimed(<<h, "config">>, At(h, "config"), RecordOf(h))
    PROVE  LET n == NewRecord(h)
           IN  /\ n # NoRecord /\ n.own \subseteq n.has /\ n.has # {}
               /\ n.box => h # "hermes" /\ n.own \cap Wanted(h) # {}
<1> DEFINE n == NewRecord(h)
           rec == RecordOf(h)
           c == View(At(h, "config"))
<1>1. n # NoRecord /\ n.has = Wanted(h) /\ n.own = (Own(rec) \cap Wanted(h)) \cup Fresh(h)
  BY NewRecordIs DEF NewRecord
<1>2. n.box = IF Has(rec) # {} THEN rec.box ELSE h # "hermes" /\ c.box = "no"
  BY DEF NewRecord
<1>3. Wanted(h) # {}
  BY SetupAssumption DEF Wanted
<1>4. Fresh(h) = (Wanted(h) \ Has(rec)) \ Present(At(h, "config")) /\ Present(At(h, "config")) = c.setup \cup c.user
  BY DEF Fresh, Present
<1>5. h # "hermes" /\ c.box = "no" => c.setup = {} /\ c.user = {}
  BY DEF Claimed, Claim, Settled
<1>6. rec # NoRecord /\ rec.box => h # "hermes" /\ rec.own \cap Wanted(h) # {}
  BY RecForIs DEF Sound
<1>7. Has(rec) # {} => rec # NoRecord /\ Own(rec) = rec.own
  BY DEF Has, Own
<1> HIDE DEF n, rec, c
<1>8. n.box => h # "hermes" /\ n.own \cap Wanted(h) # {}
  <2>1. CASE Has(rec) # {}
    BY <1>1, <1>2, <1>6, <1>7, <2>1
  <2>2. CASE Has(rec) = {}
    BY <1>1, <1>2, <1>3, <1>4, <1>5, <2>2
  <2> QED
    BY <2>1, <2>2
<1>9. n.own \subseteq n.has
  BY <1>1, <1>4
<1> QED
  BY <1>1, <1>3, <1>8, <1>9 DEF n

\* and the configuration fits to it, the one that is written or the one that is left.
LEMMA ConfigClaimed ==
    ASSUME StateInv, NEW h \in Harness, Sound(file[Manifest]),
           Claimed(<<h, "config">>, At(h, "config"), RecordOf(h))
    PROVE  /\ Claimed(<<h, "config">>, ConfigAfter(h), NewRecord(h))
           /\ ~ConfigChanges(h) => Claimed(<<h, "config">>, At(h, "config"), NewRecord(h))
<1> DEFINE n == NewRecord(h)
           rec == RecordOf(h)
           c == View(At(h, "config"))
           d == ConfigAfter(h)
           setup == (c.setup \ Gone(h)) \cup Fresh(h)
           user == c.user \ Gone(h)
           box == IF c.box = "no" /\ h # "hermes" THEN "setup" ELSE c.box
<1>1. n # NoRecord /\ n.own = (Own(rec) \cap Wanted(h)) \cup Fresh(h)
  BY NewRecordIs DEF NewRecord
<1>2. n.box = IF Has(rec) # {} THEN rec.box ELSE h # "hermes" /\ c.box = "no"
  BY DEF NewRecord
<1>3. Gone(h) = Has(rec) \ Wanted(h)
  BY DEF Gone
<1>4. Settled(h, c, rec) /\ (h # "hermes" /\ rec # NoRecord => c.box = IF rec.box THEN "setup" ELSE "user")
  BY DEF Claimed, Claim
<1>5. /\ rec # NoRecord => Has(rec) = rec.has /\ Own(rec) = rec.own /\ rec.own \subseteq rec.has /\ rec.has # {}
      /\ rec = NoRecord => Has(rec) = {} /\ Own(rec) = {}
  BY RecForIs DEF Sound, Has, Own
<1>6. d \in Config /\ d = [c EXCEPT !.setup = setup, !.user = user, !.box = box] /\ c \in Config
  BY ConfigAfterIs, ConfigIs DEF ConfigAfter
<1>7. ConfigChanges(h) <=> Fresh(h) \cup Gone(h) # {}
  BY DEF ConfigChanges
<1>8. ASSUME NEW w, Settled(h, View(w), n), h # "hermes" => View(w).box = IF n.box THEN "setup" ELSE "user"
      PROVE  Claimed(<<h, "config">>, w, n)
  BY <1>8 DEF Claimed, Claim, LinkName, Label
<1> HIDE DEF n, rec, c, d, setup, user, box
<1>9. d.setup = setup /\ d.user = user /\ d.box = box /\ View(d) = d
  BY <1>6, ConfigView DEF Config
<1>10. c.setup \subseteq Own(rec) /\ Own(rec) \subseteq Has(rec)
  BY <1>4, <1>5 DEF Settled
<1>11. c.box = "setup" => n.box
  BY <1>2, <1>4, <1>5 DEF Settled
<1>12. c.box = "no" /\ h # "hermes" => n.box
  BY <1>2, <1>4, <1>5
<1>13. Settled(h, d, n)
  <2>1. d.setup \subseteq n.own
    BY <1>1, <1>3, <1>9, <1>10 DEF setup
  <2>2. d.box = "setup" => n.box
    BY <1>9, <1>11, <1>12 DEF box
  <2>3. IF h = "hermes" THEN d.box = "no" ELSE d.box # "no"
    BY <1>4, <1>9 DEF box, Settled
  <2> QED
    BY <1>1, <2>1, <2>2, <2>3 DEF Settled
<1>14. h # "hermes" => d.box = IF n.box THEN "setup" ELSE "user"
  <2>1. c.box \in {"no", "user", "setup"}
    BY <1>6 DEF Config, Author
  <2>2. CASE rec = NoRecord
    BY <1>2, <1>4, <1>5, <1>9, <2>1, <2>2 DEF box, Settled
  <2>3. CASE rec # NoRecord
    BY <1>2, <1>4, <1>5, <1>9, <2>1, <2>3 DEF box, Settled
  <2> QED
    BY <2>2, <2>3
<1>15. Claimed(<<h, "config">>, d, n)
  BY <1>8, <1>9, <1>13, <1>14
<1>16. ASSUME ~ConfigChanges(h) PROVE Claimed(<<h, "config">>, At(h, "config"), n)
  <2>1. Gone(h) = {}
    BY <1>7, <1>16
  <2>2. c.setup \subseteq n.own
    BY <1>1, <1>3, <1>10, <2>1
  <2>3. Settled(h, c, n)
    BY <1>1, <1>4, <1>11, <2>2 DEF Settled
  <2>4. h # "hermes" => c.box # "no"
    <3>1. ASSUME h # "hermes", c.box = "no" PROVE FALSE
      <4>1. rec = NoRecord /\ c.setup = {} /\ c.user = {}
        BY <1>4, <3>1 DEF Settled
      <4>2. Fresh(h) = Wanted(h)
        BY <1>5, <4>1 DEF Fresh, Present, rec, c
      <4> QED
        BY <1>7, <1>16, <4>2, SetupAssumption DEF Wanted
    <3> QED
      BY <3>1
  <2>5. h # "hermes" => c.box = IF n.box THEN "setup" ELSE "user"
    <3>1. c.box \in {"no", "user", "setup"}
      BY <1>6 DEF Config, Author
    <3>2. CASE rec = NoRecord
      BY <1>2, <1>4, <1>5, <2>4, <3>1, <3>2 DEF Settled
    <3>3. CASE rec # NoRecord
      BY <1>2, <1>4, <1>5, <3>3
    <3> QED
      BY <3>2, <3>3
  <2> QED
    BY <1>8, <2>3, <2>5 DEF c
<1> QED
  BY <1>15, <1>16 DEF n, d

\* So do the links, the plists and the marker.
LEMMA OthersClaimed ==
    ASSUME StateInv, NEW h \in Harness, NEW p \in Files, p[1] = h, p[2] # "config",
           Claimed(p, file[p], RecordOf(h))
    PROVE  Claimed(p, file[p], NewRecord(h))
<1> DEFINE n == NewRecord(h)
           rec == RecordOf(h)
<1>1. n # NoRecord
  BY NewRecordIs
<1>2. rec # NoRecord => n.links = rec.links /\ (h = "codex" => n.plists = rec.plists)
  BY DEF NewRecord
<1>3. p[2] \in Label => h = "codex"
  BY FilesAre, PathIs
<1> HIDE DEF n, rec
<1> QED
  BY <1>1, <1>2, <1>3 DEF Claimed, Claim, n, rec

LEMMA LinkClaimed ==
    ASSUME StateInv, NEW h \in Harness, NEW l \in Links(h), RecordOf(h) = NoRecord, At(h, l) = NoFile
    PROVE  Claimed(<<h, l>>, OwnLink, NewRecord(h))
<1>1. NewRecord(h) # NoRecord /\ l \in NewRecord(h).links /\ l \in LinkName
  BY NewRecordIs DEF Links, LinkName
<1>2. OwnLink # NoFile /\ OwnLink.kind = "link"
  BY DEF OwnLink, NoFile
<1> QED
  BY <1>1, <1>2 DEF Claimed, Claim, LinkName, Label

LEMMA PlistClaimed ==
    ASSUME StateInv, "codex" \in Harness, NEW l \in Label,
           "codex" \in Owned => ValidRecord("codex", FALSE),
           Claimed(<<"codex", l>>, At("codex", l), RecordOf("codex"))
    PROVE  Claimed(<<"codex", l>>, NewPlist(l), NewRecord("codex"))
<1> DEFINE n == NewRecord("codex")
           rec == RecordOf("codex")
           v == At("codex", l)
           x == NewPlist(l)
<1>1. n # NoRecord /\ n.plists = IF rec = NoRecord THEN {k \in Label : At("codex", k) = NoFile} ELSE rec.plists
  BY NewRecordIs DEF NewRecord
<1>2. x.kind = "plist" /\ x.by = IF v = NoFile THEN "setup" ELSE v.by
  BY DEF NewPlist
<1>3. v \in {NoFile} \cup Plist
  BY PlistIs
<1>4. rec # NoRecord => v.kind = "plist"
  BY DEF ValidRecord, CodexStands, Owned
<1>5. v # NoFile => v.kind = "plist"
  BY <1>3 DEF Plist
<1>6. v.kind = "plist" /\ v.by = "setup" => rec # NoRecord /\ l \in rec.plists
  BY DEF Claimed, Claim
<1>7. v.kind = "plist" => v # NoFile
  BY DEF NoFile
<1> HIDE DEF n, rec, v, x
<1>8. x.by = "setup" => l \in n.plists
  <2>1. CASE v = NoFile
    <3>1. rec = NoRecord
      BY <1>4, <1>7, <2>1
    <3> QED
      BY <1>1, <2>1, <3>1 DEF v
  <2>2. CASE v # NoFile
    BY <1>1, <1>2, <1>5, <1>6, <2>2
  <2> QED
    BY <2>1, <2>2
<1>9. <<"codex", l>>[2] = l /\ l \in {"app", "wake"}
  BY DEF Label
<1>10. PICK p : p = <<"codex", l>>
  OBVIOUS
<1>11. p[2] \notin {"config", "marker"} \cup LinkName /\ p[2] = l
  BY <1>9, <1>10 DEF LinkName
<1>12. Claim(p, x, n) /\ Claimed(p, x, n)
  BY <1>1, <1>8, <1>11 DEF Claimed, Claim
<1> QED
  BY <1>10, <1>12 DEF n, x

\* The operations that fit to a command.
Fitting(f, m0, m) == {o \in OpRecord : FitsIn(o, f, m0, m)}

LEMMA PutFits ==
    ASSUME NEW f, NEW m0, NEW m, NEW p \in Files, NEW v \in Value, Claimed(p, v, RecFor(m, p[1]))
    PROVE  Put(p, v) \in Fitting(f, m0, m)
<1> DEFINE o == Put(p, v)
<1>1. o.op = "put" /\ o.path = p /\ o.value = v /\ o \in OpRecord
  BY FilesAre DEF Put, OpRecord, Writes
<1> HIDE DEF o
<1>2. Effect(o) = v
  BY <1>1 DEF Effect
<1> QED
  BY <1>1, <1>2 DEF Fitting, FitsIn, o

LEMMA OpFits ==
    ASSUME NEW f, NEW m0, NEW m, NEW p \in Files, NEW name \in {"link", "unlink", "clear", "edit", "bootout"},
           name = "link" => Claimed(p, OwnLink, RecFor(m, p[1])),
           name \in {"unlink", "clear"} => Claimed(p, NoFile, RecFor(m, p[1])),
           name = "edit" => /\ p[2] = "config" /\ RecFor(m0, p[1]) # NoRecord /\ RecFor(m, p[1]) = NoRecord
                            /\ Claim(p, f[p], RecFor(m0, p[1]))
    PROVE  Op(name, p) \in Fitting(f, m0, m)
<1> DEFINE o == Op(name, p)
<1>1. o.op = name /\ o.path = p /\ o.value = NoFile /\ o \in OpRecord
  BY FilesAre DEF Op, OpRecord, Writes, Value
<1> HIDE DEF o
<1>2. name = "link" => Effect(o) = OwnLink
  BY <1>1 DEF Effect
<1>3. name \in {"unlink", "clear"} => Effect(o) = NoFile
  BY <1>1 DEF Effect
<1> QED
  BY <1>1, <1>2, <1>3 DEF Fitting, FitsIn, o

LEMMA LeadsTo ==
    ASSUME NEW f, NEW m0, NEW m, NEW a \in Seq(Fitting(f, m0, m)),
           NEW x \in OpRecord, x.path = Manifest, x.op \in {"put", "unlink"}, Effect(x) = m, Sound(m),
           \A p \in Files : \/ Claimed(p, f[p], RecFor(m, p[1]))
                            \/ \E o \in Elems(a) : o.path = p /\ o.op \in Replacing
    PROVE  Leads(a \o <<x>>, f, m0)
<1>1. PICK b : b = <<x>>
  OBVIOUS
<1>2. a \in Seq(OpRecord) /\ b \in Seq(OpRecord) /\ Len(b) = 1 /\ b[1] = x
  BY <1>1 DEF Fitting
<1> DEFINE q == a \o b
<1>3. /\ Len(a) \in Nat /\ Len(q) = Len(a) + Len(b) /\ DOMAIN a = 1..Len(a)
      /\ DOMAIN b = 1..Len(b)
      /\ \A i \in DOMAIN a : q[i] = a[i]
      /\ \A i \in DOMAIN b : q[i + Len(a)] = b[i]
  BY <1>2, ConcatLies
<1> HIDE DEF q
<1>4. q[Len(q)] = x /\ Len(q) > 0 /\ 1..(Len(q) - 1) = DOMAIN a
  <2>1. 1 \in DOMAIN b /\ Len(q) = 1 + Len(a)
    BY <1>2, <1>3
  <2> QED
    BY <1>2, <1>3, <2>1
<1>5. Final(q) = m
  BY <1>4 DEF Final
<1>6. \A i \in DOMAIN a : q[i] = a[i] /\ FitsIn(a[i], f, m0, m)
  BY <1>3 DEF Fitting
<1>7. \A p \in Files : \/ Claimed(p, f[p], RecFor(m, p[1]))
                       \/ \E i \in DOMAIN a : q[i].path = p /\ q[i].op \in Replacing
  BY <1>6 DEF Elems
<1>8. Leads(q, f, m0)
  BY <1>4, <1>5, <1>6, <1>7 DEF Leads
<1> QED
  BY <1>1, <1>8 DEF q

\* An apply leads to what it has prepared.
LEMMA ApplyFits ==
    ASSUME StateInv, NEW h \in Harness, NEW m, RecFor(m, h) = NewRecord(h), h \in Owned => ValidRecord(h, FALSE),
           Sound(file[Manifest]), Tidy(file, file[Manifest])
    PROVE  LET S == Fitting(file, file[Manifest], m)
           IN  /\ Apply(h) \in Seq(S)
               /\ \A p \in Files : p[1] = h =>
                    \/ Claimed(p, file[p], NewRecord(h))
                    \/ \E o \in Elems(Apply(h)) : o.path = p /\ o.op \in Replacing
<1> DEFINE S == Fitting(file, file[Manifest], m)
           n == NewRecord(h)
<1>1. \A p \in Files : p[1] \in Harness /\ Claimed(p, file[p], RecordOf(p[1]))
  BY FilesAre, RecForIs DEF Tidy
<1>2. /\ <<h, "config">> \in Files /\ \A l \in Links(h) : <<h, l>> \in Files
      /\ h = "codex" => Marker \in Files /\ \A l \in Label : <<"codex", l>> \in Files
  BY FilesAre
<1>3. /\ Claimed(<<h, "config">>, ConfigAfter(h), n)
      /\ ~ConfigChanges(h) => Claimed(<<h, "config">>, At(h, "config"), n)
  BY <1>1, <1>2, ConfigClaimed DEF At
<1>4. Put(<<h, "config">>, ConfigAfter(h)) \in S
  BY <1>2, <1>3, ConfigAfterIs, PutFits DEF Value
<1>5. ASSUME RecordOf(h) = NoRecord, NEW l \in Links(h), At(h, l) = NoFile
      PROVE  Op("link", <<h, l>>) \in S
  <2>1. Claimed(<<h, l>>, OwnLink, n)
    BY <1>5, LinkClaimed
  <2> QED
    BY <1>2, <2>1, OpFits
<1>6. n # NoRecord
  BY NewRecordIs
<1>7. ASSUME h = "codex" PROVE Put(Marker, MarkerOf(build)) \in S
  <2>1. MarkerOf(build) \in Value
    BY MarkerIs DEF Value
  <2>2. Marker[2] = "marker" /\ Marker[1] = "codex"
    BY DEF Marker
  <2>3. Claimed(Marker, MarkerOf(build), n)
    BY <1>6, <2>2 DEF Claimed, Claim, LinkName, Label
  <2> QED
    BY <1>2, <1>7, <2>1, <2>2, <2>3, PutFits
<1>8. ASSUME h = "codex", NEW l \in Label PROVE Put(<<"codex", l>>, NewPlist(l)) \in S
  <2>1. <<"codex", l>> \in Files /\ <<"codex", l>>[1] = "codex"
    BY <1>2, <1>8
  <2>2. Claimed(<<"codex", l>>, At("codex", l), RecordOf("codex"))
    BY <1>1, <2>1 DEF At
  <2>3. Claimed(<<"codex", l>>, NewPlist(l), n)
    BY <1>8, <2>2, PlistClaimed
  <2>4. NewPlist(l) \in Value
    BY <1>8, NewPlistIs DEF Value
  <2> QED
    BY <1>8, <2>1, <2>3, <2>4, PutFits
<1> HIDE DEF S
<1>9. /\ Apply(h) \in Seq(S)
      /\ ConfigChanges(h) => Put(<<h, "config">>, ConfigAfter(h)) \in Elems(Apply(h))
  BY <1>4, <1>5, <1>7, <1>8, ApplyGoes
<1>10. ASSUME NEW p \in Files, p[1] = h
       PROVE  \/ Claimed(p, file[p], n)
              \/ \E o \in Elems(Apply(h)) : o.path = p /\ o.op \in Replacing
  <2>1. CASE p[2] # "config"
    BY <1>1, <1>10, <2>1, OthersClaimed
  <2>2. CASE p[2] = "config"
    <3>1. p = <<h, "config">>
      BY <1>10, <2>2, FilesAre, PathIs
    <3>2. CASE ConfigChanges(h)
      <4>1. PICK o \in Elems(Apply(h)) : o = Put(<<h, "config">>, ConfigAfter(h))
        BY <1>9, <3>2
      <4>2. o.path = p /\ o.op \in Replacing
        BY <3>1, <4>1 DEF Put, Replacing
      <4> QED
        BY <4>2
    <3>3. CASE ~ConfigChanges(h)
      BY <1>3, <3>1, <3>3 DEF At
    <3> QED
      BY <3>2, <3>3
  <2> QED
    BY <2>1, <2>2
<1> QED
  BY <1>9, <1>10 DEF S

LEMMA ApplyLeads ==
    ASSUME StateInv, NEW set \in SUBSET Harness, ApplyChecks(set), ApplyOps(set) # << >>,
           Sound(file[Manifest]), Tidy(file, file[Manifest])
    PROVE  Leads(ApplyOps(set), file, file[Manifest])
<1> DEFINE work == ToApply(set)
           check == CheckRuntime(work)
           e == Each(work, Apply)
           new == [h \in work |-> NewRecord(h)]
           m == ManifestWith(new)
           x == Put(Manifest, m)
           S == Fitting(file, file[Manifest], m)
<1>1. ApplyOps(set) = (check \o e) \o <<x>>
  BY DEF ApplyOps, When
<1>2. work \subseteq Harness /\ \A h \in work : h \in Owned => ValidRecord(h, FALSE)
  BY DEF ToApply, ApplyChecks
<1>3. \A h \in Harness : RecFor(m, h) = IF h \in work THEN NewRecord(h) ELSE RecordOf(h)
  <2>1. DOMAIN new = work /\ \A h \in work : new[h] = NewRecord(h)
    OBVIOUS
  <2> HIDE DEF new
  <2> QED
    BY <2>1, RecForIs
<1>4. x \in OpRecord /\ x.path = Manifest /\ x.op = "put" /\ Effect(x) = m
  <2>1. ManifestWith(new) \in GoodManifest
    <3>1. DOMAIN new = work /\ \A h \in work : new[h] = NewRecord(h)
      OBVIOUS
    <3>2. work \in SUBSET Harness
      BY <1>2
    <3>3. \A h \in work : /\ NewRecord(h) \in Record /\ NewRecord(h).links \subseteq Links(h)
                          /\ h # "codex" => NewRecord(h).plists = {}
      BY <3>2, NewRecordIs
    <3> HIDE DEF new, work
    <3> QED
      BY <3>1, <3>2, <3>3, ManifestIs
  <2>2. m \in GoodManifest
    BY <2>1
  <2> HIDE DEF m
  <2> QED
    BY <2>2, PathsAre DEF Put, OpRecord, Writes, Value, GoodManifest, Effect
<1> HIDE DEF m, x
<1>5. check \in Seq(S)
  <2> DEFINE o == [op |-> "check", path |-> Marker, value |-> MarkerOf(build)]
             changes == "codex" \in work /\ \E l \in Label : PlistChanges(l)
  <2>1. changes => o \in S
    <3>1. changes => o \in OpRecord /\ o.path \in Files /\ o.op = "check"
      BY <1>2, MarkerIs, FilesAre DEF OpRecord, Writes, Value
    <3> HIDE DEF o
    <3> QED
      BY <3>1 DEF Fitting, FitsIn
  <2>2. check = When(changes, <<o>>)
    BY DEF CheckRuntime
  <2>3. changes \in BOOLEAN
    OBVIOUS
  <2> HIDE DEF S, o, changes, check
  <2>4. changes => <<o>> \in Seq(S)
    BY <2>1, OneIs
  <2> QED
    BY <2>2, <2>3, <2>4, WhenIs
<1>6. ASSUME NEW h \in work
      PROVE  /\ Apply(h) \in Seq(S)
             /\ \A p \in Files : p[1] = h =>
                  \/ Claimed(p, file[p], RecFor(m, h))
                  \/ \E o \in Elems(Apply(h)) : o.path = p /\ o.op \in Replacing
  BY <1>2, <1>3, ApplyFits
<1>7. e \in Seq(S) /\ \A h \in work : Elems(Apply(h)) \subseteq Elems(e)
  <2> DEFINE A(h) == Apply(h)
  <2>1. /\ "claude" \in work => A("claude") \in Seq(S)
        /\ "hermes" \in work => A("hermes") \in Seq(S)
        /\ "codex" \in work => A("codex") \in Seq(S)
    BY <1>6
  <2>2. e = (IF "claude" \in work THEN A("claude") ELSE << >>)
            \o (IF "hermes" \in work THEN A("hermes") ELSE << >>)
            \o (IF "codex" \in work THEN A("codex") ELSE << >>)
    BY DEF Each
  <2> HIDE DEF A, e, work, S
  <2>3. /\ e \in Seq(S)
        /\ "claude" \in work => Elems(A("claude")) \subseteq Elems(e)
        /\ "hermes" \in work => Elems(A("hermes")) \subseteq Elems(e)
        /\ "codex" \in work => Elems(A("codex")) \subseteq Elems(e)
    BY <2>1, <2>2, EachIs
  <2>4. \A h \in work : h \in {"claude", "hermes", "codex"}
    BY <1>2, SetupAssumption
  <2>5. \A h \in work : Elems(A(h)) \subseteq Elems(e)
    BY <2>3, <2>4
  <2> QED
    BY <2>3, <2>5 DEF A
<1>8. Sound(m)
  <2>1. ASSUME NEW h \in Harness, RecFor(m, h) # NoRecord
        PROVE  LET rec == RecFor(m, h)
               IN  /\ rec.own \subseteq rec.has /\ rec.has # {}
                   /\ rec.box => h # "hermes" /\ rec.own \cap Wanted(h) # {}
    <3>1. CASE h \in work
      <4>1. Claimed(<<h, "config">>, At(h, "config"), RecordOf(h))
        BY FilesAre, RecForIs DEF Tidy, At
      <4> QED
        BY <1>3, <3>1, <4>1, NewRecordSound
    <3>2. CASE h \notin work
      BY <1>3, <2>1, <3>2, RecForIs DEF Sound
    <3> QED
      BY <3>1, <3>2
  <2> QED
    BY <2>1 DEF Sound
<1> HIDE DEF check, e, S
<1>9. check \o e \in Seq(S) /\ Elems(check \o e) = Elems(check) \cup Elems(e)
  BY <1>5, <1>7, ConcatIs
<1>10. ASSUME NEW p \in Files
       PROVE  \/ Claimed(p, file[p], RecFor(m, p[1]))
              \/ \E o \in Elems(check \o e) : o.path = p /\ o.op \in Replacing
  <2>1. CASE p[1] \in work
    BY <1>6, <1>7, <1>9, <2>1
  <2>2. CASE p[1] \notin work
    BY <1>3, <2>2, FilesAre, RecForIs DEF Tidy
  <2> QED
    BY <2>1, <2>2
<1>11. PICK a : a = check \o e
  OBVIOUS
<1>12. Leads(a \o <<x>>, file, file[Manifest])
  BY <1>4, <1>8, <1>9, <1>10, <1>11, LeadsTo DEF S
<1> QED
  BY <1>1, <1>11, <1>12

\* A removal leads to a host without what setup has added.
LEMMA RemoveFits ==
    ASSUME StateInv, NEW h \in Harness, RecordOf(h) # NoRecord, NEW m, RecFor(m, h) = NoRecord,
           Sound(file[Manifest]), Tidy(file, file[Manifest])
    PROVE  LET S == Fitting(file, file[Manifest], m)
           IN  /\ Remove(h) \in Seq(S)
               /\ \A p \in Files : p[1] = h =>
                    \/ Claimed(p, file[p], NoRecord)
                    \/ \E o \in Elems(Remove(h)) : o.path = p /\ o.op \in Replacing
<1> DEFINE S == Fitting(file, file[Manifest], m)
           rec == RecordOf(h)
<1>1. \A p \in Files : p[1] = h => Claimed(p, file[p], rec)
  BY RecForIs DEF Tidy
<1>2. /\ <<h, "config">> \in Files /\ \A l \in Links(h) : <<h, l>> \in Files
      /\ h = "codex" => Marker \in Files /\ \A l \in Label : <<"codex", l>> \in Files
  BY FilesAre
<1>3. rec \in Record /\ rec.links \subseteq Links(h) /\ rec.plists \subseteq Label /\ (h # "codex" => rec.plists = {})
  BY RecordIs DEF Record
<1>4. rec.box => rec.own # {}
  BY RecForIs DEF Sound
<1> HIDE DEF rec
<1>5. Op("edit", <<h, "config">>) \in S
  <2>1. Claim(<<h, "config">>, file[<<h, "config">>], rec)
    BY <1>1, <1>2 DEF Claimed
  <2> QED
    BY <1>2, <2>1, RecForIs, OpFits DEF rec
<1>6. ASSUME NEW l \in rec.links \cup rec.plists PROVE Op("unlink", <<h, l>>) \in S
  <2>1. <<h, l>> \in Files
    BY <1>2, <1>3, <1>6
  <2>2. Claimed(<<h, l>>, NoFile, NoRecord)
    BY NothingClaimed
  <2> QED
    BY <2>1, <2>2, OpFits
<1>7. ASSUME h = "codex" PROVE Op("clear", Marker) \in S
  <2>1. Marker[1] = h
    BY <1>7 DEF Marker
  <2>2. Claimed(Marker, NoFile, NoRecord)
    BY NothingClaimed
  <2> QED
    BY <1>2, <1>7, <2>1, <2>2, OpFits
<1> HIDE DEF S
<1>8. /\ Remove(h) \in Seq(S)
      /\ rec.own # {} => Op("edit", <<h, "config">>) \in Elems(Remove(h))
      /\ \A l \in rec.links \cup rec.plists : Op("unlink", <<h, l>>) \in Elems(Remove(h))
      /\ h = "codex" => Op("clear", Marker) \in Elems(Remove(h))
  BY <1>5, <1>6, <1>7, RemoveGoes DEF rec
<1>9. ASSUME NEW name \in Replacing, NEW p, Op(name, p) \in Elems(Remove(h))
      PROVE  \E o \in Elems(Remove(h)) : o.path = p /\ o.op \in Replacing
  BY <1>9 DEF Op
<1>10. ASSUME NEW p \in Files, p[1] = h
       PROVE  \/ Claimed(p, file[p], NoRecord)
              \/ \E o \in Elems(Remove(h)) : o.path = p /\ o.op \in Replacing
  <2>1. Claim(p, file[p], rec)
    BY <1>1, <1>10 DEF Claimed
  <2>2. CASE p[2] = "config"
    <3>1. p = <<h, "config">>
      BY <1>10, <2>2, FilesAre, PathIs
    <3>2. CASE rec.own # {}
      BY <1>8, <1>9, <3>1, <3>2 DEF Replacing
    <3>3. CASE rec.own = {}
      BY <1>4, <2>1, <2>2, <3>3 DEF Claimed, Claim, Settled, LinkName, Label
    <3> QED
      BY <3>2, <3>3
  <2>3. CASE p[2] \in LinkName \cup Label
    <3>1. p = <<h, p[2]>>
      BY <1>10, <2>3, FilesAre, PathIs DEF LinkName, Label
    <3>2. CASE p[2] \in rec.links \cup rec.plists
      BY <1>8, <1>9, <3>1, <3>2 DEF Replacing
    <3>3. CASE p[2] \notin rec.links \cup rec.plists
      BY <2>1, <2>3, <3>3 DEF Claimed, Claim, LinkName, Label
    <3> QED
      BY <3>2, <3>3
  <2>4. CASE p[2] = "marker"
    <3>1. p = Marker /\ h = "codex"
      BY <1>10, <2>4, FilesAre, PathIs DEF Marker
    <3> QED
      BY <1>8, <1>9, <3>1 DEF Replacing
  <2> QED
    BY <2>2, <2>3, <2>4, FilesAre DEF LinkName
<1> QED
  BY <1>8, <1>10 DEF S

LEMMA RemoveLeads ==
    ASSUME StateInv, NEW set \in SUBSET Harness, RemoveOps(set) # << >>,
           Sound(file[Manifest]), Tidy(file, file[Manifest])
    PROVE  Leads(RemoveOps(set), file, file[Manifest])
<1> DEFINE work == ToRemove(set)
           unload == Unload(set)
           e == Each(work, Remove)
           new == [h \in work |-> NoRecord]
           m == IF Owned = work THEN NoFile ELSE ManifestWith(new)
           x == IF Owned = work THEN Op("unlink", Manifest) ELSE Put(Manifest, ManifestWith(new))
           S == Fitting(file, file[Manifest], m)
<1>1. RemoveOps(set) = (unload \o e) \o <<x>>
  BY DEF RemoveOps, When
<1>2. work \subseteq Harness /\ \A h \in work : RecordOf(h) # NoRecord
  BY DEF ToRemove, Owned
<1>3. \A h \in Harness : RecFor(m, h) = IF h \in work THEN NoRecord ELSE RecordOf(h)
  <2>1. DOMAIN new = work /\ \A h \in work : new[h] = NoRecord
    OBVIOUS
  <2> HIDE DEF new
  <2>2. CASE Owned = work
    BY <2>2, RecForIs DEF Owned
  <2>3. CASE Owned # work
    BY <2>1, <2>3, RecForIs
  <2> QED
    BY <2>2, <2>3
<1>4. x \in OpRecord /\ x.path = Manifest /\ x.op \in {"put", "unlink"} /\ Effect(x) = m
  <2>1. ManifestWith(new) \in GoodManifest
    <3>1. DOMAIN new = work /\ \A h \in work : new[h] = NoRecord
      OBVIOUS
    <3>2. work \in SUBSET Harness
      BY <1>2
    <3> HIDE DEF new, work
    <3> QED
      BY <3>1, <3>2, ManifestIs
  <2> HIDE DEF new
  <2>2. CASE Owned = work
    BY <2>2, PathsAre DEF Op, OpRecord, Writes, Value, Effect
  <2>3. CASE Owned # work
    BY <2>1, <2>3, PathsAre DEF Put, OpRecord, Writes, Value, GoodManifest, Effect
  <2> QED
    BY <2>2, <2>3
<1> HIDE DEF m, x
<1>5. unload \in Seq(S)
  <2> DEFINE Job(l) == When(l \in RecordOf("codex").plists, <<Op("bootout", <<"codex", l>>)>>)
             a == Job("app")
             b == Job("wake")
  <2>1. CASE UnloadNeeded(set)
    <3>1. ASSUME NEW l \in Label PROVE Job(l) \in Seq(S)
      <4>1. <<"codex", l>> \in Files
        BY <2>1, FilesAre DEF UnloadNeeded, ToRemove
      <4>2. PICK o : o = Op("bootout", <<"codex", l>>)
        OBVIOUS
      <4>3. o \in S
        BY <4>1, <4>2, OpFits
      <4> HIDE DEF S
      <4>4. When(l \in RecordOf("codex").plists, <<o>>) \in Seq(S)
        BY <4>3, ListsMember
      <4> QED
        BY <4>2, <4>4
    <3>2. a \in Seq(S) /\ b \in Seq(S)
      BY <3>1 DEF Label
    <3>3. Unload(set) = a \o b
      BY <2>1 DEF Unload
    <3> HIDE DEF a, b, S
    <3>4. a \o b \in Seq(S)
      BY <3>2, ConcatIs
    <3> QED
      BY <3>3, <3>4
  <2>2. CASE ~UnloadNeeded(set)
    BY <2>2, NoneIs DEF Unload
  <2> QED
    BY <2>1, <2>2
<1>6. ASSUME NEW h \in work
      PROVE  /\ Remove(h) \in Seq(S)
             /\ \A p \in Files : p[1] = h =>
                  \/ Claimed(p, file[p], RecFor(m, h))
                  \/ \E o \in Elems(Remove(h)) : o.path = p /\ o.op \in Replacing
  BY <1>2, <1>3, RemoveFits
<1>7. e \in Seq(S) /\ \A h \in work : Elems(Remove(h)) \subseteq Elems(e)
  <2> DEFINE A(h) == Remove(h)
  <2>1. /\ "claude" \in work => A("claude") \in Seq(S)
        /\ "hermes" \in work => A("hermes") \in Seq(S)
        /\ "codex" \in work => A("codex") \in Seq(S)
    BY <1>6
  <2>2. e = (IF "claude" \in work THEN A("claude") ELSE << >>)
            \o (IF "hermes" \in work THEN A("hermes") ELSE << >>)
            \o (IF "codex" \in work THEN A("codex") ELSE << >>)
    BY DEF Each
  <2> HIDE DEF A, e, work, S
  <2>3. /\ e \in Seq(S)
        /\ "claude" \in work => Elems(A("claude")) \subseteq Elems(e)
        /\ "hermes" \in work => Elems(A("hermes")) \subseteq Elems(e)
        /\ "codex" \in work => Elems(A("codex")) \subseteq Elems(e)
    BY <2>1, <2>2, EachIs
  <2>4. \A h \in work : h \in {"claude", "hermes", "codex"}
    BY <1>2, SetupAssumption
  <2>5. \A h \in work : Elems(A(h)) \subseteq Elems(e)
    BY <2>3, <2>4
  <2> QED
    BY <2>3, <2>5 DEF A
<1>8. Sound(m)
  BY <1>3, RecForIs DEF Sound
<1> HIDE DEF unload, e, S
<1>9. unload \o e \in Seq(S) /\ Elems(unload \o e) = Elems(unload) \cup Elems(e)
  BY <1>5, <1>7, ConcatIs
<1>10. ASSUME NEW p \in Files
       PROVE  \/ Claimed(p, file[p], RecFor(m, p[1]))
              \/ \E o \in Elems(unload \o e) : o.path = p /\ o.op \in Replacing
  <2>1. CASE p[1] \in work
    BY <1>6, <1>7, <1>9, <2>1
  <2>2. CASE p[1] \notin work
    BY <1>3, <2>2, FilesAre, RecForIs DEF Tidy
  <2> QED
    BY <2>1, <2>2
<1>11. PICK a : a = unload \o e
  OBVIOUS
<1>12. Leads(a \o <<x>>, file, file[Manifest])
  BY <1>4, <1>8, <1>9, <1>10, <1>11, LeadsTo DEF S
<1> QED
  BY <1>1, <1>11, <1>12

-----------------------------------------------------------------------------
(* NoOrphans of one operation *)

LEMMA FileWith ==
    ASSUME StateInv, NEW x \in OpRecord
    PROVE  /\ x.op \in {"put", "link", "unlink", "clear"} =>
                /\ NewFile(x)[x.path] = Effect(x)
                /\ \A p \in Path : p # x.path => NewFile(x)[p] = file[p]
           /\ x.op \notin {"put", "link", "unlink", "clear"} => NewFile(x) = file
<1>1. file \in [Path -> Value] /\ x.path \in Path
  BY DEF StateInv, OpRecord
<1>2. CASE x.op \in {"put", "link", "unlink", "clear"}
  <2>1. NewFile(x) = [file EXCEPT ![x.path] = Effect(x)]
    BY <1>2 DEF NewFile, Effect
  <2> QED
    BY <1>1, <1>2, <2>1
<1>3. CASE x.op \notin {"put", "link", "unlink", "clear"}
  BY <1>3 DEF NewFile
<1> QED
  BY <1>2, <1>3

\* What is read of a list of operations, with its first one apart.
LEMMA LeadsFirst ==
    ASSUME NEW q, NEW x, NEW r, Cons(q, x, r), NEW f, NEW m0, Leads(q, f, m0), Len(r) > 0
    PROVE  /\ Len(r) \in Nat /\ Final(q) = Final(r)
           /\ r[Len(r)].path = Manifest /\ r[Len(r)].op \in {"put", "unlink"} /\ Sound(Final(r))
           /\ FitsIn(x, f, m0, Final(r))
           /\ \A i \in 1..(Len(r) - 1) : FitsIn(r[i], f, m0, Final(r))
           /\ \A p \in Files : \/ Claimed(p, f[p], RecFor(Final(r), p[1]))
                               \/ x.path = p /\ x.op \in Replacing
                               \/ \E i \in 1..(Len(r) - 1) : r[i].path = p /\ r[i].op \in Replacing
<1>1. /\ Len(r) \in Nat /\ Len(q) = Len(r) + 1 /\ q[1] = x
      /\ \A i \in 1..Len(r) : q[i + 1] = r[i]
  BY DEF Cons
<1>2. q[Len(q)] = r[Len(r)]
  BY <1>1
<1>3. Final(q) = Final(r)
  BY <1>2 DEF Final
<1>4. \A i \in 1..(Len(q) - 1) : FitsIn(q[i], f, m0, Final(r))
  BY <1>3 DEF Leads
<1>5. 1 \in 1..(Len(q) - 1) /\ \A i \in 1..(Len(r) - 1) : i + 1 \in 1..(Len(q) - 1) /\ q[i + 1] = r[i]
  BY <1>1
<1>6. \A i \in 1..(Len(q) - 1) : i = 1 \/ (i - 1 \in 1..(Len(r) - 1) /\ q[i] = r[i - 1])
  BY <1>1
<1>7. FitsIn(x, f, m0, Final(r))
  BY <1>1, <1>4, <1>5
<1>8. \A i \in 1..(Len(r) - 1) : FitsIn(r[i], f, m0, Final(r))
  BY <1>4, <1>5
<1>9. ASSUME NEW p \in Files
      PROVE  \/ Claimed(p, f[p], RecFor(Final(r), p[1]))
             \/ x.path = p /\ x.op \in Replacing
             \/ \E i \in 1..(Len(r) - 1) : r[i].path = p /\ r[i].op \in Replacing
  <2>1. \/ Claimed(p, f[p], RecFor(Final(r), p[1]))
        \/ \E i \in 1..(Len(q) - 1) : q[i].path = p /\ q[i].op \in Replacing
    BY <1>3 DEF Leads
  <2> QED
    BY <1>1, <1>6, <2>1
<1> QED
  BY <1>1, <1>2, <1>3, <1>7, <1>8, <1>9 DEF Leads

LEMMA LeadsNext ==
    ASSUME StateInv, NEW x \in OpRecord, x.op # "edit", NEW q, NEW r, Cons(q, x, r), Len(r) > 0,
           NEW m0, Leads(q, file, m0)
    PROVE  Leads(r, NewFile(x), m0) /\ NewFile(x)[Manifest] = file[Manifest]
<1> DEFINE f == NewFile(x)
           m == Final(r)
<1>1. /\ Len(r) \in Nat /\ r[Len(r)].path = Manifest /\ r[Len(r)].op \in {"put", "unlink"} /\ Sound(m)
      /\ FitsIn(x, file, m0, m)
      /\ \A i \in 1..(Len(r) - 1) : FitsIn(r[i], file, m0, m)
      /\ \A p \in Files : \/ Claimed(p, file[p], RecFor(m, p[1]))
                          \/ x.path = p /\ x.op \in Replacing
                          \/ \E i \in 1..(Len(r) - 1) : r[i].path = p /\ r[i].op \in Replacing
  BY LeadsFirst
<1>2. /\ x.op \in {"put", "link", "unlink", "clear"} =>
            f[x.path] = Effect(x) /\ \A p \in Path : p # x.path => f[p] = file[p]
      /\ x.op \notin {"put", "link", "unlink", "clear"} => f = file
  BY FileWith
<1>3. x.path \in Files /\ Manifest \notin Files /\ Manifest \in Path /\ Files \subseteq Path
  BY <1>1, FilesAre, PathsAre DEF FitsIn
<1> HIDE DEF f, m
<1>4. f[Manifest] = file[Manifest]
  BY <1>2, <1>3
<1>5. \A p \in Files : f[p] = file[p] \/ (p = x.path /\ Claimed(p, f[p], RecFor(m, p[1])))
  BY <1>1, <1>2, <1>3 DEF FitsIn
<1>6. ASSUME NEW o, FitsIn(o, file, m0, m) PROVE FitsIn(o, f, m0, m)
  <2>1. o.path \in Files /\ (f[o.path] = file[o.path] \/ Claimed(o.path, f[o.path], RecFor(m, o.path[1])))
    BY <1>5, <1>6 DEF FitsIn
  <2>2. o.op = "edit" => Claim(o.path, f[o.path], RecFor(m0, o.path[1]))
    BY <1>6, <2>1, LooseClaim DEF FitsIn, Claimed
  <2> QED
    BY <1>6, <2>2 DEF FitsIn
<1>7. ASSUME NEW p \in Files
      PROVE  \/ Claimed(p, f[p], RecFor(m, p[1]))
             \/ \E i \in 1..(Len(r) - 1) : r[i].path = p /\ r[i].op \in Replacing
  <2>1. CASE x.path = p /\ x.op \in Replacing
    <3>1. x.op \in {"put", "link", "unlink", "clear"}
      BY <2>1 DEF Replacing
    <3> QED
      BY <1>1, <1>2, <2>1, <3>1 DEF FitsIn
  <2>2. CASE ~(x.path = p /\ x.op \in Replacing)
    BY <1>1, <1>5, <2>2
  <2> QED
    BY <2>1, <2>2
<1>8. Leads(r, f, m0)
  BY <1>1, <1>6, <1>7 DEF Leads, m
<1> QED
  BY <1>4, <1>8 DEF f

LEMMA LeadsEnd ==
    ASSUME StateInv, NEW x \in OpRecord, NEW q, NEW r, Cons(q, x, r), Len(r) = 0, NEW m0, Leads(q, file, m0)
    PROVE  x.op # "edit" /\ Sound(NewFile(x)[Manifest]) /\ Tidy(NewFile(x), NewFile(x)[Manifest])
<1>1. Len(q) = 1 /\ q[1] = x
  BY DEF Cons
<1>2. x.path = Manifest /\ x.op \in {"put", "unlink"} /\ Sound(Effect(x))
  BY <1>1 DEF Leads, Final
<1>3. \A p \in Files : Claimed(p, file[p], RecFor(Effect(x), p[1]))
  <2>1. \A i : i \notin 1..(Len(q) - 1)
    BY <1>1
  <2> QED
    BY <1>1, <2>1 DEF Leads, Final
<1>4. NewFile(x)[Manifest] = Effect(x) /\ \A p \in Files : NewFile(x)[p] = file[p]
  BY <1>2, FileWith, FilesAre
<1> QED
  BY <1>2, <1>3, <1>4 DEF Tidy

\* The configuration that a removal writes has nothing of setup in it.
LEMMA WithoutClaimed ==
    ASSUME StateInv, NEW h \in Harness, At(h, "config") # NoFile, RecordOf(h) # NoRecord,
           Sound(file[Manifest]), Claim(<<h, "config">>, At(h, "config"), RecordOf(h))
    PROVE  Claimed(<<h, "config">>, Without(h, At(h, "config")), NoRecord)
<1> DEFINE c == At(h, "config")
           rec == RecordOf(h)
           setup == c.setup \ rec.own
           user == c.user \ rec.own
           rest == Present(c) \ rec.own
           box == IF ~rec.box THEN c.box ELSE IF rest = {} THEN "no" ELSE "user"
           d == Without(h, c)
<1>1. c \in Config /\ View(c) = c
  BY ConfigIs
<1>2. d = [c EXCEPT !.setup = setup, !.user = user, !.box = box]
  BY DEF Without
<1>3. Present(c) = c.setup \cup c.user
  BY <1>1 DEF Present
<1>4. Settled(h, c, rec)
  BY <1>1 DEF Claim
<1>5. rec.box => h # "hermes"
  BY RecForIs DEF Sound
<1> HIDE DEF c, d, rec
<1>6. d.setup = setup /\ d.user = user /\ d.box = box
  BY <1>1, <1>2 DEF Config
<1>7. View(d) = d
  <2>1. d.kind = "config"
    BY <1>1, <1>2 DEF Config
  <2> QED
    BY <2>1 DEF View, NoFile
<1>8. setup = {} /\ box # "setup"
  BY <1>4 DEF Settled
<1>9. IF h = "hermes" THEN box = "no" ELSE box = "no" => user = {}
  BY <1>3, <1>4, <1>5 DEF Settled
<1>10. Settled(h, d, NoRecord)
  BY <1>6, <1>8, <1>9 DEF Settled
<1>11. Claimed(<<h, "config">>, d, NoRecord)
  BY <1>7, <1>10 DEF Claimed, Claim, LinkName, Label
<1> QED
  BY <1>11 DEF c, d

LEMMA LeadsEdit ==
    ASSUME StateInv, NEW x \in OpRecord, x.op = "edit", Can(x), NEW q, NEW r, Cons(q, x, r), Len(r) > 0,
           Leads(q, file, file[Manifest]), Sound(file[Manifest]), NEW t, Cons(t, EditOp(x.path[1]), r)
    PROVE  Leads(t, file, file[Manifest])
<1> DEFINE m0 == file[Manifest]
           m == Final(r)
           h == x.path[1]
           e == EditOp(h)
<1>1. /\ Len(r) \in Nat /\ r[Len(r)].path = Manifest /\ r[Len(r)].op \in {"put", "unlink"} /\ Sound(m)
      /\ FitsIn(x, file, m0, m)
      /\ \A i \in 1..(Len(r) - 1) : FitsIn(r[i], file, m0, m)
      /\ \A p \in Files : \/ Claimed(p, file[p], RecFor(m, p[1]))
                          \/ x.path = p /\ x.op \in Replacing
                          \/ \E i \in 1..(Len(r) - 1) : r[i].path = p /\ r[i].op \in Replacing
  BY LeadsFirst
<1>2. /\ x.path \in Files /\ x.path[2] = "config" /\ RecFor(m, h) = NoRecord
      /\ RecFor(m0, h) # NoRecord /\ Claim(x.path, file[x.path], RecFor(m0, h))
  BY <1>1 DEF FitsIn
<1>3. h \in Harness /\ x.path = <<h, "config">>
  BY <1>2, FilesAre, PathIs
<1>4. At(h, "config") # NoFile /\ RecordOf(h) # NoRecord /\ Claim(<<h, "config">>, At(h, "config"), RecordOf(h))
  BY <1>2, <1>3, RecForIs DEF Can, At
<1>5. Claimed(x.path, Without(h, At(h, "config")), NoRecord)
  BY <1>3, <1>4, WithoutClaimed
<1>6. e.path = x.path /\ e.op \in {"put", "unlink"} /\ Claimed(x.path, Effect(e), NoRecord)
  <2> DEFINE d == Without(h, At(h, "config"))
  <2>1. e = Op("unlink", x.path) \/ e = Put(x.path, d)
    BY <1>3 DEF EditOp
  <2> HIDE DEF d, e
  <2>2. CASE e = Op("unlink", x.path)
    BY <2>2, NothingClaimed DEF Op, Effect
  <2>3. CASE e = Put(x.path, d)
    BY <1>5, <2>3 DEF Put, Effect, d
  <2> QED
    BY <2>1, <2>2, <2>3
<1> HIDE DEF m, m0, h, e
<1>7. FitsIn(e, file, m0, m) /\ e.op \in Replacing
  BY <1>2, <1>6 DEF FitsIn, Replacing, h
<1>8. /\ Len(t) = Len(r) + 1 /\ t[1] = e /\ \A i \in 1..Len(r) : t[i + 1] = r[i]
  BY DEF Cons, e, h
<1>9. t[Len(t)] = r[Len(r)]
  BY <1>1, <1>8
<1>10. Final(t) = m
  BY <1>9 DEF Final, m
<1>11. 1 \in 1..(Len(t) - 1) /\ \A i \in 1..(Len(r) - 1) : i + 1 \in 1..(Len(t) - 1) /\ t[i + 1] = r[i]
  BY <1>1, <1>8
<1>12. \A i \in 1..(Len(t) - 1) : i = 1 \/ (i - 1 \in 1..(Len(r) - 1) /\ t[i] = r[i - 1])
  BY <1>1, <1>8
<1>13. \A i \in 1..(Len(t) - 1) : FitsIn(t[i], file, m0, m)
  BY <1>1, <1>7, <1>8, <1>12
<1>14. ASSUME NEW p \in Files
       PROVE  \/ Claimed(p, file[p], RecFor(m, p[1]))
              \/ \E i \in 1..(Len(t) - 1) : t[i].path = p /\ t[i].op \in Replacing
  <2>1. CASE x.path = p
    <3>1. t[1].path = p /\ t[1].op \in Replacing
      BY <1>6, <1>7, <1>8, <2>1
    <3> QED
      BY <1>11, <3>1
  <2>2. CASE \E i \in 1..(Len(r) - 1) : r[i].path = p /\ r[i].op \in Replacing
    <3>1. PICK i \in 1..(Len(r) - 1) : r[i].path = p /\ r[i].op \in Replacing
      BY <2>2
    <3>2. i + 1 \in 1..(Len(t) - 1) /\ t[i + 1] = r[i]
      BY <1>11
    <3> QED
      BY <3>1, <3>2
  <2> QED
    BY <1>1, <2>1, <2>2
<1> QED
  BY <1>1, <1>8, <1>9, <1>10, <1>13, <1>14 DEF Leads, m0

-----------------------------------------------------------------------------
(* NoOrphans of one step of a command *)

LEMMA TidyHeld ==
    ASSUME IInv, TidyInv, NEW s \in Setup, proc[s].at # "idle"
    PROVE  Manifest \notin raced /\ (killed = {} /\ ~broken => Accounted(proc[s], file))
BY HeldIs DEF TidyInv

\* A command has the lock after the step,
LEMMA TidyGoOn ==
    ASSUME IInv, NEW s \in Setup, LockFree \/ Holds(s), NEW c,
           proc' = [proc EXCEPT ![s] = c], c.at \in {"snap", "work", "undo"},
           Manifest \notin raced', killed' = {} /\ ~broken' => Accounted(c, file')
    PROVE  TidyInv'
<1>1. proc'[s] = c /\ \A t \in Setup \ {s} : proc'[t] = proc[t] /\ ~Holds(t)
  BY DEF IInv, LockInv, LockFree
<1>2. (\A t \in Setup : Holds(t)' => t = s) /\ Holds(s)'
  BY <1>1 DEF Holds
<1>3. ~LockFree'
  BY <1>2 DEF LockFree
<1> QED
  BY <1>1, <1>2, <1>3 DEF TidyInv

\* or leaves it.
LEMMA TidyEnd ==
    ASSUME IInv, NEW s \in Setup, Holds(s), Ends(s), Manifest \notin raced',
           killed' = {} /\ ~broken' => Sound(file'[Manifest]) /\ Tidy(file', file'[Manifest])
    PROVE  TidyInv'
<1>1. proc'[s] = IdleProc /\ \A t \in Setup \ {s} : proc'[t] = proc[t] /\ ~Holds(t)
  BY DEF IInv, LockInv, Ends
<1>2. \A t \in Setup : ~Holds(t)'
  BY <1>1, IdleIs DEF Holds
<1> QED
  BY <1>2 DEF TidyInv

LEMMA TidyKept ==
    ASSUME TidyInv, UNCHANGED <<file, proc, raced, killed, broken>>
    PROVE  TidyInv'
BY DEF TidyInv, Holds, LockFree

LEMMA TidyBegin ==
    ASSUME IInv, TidyInv, NEW s \in Setup, Begin(s)
    PROVE  TidyInv'
<1>1. PICK cmd \in {"apply", "remove"}, set \in SUBSET Harness \ {{}}, unload \in BOOLEAN :
        /\ Chosen(cmd, set, unload)
        /\ Begun(cmd, set).todo # << >>
        /\ proc' = [proc EXCEPT ![s] = Begun(cmd, set)]
  BY DEF Begin
<1>2. LockFree /\ raced' = {} /\ UNCHANGED <<file, killed, broken>> /\ StateInv
  BY DEF Begin, IInv
<1> DEFINE todo == IF cmd = "apply" THEN ApplyOps(set) ELSE RemoveOps(set)
           base == <<file, loaded>>
           c == Begun(cmd, set)
<1>3. c.at = "snap" /\ c.base = base /\ c.todo = todo /\ base[1] = file
  BY DEF Begun, IdleProc
<1>4. ASSUME killed = {}, ~broken PROVE Accounted(c, file)
  <2>1. Sound(file[Manifest]) /\ Tidy(file, file[Manifest])
    BY <1>2, <1>4 DEF TidyInv
  <2>2. Leads(todo, file, file[Manifest])
    <3>1. CASE cmd = "apply"
      <4>1. todo = ApplyOps(set) /\ ApplyOps(set) # << >> /\ ApplyChecks(set)
        BY <1>1, <1>3, <3>1 DEF Chosen
      <4> QED
        BY <1>2, <2>1, <4>1, ApplyLeads
    <3>2. CASE cmd # "apply"
      <4>1. todo = RemoveOps(set) /\ RemoveOps(set) # << >>
        BY <1>1, <1>3, <3>2
      <4> QED
        BY <1>2, <2>1, <4>1, RemoveLeads
    <3> QED
      BY <3>1, <3>2
  <2> HIDE DEF todo, base, c
  <2> QED
    BY <1>3, <2>1, <2>2 DEF Accounted
<1> HIDE DEF c, todo, base
<1>5. proc' = [proc EXCEPT ![s] = c]
  BY <1>1 DEF c
<1> QED
  BY <1>2, <1>3, <1>4, <1>5, TidyGoOn

\* The manifest is among the snapshots.
LEMMA ManifestTouched ==
    ASSUME NEW c, NEW f, NEW m, NEW Q, c.todo \in Seq(OpsOn(Q)), Leads(c.todo, f, m)
    PROVE  Manifest \in Q
<1> DEFINE q == c.todo
           n == Len(q)
<1>1. n \in Nat /\ n > 0 /\ q[n].path = Manifest /\ q[n].op \in {"put", "unlink"}
  BY DEF Leads
<1>2. q[n] \in OpsOn(Q)
  BY <1>1
<1> QED
  BY <1>1, <1>2 DEF OpsOn, Writes

LEMMA TidySnapshot ==
    ASSUME IInv, TidyInv, NEW s \in Setup, Snapshot(s)
    PROVE  TidyInv'
<1> DEFINE p == proc[s]
           saved == [i \in DOMAIN p.paths |-> file[p.paths[i]]]
           c == [p EXCEPT !.at = "work", !.saved = saved]
<1>1. p.at = "snap" /\ UNCHANGED <<file, raced, killed, broken>> /\ proc' = [proc EXCEPT ![s] = c]
  BY DEF Snapshot, ghosts
<1>2. p \in Proc /\ Holds(s) /\ Keeps(p, file, loaded, raced)
  BY <1>1, HeldIs
<1>3. c.at = "work" /\ c.base = p.base /\ c.todo = p.todo /\ c.paths = p.paths /\ c.saved = saved
  BY <1>2 DEF Proc
<1>4. Manifest \notin raced /\ (killed = {} /\ ~broken => Accounted(p, file))
  BY <1>1, TidyHeld
<1>5. p.paths \in Seq(Path) /\ p.todo \in Seq(OpsOn(Elems(p.paths)))
  BY <1>2 DEF Proc, Keeps
<1>6. \A i \in DOMAIN p.paths : p.paths[i] \in Path /\ saved[i] = file[p.paths[i]]
  BY <1>5
<1> HIDE DEF c, p, saved
<1>7. ASSUME killed = {}, ~broken PROVE Accounted(c, file)
  <2> DEFINE m == p.base[1][Manifest]
  <2>1. Sound(m) /\ Tidy(file, m) /\ file[Manifest] = m /\ Leads(p.todo, file, m)
    BY <1>1, <1>4, <1>7 DEF Accounted
  <2>2. Manifest \in Elems(p.paths)
    BY <1>5, <2>1, ManifestTouched
  <2> HIDE DEF m
  <2>3. \A q \in Path : q # Manifest => Claimed(q, file[q], RecFor(m, q[1]))
    BY <2>1 DEF Tidy, Files
  <2>4. \E i \in DOMAIN p.paths : p.paths[i] = Manifest /\ saved[i] = m
    BY <1>6, <2>1, <2>2 DEF Elems
  <2>5. Returns(c, file, m)
    BY <1>3, <1>6, <2>3, <2>4 DEF Returns, Files
  <2> QED
    BY <1>3, <2>1, <2>5 DEF Accounted, m
<1> QED
  BY <1>1, <1>2, <1>3, <1>4, <1>7, TidyGoOn

\* What an operation leaves of the snapshots.
LEMMA ReturnsNext ==
    ASSUME IInv, NEW s \in Setup, proc[s].at = "work", NEW m, Returns(proc[s], file, m),
           NEW c, c.paths = proc[s].paths, c.saved = proc[s].saved
    PROVE  Returns(c, file, m) /\ Returns(c, NewFile(Head(proc[s].todo)), m)
<1> DEFINE f == NewFile(Head(proc[s].todo))
<1>1. \A p \in Path \ Elems(proc[s].paths) : f[p] = file[p]
  BY OperationIs
<1> HIDE DEF f
<1>2. \A p \in Files \ Elems(proc[s].paths) : f[p] = file[p]
  BY <1>1 DEF Files
<1> QED
  BY <1>2 DEF Returns, f

LEMMA TidyStep ==
    ASSUME IInv, TidyInv, NEW s \in Setup, Step(s)
    PROVE  TidyInv'
<1> DEFINE p == proc[s]
           x == Head(p.todo)
           r == Tail(p.todo)
           m == p.base[1][Manifest]
<1>1. p.at = "work" /\ UNCHANGED <<raced, killed, broken>>
  BY DEF Step, ghosts
<1>2. p \in Proc /\ Holds(s) /\ StateInv
  BY <1>1, HeldIs DEF IInv
<1>3. Manifest \notin raced /\ (killed = {} /\ ~broken => Accounted(p, file))
  BY <1>1, TidyHeld
<1>4. /\ p.todo \in Seq(OpRecord) /\ p.todo # << >> /\ x \in OpRecord /\ r \in Seq(OpRecord)
      /\ x.op = "edit" => NewFile(x) = file
      /\ x.op = "edit" /\ Can(x) => EditOp(x.path[1]) \in OpRecord
  <2>1. p.todo # << >> /\ x \in OpsOn(Elems(p.paths))
    BY <1>1, OperationIs
  <2>2. p.todo \in Seq(OpRecord)
    BY <1>2 DEF Proc
  <2>3. x \in OpRecord /\ r \in Seq(OpRecord)
    BY <2>1, <2>2, FirstIs
  <2>4. \A o \in OpsOn(Elems(p.paths)) : o \in OpRecord
    BY DEF OpsOn
  <2>5. /\ x.op = "edit" => NewFile(x) = file
        /\ x.op = "edit" /\ Can(x) => EditOp(x.path[1]) \in OpsOn(Elems(p.paths))
    BY <1>1, OperationIs
  <2> HIDE DEF x, r, p
  <2> QED
    BY <2>1, <2>2, <2>3, <2>4, <2>5
<1>5. Cons(p.todo, x, r)
  BY <1>4, TailCons
<1>6. Len(r) \in Nat
  BY <1>4
<1>7. killed = {} /\ ~broken =>
        Sound(m) /\ file[Manifest] = m /\ Leads(p.todo, file, m) /\ Returns(p, file, m)
  BY <1>1, <1>3 DEF Accounted
<1>8. ASSUME NEW c, c.paths = p.paths, c.saved = p.saved, killed = {}, ~broken
      PROVE  Returns(c, file, m) /\ Returns(c, NewFile(x), m)
  BY <1>1, <1>7, <1>8, ReturnsNext
<1>9. CASE ~Can(x)
  <2> DEFINE c == [p EXCEPT !.at = "undo", !.left = Len(p.paths)]
  <2>1. proc' = [proc EXCEPT ![s] = c] /\ UNCHANGED file
    BY <1>9 DEF Step
  <2>2. c.at = "undo" /\ c.paths = p.paths /\ c.saved = p.saved /\ c.base = p.base
    BY <1>2 DEF Proc
  <2> HIDE DEF c, p, x, r
  <2>3. killed = {} /\ ~broken => Accounted(c, file)
    BY <1>7, <1>8, <2>2 DEF Accounted
  <2> QED
    BY <1>1, <1>2, <1>3, <2>1, <2>2, <2>3, TidyGoOn
<1>10. CASE Can(x)
  <2>1. /\ file' = NewFile(x)
        /\ IF x.op = "edit"
           THEN proc' = [proc EXCEPT ![s].todo = <<EditOp(x.path[1])>> \o r]
           ELSE IF r = << >> THEN Ends(s)
           ELSE proc' = [proc EXCEPT ![s].todo = r, ![s].external = @ \/ IsLoaded(x)]
    BY <1>10 DEF Step
  <2>2. CASE Len(r) = 0 /\ x.op # "edit"
    <3>1. Ends(s)
      <4>1. r = << >>
        BY <1>4, <2>2, EmptySeq
      <4> QED
        BY <2>1, <2>2, <4>1
    <3> HIDE DEF p, x, r
    <3>2. killed = {} /\ ~broken => Sound(file'[Manifest]) /\ Tidy(file', file'[Manifest])
      BY <1>2, <1>4, <1>5, <1>7, <2>1, <2>2, LeadsEnd
    <3> QED
      BY <1>1, <1>2, <1>3, <3>1, <3>2, TidyEnd
  <2>3. CASE Len(r) > 0 /\ x.op # "edit"
    <3> DEFINE external == p.external \/ IsLoaded(x)
               c == [p EXCEPT !.todo = r, !.external = external]
    <3>1. r # << >>
      BY <1>6, <2>3
    <3>2. proc' = [proc EXCEPT ![s] = c]
      BY <2>1, <2>3, <3>1
    <3>3. c.at = "work" /\ c.base = p.base /\ c.paths = p.paths /\ c.saved = p.saved /\ c.todo = r
      BY <1>1, <1>2 DEF Proc
    <3> HIDE DEF c, p, x, r, external
    <3>4. ASSUME killed = {}, ~broken PROVE Accounted(c, file')
      <4>1. Leads(r, NewFile(x), m) /\ NewFile(x)[Manifest] = file[Manifest]
        BY <1>2, <1>4, <1>5, <1>7, <2>3, <3>4, LeadsNext
      <4> QED
        BY <1>7, <1>8, <2>1, <3>3, <3>4, <4>1 DEF Accounted
    <3> QED
      BY <1>1, <1>2, <1>3, <3>2, <3>3, <3>4, TidyGoOn
  <2>4. CASE x.op = "edit"
    <3> DEFINE e == EditOp(x.path[1])
               todo == <<e>> \o r
               c == [p EXCEPT !.todo = todo]
    <3>1. proc' = [proc EXCEPT ![s] = c]
      BY <2>1, <2>4
    <3>2. e \in OpRecord
      BY <1>4, <1>10, <2>4
    <3> HIDE DEF e
    <3>3. Cons(todo, e, r)
      BY <1>4, <3>2, PushCons
    <3>4. c.at = "work" /\ c.base = p.base /\ c.paths = p.paths /\ c.saved = p.saved /\ c.todo = todo
      BY <1>1, <1>2 DEF Proc
    <3> HIDE DEF c, p, x, r, todo
    <3>5. ASSUME killed = {}, ~broken PROVE Accounted(c, file')
      <4>1. Sound(m) /\ file[Manifest] = m /\ Leads(p.todo, file, m)
        BY <1>7, <3>5
      <4>2. Len(r) # 0
        BY <1>2, <1>4, <1>5, <2>4, <4>1, LeadsEnd
      <4>3. Len(r) > 0
        BY <1>6, <4>2
      <4>4. Leads(todo, file, m)
        BY <1>2, <1>4, <1>5, <1>10, <2>4, <3>3, <4>1, <4>3, LeadsEdit DEF e
      <4>5. file' = file
        BY <1>4, <2>1, <2>4
      <4> QED
        BY <1>8, <3>4, <3>5, <4>1, <4>4, <4>5 DEF Accounted
    <3> QED
      BY <1>1, <1>2, <1>3, <3>1, <3>4, <3>5, TidyGoOn
  <2> HIDE DEF p, x, r, m
  <2> QED
    BY <1>6, <2>2, <2>3, <2>4
<1> QED
  BY <1>9, <1>10

LEMMA TidyFault ==
    ASSUME IInv, TidyInv, NEW s \in Setup, Fault(s)
    PROVE  TidyInv'
<1> DEFINE p == proc[s]
           x == Head(p.todo)
           m == p.base[1][Manifest]
<1>1. PICK tried \in BOOLEAN :
        /\ file' = file \/ file' = NewFile(x)
        /\ proc' = [proc EXCEPT ![s].at = "undo", ![s].left = Len(proc[s].paths),
                                ![s].external = @ \/ (tried /\ IsLoaded(x))]
  BY DEF Fault
<1>2. p.at = "work" /\ UNCHANGED <<raced, killed, broken>>
  BY DEF Fault, ghosts, Trouble, Spend
<1>3. p \in Proc /\ Holds(s)
  BY <1>2, HeldIs
<1>4. Manifest \notin raced /\ (killed = {} /\ ~broken => Accounted(p, file))
  BY <1>2, TidyHeld
<1> DEFINE external == p.external \/ (tried /\ IsLoaded(x))
           c == [p EXCEPT !.at = "undo", !.left = Len(p.paths), !.external = external]
<1>5. proc' = [proc EXCEPT ![s] = c]
  BY <1>1
<1>6. c.at = "undo" /\ c.base = p.base /\ c.paths = p.paths /\ c.saved = p.saved
  BY <1>3 DEF Proc
<1> HIDE DEF c
<1>7. ASSUME killed = {}, ~broken PROVE Accounted(c, file')
  <2>1. Sound(m) /\ Returns(p, file, m)
    BY <1>2, <1>4, <1>7 DEF Accounted
  <2>2. Returns(c, file, m) /\ Returns(c, NewFile(x), m)
    BY <1>2, <1>6, <2>1, ReturnsNext
  <2> HIDE DEF p, x
  <2> QED
    BY <1>1, <1>6, <2>1, <2>2 DEF Accounted
<1> HIDE DEF p, x, m, external
<1> QED
  BY <1>2, <1>3, <1>4, <1>5, <1>6, <1>7, TidyGoOn

LEMMA TidyUndo ==
    ASSUME IInv, TidyInv, NEW s \in Setup, Undo(s)
    PROVE  TidyInv'
<1> DEFINE p == proc[s]
           n == p.left
           path == p.paths[n]
           c == [p EXCEPT !.left = n - 1]
           m == p.base[1][Manifest]
<1>1. /\ p.at = "undo" /\ n > 0 /\ UNCHANGED <<raced, killed>>
      /\ proc' = [proc EXCEPT ![s] = c]
      /\ broken' \/ (file' = [file EXCEPT ![path] = p.saved[n]] /\ broken' = broken)
  BY DEF Undo
<1>2. p \in Proc /\ Holds(s) /\ file \in [Path -> Value] /\ Keeps(p, file, loaded, raced)
  BY <1>1, HeldIs DEF IInv, StateInv
<1>3. Manifest \notin raced /\ (killed = {} /\ ~broken => Accounted(p, file))
  BY <1>1, TidyHeld
<1>4. path \in Elems(p.paths)
  <2>1. n \in 0..Len(p.paths) /\ p.paths \in Seq(Path)
    BY <1>2 DEF Keeps, Proc
  <2>2. n \in DOMAIN p.paths
    BY <1>1, <2>1
  <2> QED
    BY <2>2 DEF Elems
<1>5. c.at = "undo" /\ c.base = p.base /\ c.paths = p.paths /\ c.saved = p.saved
  BY <1>1, <1>2 DEF Proc
<1> HIDE DEF c, p, path, n
<1>6. ASSUME killed = {}, ~broken, file' = [file EXCEPT ![path] = p.saved[n]]
      PROVE  Accounted(c, file')
  <2>1. Sound(m) /\ Returns(p, file, m)
    BY <1>1, <1>3, <1>6 DEF Accounted
  <2>2. \A q \in Files \ Elems(p.paths) : file'[q] = file[q]
    BY <1>2, <1>4, <1>6 DEF Files
  <2>3. Returns(c, file', m)
    BY <1>5, <2>1, <2>2 DEF Returns
  <2> QED
    BY <1>5, <2>1, <2>3 DEF Accounted
<1> HIDE DEF m
<1>7. killed' = {} /\ ~broken' => Accounted(c, file')
  BY <1>1, <1>6
<1>8. Manifest \notin raced' /\ proc' = [proc EXCEPT ![s] = c] /\ c.at \in {"snap", "work", "undo"}
  BY <1>1, <1>3, <1>5
<1> QED
  BY <1>2, <1>7, <1>8, TidyGoOn

LEMMA TidyReport ==
    ASSUME IInv, TidyInv, NEW s \in Setup, Report(s) \/ Kill(s)
    PROVE  TidyInv'
<1> DEFINE p == proc[s]
           m == p.base[1][Manifest]
<1>1. p.at # "idle" /\ Ends(s) /\ UNCHANGED <<file, raced>>
  BY DEF Report, Kill
<1>2. Holds(s)
  BY <1>1, HeldIs
<1>3. Manifest \notin raced /\ (killed = {} /\ ~broken => Accounted(p, file))
  BY <1>1, TidyHeld
<1>4. CASE Report(s)
  <2>1. p.at = "undo" /\ broken' = (broken \/ ~Restored(s)) /\ killed' = killed
    BY <1>4 DEF Report
  <2>2. ASSUME ~broken, Restored(s), killed = {} PROVE Sound(file[Manifest]) /\ Tidy(file, file[Manifest])
    <3>1. Sound(m) /\ Returns(p, file, m)
      BY <1>3, <2>1, <2>2 DEF Accounted
    <3>2. \A i \in DOMAIN p.paths : file[p.paths[i]] = p.saved[i]
      BY <2>2 DEF Restored
    <3> HIDE DEF p, m
    <3>3. file[Manifest] = m
      BY <3>1, <3>2 DEF Returns
    <3>4. ASSUME NEW q \in Files PROVE Claimed(q, file[q], RecFor(m, q[1]))
      <4>1. CASE q \in Elems(p.paths)
        <5>1. PICK i \in DOMAIN p.paths : p.paths[i] = q
          BY <4>1 DEF Elems
        <5>2. q # Manifest
          BY FilesAre
        <5> QED
          BY <3>1, <3>2, <5>1, <5>2 DEF Returns
      <4>2. CASE q \notin Elems(p.paths)
        BY <3>1, <4>2 DEF Returns
      <4> QED
        BY <4>1, <4>2
    <3> QED
      BY <3>1, <3>3, <3>4 DEF Tidy
  <2>3. killed' = {} /\ ~broken' => Sound(file'[Manifest]) /\ Tidy(file', file'[Manifest])
    <3> HIDE DEF p, m
    <3> QED
      BY <1>1, <2>1, <2>2
  <2> QED
    BY <1>1, <1>2, <1>3, <2>3, TidyEnd
<1>5. CASE Kill(s)
  <2>1. broken' = broken /\ killed' = killed \cup ({p.at} \ {"snap"})
    BY <1>5 DEF Kill
  <2>2. ASSUME ~broken, killed' = {} PROVE Sound(file[Manifest]) /\ Tidy(file, file[Manifest])
    <3>1. p.at = "snap" /\ killed = {}
      BY <2>1, <2>2
    <3> HIDE DEF p
    <3> QED
      BY <1>3, <2>2, <3>1 DEF Accounted
  <2>3. killed' = {} /\ ~broken' => Sound(file'[Manifest]) /\ Tidy(file', file'[Manifest])
    BY <1>1, <2>1, <2>2
  <2> QED
    BY <1>1, <1>2, <1>3, <2>3, TidyEnd
<1> QED
  BY <1>4, <1>5

-----------------------------------------------------------------------------
(* Steps of the user, the package and the launcher *)

\* Files of which no more is to be recorded.
NoLess(f, g) ==
    /\ g[Manifest] = f[Manifest]
    /\ \A p \in Files : \A rec : /\ Claim(p, f[p], rec) => Claim(p, g[p], rec)
                                 /\ Claimed(p, f[p], rec) => Claimed(p, g[p], rec)

LEMMA AccountedSame ==
    ASSUME NEW f, NEW g, NoLess(f, g), NEW c, Accounted(c, f)
    PROVE  Accounted(c, g)
<1>1. \A m : Tidy(f, m) => Tidy(g, m)
  BY DEF Tidy, NoLess
<1>2. \A m : Returns(c, f, m) => Returns(c, g, m)
  BY DEF Returns, NoLess
<1>3. \A o, m0, m : FitsIn(o, f, m0, m) => FitsIn(o, g, m0, m)
  BY DEF FitsIn, NoLess
<1>4. \A q, m : Leads(q, f, m) => Leads(q, g, m)
  BY <1>3 DEF Leads, NoLess
<1>5. g[Manifest] = f[Manifest]
  BY DEF NoLess
<1> QED
  BY <1>1, <1>2, <1>4, <1>5 DEF Accounted

LEMMA TidyEdit ==
    ASSUME IInv, TidyInv, NEW p \in Files, NEW v, file' = [file EXCEPT ![p] = v], Manifest \notin raced',
           UNCHANGED <<proc, killed, broken>>,
           \A rec : (LockFree => rec = RecordOf(p[1])) =>
                /\ Claim(p, file[p], rec) => Claim(p, v, rec)
                /\ Claimed(p, file[p], rec) => Claimed(p, v, rec)
    PROVE  TidyInv'
<1>1. /\ file'[p] = v /\ \A q \in Path \ {p} : file'[q] = file[q]
      /\ Manifest \in Path \ {p} /\ \A q \in Files \ {p} : q \in Path \ {p}
  BY FilesAre, PathsAre DEF IInv, StateInv
<1>2. file'[Manifest] = file[Manifest]
  BY <1>1
<1>3. (\A s \in Setup : Holds(s)' <=> Holds(s)) /\ (LockFree' <=> LockFree)
  BY DEF Holds, LockFree
<1>4. ASSUME LockFree, Tidy(file, file[Manifest]) PROVE Tidy(file', file[Manifest])
  <2>1. ASSUME NEW q \in Files PROVE Claimed(q, file'[q], RecFor(file[Manifest], q[1]))
    <3>1. RecFor(file[Manifest], q[1]) = RecordOf(q[1]) /\ Claimed(q, file[q], RecordOf(q[1]))
      BY <1>4, FilesAre, RecForIs DEF Tidy
    <3>2. CASE q = p
      BY <1>1, <1>4, <3>1, <3>2
    <3>3. CASE q # p
      BY <1>1, <3>1, <3>3
    <3> QED
      BY <3>2, <3>3
  <2> QED
    BY <2>1 DEF Tidy
<1>5. ASSUME ~LockFree, NEW c, Accounted(c, file) PROVE Accounted(c, file')
  <2>1. NoLess(file, file')
    BY <1>1, <1>2, <1>5 DEF NoLess
  <2> QED
    BY <1>5, <2>1, AccountedSame
<1>6. \A s \in Setup : Holds(s) => ~LockFree
  BY DEF LockFree
<1> QED
  BY <1>2, <1>3, <1>4, <1>5, <1>6 DEF TidyInv

LEMMA TidyUser ==
    ASSUME IInv, TidyInv, NEW h \in Harness, EditConfig(h) \/ EditLink(h)
    PROVE  TidyInv'
<1>1. Manifest \notin raced
  BY DEF TidyInv
<1>2. StateInv
  BY DEF IInv
<1>3. CASE EditConfig(h)
  <2>1. PICK d \in Edited(h, View(At(h, "config"))) : file' = [file EXCEPT ![<<h, "config">>] = d]
    BY <1>3 DEF EditConfig
  <2>2. PICK p : p = <<h, "config">>
    OBVIOUS
  <2>3. p \in Files /\ p # Manifest /\ p[1] = h /\ At(h, "config") = file[p] /\ At(h, "config") \in {NoFile} \cup Config
    BY <1>2, <2>2, FilesAre, ConfigIs DEF At
  <2>4. \A rec : (LockFree => rec = RecordOf(h)) =>
          /\ Claim(p, file[p], rec) => Claim(p, d, rec)
          /\ Claimed(p, file[p], rec) => Claimed(p, d, rec)
    BY <1>2, <2>1, <2>2, <2>3, EditedClaim
  <2>5. raced' = (IF LockFree THEN {} ELSE raced \cup {p}) /\ UNCHANGED <<proc, killed, broken>>
    BY <1>3, <2>2 DEF EditConfig
  <2>6. Manifest \notin raced'
    BY <1>1, <2>3, <2>5
  <2> QED
    BY <2>1, <2>2, <2>3, <2>4, <2>5, <2>6, TidyEdit
<1>4. CASE EditLink(h)
  <2>1. PICK v \in {NoFile} \cup [kind : {"link"}, to : {"roundtable", "elsewhere"}, by : {"user"}] :
          file' = [file EXCEPT ![<<h, "skill">>] = v]
    BY <1>4 DEF EditLink
  <2>2. PICK p : p = <<h, "skill">>
    OBVIOUS
  <2>3. p \in Files /\ p # Manifest /\ p[2] = "skill"
    BY <2>2, FilesAre DEF Links
  <2>4. v.kind = "link" => v.by # "setup"
    BY NothingElse
  <2>5. \A rec : Claim(p, v, rec) /\ Claimed(p, v, rec)
    BY <2>3, <2>4 DEF Claimed, Claim, Label
  <2>6. raced' = (IF LockFree THEN {} ELSE raced \cup {p}) /\ UNCHANGED <<proc, killed, broken>>
    BY <1>4, <2>2 DEF EditLink
  <2>7. Manifest \notin raced'
    BY <1>1, <2>3, <2>6
  <2> QED
    BY <2>1, <2>2, <2>3, <2>5, <2>6, <2>7, TidyEdit
<1> QED
  BY <1>3, <1>4

LEMMA TidyReload ==
    ASSUME IInv, TidyInv, Reload
    PROVE  TidyInv'
<1>1. /\ "codex" \in Harness /\ UNCHANGED <<proc, raced, killed, broken>>
      /\ file' = [file EXCEPT ![Marker] = NoFile]
  BY DEF Reload, ghosts, Owned
<1>2. Marker \in Files /\ Marker[2] # "config"
  BY <1>1, FilesAre DEF Marker
<1>3. \A rec : Claim(Marker, NoFile, rec) /\ Claimed(Marker, NoFile, rec)
  BY <1>2, NothingClaimed
<1>4. Manifest \notin raced'
  BY <1>1 DEF TidyInv
<1> QED
  BY <1>1, <1>2, <1>3, <1>4, TidyEdit

-----------------------------------------------------------------------------
(* The hosts it begins with *)

LEMMA TidyWithout ==
    ASSUME NEW f, f[Manifest] = NoFile, \A p \in Files : Claim(p, f[p], NoRecord)
    PROVE  Sound(f[Manifest]) /\ Tidy(f, f[Manifest])
BY FilesAre, RecForIs DEF Sound, Tidy, Claimed

LEMMA NewHostTidy == Sound(NewHost[Manifest]) /\ Tidy(NewHost, NewHost[Manifest])
<1>1. NewHost[Manifest] = NoFile /\ \A p \in Files : NewHost[p] = NoFile
  BY FilesAre, PathsAre DEF NewHost
<1> QED
  BY <1>1, NothingClaimed, TidyWithout

LEMMA UserHostTidy == Sound(UserHost[Manifest]) /\ Tidy(UserHost, UserHost[Manifest])
<1>1. UserHost[Manifest] = NoFile
  BY PathsAre DEF UserHost, Manifest
<1>2. ASSUME NEW p \in Files PROVE Claim(p, UserHost[p], NoRecord)
  <2>1. p \in Path
    BY FilesAre
  <2>2. CASE p[2] = "config"
    <3> DEFINE c == [Empty EXCEPT !.text = TRUE]
    <3>1. UserHost[p] = c
      BY <2>1, <2>2 DEF UserHost
    <3>2. c.setup = {} /\ c.user = {} /\ c.box = "no" /\ c \in Config
      BY DEF Empty, Config, Author
    <3> HIDE DEF c
    <3>3. View(c) = c
      BY <3>2, ConfigView
    <3>4. Settled(p[1], c, NoRecord)
      BY <3>2 DEF Settled
    <3> QED
      BY <2>2, <3>1, <3>3, <3>4 DEF Claim, LinkName, Label
  <2>3. CASE p[2] # "config" /\ p = <<"codex", "app">>
    <3> DEFINE v == [kind |-> "plist", gen |-> 1, by |-> "user"]
    <3>1. UserHost[p] = v
      BY <2>1, <2>3 DEF UserHost
    <3>2. v.kind = "plist" /\ v.by = "user"
      OBVIOUS
    <3> HIDE DEF v
    <3> QED
      BY <2>3, <3>1, <3>2 DEF Claim
  <2>4. CASE p[2] # "config" /\ p # <<"codex", "app">>
    <3>1. UserHost[p] = NoFile
      BY <2>1, <2>4 DEF UserHost
    <3> QED
      BY <3>1, NothingClaimed
  <2> QED
    BY <2>2, <2>3, <2>4
<1> QED
  BY <1>1, <1>2, TidyWithout

LEMMA OldHostTidy ==
    "claude" \in Harness => Sound(OldHost[Manifest]) /\ Tidy(OldHost, OldHost[Manifest])
<1> SUFFICES ASSUME "claude" \in Harness PROVE Sound(OldHost[Manifest]) /\ Tidy(OldHost, OldHost[Manifest])
  OBVIOUS
<1> DEFINE m == OldHost[Manifest]
<1>1. \A h \in Harness : RecFor(m, h) = IF h = "claude" THEN OldRecord ELSE NoRecord
  <2> DEFINE of == [h \in Harness |-> IF h = "claude" THEN OldRecord ELSE NoRecord]
  <2>1. m = [kind |-> "manifest", of |-> of]
    BY PathsAre DEF OldHost, Manifest
  <2> HIDE DEF m
  <2>2. m # NoFile /\ m.of = of
    BY <2>1 DEF NoFile
  <2> QED
    BY <2>2 DEF RecFor
<1> HIDE DEF m
<1>2. /\ OldRecord.own = {"start", "gate"} /\ OldRecord.has = {"start", "gate"} /\ OldRecord.box
      /\ OldRecord.links = {"skill"} /\ OldRecord # NoRecord
  BY DEF OldRecord, NoRecord
<1>3. "start" \in Wanted("claude")
  BY DEF Wanted
<1>4. Sound(m)
  BY <1>1, <1>2, <1>3 DEF Sound
<1>5. ASSUME NEW p \in Files PROVE Claimed(p, OldHost[p], RecFor(m, p[1]))
  <2>1. p \in Path /\ p # Manifest /\ p[1] \in Harness
    BY FilesAre
  <2>2. CASE p = <<"claude", "config">>
    <3> DEFINE c == [Empty EXCEPT !.setup = {"start", "gate"}, !.box = "setup"]
    <3>1. OldHost[p] = c
      BY <2>1, <2>2 DEF OldHost
    <3>2. c.setup = {"start", "gate"} /\ c.box = "setup" /\ c \in Config
      BY DEF Empty, Config, Author, Item
    <3> HIDE DEF c
    <3>3. View(c) = c /\ p[1] = "claude" /\ p[2] = "config"
      BY <2>2, <3>2, ConfigView
    <3>4. Settled("claude", c, OldRecord)
      BY <1>2, <3>2 DEF Settled
    <3>5. RecFor(m, p[1]) = OldRecord
      BY <1>1, <2>1, <3>3
    <3>6. Claim(p, c, OldRecord)
      BY <3>3, <3>4 DEF Claim, LinkName, Label
    <3> QED
      BY <1>2, <3>1, <3>2, <3>3, <3>5, <3>6 DEF Claimed
  <2>3. CASE p = <<"claude", "skill">>
    <3>1. OldHost[p] = OwnLink /\ p[1] = "claude" /\ p[2] = "skill"
      BY <2>1, <2>3 DEF OldHost
    <3>2. RecFor(m, p[1]) = OldRecord
      BY <1>1, <2>1, <3>1
    <3>3. OwnLink.kind = "link"
      BY DEF OwnLink
    <3> QED
      BY <1>2, <3>1, <3>2, <3>3 DEF Claimed, Claim, Label
  <2>4. CASE p # <<"claude", "config">> /\ p # <<"claude", "skill">>
    <3>1. OldHost[p] = NoFile
      BY <2>1, <2>4 DEF OldHost
    <3>2. p[2] = "config" => p[1] # "claude"
      BY <2>1, <2>4, PathIs
    <3> QED
      BY <1>1, <2>1, <3>1, <3>2, NothingClaimed
  <2> QED
    BY <2>2, <2>3, <2>4
<1> QED
  BY <1>4, <1>5 DEF Tidy, m

LEMMA FullHostTidy == Sound(FullHost[Manifest]) /\ Tidy(FullHost, FullHost[Manifest])
<1> DEFINE m == FullHost[Manifest]
<1>1. \A h \in Harness : RecFor(m, h) = FullRecord(h)
  <2> DEFINE of == [h \in Harness |-> FullRecord(h)]
  <2>1. m = [kind |-> "manifest", of |-> of]
    BY PathsAre DEF FullHost, Manifest, Marker, Label
  <2> HIDE DEF m
  <2>2. m # NoFile /\ m.of = of
    BY <2>1 DEF NoFile
  <2> QED
    BY <2>2 DEF RecFor
<1> HIDE DEF m
<1>2. \A h \in Harness : /\ FullRecord(h).own = Wanted(h) /\ FullRecord(h).has = Wanted(h)
                         /\ FullRecord(h).box = (h # "hermes") /\ FullRecord(h).links = Links(h)
                         /\ FullRecord(h) # NoRecord /\ Wanted(h) # {}
                         /\ (h = "codex" => FullRecord(h).plists = Label)
  <2> TAKE h \in Harness
  <2> DEFINE box == h # "hermes"
             plists == IF h = "codex" THEN Label ELSE {}
  <2>1. Wanted(h) # {}
    BY SetupAssumption DEF Wanted
  <2> QED
    BY <2>1 DEF FullRecord, NoRecord
<1>3. Sound(m)
  BY <1>1, <1>2 DEF Sound
<1>4. ASSUME NEW p \in Files PROVE Claimed(p, FullHost[p], RecFor(m, p[1]))
  <2> DEFINE rec == FullRecord(p[1])
  <2>1. p \in Path /\ p # Manifest /\ p[1] \in Harness /\ RecFor(m, p[1]) = rec
    BY <1>1, FilesAre
  <2> HIDE DEF rec
  <2>2. CASE p[2] = "config"
    <3> DEFINE box == IF p[1] = "hermes" THEN "no" ELSE "setup"
               c == [Empty EXCEPT !.setup = Wanted(p[1]), !.box = box]
    <3>1. FullHost[p] = c
      BY <2>1, <2>2 DEF FullHost, Marker, Label
    <3>2. c.setup = Wanted(p[1]) /\ c.box = box
      BY DEF Empty
    <3>3. Wanted(p[1]) \subseteq Item /\ box \in Author
      BY <2>1, WantedIs DEF Author
    <3> HIDE DEF box
    <3>4. c \in Config
      BY <3>3 DEF Empty, Config, Author
    <3> HIDE DEF c
    <3>5. View(c) = c
      BY <3>4, ConfigView
    <3>6. Settled(p[1], c, rec)
      BY <1>2, <2>1, <3>2 DEF Settled, rec, box
    <3>7. p[1] # "hermes" => rec.box /\ c.box = "setup"
      BY <1>2, <2>1, <3>2 DEF rec, box
    <3>8. Claim(p, c, rec)
      BY <2>2, <3>5, <3>6 DEF Claim, LinkName, Label
    <3> QED
      BY <2>1, <3>1, <3>5, <3>7, <3>8 DEF Claimed
  <2>3. CASE p[2] # "config"
    <3>1. p[2] \in LinkName => p[2] \in Links(p[1])
      BY <2>1 DEF Path, LinkName, Links, Label, Marker, Manifest
    <3>2. p[2] \in Label => p[1] = "codex"
      BY <2>1 DEF Path, LinkName, Links, Label, Marker, Manifest
    <3>3. /\ rec # NoRecord /\ rec.links = Links(p[1])
          /\ (p[1] = "codex" => rec.plists = Label)
      BY <1>2, <2>1 DEF rec
    <3> QED
      BY <2>1, <2>3, <3>1, <3>2, <3>3 DEF Claimed, Claim
  <2> QED
    BY <2>2, <2>3
<1> QED
  BY <1>3, <1>4 DEF Tidy, m

LEMMA InitTidy == Init => TidyInv
<1> SUFFICES ASSUME Init PROVE TidyInv
  OBVIOUS
<1>1. Sound(file[Manifest]) /\ Tidy(file, file[Manifest])
  BY NewHostTidy, UserHostTidy, OldHostTidy, FullHostTidy DEF Init
<1>2. raced = {} /\ \A s \in Setup : ~Holds(s)
  BY IdleIs DEF Init, Holds
<1> QED
  BY <1>1, <1>2 DEF TidyInv

LEMMA TidyAlways == Spec => []TidyInv
<1>1. Init => TidyInv
  BY InitTidy
<1>2. IInv /\ TidyInv /\ [Next]_vars => TidyInv'
  <2> SUFFICES ASSUME IInv, TidyInv, [Next]_vars PROVE TidyInv'
    OBVIOUS
  <2>1. ASSUME NEW s \in Setup, \/ Begin(s) \/ Snapshot(s) \/ Step(s) \/ Fault(s)
                                \/ Undo(s) \/ Report(s) \/ Kill(s)
        PROVE  TidyInv'
    BY <2>1, TidyBegin, TidySnapshot, TidyStep, TidyFault, TidyUndo, TidyReport
  <2>2. ASSUME NEW h \in Harness, EditConfig(h) \/ EditLink(h)
        PROVE  TidyInv'
    BY <2>2, TidyUser
  <2>3. CASE Upgrade
    BY <2>3, TidyKept DEF Upgrade, ghosts
  <2>4. CASE Reload
    BY <2>4, TidyReload
  <2>5. CASE UNCHANGED vars
    BY <2>5, TidyKept DEF vars, ghosts
  <2> QED
    BY <2>1, <2>2, <2>3, <2>4, <2>5 DEF Next
<1> QED
  BY <1>1, <1>2, Invariant, PTL DEF Spec

\* Whatever setup has put anywhere is in the manifest between two commands: the manifest is
\* written after everything it lists and what it no longer lists is taken away before
\* (_apply_prepared, _remove_prepared), and a rollback puts both back.
THEOREM EverythingRecorded == Spec => []NoOrphans
<1>1. TidyInv => NoOrphans
  <2> SUFFICES ASSUME TidyInv, LockFree, killed = {}, ~broken, NEW h \in Harness
               PROVE  LET rec == RecordOf(h)
                          c == View(At(h, "config"))
                      IN  /\ c.setup # {} => rec # NoRecord /\ c.setup \subseteq rec.own
                          /\ c.box = "setup" => rec # NoRecord /\ rec.box
                          /\ \A l \in Links(h) : At(h, l).kind = "link" /\ At(h, l).by = "setup" =>
                              rec # NoRecord /\ l \in rec.links
                          /\ h = "codex" =>
                              /\ \A l \in Label : At(h, l).kind = "plist" /\ At(h, l).by = "setup" =>
                                  rec # NoRecord /\ l \in rec.plists
                              /\ file[Marker] # NoFile => rec # NoRecord
    BY DEF NoOrphans
  <2>1. \A p \in Files : p[1] = h => Claim(p, file[p], RecordOf(h))
    BY RecForIs DEF TidyInv, Tidy, Claimed
  <2>2. Settled(h, View(At(h, "config")), RecordOf(h))
    <3>1. Claim(<<h, "config">>, file[<<h, "config">>], RecordOf(h))
      BY <2>1, FilesAre
    <3> QED
      BY <3>1 DEF Claim, At
  <2>3. ASSUME NEW l \in Links(h), At(h, l).kind = "link", At(h, l).by = "setup"
        PROVE  RecordOf(h) # NoRecord /\ l \in RecordOf(h).links
    <3>1. Claim(<<h, l>>, file[<<h, l>>], RecordOf(h)) /\ l \in LinkName
      BY <2>1, FilesAre DEF Links, LinkName
    <3> QED
      BY <2>3, <3>1 DEF Claim, At
  <2>4. ASSUME h = "codex", NEW l \in Label, At(h, l).kind = "plist", At(h, l).by = "setup"
        PROVE  RecordOf(h) # NoRecord /\ l \in RecordOf(h).plists
    <3>1. Claim(<<h, l>>, file[<<h, l>>], RecordOf(h))
      BY <2>1, <2>4, FilesAre
    <3> QED
      BY <2>4, <3>1 DEF Claim, At
  <2>5. h = "codex" /\ file[Marker] # NoFile => RecordOf(h) # NoRecord
    BY <2>1, FilesAre DEF Claim, Marker
  <2> QED
    BY <2>2, <2>3, <2>4, <2>5 DEF Settled
<1> QED
  BY <1>1, TidyAlways, PTL

-----------------------------------------------------------------------------
(* UserEntriesStay *)

\* What the user has put at p is not in the record.
Theirs(v) == v.kind \in {"link", "plist"} /\ v.by = "user"
Free(p, v, rec) == rec # NoRecord =>
    /\ p[2] = "config" => View(v).user \cap rec.own = {}
    /\ p[2] \in LinkName /\ Theirs(v) => p[2] \notin rec.links
    /\ p[2] \in Label /\ Theirs(v) => p[2] \notin rec.plists
AllFree(f, m) == \A p \in Files : Free(p, f[p], RecFor(m, p[1]))

\* Only Claude has entries of an earlier release.
Proper(m) ==
    \A h \in Harness : LET rec == RecFor(m, h) IN rec # NoRecord =>
        rec.own \subseteq rec.has /\ (h # "claude" => rec.has \subseteq Wanted(h))

\* What the user has is the same in v as in b; so is his container, which setup leaves to
\* him when he has an entry in it.
Alike(p, v, b) ==
    /\ p[2] = "config" => /\ View(v).user = View(b).user
                          /\ View(v).text = View(b).text /\ View(v).veto = View(b).veto
    /\ Theirs(v) \/ Theirs(b) => v.kind = b.kind /\ v.by = b.by
SameBox(p, v, b) ==
    LET c == View(v)
        d == View(b)
    IN  p[2] = "config" =>
            /\ c.box = "user" => d.box = "user" \/ (d.box = "setup" /\ d.user # {})
            /\ c.box = "no" => d.box = "no" \/ (d.box = "setup" /\ d.user = {})

\* The manifest is to be m: it claims nothing that the user has at p, and nothing that he
\* may yet put there.
Leaves(p, v, changed, m0, m) ==
    LET old == RecFor(m0, p[1])
        rec == RecFor(m, p[1])
    IN  /\ Free(p, v, rec)
        /\ p \notin changed /\ rec # NoRecord =>
            /\ p[2] = "config" => rec.own \subseteq Own(old) \cup Present(v)
            /\ p[2] \in LinkName /\ p[2] \in rec.links => old # NoRecord \/ v # NoFile

\* An operation of a command that began with the files b.
Minds(o, b, changed, boxes, m) ==
    LET p == o.path
        m0 == b[Manifest]
    IN  /\ p \in Files
        /\ o.op \in {"put", "link", "unlink", "clear"} =>
            /\ Free(p, Effect(o), RecFor(m0, p[1])) /\ Leaves(p, Effect(o), {}, m0, m)
            /\ p \notin changed => Alike(p, Effect(o), b[p]) /\ (boxes => SameBox(p, Effect(o), b[p]))
        /\ o.op = "edit" =>
            p[2] = "config" /\ RecFor(m0, p[1]) # NoRecord /\ RecFor(m, p[1]) = NoRecord

Spares(q, f, b, changed, boxes) ==
    /\ Len(q) > 0 /\ q[Len(q)].path = Manifest /\ q[Len(q)].op \in {"put", "unlink"}
    /\ Proper(Final(q))
    /\ \A i \in 1..(Len(q) - 1) : Minds(q[i], b, changed, boxes, Final(q))
    /\ \A p \in Files : \/ Leaves(p, f[p], changed, b[Manifest], Final(q))
                        \/ \E i \in 1..(Len(q) - 1) : q[i].path = p /\ q[i].op \in Writes

\* What m claims at p, m1 does not let the user put there.
Keep(p, m, m1) ==
    LET rec == RecFor(m, p[1])
        new == RecFor(m1, p[1])
    IN  rec # NoRecord => /\ p[2] = "config" => rec.own \subseteq Own(new)
                          /\ p[2] \in LinkName /\ p[2] \in rec.links => new # NoRecord
Keeping(Q, m, m1) == \A p \in Files \ Q : Keep(p, m, m1)

Respects(c, f, changed, boxes) ==
    LET b == c.base[1]
        m == b[Manifest]
    IN  /\ Proper(m) /\ (boxes => Sound(m) /\ Tidy(b, m))
        /\ \A p \in Files \ changed : Alike(p, f[p], b[p]) /\ (boxes => SameBox(p, f[p], b[p]))
        /\ c.at \in {"snap", "work"} =>
            /\ f[Manifest] = m /\ AllFree(f, m) /\ Spares(c.todo, f, b, changed, boxes)
            /\ Keeping(Elems(c.paths), m, Final(c.todo))
        /\ c.at \in {"work", "undo"} =>
            /\ \A i \in DOMAIN c.paths : c.paths[i] # Manifest =>
                 Free(c.paths[i], c.saved[i], RecFor(m, c.paths[i][1]))
            /\ \E i \in DOMAIN c.paths : c.paths[i] = Manifest /\ c.saved[i] = m
            /\ \A p \in Files \ Elems(c.paths) : Free(p, f[p], RecFor(m, p[1]))
            /\ Keeping(Elems(c.paths), m, f[Manifest])

UserInv ==
    ~broken /\ "undo" \notin killed =>
        /\ LockFree => Proper(file[Manifest]) /\ AllFree(file, file[Manifest])
        /\ \A s \in Setup : Holds(s) => Respects(proc[s], file, raced, killed = {})

LEMMA FreeNothing ==
    /\ \A p, rec : Free(p, NoFile, rec)
    /\ \A p, v : Free(p, v, NoRecord)
    /\ \A p, rec : p[2] # "config" => Free(p, OwnLink, rec)
    /\ \A p, v, changed, m0, m : RecFor(m, p[1]) = NoRecord => Leaves(p, v, changed, m0, m)
    /\ ~Theirs(NoFile) /\ ~Theirs(OwnLink)
<1>1. View(NoFile).user = {}
  BY DEF View, Empty
<1>2. ~Theirs(NoFile) /\ ~Theirs(OwnLink)
  BY DEF Theirs, NoFile, OwnLink
<1>3. /\ \A p, rec : Free(p, NoFile, rec)
      /\ \A p, v : Free(p, v, NoRecord)
      /\ \A p, rec : p[2] # "config" => Free(p, OwnLink, rec)
  BY <1>1, <1>2 DEF Free
<1> QED
  BY <1>2, <1>3 DEF Leaves

\* Only links and plists are the user's.
LEMMA TheirsAre ==
    ASSUME NEW p \in Files, NEW v, Fits(p, v), Theirs(v)
    PROVE  \/ p[2] \in LinkName /\ v.kind = "link"
           \/ p[2] \in Label /\ v.kind = "plist"
<1>1. v # NoFile
  BY FreeNothing
<1>2. p[2] \in {"config", "marker"} \cup LinkName \cup Label
  BY FilesAre DEF LinkName
<1>3. p[2] # "config"
  BY <1>1 DEF Fits, Config, Theirs
<1>4. p[2] # "marker"
  <2>1. p[2] = "marker" => p = Marker
    BY FilesAre, PathIs
  <2> QED
    BY <1>1, <2>1 DEF Fits, MarkerFile, Theirs
<1> QED
  BY <1>1, <1>2, <1>3, <1>4 DEF Fits, LinkFile, Plist

\* What an apply writes has what the user has.
LEMMA ConfigMinds ==
    ASSUME StateInv, NEW h \in Harness, Proper(file[Manifest]), ClaudeAccepts(h),
           Free(<<h, "config">>, At(h, "config"), RecordOf(h)),
           NEW m, RecFor(m, h) = NewRecord(h)
    PROVE  LET p == <<h, "config">>
               m0 == file[Manifest]
               d == ConfigAfter(h)
           IN  /\ Free(p, d, RecordOf(h)) /\ Leaves(p, d, {}, m0, m)
               /\ Alike(p, d, At(h, "config")) /\ SameBox(p, d, At(h, "config"))
               /\ ~ConfigChanges(h) => /\ Leaves(p, At(h, "config"), {}, m0, m)
                                       /\ Keep(p, m0, m)
<1> DEFINE n == NewRecord(h)
           rec == RecordOf(h)
           v == At(h, "config")
           c == View(v)
           d == ConfigAfter(h)
           setup == (c.setup \ Gone(h)) \cup Fresh(h)
           user == c.user \ Gone(h)
           box == IF c.box = "no" /\ h # "hermes" THEN "setup" ELSE c.box
           p == <<h, "config">>
           m0 == file[Manifest]
<1>1. n # NoRecord /\ n.own = (Own(rec) \cap Wanted(h)) \cup Fresh(h)
  BY NewRecordIs DEF NewRecord
<1>2. Gone(h) = Has(rec) \ Wanted(h)
  BY DEF Gone
<1>3. Fresh(h) = (Wanted(h) \ Has(rec)) \ Present(v) /\ Present(v) = c.setup \cup c.user
  BY DEF Fresh, Present
<1>4. d \in Config /\ d = [c EXCEPT !.setup = setup, !.user = user, !.box = box] /\ c \in Config
  BY ConfigAfterIs, ConfigIs DEF ConfigAfter
<1>5. RecFor(m0, h) = rec /\ p[1] = h /\ p[2] = "config" /\ p[2] \notin LinkName \cup Label
  BY RecForIs DEF LinkName, Label
<1>6. /\ rec # NoRecord => Has(rec) = rec.has /\ Own(rec) = rec.own
      /\ rec = NoRecord => Has(rec) = {} /\ Own(rec) = {}
  BY DEF Has, Own
<1>7. Own(rec) \subseteq Has(rec) /\ (h # "claude" => Has(rec) \subseteq Wanted(h))
  BY <1>6, RecForIs DEF Proper
<1>8. h = "claude" => Gone(h) \subseteq Own(rec)
  BY DEF ClaudeAccepts
<1>9. c.user \cap Own(rec) = {}
  BY <1>5, <1>6 DEF Free
<1>10. ConfigChanges(h) <=> Fresh(h) \cup Gone(h) # {}
  BY DEF ConfigChanges
<1> HIDE DEF n, rec, c, d, setup, user, box, m0
<1>11. /\ d.setup = setup /\ d.user = user /\ d.box = box /\ d.text = c.text /\ d.veto = c.veto
       /\ View(d) = d /\ Present(d) = setup \cup user
  BY <1>4, ConfigView DEF Config, Present
<1>12. user = c.user
  BY <1>2, <1>7, <1>8, <1>9 DEF user
<1>13. d.user \cap Own(rec) = {} /\ d.user \cap n.own = {} /\ n.own \subseteq Own(rec) \cup Present(d)
  BY <1>1, <1>3, <1>9, <1>11, <1>12 DEF setup
<1>14. Free(p, d, rec) /\ Leaves(p, d, {}, m0, m)
  BY <1>5, <1>6, <1>11, <1>13 DEF Free, Leaves, n
<1>15. d.kind = "config" /\ (v = NoFile \/ v.kind = "config")
  BY <1>4, ConfigIs DEF Config
<1>16. ~Theirs(d) /\ ~Theirs(v)
  BY <1>15, FreeNothing DEF Theirs
<1>17. Alike(p, d, v) /\ SameBox(p, d, v)
  BY <1>5, <1>11, <1>12, <1>16 DEF Alike, SameBox, c, box
<1>18. ASSUME ~ConfigChanges(h) PROVE Leaves(p, v, {}, m0, m) /\ Keep(p, m0, m)
  <2>1. Fresh(h) = {} /\ Gone(h) = {}
    BY <1>10, <1>18
  <2>2. n.own = Own(rec)
    BY <1>1, <1>2, <1>7, <2>1
  <2>3. Own(n) = n.own
    BY <1>1 DEF Own
  <2> QED
    BY <1>5, <1>6, <1>9, <2>2, <2>3 DEF Free, Leaves, Keep, n, c
<1> QED
  BY <1>14, <1>17, <1>18 DEF d, rec, m0

LEMMA PlistMinds ==
    ASSUME StateInv, "codex" \in Harness, NEW l \in Label, NEW m, RecFor(m, "codex") = NewRecord("codex"),
           Free(<<"codex", l>>, At("codex", l), RecordOf("codex"))
    PROVE  LET p == <<"codex", l>>
               m0 == file[Manifest]
           IN  /\ Free(p, NewPlist(l), RecordOf("codex")) /\ Leaves(p, NewPlist(l), {}, m0, m)
               /\ Alike(p, NewPlist(l), At("codex", l)) /\ SameBox(p, NewPlist(l), At("codex", l))
<1> DEFINE n == NewRecord("codex")
           rec == RecordOf("codex")
           v == At("codex", l)
           x == NewPlist(l)
           p == <<"codex", l>>
<1>1. n # NoRecord /\ n.plists = IF rec = NoRecord THEN {k \in Label : At("codex", k) = NoFile} ELSE rec.plists
  BY NewRecordIs DEF NewRecord
<1>2. x.kind = "plist" /\ x.by = IF v = NoFile THEN "setup" ELSE v.by
  BY DEF NewPlist
<1>3. v = NoFile \/ v.kind = "plist"
  BY PlistIs DEF Plist
<1>4. p[1] = "codex" /\ p[2] = l /\ p[2] \in Label /\ p[2] \notin {"config"} \cup LinkName
  BY DEF Label, LinkName
<1>5. rec # NoRecord /\ Theirs(v) => l \notin rec.plists
  BY <1>4 DEF Free
<1> HIDE DEF n, rec, x, v, p
<1>6. (Theirs(x) <=> Theirs(v)) /\ (Theirs(v) => v # NoFile /\ v.kind = "plist" /\ x.by = v.by)
  BY <1>2, <1>3, FreeNothing DEF Theirs
<1>7. Theirs(x) => l \notin n.plists
  BY <1>1, <1>5, <1>6 DEF v
<1>8. Free(p, x, rec) /\ Free(p, x, n)
  BY <1>4, <1>5, <1>6, <1>7 DEF Free
<1>9. Leaves(p, x, {}, file[Manifest], m)
  BY <1>4, <1>8 DEF Leaves, n
<1>10. Alike(p, x, v) /\ SameBox(p, x, v)
  BY <1>2, <1>4, <1>6 DEF Alike, SameBox
<1> QED
  BY <1>8, <1>9, <1>10 DEF p, x, rec, v

\* What an apply leaves alone.
LEMMA OthersMind ==
    ASSUME StateInv, NEW h \in Harness, NEW p \in Files, p[1] = h, p[2] # "config",
           Free(p, file[p], RecordOf(h)), NEW m, RecFor(m, h) = NewRecord(h)
    PROVE  /\ Keep(p, file[Manifest], m)
           /\ \/ Leaves(p, file[p], {}, file[Manifest], m)
              \/ \E l \in Links(h) : p = <<h, l>> /\ RecordOf(h) = NoRecord /\ At(h, l) = NoFile
<1> DEFINE n == NewRecord(h)
           rec == RecordOf(h)
<1>1. n # NoRecord
  BY NewRecordIs
<1>2. /\ rec # NoRecord => n.links = rec.links /\ (h = "codex" => n.plists = rec.plists)
      /\ rec = NoRecord => /\ n.links = {l \in Links(h) : At(h, l) = NoFile}
                           /\ h = "codex" => n.plists = {l \in Label : At("codex", l) = NoFile}
  BY DEF NewRecord
<1>3. p[2] \in Label => h = "codex" /\ file[p] = At("codex", p[2])
  BY FilesAre, PathIs DEF At
<1>4. p[2] \in LinkName => p = <<h, p[2]>> /\ file[p] = At(h, p[2])
  BY FilesAre, PathIs DEF LinkName, At
<1>5. RecFor(file[Manifest], h) = rec
  BY RecForIs
<1> HIDE DEF n, rec
<1>6. Keep(p, file[Manifest], m)
  BY <1>1, <1>5 DEF Keep, n
<1>7. CASE rec # NoRecord
  <2>1. Free(p, file[p], n)
    BY <1>2, <1>3, <1>7 DEF Free, rec
  <2> QED
    BY <1>5, <1>6, <1>7, <2>1 DEF Leaves, n
<1>8. CASE rec = NoRecord
  <2>1. CASE p[2] \in LinkName /\ p[2] \in n.links
    BY <1>2, <1>4, <1>6, <1>8, <2>1 DEF rec
  <2>2. CASE ~(p[2] \in LinkName /\ p[2] \in n.links)
    <3>1. Free(p, file[p], n)
      BY <1>2, <1>3, <1>8, <2>2, FreeNothing DEF Free
    <3> QED
      BY <1>6, <2>2, <3>1 DEF Leaves, n
  <2> QED
    BY <2>1, <2>2
<1> QED
  BY <1>7, <1>8

\* The operations of a command that begins with the files b and is to end with the
\* manifest m.
Minding(b, boxes, m) == {o \in OpRecord : Minds(o, b, {}, boxes, m)}

LEMMA PutMinds ==
    ASSUME NEW b, NEW boxes, NEW m, NEW p \in Files, NEW v \in Value,
           Free(p, v, RecFor(b[Manifest], p[1])), Leaves(p, v, {}, b[Manifest], m),
           Alike(p, v, b[p]), SameBox(p, v, b[p])
    PROVE  Put(p, v) \in Minding(b, boxes, m)
<1> DEFINE o == Put(p, v)
<1>1. o.op = "put" /\ o.path = p /\ o.value = v /\ o \in OpRecord
  BY FilesAre DEF Put, OpRecord, Writes
<1> HIDE DEF o
<1>2. Effect(o) = v
  BY <1>1 DEF Effect
<1> QED
  BY <1>1, <1>2 DEF Minding, Minds, o

LEMMA OpMinds ==
    ASSUME NEW b, NEW boxes, NEW m, NEW p \in Files, NEW name \in {"link", "unlink", "clear", "edit", "bootout"},
           name = "link" => p[2] \in LinkName /\ b[p] = NoFile,
           name \in {"unlink", "clear"} => p[2] # "config" /\ ~Theirs(b[p]) /\ RecFor(m, p[1]) = NoRecord,
           name = "edit" => /\ p[2] = "config" /\ RecFor(b[Manifest], p[1]) # NoRecord
                            /\ RecFor(m, p[1]) = NoRecord
    PROVE  Op(name, p) \in Minding(b, boxes, m)
<1> DEFINE o == Op(name, p)
           m0 == b[Manifest]
<1>1. o.op = name /\ o.path = p /\ o.value = NoFile /\ o \in OpRecord
  BY FilesAre DEF Op, OpRecord, Writes, Value
<1> HIDE DEF o
<1>2. CASE name = "link"
  <2>1. Effect(o) = OwnLink /\ OwnLink # NoFile /\ p[2] # "config"
    BY <1>1, <1>2 DEF Effect, OwnLink, NoFile, LinkName
  <2>2. Free(p, OwnLink, RecFor(m0, p[1])) /\ Free(p, OwnLink, RecFor(m, p[1]))
    BY <2>1, FreeNothing
  <2>3. Leaves(p, OwnLink, {}, m0, m)
    BY <2>1, <2>2 DEF Leaves
  <2>4. Alike(p, OwnLink, b[p]) /\ SameBox(p, OwnLink, b[p])
    BY <1>2, <2>1, FreeNothing DEF Alike, SameBox
  <2> QED
    BY <1>1, <1>2, <2>1, <2>2, <2>3, <2>4 DEF Minding, Minds, o
<1>3. CASE name \in {"unlink", "clear"}
  <2>1. Effect(o) = NoFile
    BY <1>1, <1>3 DEF Effect
  <2>2. Free(p, NoFile, RecFor(m0, p[1])) /\ Leaves(p, NoFile, {}, m0, m)
    BY <1>3, FreeNothing
  <2>3. Alike(p, NoFile, b[p]) /\ SameBox(p, NoFile, b[p])
    BY <1>3, FreeNothing DEF Alike, SameBox
  <2> QED
    BY <1>1, <1>3, <2>1, <2>2, <2>3 DEF Minding, Minds, o
<1>4. CASE name \in {"edit", "bootout"}
  BY <1>1, <1>4 DEF Minding, Minds, o
<1> QED
  BY <1>2, <1>3, <1>4

\* Where a list of operations writes nothing, the new manifest asks for no more.
Ready(p, b, m) == Leaves(p, b[p], {}, b[Manifest], m) /\ Keep(p, b[Manifest], m)

LEMMA SparesTo ==
    ASSUME NEW b, NEW boxes, NEW m, NEW a \in Seq(Minding(b, boxes, m)),
           NEW x \in OpRecord, x.path = Manifest, x.op \in {"put", "unlink"}, Effect(x) = m, Proper(m),
           \A p \in Files : Ready(p, b, m) \/ \E o \in Elems(a) : o.path = p /\ o.op \in Writes,
           NEW Q, a \o <<x>> \in Seq(OpsOn(Q))
    PROVE  /\ Spares(a \o <<x>>, b, b, {}, boxes)
           /\ Keeping(Q, b[Manifest], Final(a \o <<x>>))
<1>1. PICK c : c = <<x>>
  OBVIOUS
<1>2. a \in Seq(OpRecord) /\ c \in Seq(OpRecord) /\ Len(c) = 1 /\ c[1] = x
  BY <1>1 DEF Minding
<1> DEFINE q == a \o c
<1>3. /\ Len(a) \in Nat /\ Len(q) = Len(a) + Len(c) /\ DOMAIN a = 1..Len(a)
      /\ DOMAIN c = 1..Len(c)
      /\ \A i \in DOMAIN a : q[i] = a[i]
      /\ \A i \in DOMAIN c : q[i + Len(a)] = c[i]
  BY <1>2, ConcatLies
<1>4. q \in Seq(OpsOn(Q))
  BY <1>1
<1> HIDE DEF q
<1>5. q[Len(q)] = x /\ Len(q) > 0 /\ 1..(Len(q) - 1) = DOMAIN a
  <2>1. 1 \in DOMAIN c /\ Len(q) = 1 + Len(a)
    BY <1>2, <1>3
  <2> QED
    BY <1>2, <1>3, <2>1
<1>6. Final(q) = m
  BY <1>5 DEF Final
<1>7. \A i \in DOMAIN a : q[i] = a[i] /\ Minds(a[i], b, {}, boxes, m)
  BY <1>3 DEF Minding
<1>8. \A p \in Files : Ready(p, b, m) \/ \E i \in DOMAIN a : q[i].path = p /\ q[i].op \in Writes
  BY <1>7 DEF Elems
<1>9. Spares(q, b, b, {}, boxes)
  BY <1>5, <1>6, <1>7, <1>8 DEF Spares, Ready
<1>10. \A i \in DOMAIN a : q[i].op \in Writes => q[i].path \in Q
  <2>1. \A i \in DOMAIN a : i \in 1..Len(q)
    BY <1>2, <1>3
  <2> QED
    BY <1>4, <2>1 DEF OpsOn
<1>11. Keeping(Q, b[Manifest], m)
  BY <1>8, <1>10 DEF Keeping, Ready
<1> QED
  BY <1>1, <1>6, <1>9, <1>11 DEF q

LEMMA ApplyMinds ==
    ASSUME StateInv, NEW h \in Harness, NEW m, RecFor(m, h) = NewRecord(h), Prepares(h),
           Proper(file[Manifest]), AllFree(file, file[Manifest]), NEW boxes
    PROVE  /\ Apply(h) \in Seq(Minding(file, boxes, m))
           /\ \A p \in Files : p[1] = h =>
                Ready(p, file, m) \/ \E o \in Elems(Apply(h)) : o.path = p /\ o.op \in Writes
<1> DEFINE S == Minding(file, boxes, m)
           m0 == file[Manifest]
<1>1. \A p \in Files : p[1] \in Harness /\ Free(p, file[p], RecordOf(p[1])) /\ RecFor(m0, p[1]) = RecordOf(p[1])
  BY FilesAre, RecForIs DEF AllFree
<1>2. /\ <<h, "config">> \in Files /\ \A l \in Links(h) : <<h, l>> \in Files
      /\ h = "codex" => Marker \in Files /\ \A l \in Label : <<"codex", l>> \in Files
  BY FilesAre
<1>3. LET p == <<h, "config">>
          d == ConfigAfter(h)
      IN  /\ Free(p, d, RecordOf(h)) /\ Leaves(p, d, {}, m0, m)
          /\ Alike(p, d, At(h, "config")) /\ SameBox(p, d, At(h, "config"))
          /\ ~ConfigChanges(h) => Leaves(p, At(h, "config"), {}, m0, m) /\ Keep(p, m0, m)
  <2>1. ClaudeAccepts(h) /\ Free(<<h, "config">>, At(h, "config"), RecordOf(h))
    BY <1>1, <1>2 DEF Prepares, At
  <2> QED
    BY <2>1, ConfigMinds
<1> HIDE DEF m0
<1>4. Put(<<h, "config">>, ConfigAfter(h)) \in S
  BY <1>1, <1>2, <1>3, ConfigAfterIs, PutMinds DEF Value, At, m0
<1>5. ASSUME RecordOf(h) = NoRecord, NEW l \in Links(h), At(h, l) = NoFile
      PROVE  Op("link", <<h, l>>) \in S
  <2>1. l \in LinkName
    BY PathsAre
  <2> QED
    BY <1>2, <1>5, <2>1, OpMinds DEF At
<1>6. ASSUME h = "codex" PROVE Put(Marker, MarkerOf(build)) \in S
  <2>1. MarkerOf(build) \in Value /\ ~Theirs(MarkerOf(build))
    BY MarkerIs DEF Value, MarkerOf, Theirs
  <2>2. Marker \in Files /\ Marker[2] = "marker"
    BY <1>2, <1>6 DEF Marker
  <2>3. ~Theirs(file[Marker])
    BY <2>2, TheirsAre, FilesAre DEF StateInv, LinkName, Label
  <2>4. Alike(Marker, MarkerOf(build), file[Marker]) /\ SameBox(Marker, MarkerOf(build), file[Marker])
    BY <2>1, <2>2, <2>3 DEF Alike, SameBox
  <2>5. \A rec : Free(Marker, MarkerOf(build), rec)
    BY <2>2 DEF Free, LinkName, Label
  <2>6. Leaves(Marker, MarkerOf(build), {}, m0, m)
    BY <2>2, <2>5 DEF Leaves, LinkName
  <2> QED
    BY <2>1, <2>2, <2>4, <2>5, <2>6, PutMinds DEF m0
<1>7. ASSUME h = "codex", NEW l \in Label PROVE Put(<<"codex", l>>, NewPlist(l)) \in S
  <2>1. <<"codex", l>> \in Files /\ <<"codex", l>>[1] = "codex"
    BY <1>2, <1>7
  <2>2. Free(<<"codex", l>>, At("codex", l), RecordOf("codex")) /\ RecFor(m0, "codex") = RecordOf("codex")
    BY <1>1, <2>1 DEF At
  <2>3. /\ Free(<<"codex", l>>, NewPlist(l), RecordOf("codex")) /\ Leaves(<<"codex", l>>, NewPlist(l), {}, m0, m)
        /\ Alike(<<"codex", l>>, NewPlist(l), At("codex", l))
        /\ SameBox(<<"codex", l>>, NewPlist(l), At("codex", l))
    BY <1>7, <2>2, PlistMinds DEF m0
  <2>4. NewPlist(l) \in Value
    BY <1>7, NewPlistIs DEF Value
  <2> QED
    BY <2>1, <2>2, <2>3, <2>4, PutMinds DEF At, m0
<1> HIDE DEF S
<1>8. /\ Apply(h) \in Seq(S)
      /\ ConfigChanges(h) => Put(<<h, "config">>, ConfigAfter(h)) \in Elems(Apply(h))
      /\ RecordOf(h) = NoRecord =>
           \A l \in Links(h) : At(h, l) = NoFile => Op("link", <<h, l>>) \in Elems(Apply(h))
  BY <1>4, <1>5, <1>6, <1>7, ApplyGoes
<1>9. ASSUME NEW p \in Files, p[1] = h
      PROVE  Ready(p, file, m) \/ \E o \in Elems(Apply(h)) : o.path = p /\ o.op \in Writes
  <2>1. CASE p[2] # "config"
    <3>1. /\ Keep(p, m0, m)
          /\ \/ Leaves(p, file[p], {}, m0, m)
             \/ \E l \in Links(h) : p = <<h, l>> /\ RecordOf(h) = NoRecord /\ At(h, l) = NoFile
      BY <1>1, <1>9, <2>1, OthersMind DEF m0
    <3>2. ASSUME NEW l \in Links(h), p = <<h, l>>, RecordOf(h) = NoRecord, At(h, l) = NoFile
          PROVE  \E o \in Elems(Apply(h)) : o.path = p /\ o.op \in Writes
      <4>1. PICK o \in Elems(Apply(h)) : o = Op("link", <<h, l>>)
        BY <1>8, <3>2
      <4>2. o.path = p /\ o.op \in Writes
        BY <3>2, <4>1 DEF Op, Writes
      <4> QED
        BY <4>2
    <3> QED
      BY <3>1, <3>2 DEF Ready, m0
  <2>2. CASE p[2] = "config"
    <3>1. p = <<h, "config">>
      BY <1>9, <2>2, FilesAre, PathIs
    <3>2. CASE ConfigChanges(h)
      <4>1. PICK o \in Elems(Apply(h)) : o = Put(<<h, "config">>, ConfigAfter(h))
        BY <1>8, <3>2
      <4>2. o.path = p /\ o.op \in Writes
        BY <3>1, <4>1 DEF Put, Writes
      <4> QED
        BY <4>2
    <3>3. CASE ~ConfigChanges(h)
      BY <1>3, <3>1, <3>3 DEF At, Ready, m0
    <3> QED
      BY <3>2, <3>3
  <2> QED
    BY <2>1, <2>2
<1> QED
  BY <1>8, <1>9 DEF S

\* What a command does not touch stays ready.
LEMMA SameReady ==
    ASSUME NEW b, NEW m, NEW p \in Files, RecFor(m, p[1]) = RecFor(b[Manifest], p[1]),
           Free(p, b[p], RecFor(b[Manifest], p[1]))
    PROVE  Ready(p, b, m)
BY DEF Ready, Leaves, Keep, Own

LEMMA ApplySpares ==
    ASSUME StateInv, NEW set \in SUBSET Harness, ApplyChecks(set), ApplyOps(set) # << >>,
           Proper(file[Manifest]), AllFree(file, file[Manifest]), NEW boxes
    PROVE  /\ Spares(ApplyOps(set), file, file, {}, boxes)
           /\ Keeping(Elems(ApplyPaths(set)), file[Manifest], Final(ApplyOps(set)))
<1> DEFINE work == ToApply(set)
           check == CheckRuntime(work)
           e == Each(work, Apply)
           new == [h \in work |-> NewRecord(h)]
           m == ManifestWith(new)
           x == Put(Manifest, m)
           S == Minding(file, boxes, m)
<1>1. ApplyOps(set) = (check \o e) \o <<x>>
  BY DEF ApplyOps, When
<1>2. work \subseteq Harness /\ \A h \in work : Prepares(h)
  BY DEF ToApply, ApplyChecks
<1>3. \A h \in Harness : RecFor(m, h) = IF h \in work THEN NewRecord(h) ELSE RecordOf(h)
  <2>1. DOMAIN new = work /\ \A h \in work : new[h] = NewRecord(h)
    OBVIOUS
  <2> HIDE DEF new
  <2> QED
    BY <2>1, RecForIs
<1>4. x \in OpRecord /\ x.path = Manifest /\ x.op = "put" /\ Effect(x) = m
  <2>1. ManifestWith(new) \in GoodManifest
    <3>1. DOMAIN new = work /\ \A h \in work : new[h] = NewRecord(h)
      OBVIOUS
    <3>2. work \in SUBSET Harness
      BY <1>2
    <3>3. \A h \in work : /\ NewRecord(h) \in Record /\ NewRecord(h).links \subseteq Links(h)
                          /\ h # "codex" => NewRecord(h).plists = {}
      BY <3>2, NewRecordIs
    <3> HIDE DEF new, work
    <3> QED
      BY <3>1, <3>2, <3>3, ManifestIs
  <2>2. m \in GoodManifest
    BY <2>1
  <2> HIDE DEF m
  <2> QED
    BY <2>2, PathsAre DEF Put, OpRecord, Writes, Value, GoodManifest, Effect
<1> HIDE DEF m, x
<1>5. check \in Seq(S)
  <2> DEFINE o == [op |-> "check", path |-> Marker, value |-> MarkerOf(build)]
             changes == "codex" \in work /\ \E l \in Label : PlistChanges(l)
  <2>1. changes => o \in S
    <3>1. changes => o \in OpRecord /\ o.path \in Files /\ o.op = "check"
      BY <1>2, MarkerIs, FilesAre DEF OpRecord, Writes, Value
    <3> HIDE DEF o
    <3> QED
      BY <3>1 DEF Minding, Minds
  <2>2. check = When(changes, <<o>>)
    BY DEF CheckRuntime
  <2>3. changes \in BOOLEAN
    OBVIOUS
  <2> HIDE DEF S, o, changes, check
  <2>4. changes => <<o>> \in Seq(S)
    BY <2>1, OneIs
  <2> QED
    BY <2>2, <2>3, <2>4, WhenIs
<1>6. ASSUME NEW h \in work
      PROVE  /\ Apply(h) \in Seq(S)
             /\ \A p \in Files : p[1] = h =>
                  Ready(p, file, m) \/ \E o \in Elems(Apply(h)) : o.path = p /\ o.op \in Writes
  BY <1>2, <1>3, ApplyMinds
<1>7. e \in Seq(S) /\ \A h \in work : Elems(Apply(h)) \subseteq Elems(e)
  <2> DEFINE A(h) == Apply(h)
  <2>1. /\ "claude" \in work => A("claude") \in Seq(S)
        /\ "hermes" \in work => A("hermes") \in Seq(S)
        /\ "codex" \in work => A("codex") \in Seq(S)
    BY <1>6
  <2>2. e = (IF "claude" \in work THEN A("claude") ELSE << >>)
            \o (IF "hermes" \in work THEN A("hermes") ELSE << >>)
            \o (IF "codex" \in work THEN A("codex") ELSE << >>)
    BY DEF Each
  <2> HIDE DEF A, e, work, S
  <2>3. /\ e \in Seq(S)
        /\ "claude" \in work => Elems(A("claude")) \subseteq Elems(e)
        /\ "hermes" \in work => Elems(A("hermes")) \subseteq Elems(e)
        /\ "codex" \in work => Elems(A("codex")) \subseteq Elems(e)
    BY <2>1, <2>2, EachIs
  <2>4. \A h \in work : h \in {"claude", "hermes", "codex"}
    BY <1>2, SetupAssumption
  <2>5. \A h \in work : Elems(A(h)) \subseteq Elems(e)
    BY <2>3, <2>4
  <2> QED
    BY <2>3, <2>5 DEF A
<1>8. Proper(m)
  <2>1. ASSUME NEW h \in Harness, RecFor(m, h) # NoRecord
        PROVE  LET rec == RecFor(m, h)
               IN  rec.own \subseteq rec.has /\ (h # "claude" => rec.has \subseteq Wanted(h))
    <3>1. CASE h \in work
      <4>1. NewRecord(h).has = Wanted(h)
            /\ NewRecord(h).own = (Own(RecordOf(h)) \cap Wanted(h)) \cup Fresh(h)
        BY DEF NewRecord
      <4>2. Fresh(h) \subseteq Wanted(h)
        BY DEF Fresh
      <4> QED
        BY <1>3, <3>1, <4>1, <4>2
    <3>2. CASE h \notin work
      BY <1>3, <2>1, <3>2, RecForIs DEF Proper
    <3> QED
      BY <3>1, <3>2
  <2> QED
    BY <2>1 DEF Proper
<1> HIDE DEF check, e, S
<1>9. check \o e \in Seq(S) /\ Elems(check \o e) = Elems(check) \cup Elems(e)
  BY <1>5, <1>7, ConcatIs
<1>10. ASSUME NEW p \in Files
       PROVE  Ready(p, file, m) \/ \E o \in Elems(check \o e) : o.path = p /\ o.op \in Writes
  <2>1. CASE p[1] \in work
    BY <1>6, <1>7, <1>9, <2>1
  <2>2. CASE p[1] \notin work
    <3>1. RecFor(m, p[1]) = RecFor(file[Manifest], p[1]) /\ Free(p, file[p], RecFor(file[Manifest], p[1]))
      BY <1>3, <2>2, FilesAre, RecForIs DEF AllFree
    <3> QED
      BY <3>1, SameReady
  <2> QED
    BY <2>1, <2>2
<1>11. PICK a : a = check \o e
  OBVIOUS
<1>12. PICK Q : Q = Elems(ApplyPaths(set))
  OBVIOUS
<1>13. a \o <<x>> \in Seq(OpsOn(Q))
  BY <1>1, <1>11, <1>12, ApplyOpsAre
<1>14. /\ Spares(a \o <<x>>, file, file, {}, boxes)
       /\ Keeping(Q, file[Manifest], Final(a \o <<x>>))
  BY <1>4, <1>8, <1>9, <1>10, <1>11, <1>13, SparesTo DEF S
<1> QED
  BY <1>1, <1>11, <1>12, <1>14

\* A removal minds the user's links and plists: they are not in the record.
LEMMA RemoveMinds ==
    ASSUME StateInv, NEW h \in Harness, RecordOf(h) # NoRecord, NEW m, RecFor(m, h) = NoRecord,
           Proper(file[Manifest]), AllFree(file, file[Manifest]), NEW boxes
    PROVE  /\ Remove(h) \in Seq(Minding(file, boxes, m))
           /\ \A p \in Files : p[1] = h =>
                Ready(p, file, m) \/ \E o \in Elems(Remove(h)) : o.path = p /\ o.op \in Writes
<1> DEFINE S == Minding(file, boxes, m)
           rec == RecordOf(h)
<1>1. \A p \in Files : p[1] = h => Free(p, file[p], rec) /\ RecFor(file[Manifest], p[1]) = rec
  BY RecForIs DEF AllFree
<1>2. /\ <<h, "config">> \in Files /\ \A l \in Links(h) : <<h, l>> \in Files
      /\ h = "codex" => Marker \in Files /\ \A l \in Label : <<"codex", l>> \in Files
  BY FilesAre
<1>3. rec \in Record /\ rec.links \subseteq Links(h) /\ rec.plists \subseteq Label /\ (h # "codex" => rec.plists = {})
  BY RecordIs DEF Record
<1> HIDE DEF rec
<1>4. Op("edit", <<h, "config">>) \in S
  BY <1>1, <1>2, OpMinds DEF rec
<1>5. ASSUME NEW l \in rec.links \cup rec.plists PROVE Op("unlink", <<h, l>>) \in S
  <2>1. PICK p : p = <<h, l>>
    OBVIOUS
  <2>2. p \in Files /\ p[1] = h /\ p[2] = l
    BY <1>2, <1>3, <1>5, <2>1
  <2>3. l \in LinkName \cup Label /\ l # "config"
    BY <1>3, <1>5, PathsAre DEF LinkName, Label
  <2>4. ~Theirs(file[p])
    <3>1. SUFFICES ASSUME Theirs(file[p]) PROVE FALSE
      OBVIOUS
    <3>2. Fits(p, file[p])
      BY <2>2, FilesAre DEF StateInv
    <3>3. (l \in LinkName => l \notin rec.links) /\ (l \in Label => l \notin rec.plists)
      BY <1>1, <2>2, <3>1 DEF Free, rec
    <3>4. rec.links \subseteq LinkName
      BY <1>3, PathsAre
    <3> QED
      BY <1>3, <1>5, <3>3, <3>4
  <2> QED
    BY <2>1, <2>2, <2>3, <2>4, OpMinds
<1>6. ASSUME h = "codex" PROVE Op("clear", Marker) \in S
  <2>1. Marker[1] = h /\ Marker[2] = "marker" /\ Marker \in Files
    BY <1>2, <1>6 DEF Marker
  <2>2. ~Theirs(file[Marker])
    BY <2>1, TheirsAre, FilesAre DEF StateInv, LinkName, Label
  <2> QED
    BY <2>1, <2>2, OpMinds
<1> HIDE DEF S
<1>7. /\ Remove(h) \in Seq(S)
      /\ rec.own # {} => Op("edit", <<h, "config">>) \in Elems(Remove(h))
      /\ \A l \in rec.links \cup rec.plists : Op("unlink", <<h, l>>) \in Elems(Remove(h))
      /\ h = "codex" => Op("clear", Marker) \in Elems(Remove(h))
  BY <1>4, <1>5, <1>6, RemoveGoes DEF rec
<1>8. ASSUME NEW name \in {"edit", "unlink"}, NEW p, Op(name, p) \in Elems(Remove(h))
      PROVE  \E o \in Elems(Remove(h)) : o.path = p /\ o.op \in Writes
  BY <1>8 DEF Op, Writes
<1>9. ASSUME NEW p \in Files, p[1] = h
      PROVE  Ready(p, file, m) \/ \E o \in Elems(Remove(h)) : o.path = p /\ o.op \in Writes
  <2>1. Leaves(p, file[p], {}, file[Manifest], m)
    BY <1>9, FreeNothing
  <2>2. RecFor(m, p[1]) = NoRecord /\ RecFor(file[Manifest], p[1]) = rec /\ rec # NoRecord
    BY <1>1, <1>9 DEF rec
  <2>3. CASE p[2] = "config" /\ rec.own # {}
    <3>1. p = <<h, "config">>
      BY <1>9, <2>3, FilesAre, PathIs
    <3> QED
      BY <1>7, <1>8, <2>3, <3>1
  <2>4. CASE p[2] \in LinkName /\ p[2] \in rec.links
    <3>1. p = <<h, p[2]>>
      BY <1>9, <2>4, FilesAre, PathIs DEF LinkName
    <3> QED
      BY <1>7, <1>8, <2>4, <3>1
  <2>5. CASE ~(p[2] = "config" /\ rec.own # {}) /\ ~(p[2] \in LinkName /\ p[2] \in rec.links)
    BY <2>1, <2>2, <2>5 DEF Ready, Keep
  <2> QED
    BY <2>3, <2>4, <2>5
<1> QED
  BY <1>7, <1>9 DEF S

LEMMA RemoveSpares ==
    ASSUME StateInv, NEW set \in SUBSET Harness, RemoveOps(set) # << >>,
           Proper(file[Manifest]), AllFree(file, file[Manifest]), NEW boxes
    PROVE  /\ Spares(RemoveOps(set), file, file, {}, boxes)
           /\ Keeping(Elems(RemovePaths(set)), file[Manifest], Final(RemoveOps(set)))
<1> DEFINE work == ToRemove(set)
           unload == Unload(set)
           e == Each(work, Remove)
           new == [h \in work |-> NoRecord]
           m == IF Owned = work THEN NoFile ELSE ManifestWith(new)
           x == IF Owned = work THEN Op("unlink", Manifest) ELSE Put(Manifest, ManifestWith(new))
           S == Minding(file, boxes, m)
<1>1. RemoveOps(set) = (unload \o e) \o <<x>>
  BY DEF RemoveOps, When
<1>2. work \subseteq Harness /\ \A h \in work : RecordOf(h) # NoRecord
  BY DEF ToRemove, Owned
<1>3. \A h \in Harness : RecFor(m, h) = IF h \in work THEN NoRecord ELSE RecordOf(h)
  <2>1. DOMAIN new = work /\ \A h \in work : new[h] = NoRecord
    OBVIOUS
  <2> HIDE DEF new
  <2>2. CASE Owned = work
    BY <2>2, RecForIs DEF Owned
  <2>3. CASE Owned # work
    BY <2>1, <2>3, RecForIs
  <2> QED
    BY <2>2, <2>3
<1>4. x \in OpRecord /\ x.path = Manifest /\ x.op \in {"put", "unlink"} /\ Effect(x) = m
  <2>1. ManifestWith(new) \in GoodManifest
    <3>1. DOMAIN new = work /\ \A h \in work : new[h] = NoRecord
      OBVIOUS
    <3>2. work \in SUBSET Harness
      BY <1>2
    <3> HIDE DEF new, work
    <3> QED
      BY <3>1, <3>2, ManifestIs
  <2> HIDE DEF new
  <2>2. CASE Owned = work
    BY <2>2, PathsAre DEF Op, OpRecord, Writes, Value, Effect
  <2>3. CASE Owned # work
    BY <2>1, <2>3, PathsAre DEF Put, OpRecord, Writes, Value, GoodManifest, Effect
  <2> QED
    BY <2>2, <2>3
<1> HIDE DEF m, x
<1>5. unload \in Seq(S)
  <2> DEFINE Job(l) == When(l \in RecordOf("codex").plists, <<Op("bootout", <<"codex", l>>)>>)
             a == Job("app")
             b == Job("wake")
  <2>1. CASE UnloadNeeded(set)
    <3>1. ASSUME NEW l \in Label PROVE Job(l) \in Seq(S)
      <4>1. <<"codex", l>> \in Files
        BY <2>1, FilesAre DEF UnloadNeeded, ToRemove
      <4>2. PICK o : o = Op("bootout", <<"codex", l>>)
        OBVIOUS
      <4>3. o \in S
        BY <4>1, <4>2, OpMinds
      <4> HIDE DEF S
      <4>4. When(l \in RecordOf("codex").plists, <<o>>) \in Seq(S)
        BY <4>3, ListsMember
      <4> QED
        BY <4>2, <4>4
    <3>2. a \in Seq(S) /\ b \in Seq(S)
      BY <3>1 DEF Label
    <3>3. Unload(set) = a \o b
      BY <2>1 DEF Unload
    <3> HIDE DEF a, b, S
    <3>4. a \o b \in Seq(S)
      BY <3>2, ConcatIs
    <3> QED
      BY <3>3, <3>4
  <2>2. CASE ~UnloadNeeded(set)
    BY <2>2, NoneIs DEF Unload
  <2> QED
    BY <2>1, <2>2
<1>6. ASSUME NEW h \in work
      PROVE  /\ Remove(h) \in Seq(S)
             /\ \A p \in Files : p[1] = h =>
                  Ready(p, file, m) \/ \E o \in Elems(Remove(h)) : o.path = p /\ o.op \in Writes
  BY <1>2, <1>3, RemoveMinds
<1>7. e \in Seq(S) /\ \A h \in work : Elems(Remove(h)) \subseteq Elems(e)
  <2> DEFINE A(h) == Remove(h)
  <2>1. /\ "claude" \in work => A("claude") \in Seq(S)
        /\ "hermes" \in work => A("hermes") \in Seq(S)
        /\ "codex" \in work => A("codex") \in Seq(S)
    BY <1>6
  <2>2. e = (IF "claude" \in work THEN A("claude") ELSE << >>)
            \o (IF "hermes" \in work THEN A("hermes") ELSE << >>)
            \o (IF "codex" \in work THEN A("codex") ELSE << >>)
    BY DEF Each
  <2> HIDE DEF A, e, work, S
  <2>3. /\ e \in Seq(S)
        /\ "claude" \in work => Elems(A("claude")) \subseteq Elems(e)
        /\ "hermes" \in work => Elems(A("hermes")) \subseteq Elems(e)
        /\ "codex" \in work => Elems(A("codex")) \subseteq Elems(e)
    BY <2>1, <2>2, EachIs
  <2>4. \A h \in work : h \in {"claude", "hermes", "codex"}
    BY <1>2, SetupAssumption
  <2>5. \A h \in work : Elems(A(h)) \subseteq Elems(e)
    BY <2>3, <2>4
  <2> QED
    BY <2>3, <2>5 DEF A
<1>8. Proper(m)
  BY <1>3, RecForIs DEF Proper
<1> HIDE DEF unload, e, S
<1>9. unload \o e \in Seq(S) /\ Elems(unload \o e) = Elems(unload) \cup Elems(e)
  BY <1>5, <1>7, ConcatIs
<1>10. ASSUME NEW p \in Files
       PROVE  Ready(p, file, m) \/ \E o \in Elems(unload \o e) : o.path = p /\ o.op \in Writes
  <2>1. CASE p[1] \in work
    BY <1>6, <1>7, <1>9, <2>1
  <2>2. CASE p[1] \notin work
    <3>1. RecFor(m, p[1]) = RecFor(file[Manifest], p[1]) /\ Free(p, file[p], RecFor(file[Manifest], p[1]))
      BY <1>3, <2>2, FilesAre, RecForIs DEF AllFree
    <3> QED
      BY <3>1, SameReady
  <2> QED
    BY <2>1, <2>2
<1>11. PICK a : a = unload \o e
  OBVIOUS
<1>12. PICK Q : Q = Elems(RemovePaths(set))
  OBVIOUS
<1>13. a \o <<x>> \in Seq(OpsOn(Q))
  BY <1>1, <1>11, <1>12, RemoveOpsAre
<1>14. /\ Spares(a \o <<x>>, file, file, {}, boxes)
       /\ Keeping(Q, file[Manifest], Final(a \o <<x>>))
  BY <1>4, <1>8, <1>9, <1>10, <1>11, <1>13, SparesTo DEF S
<1> QED
  BY <1>1, <1>11, <1>12, <1>14

\* What is read of a list of operations, with its first one apart.
LEMMA SparesFirst ==
    ASSUME NEW q, NEW x, NEW r, Cons(q, x, r), NEW f, NEW b, NEW changed, NEW boxes,
           Spares(q, f, b, changed, boxes), Len(r) > 0
    PROVE  LET m == Final(r)
           IN  /\ Len(r) \in Nat /\ Final(q) = m
               /\ r[Len(r)].path = Manifest /\ r[Len(r)].op \in {"put", "unlink"} /\ Proper(m)
               /\ Minds(x, b, changed, boxes, m)
               /\ \A i \in 1..(Len(r) - 1) : Minds(r[i], b, changed, boxes, m)
               /\ \A p \in Files : \/ Leaves(p, f[p], changed, b[Manifest], m)
                                   \/ x.path = p /\ x.op \in Writes
                                   \/ \E i \in 1..(Len(r) - 1) : r[i].path = p /\ r[i].op \in Writes
<1>1. /\ Len(r) \in Nat /\ Len(q) = Len(r) + 1 /\ q[1] = x
      /\ \A i \in 1..Len(r) : q[i + 1] = r[i]
  BY DEF Cons
<1>2. q[Len(q)] = r[Len(r)]
  BY <1>1
<1>3. Final(q) = Final(r)
  BY <1>2 DEF Final
<1>4. \A i \in 1..(Len(q) - 1) : Minds(q[i], b, changed, boxes, Final(r))
  BY <1>3 DEF Spares
<1>5. 1 \in 1..(Len(q) - 1) /\ \A i \in 1..(Len(r) - 1) : i + 1 \in 1..(Len(q) - 1) /\ q[i + 1] = r[i]
  BY <1>1
<1>6. \A i \in 1..(Len(q) - 1) : i = 1 \/ (i - 1 \in 1..(Len(r) - 1) /\ q[i] = r[i - 1])
  BY <1>1
<1>7. Minds(x, b, changed, boxes, Final(r))
  BY <1>1, <1>4, <1>5
<1>8. \A i \in 1..(Len(r) - 1) : Minds(r[i], b, changed, boxes, Final(r))
  BY <1>4, <1>5
<1>9. ASSUME NEW p \in Files
      PROVE  \/ Leaves(p, f[p], changed, b[Manifest], Final(r))
             \/ x.path = p /\ x.op \in Writes
             \/ \E i \in 1..(Len(r) - 1) : r[i].path = p /\ r[i].op \in Writes
  <2>1. \/ Leaves(p, f[p], changed, b[Manifest], Final(r))
        \/ \E i \in 1..(Len(q) - 1) : q[i].path = p /\ q[i].op \in Writes
    BY <1>3 DEF Spares
  <2> QED
    BY <1>1, <1>6, <2>1
<1>10. Proper(Final(r)) /\ r[Len(r)].path = Manifest /\ r[Len(r)].op \in {"put", "unlink"}
  BY <1>2, <1>3 DEF Spares
<1> QED
  BY <1>1, <1>3, <1>7, <1>8, <1>9, <1>10

LEMMA SparesNext ==
    ASSUME StateInv, NEW x \in OpRecord, x.op # "edit", NEW q, NEW r, Cons(q, x, r), Len(r) > 0,
           NEW b, NEW changed, NEW boxes, Spares(q, file, b, changed, boxes)
    PROVE  LET f == NewFile(x)
           IN  /\ Spares(r, f, b, changed, boxes) /\ Final(r) = Final(q) /\ f[Manifest] = file[Manifest]
               /\ \A p \in Files : f[p] # file[p] =>
                    /\ Free(p, f[p], RecFor(b[Manifest], p[1]))
                    /\ p \notin changed => Alike(p, f[p], b[p]) /\ (boxes => SameBox(p, f[p], b[p]))
<1> DEFINE f == NewFile(x)
           m == Final(r)
<1>1. /\ Len(r) \in Nat /\ Final(q) = m
      /\ r[Len(r)].path = Manifest /\ r[Len(r)].op \in {"put", "unlink"} /\ Proper(m)
      /\ Minds(x, b, changed, boxes, m)
      /\ \A i \in 1..(Len(r) - 1) : Minds(r[i], b, changed, boxes, m)
      /\ \A p \in Files : \/ Leaves(p, file[p], changed, b[Manifest], m)
                          \/ x.path = p /\ x.op \in Writes
                          \/ \E i \in 1..(Len(r) - 1) : r[i].path = p /\ r[i].op \in Writes
  BY SparesFirst
<1>2. /\ x.op \in {"put", "link", "unlink", "clear"} =>
            f[x.path] = Effect(x) /\ \A p \in Path : p # x.path => f[p] = file[p]
      /\ x.op \notin {"put", "link", "unlink", "clear"} => f = file
  BY FileWith
<1>3. x.path \in Files /\ Manifest \notin Files /\ Manifest \in Path /\ Files \subseteq Path
  BY <1>1, FilesAre, PathsAre DEF Minds
<1> HIDE DEF f, m
<1>4. f[Manifest] = file[Manifest]
  BY <1>2, <1>3
<1>5. \A p \in Files : f[p] # file[p] => p = x.path /\ f[p] = Effect(x) /\ x.op \in {"put", "link", "unlink", "clear"}
  BY <1>2, <1>3
<1>6. \A p \in Files : f[p] # file[p] =>
        /\ Free(p, f[p], RecFor(b[Manifest], p[1]))
        /\ p \notin changed => Alike(p, f[p], b[p]) /\ (boxes => SameBox(p, f[p], b[p]))
  BY <1>1, <1>5 DEF Minds
<1>7. ASSUME NEW p \in Files
      PROVE  \/ Leaves(p, f[p], changed, b[Manifest], m)
             \/ \E i \in 1..(Len(r) - 1) : r[i].path = p /\ r[i].op \in Writes
  <2>1. CASE x.path = p /\ x.op \in Writes
    <3>1. x.op \in {"put", "link", "unlink", "clear"}
      BY <2>1 DEF Writes
    <3>2. Leaves(p, f[p], {}, b[Manifest], m)
      BY <1>1, <1>2, <2>1, <3>1 DEF Minds
    <3> QED
      BY <3>2 DEF Leaves
  <2>2. CASE ~(x.path = p /\ x.op \in Writes)
    <3>1. f[p] = file[p]
      BY <1>5, <2>2 DEF Writes
    <3> QED
      BY <1>1, <2>2, <3>1
  <2> QED
    BY <2>1, <2>2
<1>8. Spares(r, f, b, changed, boxes)
  BY <1>1, <1>7 DEF Spares, m
<1> QED
  BY <1>1, <1>4, <1>6, <1>8 DEF f, m

LEMMA SparesEnd ==
    ASSUME StateInv, NEW x \in OpRecord, NEW q, NEW r, Cons(q, x, r), Len(r) = 0,
           NEW b, NEW changed, NEW boxes, Spares(q, file, b, changed, boxes)
    PROVE  /\ x.op # "edit" /\ \A p \in Files : NewFile(x)[p] = file[p]
           /\ NewFile(x)[Manifest] = Final(q)
           /\ Proper(NewFile(x)[Manifest]) /\ AllFree(NewFile(x), NewFile(x)[Manifest])
<1>1. Len(q) = 1 /\ q[1] = x
  BY DEF Cons
<1>2. x.path = Manifest /\ x.op \in {"put", "unlink"} /\ Proper(Effect(x))
  BY <1>1 DEF Spares, Final
<1>3. \A p \in Files : Leaves(p, file[p], changed, b[Manifest], Effect(x))
  <2>1. \A i : i \notin 1..(Len(q) - 1)
    BY <1>1
  <2> QED
    BY <1>1, <2>1 DEF Spares, Final
<1>4. NewFile(x)[Manifest] = Effect(x) /\ \A p \in Files : NewFile(x)[p] = file[p]
  BY <1>2, FileWith, FilesAre
<1>5. Final(q) = Effect(x)
  BY <1>1 DEF Final
<1> QED
  BY <1>2, <1>3, <1>4, <1>5 DEF AllFree, Leaves

\* A removal takes out of a configuration nothing that the user has in it.
LEMMA WithoutMinds ==
    ASSUME StateInv, NEW h \in Harness, At(h, "config") # NoFile, RecordOf(h) # NoRecord,
           NEW p, p = <<h, "config">>, Free(p, file[p], RecordOf(h)),
           NEW v, Alike(p, file[p], v), NEW boxes,
           boxes => /\ SameBox(p, file[p], v) /\ Claim(p, file[p], RecordOf(h))
                    /\ (RecordOf(h).box => View(v).box = "setup")
    PROVE  LET d == Without(h, At(h, "config"))
           IN  Free(p, d, RecordOf(h)) /\ Alike(p, d, v) /\ (boxes => SameBox(p, d, v)) /\ View(d) = d
<1> DEFINE c == At(h, "config")
           rec == RecordOf(h)
           setup == c.setup \ rec.own
           user == c.user \ rec.own
           rest == Present(c) \ rec.own
           box == IF ~rec.box THEN c.box ELSE IF rest = {} THEN "no" ELSE "user"
           d == Without(h, c)
<1>1. c \in Config /\ View(c) = c /\ c = file[p]
  BY ConfigIs DEF At
<1>2. d = [c EXCEPT !.setup = setup, !.user = user, !.box = box]
  BY DEF Without
<1>3. Present(c) = c.setup \cup c.user
  BY <1>1 DEF Present
<1>4. p[1] = h /\ p[2] = "config" /\ p[2] \notin LinkName \cup Label
  BY DEF LinkName, Label
<1> HIDE DEF c, d, rec, setup, rest, box
<1>5. d.setup = setup /\ d.user = user /\ d.box = box /\ d.text = c.text /\ d.veto = c.veto /\ d.kind = "config"
  BY <1>1, <1>2 DEF Config
<1>6. View(d) = d
  BY <1>5 DEF View, NoFile
<1>7. c.user \cap rec.own = {}
  BY <1>1, <1>4 DEF Free, rec
<1> DEFINE w == View(v)
<1>8. c.user = w.user /\ c.text = w.text /\ c.veto = w.veto /\ ~Theirs(v)
  <2>1. ~Theirs(c)
    BY <1>1 DEF Config, Theirs
  <2> QED
    BY <1>1, <1>4, <2>1 DEF Alike, Theirs, Config
<1>9. user = c.user
  BY <1>7
<1> HIDE DEF user
<1>10. Free(p, d, rec)
  BY <1>4, <1>5, <1>6, <1>7, <1>9 DEF Free
<1>11. Alike(p, d, v)
  <2>1. ~Theirs(d)
    BY <1>5 DEF Theirs
  <2> QED
    BY <1>5, <1>6, <1>8, <1>9, <2>1 DEF Alike, w
<1>12. ASSUME boxes PROVE SameBox(p, d, v)
  <2>1. CASE ~rec.box
    <3>1. d.box = c.box
      BY <1>5, <2>1 DEF box
    <3> QED
      BY <1>1, <1>6, <1>12, <3>1 DEF SameBox
  <2>2. CASE rec.box
    <3>1. w.box = "setup"
      BY <1>12, <2>2 DEF rec, w
    <3>2. c.setup \subseteq rec.own
      BY <1>1, <1>4, <1>12 DEF Claim, Settled, rec
    <3>3. rest = w.user
      BY <1>3, <1>7, <1>8, <3>2 DEF rest
    <3>4. d.box = IF w.user = {} THEN "no" ELSE "user"
      BY <1>5, <2>2, <3>3 DEF box
    <3> QED
      BY <1>6, <3>1, <3>4 DEF SameBox, w
  <2> QED
    BY <2>1, <2>2
<1> QED
  BY <1>6, <1>10, <1>11, <1>12 DEF d, c, rec

LEMMA SparesEdit ==
    ASSUME StateInv, NEW x \in OpRecord, x.op = "edit", Can(x), NEW q, NEW r, Cons(q, x, r), Len(r) > 0,
           NEW b, b[Manifest] = file[Manifest], NEW changed, NEW boxes, Spares(q, file, b, changed, boxes),
           AllFree(file, file[Manifest]),
           \A p \in Files \ changed : Alike(p, file[p], b[p]) /\ (boxes => SameBox(p, file[p], b[p])),
           boxes => /\ Sound(file[Manifest]) /\ Tidy(b, file[Manifest])
                    /\ Claim(x.path, file[x.path], RecFor(file[Manifest], x.path[1])),
           NEW t, Cons(t, EditOp(x.path[1]), r)
    PROVE  Spares(t, file, b, changed, boxes) /\ Final(t) = Final(q)
<1> DEFINE m0 == file[Manifest]
           m == Final(r)
           h == x.path[1]
           e == EditOp(h)
           p == x.path
           d == Without(h, At(h, "config"))
<1>1. /\ Len(r) \in Nat /\ Final(q) = m
      /\ r[Len(r)].path = Manifest /\ r[Len(r)].op \in {"put", "unlink"} /\ Proper(m)
      /\ Minds(x, b, changed, boxes, m)
      /\ \A i \in 1..(Len(r) - 1) : Minds(r[i], b, changed, boxes, m)
      /\ \A y \in Files : \/ Leaves(y, file[y], changed, m0, m)
                          \/ p = y /\ x.op \in Writes
                          \/ \E i \in 1..(Len(r) - 1) : r[i].path = y /\ r[i].op \in Writes
  BY SparesFirst
<1>2. p \in Files /\ p[2] = "config" /\ RecFor(m, h) = NoRecord /\ RecFor(m0, h) # NoRecord
  BY <1>1 DEF Minds
<1>3. h \in Harness /\ p = <<h, "config">>
  BY <1>2, FilesAre, PathIs
<1>4. At(h, "config") # NoFile /\ RecordOf(h) = RecFor(m0, h) /\ RecordOf(h) # NoRecord
  BY <1>2, <1>3, RecForIs DEF Can, At
<1>5. Free(p, file[p], RecordOf(h))
  BY <1>2, <1>4 DEF AllFree
<1> HIDE DEF m, m0, h, e, p, d
<1>6. Free(p, d, RecordOf(h)) /\ View(d) = d
      /\ (p \notin changed => Alike(p, d, b[p]) /\ (boxes => SameBox(p, d, b[p])))
  <2>1. Free(p, d, RecordOf(h)) /\ View(d) = d
    <3>1. Alike(p, file[p], file[p])
      BY DEF Alike
    <3>2. Free(p, d, RecordOf(h)) /\ Alike(p, d, file[p]) /\ (FALSE => SameBox(p, d, file[p])) /\ View(d) = d
      BY <1>3, <1>4, <1>5, <3>1, WithoutMinds DEF d
    <3> QED
      BY <3>2
  <2>2. ASSUME p \notin changed PROVE Alike(p, d, b[p]) /\ (boxes => SameBox(p, d, b[p]))
    <3>1. Alike(p, file[p], b[p]) /\ (boxes => SameBox(p, file[p], b[p]))
      BY <1>2, <2>2
    <3>2. boxes => Claim(p, file[p], RecordOf(h))
      BY <1>4 DEF p, h, m0
    <3>3. boxes /\ RecordOf(h).box => View(b[p]).box = "setup"
      <4> SUFFICES ASSUME boxes, RecordOf(h).box PROVE View(b[p]).box = "setup"
        OBVIOUS
      <4>1. Sound(m0) /\ Claimed(p, b[p], RecFor(m0, p[1]))
        BY <1>2 DEF Tidy, m0
      <4>2. h # "hermes" /\ p[1] = h /\ RecFor(m0, h) # NoRecord /\ RecFor(m0, h).box
        BY <1>3, <1>4, <4>1 DEF Sound, h, p
      <4> QED
        BY <1>2, <4>1, <4>2 DEF Claimed
    <3>4. PICK v : v = b[p]
      OBVIOUS
    <3> QED
      BY <1>3, <1>4, <1>5, <3>1, <3>2, <3>3, <3>4, WithoutMinds DEF d
  <2> QED
    BY <2>1, <2>2
<1>7. e.path = p /\ e.op \in {"put", "unlink"} /\ View(Effect(e)) = d /\ ~Theirs(Effect(e))
  <2>1. e = Put(p, d) \/ (d = Empty /\ e = Op("unlink", p))
    BY <1>3 DEF EditOp, e, d
  <2>2. CASE e = Put(p, d)
    <3>1. d.kind = "config"
      <4>1. At(h, "config") \in Config
        BY <1>3, <1>4, ConfigIs
      <4> QED
        BY <4>1 DEF d, Without, Config
    <3> QED
      BY <1>6, <2>2, <3>1 DEF Put, Effect, Theirs
  <2>3. CASE d = Empty /\ e = Op("unlink", p)
    BY <2>3, FreeNothing DEF Op, Effect, View
  <2> QED
    BY <2>1, <2>2, <2>3
<1>8. Minds(e, b, changed, boxes, m)
  <2>1. p[2] \notin LinkName \cup Label
    BY <1>2 DEF LinkName, Label
  <2>2. Free(p, Effect(e), RecordOf(h))
    BY <1>6, <1>7, <2>1 DEF Free
  <2>3. Leaves(p, Effect(e), {}, m0, m)
    BY <1>2, FreeNothing DEF h, p
  <2>4. ASSUME p \notin changed PROVE Alike(p, Effect(e), b[p]) /\ (boxes => SameBox(p, Effect(e), b[p]))
    <3>1. Alike(p, d, b[p]) /\ (boxes => SameBox(p, d, b[p]))
      BY <1>6, <2>4
    <3>2. SameBox(p, d, b[p]) => SameBox(p, Effect(e), b[p])
      BY <1>6, <1>7 DEF SameBox
    <3>3. ~Theirs(b[p])
      <4>1. d.kind = "config"
        <5>1. At(h, "config") \in Config
          BY <1>3, <1>4, ConfigIs
        <5> QED
          BY <5>1 DEF d, Without, Config
      <4> QED
        BY <3>1, <4>1 DEF Alike, Theirs
    <3>4. Alike(p, Effect(e), b[p])
      BY <1>6, <1>7, <3>1, <3>3 DEF Alike
    <3> QED
      BY <3>1, <3>2, <3>4
  <2>5. p[1] = h /\ b[Manifest] = m0
    BY DEF h, p, m0
  <2> QED
    BY <1>2, <1>4, <1>7, <2>2, <2>3, <2>4, <2>5 DEF Minds
<1>9. /\ Len(t) = Len(r) + 1 /\ t[1] = e /\ \A i \in 1..Len(r) : t[i + 1] = r[i]
  BY DEF Cons, e, h
<1>10. t[Len(t)] = r[Len(r)]
  BY <1>1, <1>9
<1>11. Final(t) = m
  BY <1>10 DEF Final, m
<1>12. 1 \in 1..(Len(t) - 1) /\ \A i \in 1..(Len(r) - 1) : i + 1 \in 1..(Len(t) - 1) /\ t[i + 1] = r[i]
  BY <1>1, <1>9
<1>13. \A i \in 1..(Len(t) - 1) : i = 1 \/ (i - 1 \in 1..(Len(r) - 1) /\ t[i] = r[i - 1])
  BY <1>1, <1>9
<1>14. \A i \in 1..(Len(t) - 1) : Minds(t[i], b, changed, boxes, m)
  BY <1>1, <1>8, <1>9, <1>13
<1>15. ASSUME NEW y \in Files
       PROVE  \/ Leaves(y, file[y], changed, m0, m)
              \/ \E i \in 1..(Len(t) - 1) : t[i].path = y /\ t[i].op \in Writes
  <2>1. CASE p = y
    <3>1. t[1].path = y /\ t[1].op \in Writes
      BY <1>7, <1>9, <2>1 DEF Writes
    <3> QED
      BY <1>12, <3>1
  <2>2. CASE \E i \in 1..(Len(r) - 1) : r[i].path = y /\ r[i].op \in Writes
    <3>1. PICK i \in 1..(Len(r) - 1) : r[i].path = y /\ r[i].op \in Writes
      BY <2>2
    <3>2. i + 1 \in 1..(Len(t) - 1) /\ t[i + 1] = r[i]
      BY <1>12
    <3> QED
      BY <3>1, <3>2
  <2> QED
    BY <1>1, <2>1, <2>2
<1>16. b[Manifest] = m0 /\ Len(t) > 0
  BY <1>1, <1>9 DEF m0
<1> QED
  BY <1>1, <1>10, <1>11, <1>14, <1>15, <1>16 DEF Spares

-----------------------------------------------------------------------------
(* UserEntriesStay of one step of a command *)

LEMMA UserHeld ==
    ASSUME IInv, UserInv, NEW s \in Setup, proc[s].at # "idle"
    PROVE  ~broken /\ "undo" \notin killed => Respects(proc[s], file, raced, killed = {})
BY HeldIs DEF UserInv

\* A command has the lock after the step,
LEMMA UserGoOn ==
    ASSUME IInv, NEW s \in Setup, LockFree \/ Holds(s), NEW c,
           proc' = [proc EXCEPT ![s] = c], c.at \in {"snap", "work", "undo"},
           ~broken' /\ "undo" \notin killed' => Respects(c, file', raced', killed' = {})
    PROVE  UserInv'
<1>1. proc'[s] = c /\ \A t \in Setup \ {s} : proc'[t] = proc[t] /\ ~Holds(t)
  BY DEF IInv, LockInv, LockFree
<1>2. (\A t \in Setup : Holds(t)' => t = s) /\ Holds(s)'
  BY <1>1 DEF Holds
<1>3. ~LockFree'
  BY <1>2 DEF LockFree
<1> QED
  BY <1>1, <1>2, <1>3 DEF UserInv

\* or leaves it.
LEMMA UserEnd ==
    ASSUME IInv, NEW s \in Setup, Holds(s), Ends(s),
           ~broken' /\ "undo" \notin killed' => Proper(file'[Manifest]) /\ AllFree(file', file'[Manifest])
    PROVE  UserInv'
<1>1. proc'[s] = IdleProc /\ \A t \in Setup \ {s} : proc'[t] = proc[t] /\ ~Holds(t)
  BY DEF IInv, LockInv, Ends
<1>2. \A t \in Setup : ~Holds(t)'
  BY <1>1, IdleIs DEF Holds
<1> QED
  BY <1>2 DEF UserInv

LEMMA UserKept ==
    ASSUME UserInv, UNCHANGED <<file, proc, raced, killed, broken>>
    PROVE  UserInv'
BY DEF UserInv, Holds, LockFree

LEMMA AlikeIs ==
    /\ \A p, v : Alike(p, v, v) /\ SameBox(p, v, v)
    /\ \A Q, m : Keeping(Q, m, m)
<1>1. \A p, v : Alike(p, v, v) /\ SameBox(p, v, v)
  BY DEF Alike, SameBox
<1>2. \A Q, m : Keeping(Q, m, m)
  BY DEF Keeping, Keep, Own
<1> QED
  BY <1>1, <1>2

LEMMA UserBegin ==
    ASSUME IInv, TidyInv, UserInv, NEW s \in Setup, Begin(s)
    PROVE  UserInv'
<1>1. PICK cmd \in {"apply", "remove"}, set \in SUBSET Harness \ {{}}, unload \in BOOLEAN :
        /\ Chosen(cmd, set, unload)
        /\ Begun(cmd, set).todo # << >>
        /\ proc' = [proc EXCEPT ![s] = Begun(cmd, set)]
  BY DEF Begin
<1>2. LockFree /\ raced' = {} /\ UNCHANGED <<file, killed, broken>> /\ StateInv
  BY DEF Begin, IInv
<1> DEFINE todo == IF cmd = "apply" THEN ApplyOps(set) ELSE RemoveOps(set)
           paths == IF cmd = "apply" THEN ApplyPaths(set) ELSE RemovePaths(set)
           base == <<file, loaded>>
           c == Begun(cmd, set)
<1>3. c.at = "snap" /\ c.base = base /\ c.todo = todo /\ c.paths = paths /\ base[1] = file
  BY DEF Begun, IdleProc
<1>4. ASSUME "undo" \notin killed, ~broken, NEW boxes, boxes <=> killed = {}
      PROVE  Respects(c, file, {}, boxes)
  <2>1. Proper(file[Manifest]) /\ AllFree(file, file[Manifest])
    BY <1>2, <1>4 DEF UserInv
  <2>2. boxes => Sound(file[Manifest]) /\ Tidy(file, file[Manifest])
    BY <1>2, <1>4 DEF TidyInv
  <2>3. Spares(todo, file, file, {}, boxes) /\ Keeping(Elems(paths), file[Manifest], Final(todo))
    <3>1. CASE cmd = "apply"
      <4>1. todo = ApplyOps(set) /\ paths = ApplyPaths(set) /\ ApplyOps(set) # << >> /\ ApplyChecks(set)
        BY <1>1, <1>3, <3>1 DEF Chosen
      <4> QED
        BY <1>2, <2>1, <4>1, ApplySpares
    <3>2. CASE cmd # "apply"
      <4>1. todo = RemoveOps(set) /\ paths = RemovePaths(set) /\ RemoveOps(set) # << >>
        BY <1>1, <1>3, <3>2
      <4> QED
        BY <1>2, <2>1, <4>1, RemoveSpares
    <3> QED
      BY <3>1, <3>2
  <2> HIDE DEF todo, paths, base, c
  <2> QED
    BY <1>3, <2>1, <2>2, <2>3, AlikeIs DEF Respects
<1> HIDE DEF c, todo, paths, base
<1>5. proc' = [proc EXCEPT ![s] = c] /\ c.at \in {"snap", "work", "undo"}
  BY <1>1, <1>3 DEF c
<1>6. ~broken' /\ "undo" \notin killed' => Respects(c, file', raced', killed' = {})
  <2>1. PICK boxes \in BOOLEAN : boxes <=> killed = {}
    OBVIOUS
  <2>2. ~broken /\ "undo" \notin killed => Respects(c, file, {}, boxes)
    BY <1>4, <2>1
  <2>3. boxes = (killed' = {})
    BY <1>2, <2>1
  <2> QED
    BY <1>2, <2>2, <2>3
<1> QED
  BY <1>2, <1>5, <1>6, UserGoOn

LEMMA SparesTouched ==
    ASSUME NEW c, NEW f, NEW b, NEW changed, NEW boxes, NEW Q, c.todo \in Seq(OpsOn(Q)),
           Spares(c.todo, f, b, changed, boxes)
    PROVE  Manifest \in Q
<1> DEFINE q == c.todo
           n == Len(q)
<1>1. n \in Nat /\ n > 0 /\ q[n].path = Manifest /\ q[n].op \in {"put", "unlink"}
  BY DEF Spares
<1>2. q[n] \in OpsOn(Q)
  BY <1>1
<1> QED
  BY <1>1, <1>2 DEF OpsOn, Writes

LEMMA UserSnapshot ==
    ASSUME IInv, UserInv, NEW s \in Setup, Snapshot(s)
    PROVE  UserInv'
<1> DEFINE p == proc[s]
           saved == [i \in DOMAIN p.paths |-> file[p.paths[i]]]
           c == [p EXCEPT !.at = "work", !.saved = saved]
           m == p.base[1][Manifest]
           b == p.base[1]
<1>1. p.at = "snap" /\ UNCHANGED <<file, raced, killed, broken>> /\ proc' = [proc EXCEPT ![s] = c]
  BY DEF Snapshot, ghosts
<1>2. p \in Proc /\ Holds(s) /\ Keeps(p, file, loaded, raced)
  BY <1>1, HeldIs
<1>3. c.at = "work" /\ c.base = p.base /\ c.todo = p.todo /\ c.paths = p.paths /\ c.saved = saved
  BY <1>2 DEF Proc
<1>4. p.paths \in Seq(Path) /\ p.todo \in Seq(OpsOn(Elems(p.paths)))
  BY <1>2 DEF Proc, Keeps
<1>5. \A i \in DOMAIN p.paths : p.paths[i] \in Path /\ saved[i] = file[p.paths[i]]
  BY <1>4
<1>6. ~broken /\ "undo" \notin killed => Respects(p, file, raced, killed = {})
  BY <1>1, UserHeld
<1> HIDE DEF c, p, saved
<1>7. ASSUME NEW boxes, Respects(p, file, raced, boxes) PROVE Respects(c, file, raced, boxes)
  <2>1. /\ Proper(m) /\ (boxes => Sound(m) /\ Tidy(b, m))
        /\ \A q \in Files \ raced : Alike(q, file[q], b[q]) /\ (boxes => SameBox(q, file[q], b[q]))
        /\ file[Manifest] = m /\ AllFree(file, m) /\ Spares(p.todo, file, b, raced, boxes)
        /\ Keeping(Elems(p.paths), m, Final(p.todo))
    BY <1>1, <1>7 DEF Respects
  <2>2. Manifest \in Elems(p.paths)
    BY <1>4, <2>1, SparesTouched
  <2> HIDE DEF m, b
  <2>3. \E i \in DOMAIN p.paths : p.paths[i] = Manifest /\ saved[i] = m
    BY <1>5, <2>1, <2>2 DEF Elems
  <2>4. \A i \in DOMAIN p.paths : p.paths[i] # Manifest =>
          Free(p.paths[i], saved[i], RecFor(m, p.paths[i][1]))
    BY <1>5, <2>1 DEF AllFree, Files
  <2>5. \A q \in Files \ Elems(p.paths) : Free(q, file[q], RecFor(m, q[1]))
    BY <2>1 DEF AllFree
  <2> QED
    BY <1>3, <2>1, <2>3, <2>4, <2>5, AlikeIs DEF Respects, m, b
<1>8. ~broken' /\ "undo" \notin killed' => Respects(c, file', raced', killed' = {})
  BY <1>1, <1>6, <1>7
<1> QED
  BY <1>1, <1>2, <1>3, <1>8, UserGoOn

\* The first operation of a command, and the rest.
LEMMA FirstOf ==
    ASSUME IInv, NEW s \in Setup, proc[s].at = "work"
    PROVE  LET p == proc[s]
               x == Head(p.todo)
               r == Tail(p.todo)
           IN  /\ p \in Proc /\ Holds(s) /\ StateInv
               /\ x \in OpRecord /\ r \in Seq(OpRecord) /\ Len(r) \in Nat /\ Cons(p.todo, x, r)
               /\ x.op = "edit" => NewFile(x) = file
               /\ x.op = "edit" /\ Can(x) => EditOp(x.path[1]) \in OpRecord
               /\ \A q \in Files \ Elems(p.paths) : NewFile(x)[q] = file[q]
<1> DEFINE p == proc[s]
           x == Head(p.todo)
           r == Tail(p.todo)
<1>1. p \in Proc /\ Holds(s) /\ StateInv
  BY HeldIs DEF IInv
<1>2. /\ p.todo # << >> /\ x \in OpsOn(Elems(p.paths))
      /\ x.op = "edit" => NewFile(x) = file
      /\ x.op = "edit" /\ Can(x) => EditOp(x.path[1]) \in OpsOn(Elems(p.paths))
      /\ \A q \in Path \ Elems(p.paths) : NewFile(x)[q] = file[q]
  BY OperationIs
<1>3. p.todo \in Seq(OpRecord)
  BY <1>1 DEF Proc
<1>4. x \in OpRecord /\ r \in Seq(OpRecord) /\ Cons(p.todo, x, r)
  BY <1>2, <1>3, FirstIs, TailCons
<1>5. \A o \in OpsOn(Elems(p.paths)) : o \in OpRecord
  BY DEF OpsOn
<1> HIDE DEF x, r, p
<1>6. \A q \in Files \ Elems(p.paths) : NewFile(x)[q] = file[q]
  BY <1>2 DEF Files
<1>7. Len(r) \in Nat
  BY <1>4
<1> QED
  BY <1>1, <1>2, <1>4, <1>5, <1>6, <1>7 DEF p, x, r

\* After an operation the command goes on or rolls back.
LEMMA RespectsNext ==
    ASSUME IInv, NEW s \in Setup, proc[s].at = "work", Head(proc[s].todo).op # "edit",
           NEW boxes, Respects(proc[s], file, raced, boxes),
           NEW c, c.base = proc[s].base, c.paths = proc[s].paths, c.saved = proc[s].saved,
           c.at = "undo" \/ (c.at = "work" /\ c.todo = Tail(proc[s].todo) /\ Len(c.todo) > 0)
    PROVE  Respects(c, NewFile(Head(proc[s].todo)), raced, boxes)
<1> DEFINE p == proc[s]
           q == p.todo
           x == Head(q)
           r == Tail(q)
           f == NewFile(x)
           b == p.base[1]
           m == b[Manifest]
           Q == Elems(p.paths)
<1>1. /\ x \in OpRecord /\ Len(r) \in Nat /\ Cons(q, x, r) /\ StateInv
      /\ \A y \in Files \ Q : f[y] = file[y]
  BY FirstOf
<1>2. /\ Proper(m) /\ (boxes => Sound(m) /\ Tidy(b, m))
      /\ \A y \in Files \ raced : Alike(y, file[y], b[y]) /\ (boxes => SameBox(y, file[y], b[y]))
      /\ file[Manifest] = m /\ AllFree(file, m) /\ Spares(q, file, b, raced, boxes)
      /\ Keeping(Q, m, Final(q))
      /\ \A i \in DOMAIN p.paths : p.paths[i] # Manifest =>
           Free(p.paths[i], p.saved[i], RecFor(m, p.paths[i][1]))
      /\ \E i \in DOMAIN p.paths : p.paths[i] = Manifest /\ p.saved[i] = m
      /\ \A y \in Files \ Q : Free(y, file[y], RecFor(m, y[1]))
  BY DEF Respects
<1>3. /\ x.op # "edit" /\ (c.at = "work" => c.todo = r /\ Len(r) > 0) /\ c.at \in {"work", "undo"}
      /\ c.base[1] = b /\ b[Manifest] = m /\ c.paths = p.paths /\ c.saved = p.saved /\ Elems(p.paths) = Q
  OBVIOUS
<1> HIDE DEF p, q, x, r, f, b, m, Q
<1>4. \A y \in Files \ Q : Free(y, f[y], RecFor(m, y[1]))
  BY <1>1, <1>2
<1>5. ASSUME Len(r) > 0 PROVE Respects(c, f, raced, boxes)
  <2>1. /\ Spares(r, f, b, raced, boxes) /\ Final(r) = Final(q) /\ f[Manifest] = file[Manifest]
        /\ \A y \in Files : f[y] # file[y] =>
             /\ Free(y, f[y], RecFor(m, y[1]))
             /\ y \notin raced => Alike(y, f[y], b[y]) /\ (boxes => SameBox(y, f[y], b[y]))
    BY <1>1, <1>2, <1>3, <1>5, SparesNext DEF f, m
  <2>2. AllFree(f, m)
    BY <1>2, <2>1 DEF AllFree
  <2>3. \A y \in Files \ raced : Alike(y, f[y], b[y]) /\ (boxes => SameBox(y, f[y], b[y]))
    BY <1>2, <2>1
  <2>4. f[Manifest] = m /\ Keeping(Q, m, f[Manifest]) /\ Keeping(Q, m, Final(r))
    BY <1>2, <2>1, AlikeIs
  <2> QED
    BY <1>2, <1>3, <1>4, <2>1, <2>2, <2>3, <2>4 DEF Respects
<1>6. ASSUME Len(r) = 0 PROVE Respects(c, f, raced, boxes)
  <2>1. (\A y \in Files : f[y] = file[y]) /\ f[Manifest] = Final(q)
    BY <1>1, <1>2, <1>6, SparesEnd DEF f
  <2>2. c.at = "undo"
    BY <1>3, <1>6
  <2>3. \A y \in Files \ raced : Alike(y, f[y], b[y]) /\ (boxes => SameBox(y, f[y], b[y]))
    BY <1>2, <2>1
  <2>4. Keeping(Q, m, f[Manifest])
    BY <1>2, <2>1
  <2>5. c.at \notin {"snap", "work"}
    BY <2>2
  <2> QED
    BY <1>2, <1>3, <1>4, <2>3, <2>4, <2>5 DEF Respects
<1>7. Respects(c, f, raced, boxes)
  BY <1>1, <1>5, <1>6
<1> QED
  BY <1>7 DEF f, x, q, p

\* A command that turns back has changed nothing more.
LEMMA RespectsBack ==
    ASSUME NEW p, p.at = "work", NEW f, NEW changed, NEW boxes, Respects(p, f, changed, boxes),
           NEW c, c.base = p.base, c.paths = p.paths, c.saved = p.saved, c.at = "undo"
    PROVE  Respects(c, f, changed, boxes)
<1> DEFINE b == p.base[1]
           m == b[Manifest]
           Q == Elems(p.paths)
<1>1. /\ Proper(m) /\ (boxes => Sound(m) /\ Tidy(b, m))
      /\ \A y \in Files \ changed : Alike(y, f[y], b[y]) /\ (boxes => SameBox(y, f[y], b[y]))
      /\ \A i \in DOMAIN p.paths : p.paths[i] # Manifest =>
           Free(p.paths[i], p.saved[i], RecFor(m, p.paths[i][1]))
      /\ \E i \in DOMAIN p.paths : p.paths[i] = Manifest /\ p.saved[i] = m
      /\ \A y \in Files \ Q : Free(y, f[y], RecFor(m, y[1]))
      /\ Keeping(Q, m, f[Manifest])
  BY DEF Respects
<1> QED
  BY <1>1 DEF Respects

LEMMA UserWork ==
    ASSUME IInv, TidyInv, UserInv, NEW s \in Setup, Step(s)
    PROVE  UserInv'
<1> DEFINE p == proc[s]
           x == Head(p.todo)
           r == Tail(p.todo)
           b == p.base[1]
           m == b[Manifest]
<1>1. p.at = "work" /\ UNCHANGED <<raced, killed, broken>>
  BY DEF Step, ghosts
<1>2. /\ p \in Proc /\ Holds(s) /\ StateInv
      /\ x \in OpRecord /\ r \in Seq(OpRecord) /\ Len(r) \in Nat /\ Cons(p.todo, x, r)
      /\ x.op = "edit" => NewFile(x) = file
      /\ x.op = "edit" /\ Can(x) => EditOp(x.path[1]) \in OpRecord
  BY <1>1, FirstOf
<1>6. Len(r) \in Nat
  BY <1>2
<1>3. ~broken /\ "undo" \notin killed => Respects(p, file, raced, killed = {})
  BY <1>1, UserHeld
<1>4. CASE ~Can(x)
  <2> DEFINE c == [p EXCEPT !.at = "undo", !.left = Len(p.paths)]
  <2>1. proc' = [proc EXCEPT ![s] = c] /\ UNCHANGED file
    BY <1>4 DEF Step
  <2>2. c.at = "undo" /\ c.paths = p.paths /\ c.saved = p.saved /\ c.base = p.base
    BY <1>2 DEF Proc
  <2> HIDE DEF c, p, x, r
  <2>3. ~broken' /\ "undo" \notin killed' => Respects(c, file', raced', killed' = {})
    BY <1>1, <1>3, <2>1, <2>2, RespectsBack
  <2> QED
    BY <1>1, <1>2, <2>1, <2>2, <2>3, UserGoOn
<1>5. CASE Can(x)
  <2>1. /\ file' = NewFile(x)
        /\ IF x.op = "edit"
           THEN proc' = [proc EXCEPT ![s].todo = <<EditOp(x.path[1])>> \o r]
           ELSE IF r = << >> THEN Ends(s)
           ELSE proc' = [proc EXCEPT ![s].todo = r, ![s].external = @ \/ IsLoaded(x)]
    BY <1>5 DEF Step
  <2>2. CASE Len(r) = 0 /\ x.op # "edit"
    <3>1. Ends(s)
      <4>1. r = << >>
        BY <1>2, <2>2, EmptySeq
      <4> QED
        BY <2>1, <2>2, <4>1
    <3>2. ~broken /\ "undo" \notin killed => Spares(p.todo, file, b, raced, killed = {})
      BY <1>1, <1>3 DEF Respects
    <3> HIDE DEF p, x, r, b, m
    <3>3. ~broken' /\ "undo" \notin killed' => Proper(file'[Manifest]) /\ AllFree(file', file'[Manifest])
      BY <1>1, <1>2, <2>1, <2>2, <3>2, SparesEnd
    <3> QED
      BY <1>2, <3>1, <3>3, UserEnd
  <2>3. CASE Len(r) > 0 /\ x.op # "edit"
    <3> DEFINE external == p.external \/ IsLoaded(x)
               c == [p EXCEPT !.todo = r, !.external = external]
    <3>1. r # << >>
      <4> HIDE DEF r, x
      <4>1. Len(r) # 0
        BY <1>6, <2>3
      <4> QED
        BY <1>2, <4>1, EmptySeq
    <3>2. proc' = [proc EXCEPT ![s] = c]
      BY <2>1, <2>3, <3>1
    <3>3. c.at = "work" /\ c.base = p.base /\ c.paths = p.paths /\ c.saved = p.saved /\ c.todo = r
      BY <1>1, <1>2 DEF Proc
    <3> HIDE DEF c, external
    <3>4. ASSUME NEW boxes, Respects(p, file, raced, boxes) PROVE Respects(c, NewFile(x), raced, boxes)
      BY <1>1, <2>3, <3>3, <3>4, RespectsNext
    <3> HIDE DEF p, x, r
    <3>5. ~broken' /\ "undo" \notin killed' => Respects(c, file', raced', killed' = {})
      BY <1>1, <1>3, <2>1, <3>4
    <3> QED
      BY <1>1, <1>2, <3>2, <3>3, <3>5, UserGoOn
  <2>4. CASE x.op = "edit"
    <3> DEFINE e == EditOp(x.path[1])
               todo == <<e>> \o r
               c == [p EXCEPT !.todo = todo]
    <3>1. proc' = [proc EXCEPT ![s] = c]
      BY <2>1, <2>4
    <3>2. e \in OpRecord
      BY <1>2, <1>5, <2>4
    <3> HIDE DEF e
    <3>3. Cons(todo, e, r)
      BY <1>2, <3>2, PushCons
    <3>4. c.at = "work" /\ c.base = p.base /\ c.paths = p.paths /\ c.saved = p.saved /\ c.todo = todo
      BY <1>1, <1>2 DEF Proc
    <3>5. ASSUME killed = {}, ~broken PROVE Claim(x.path, file[x.path], RecFor(m, x.path[1]))
      <4>1. Leads(p.todo, file, m)
        BY <1>1, <3>5, TidyHeld DEF Accounted
      <4> HIDE DEF p, x, r, m
      <4>2. Len(r) > 0
        BY <1>2, <2>4, <4>1, LeadsEnd
      <4>3. FitsIn(x, file, m, Final(r))
        BY <1>2, <4>1, <4>2, LeadsFirst
      <4> QED
        BY <2>4, <4>3 DEF FitsIn
    <3>6. ASSUME ~broken, "undo" \notin killed PROVE Respects(c, file, raced, killed = {})
      <4>1. PICK boxes \in BOOLEAN : boxes = (killed = {})
        OBVIOUS
      <4>2. /\ Proper(m) /\ (boxes => Sound(m) /\ Tidy(b, m))
            /\ \A y \in Files \ raced : Alike(y, file[y], b[y]) /\ (boxes => SameBox(y, file[y], b[y]))
            /\ file[Manifest] = m /\ AllFree(file, m) /\ Spares(p.todo, file, b, raced, boxes)
            /\ Keeping(Elems(p.paths), m, Final(p.todo))
            /\ \A i \in DOMAIN p.paths : p.paths[i] # Manifest =>
                 Free(p.paths[i], p.saved[i], RecFor(m, p.paths[i][1]))
            /\ \E i \in DOMAIN p.paths : p.paths[i] = Manifest /\ p.saved[i] = m
            /\ \A y \in Files \ Elems(p.paths) : Free(y, file[y], RecFor(m, y[1]))
            /\ Keeping(Elems(p.paths), m, file[Manifest])
        BY <1>1, <1>3, <3>6, <4>1 DEF Respects
      <4>3. boxes => Claim(x.path, file[x.path], RecFor(m, x.path[1]))
        BY <3>5, <3>6, <4>1
      <4>4. m = b[Manifest]
        OBVIOUS
      <4> HIDE DEF p, x, r, b, m, c, todo
      <4>5. Len(r) > 0
        BY <1>2, <2>4, <4>2, SparesEnd
      <4>6. Spares(todo, file, b, raced, boxes) /\ Final(todo) = Final(p.todo)
        BY <1>2, <1>5, <2>4, <3>3, <4>2, <4>3, <4>4, <4>5, SparesEdit DEF e
      <4>7. Respects(c, file, raced, boxes)
        BY <3>4, <4>2, <4>6 DEF Respects, b, m
      <4> QED
        BY <4>1, <4>7
    <3> HIDE DEF p, x, r, b, m, c, todo
    <3>7. file' = file
      BY <1>2, <2>1, <2>4
    <3>8. ~broken' /\ "undo" \notin killed' => Respects(c, file', raced', killed' = {})
      BY <1>1, <3>6, <3>7
    <3> QED
      BY <1>1, <1>2, <3>1, <3>4, <3>8, UserGoOn
  <2> HIDE DEF p, x, r, m, b
  <2> QED
    BY <1>2, <2>2, <2>3, <2>4
<1> QED
  BY <1>4, <1>5

LEMMA UserFault ==
    ASSUME IInv, UserInv, NEW s \in Setup, Fault(s)
    PROVE  UserInv'
<1> DEFINE p == proc[s]
           x == Head(p.todo)
<1>1. PICK tried \in BOOLEAN :
        /\ file' = file \/ file' = NewFile(x)
        /\ proc' = [proc EXCEPT ![s].at = "undo", ![s].left = Len(proc[s].paths),
                                ![s].external = @ \/ (tried /\ IsLoaded(x))]
  BY DEF Fault
<1>2. p.at = "work" /\ UNCHANGED <<raced, killed, broken>>
  BY DEF Fault, ghosts, Trouble, Spend
<1>3. p \in Proc /\ Holds(s) /\ (x.op = "edit" => NewFile(x) = file)
  BY <1>2, FirstOf
<1>4. ~broken /\ "undo" \notin killed => Respects(p, file, raced, killed = {})
  BY <1>2, UserHeld
<1> DEFINE external == p.external \/ (tried /\ IsLoaded(x))
           c == [p EXCEPT !.at = "undo", !.left = Len(p.paths), !.external = external]
<1>5. proc' = [proc EXCEPT ![s] = c]
  BY <1>1
<1>6. c.at = "undo" /\ c.base = p.base /\ c.paths = p.paths /\ c.saved = p.saved
  BY <1>3 DEF Proc
<1> HIDE DEF c
<1>7. ASSUME NEW boxes, Respects(p, file, raced, boxes) PROVE Respects(c, file', raced, boxes)
  <2>1. Respects(c, file, raced, boxes)
    BY <1>2, <1>6, <1>7, RespectsBack
  <2>2. x.op # "edit" => Respects(c, NewFile(x), raced, boxes)
    BY <1>2, <1>6, <1>7, RespectsNext
  <2> HIDE DEF p, x
  <2> QED
    BY <1>1, <1>3, <2>1, <2>2
<1> HIDE DEF p, x, external
<1>8. ~broken' /\ "undo" \notin killed' => Respects(c, file', raced', killed' = {})
  BY <1>2, <1>4, <1>7
<1> QED
  BY <1>2, <1>3, <1>5, <1>6, <1>8, UserGoOn

LEMMA UserUndo ==
    ASSUME IInv, TidyInv, UserInv, NEW s \in Setup, Undo(s)
    PROVE  UserInv'
<1> DEFINE p == proc[s]
           n == p.left
           path == p.paths[n]
           c == [p EXCEPT !.left = n - 1]
           b == p.base[1]
           m == b[Manifest]
<1>1. /\ p.at = "undo" /\ n > 0 /\ UNCHANGED <<raced, killed>>
      /\ proc' = [proc EXCEPT ![s] = c]
      /\ broken' \/ (file' = [file EXCEPT ![path] = p.saved[n]] /\ broken' = broken)
  BY DEF Undo
<1>2. p \in Proc /\ Holds(s) /\ file \in [Path -> Value] /\ Keeps(p, file, loaded, raced)
  BY <1>1, HeldIs DEF IInv, StateInv
<1>3. Manifest \notin raced
  BY DEF TidyInv
<1>4. n \in DOMAIN p.paths /\ path \in Elems(p.paths) /\ path \in Path
  <2>1. n \in 0..Len(p.paths) /\ p.paths \in Seq(Path)
    BY <1>2 DEF Keeps, Proc
  <2>2. n \in DOMAIN p.paths
    BY <1>1, <2>1
  <2> QED
    BY <2>1, <2>2 DEF Elems
<1>5. path \notin raced => p.saved[n] = b[path]
  BY <1>1, <1>2, <1>4 DEF Keeps
<1>6. c.at = "undo" /\ c.base = p.base /\ c.paths = p.paths /\ c.saved = p.saved
  BY <1>1, <1>2 DEF Proc
<1>7. ~broken /\ "undo" \notin killed => Respects(p, file, raced, killed = {})
  BY <1>1, UserHeld
<1> HIDE DEF c, p, path, n
<1>8. ASSUME NEW boxes, Respects(p, file, raced, boxes), file' = [file EXCEPT ![path] = p.saved[n]]
      PROVE  Respects(c, file', raced, boxes)
  <2>1. /\ Proper(m) /\ (boxes => Sound(m) /\ Tidy(b, m))
        /\ \A q \in Files \ raced : Alike(q, file[q], b[q]) /\ (boxes => SameBox(q, file[q], b[q]))
        /\ \A i \in DOMAIN p.paths : p.paths[i] # Manifest =>
             Free(p.paths[i], p.saved[i], RecFor(m, p.paths[i][1]))
        /\ \E i \in DOMAIN p.paths : p.paths[i] = Manifest /\ p.saved[i] = m
        /\ \A q \in Files \ Elems(p.paths) : Free(q, file[q], RecFor(m, q[1]))
        /\ Keeping(Elems(p.paths), m, file[Manifest])
    BY <1>1, <1>8 DEF Respects
  <2>2. file'[path] = p.saved[n] /\ \A q \in Path \ {path} : file'[q] = file[q]
    BY <1>2, <1>4, <1>8
  <2>3. Manifest \in Path /\ Files \subseteq Path
    BY FilesAre, PathsAre
  <2> HIDE DEF b
  <2>4. Keeping(Elems(p.paths), m, file'[Manifest])
    <3>1. CASE path = Manifest
      <4>1. file'[Manifest] = m
        BY <1>3, <1>5, <2>2, <3>1
      <4> HIDE DEF m
      <4> QED
        BY <4>1, AlikeIs
    <3>2. CASE path # Manifest
      <4>1. file'[Manifest] = file[Manifest]
        BY <2>2, <2>3, <3>2
      <4> QED
        BY <2>1, <4>1
    <3> QED
      BY <3>1, <3>2
  <2>5. \A q \in Files \ raced : Alike(q, file'[q], b[q]) /\ (boxes => SameBox(q, file'[q], b[q]))
    <3> TAKE q \in Files \ raced
    <3>1. CASE q = path
      <4>1. file'[q] = b[q]
        BY <1>5, <2>2, <3>1
      <4> QED
        BY <4>1, AlikeIs
    <3>2. CASE q # path
      <4>1. file'[q] = file[q]
        BY <2>2, <2>3, <3>2
      <4> QED
        BY <2>1, <4>1
    <3> QED
      BY <3>1, <3>2
  <2>6. \A q \in Files \ Elems(p.paths) : file'[q] = file[q]
    BY <1>4, <2>2, <2>3
  <2> HIDE DEF m
  <2>7. \A q \in Files \ Elems(p.paths) : Free(q, file'[q], RecFor(m, q[1]))
    BY <2>1, <2>6
  <2> QED
    BY <1>6, <2>1, <2>4, <2>5, <2>7 DEF Respects, m, b
<1> HIDE DEF m, b
<1>9. ~broken' /\ "undo" \notin killed' => Respects(c, file', raced', killed' = {})
  BY <1>1, <1>7, <1>8
<1>10. proc' = [proc EXCEPT ![s] = c] /\ c.at \in {"snap", "work", "undo"}
  BY <1>1, <1>6
<1> QED
  BY <1>2, <1>9, <1>10, UserGoOn

LEMMA UserReport ==
    ASSUME IInv, UserInv, NEW s \in Setup, Report(s) \/ Kill(s)
    PROVE  UserInv'
<1> DEFINE p == proc[s]
           b == p.base[1]
           m == b[Manifest]
<1>1. p.at # "idle" /\ Ends(s) /\ UNCHANGED <<file, raced>>
  BY DEF Report, Kill
<1>2. Holds(s) /\ p.at \in {"snap", "work", "undo"}
  BY <1>1, HeldIs DEF Holds
<1>3. ~broken /\ "undo" \notin killed => Respects(p, file, raced, killed = {})
  BY <1>1, UserHeld
<1>4. CASE Report(s)
  <2>1. p.at = "undo" /\ broken' = (broken \/ ~Restored(s)) /\ killed' = killed
    BY <1>4 DEF Report
  <2>2. ASSUME ~broken, Restored(s), "undo" \notin killed
        PROVE  Proper(file[Manifest]) /\ AllFree(file, file[Manifest])
    <3>1. /\ Proper(m)
          /\ \A i \in DOMAIN p.paths : p.paths[i] # Manifest =>
               Free(p.paths[i], p.saved[i], RecFor(m, p.paths[i][1]))
          /\ \E i \in DOMAIN p.paths : p.paths[i] = Manifest /\ p.saved[i] = m
          /\ \A q \in Files \ Elems(p.paths) : Free(q, file[q], RecFor(m, q[1]))
      BY <1>3, <2>1, <2>2 DEF Respects
    <3>2. \A i \in DOMAIN p.paths : file[p.paths[i]] = p.saved[i]
      BY <2>2 DEF Restored
    <3> HIDE DEF p, m, b
    <3>3. file[Manifest] = m
      BY <3>1, <3>2
    <3>4. ASSUME NEW q \in Files PROVE Free(q, file[q], RecFor(m, q[1]))
      <4>1. CASE q \in Elems(p.paths)
        <5>1. PICK i \in DOMAIN p.paths : p.paths[i] = q
          BY <4>1 DEF Elems
        <5>2. q # Manifest
          BY FilesAre
        <5> QED
          BY <3>1, <3>2, <5>1, <5>2
      <4>2. CASE q \notin Elems(p.paths)
        BY <3>1, <4>2
      <4> QED
        BY <4>1, <4>2
    <3> QED
      BY <3>1, <3>3, <3>4 DEF AllFree
  <2>3. ~broken' /\ "undo" \notin killed' => Proper(file'[Manifest]) /\ AllFree(file', file'[Manifest])
    <3> HIDE DEF p, m, b
    <3> QED
      BY <1>1, <2>1, <2>2
  <2> QED
    BY <1>1, <1>2, <2>3, UserEnd
<1>5. CASE Kill(s)
  <2>1. broken' = broken /\ killed' = killed \cup ({p.at} \ {"snap"})
    BY <1>5 DEF Kill
  <2>2. ASSUME ~broken, "undo" \notin killed'
        PROVE  Proper(file[Manifest]) /\ AllFree(file, file[Manifest])
    <3>1. p.at \in {"snap", "work"} /\ "undo" \notin killed
      BY <1>2, <2>1, <2>2
    <3>2. Proper(m) /\ file[Manifest] = m /\ AllFree(file, m)
      BY <1>3, <2>2, <3>1 DEF Respects
    <3> HIDE DEF m
    <3> QED
      BY <3>2
  <2>3. ~broken' /\ "undo" \notin killed' => Proper(file'[Manifest]) /\ AllFree(file', file'[Manifest])
    BY <1>1, <2>1, <2>2
  <2> QED
    BY <1>1, <1>2, <2>3, UserEnd
<1> QED
  BY <1>4, <1>5

-----------------------------------------------------------------------------
(* UserEntriesStay and the steps of the user, the package and the launcher *)

\* An edit puts nothing of the user where a manifest claims it, be it the one there is or
\* the one that is to be.
LEMMA UserEdits ==
    ASSUME IInv, UserInv, NEW p \in Files, NEW v, file' = [file EXCEPT ![p] = v],
           ~LockFree => raced' = raced \cup {p}, UNCHANGED <<proc, killed, broken>>,
           \A m : Keep(p, m, file[Manifest]) /\ Free(p, file[p], RecFor(m, p[1])) =>
                Free(p, v, RecFor(m, p[1])),
           \A m : ~LockFree /\ Leaves(p, file[p], raced, file[Manifest], m) => Free(p, v, RecFor(m, p[1]))
    PROVE  UserInv'
<1>1. /\ file'[p] = v /\ \A q \in Path \ {p} : file'[q] = file[q]
      /\ Manifest \in Path \ {p} /\ \A q \in Files \ {p} : q \in Path \ {p}
  BY FilesAre, PathsAre DEF IInv, StateInv
<1>2. file'[Manifest] = file[Manifest]
  BY <1>1
<1>3. (\A s \in Setup : Holds(s)' <=> Holds(s)) /\ (LockFree' <=> LockFree)
  BY DEF Holds, LockFree
<1>4. ASSUME NEW m, m = file[Manifest], AllFree(file, m) PROVE AllFree(file', m)
  <2>1. Keep(p, m, file[Manifest])
    BY <1>4 DEF Keep, Own
  <2>2. Free(p, v, RecFor(m, p[1]))
    BY <1>4, <2>1 DEF AllFree
  <2> QED
    BY <1>1, <1>4, <2>2 DEF AllFree
<1>5. ASSUME ~LockFree, NEW q, NEW b, b[Manifest] = file[Manifest], NEW boxes, Spares(q, file, b, raced, boxes)
      PROVE  Spares(q, file', b, raced', boxes)
  <2>1. \A o, m : Minds(o, b, raced, boxes, m) => Minds(o, b, raced', boxes, m)
    BY <1>5 DEF Minds
  <2>2. ASSUME NEW m, NEW y \in Files, Leaves(y, file[y], raced, file[Manifest], m)
        PROVE  Leaves(y, file'[y], raced', file[Manifest], m)
    <3>1. CASE y = p
      <4>1. Free(p, v, RecFor(m, p[1]))
        BY <1>5, <2>2, <3>1
      <4> QED
        BY <1>1, <1>5, <3>1, <4>1 DEF Leaves
    <3>2. CASE y # p
      BY <1>1, <1>5, <2>2, <3>2 DEF Leaves
    <3> QED
      BY <3>1, <3>2
  <2> QED
    BY <1>5, <2>1, <2>2 DEF Spares
<1>6. ASSUME ~LockFree, NEW c, NEW boxes, Respects(c, file, raced, boxes)
      PROVE  Respects(c, file', raced', boxes)
  <2> DEFINE b == c.base[1]
             m == b[Manifest]
  <2>1. /\ Proper(m) /\ (boxes => Sound(m) /\ Tidy(b, m))
        /\ \A q \in Files \ raced : Alike(q, file[q], b[q]) /\ (boxes => SameBox(q, file[q], b[q]))
        /\ c.at \in {"snap", "work"} =>
            /\ file[Manifest] = m /\ AllFree(file, m) /\ Spares(c.todo, file, b, raced, boxes)
            /\ Keeping(Elems(c.paths), m, Final(c.todo))
        /\ c.at \in {"work", "undo"} =>
            /\ \A i \in DOMAIN c.paths : c.paths[i] # Manifest =>
                 Free(c.paths[i], c.saved[i], RecFor(m, c.paths[i][1]))
            /\ \E i \in DOMAIN c.paths : c.paths[i] = Manifest /\ c.saved[i] = m
            /\ \A q \in Files \ Elems(c.paths) : Free(q, file[q], RecFor(m, q[1]))
            /\ Keeping(Elems(c.paths), m, file[Manifest])
    BY <1>6 DEF Respects
  <2> HIDE DEF b
  <2>2. \A q \in Files \ raced' : Alike(q, file'[q], b[q]) /\ (boxes => SameBox(q, file'[q], b[q]))
    BY <1>1, <1>6, <2>1
  <2>3. file[Manifest] = m => b[Manifest] = file[Manifest]
    OBVIOUS
  <2> HIDE DEF m
  <2>4. c.at \in {"snap", "work"} => AllFree(file', m) /\ Spares(c.todo, file', b, raced', boxes)
    BY <1>4, <1>5, <1>6, <2>1, <2>3
  <2>5. ASSUME c.at \in {"work", "undo"}, NEW q \in Files \ Elems(c.paths)
        PROVE  Free(q, file'[q], RecFor(m, q[1]))
    <3>1. Free(q, file[q], RecFor(m, q[1])) /\ Keep(q, m, file[Manifest])
      BY <2>1, <2>5 DEF Keeping
    <3>2. CASE q = p
      BY <1>1, <3>1, <3>2
    <3>3. CASE q # p
      BY <1>1, <3>1, <3>3
    <3> QED
      BY <3>2, <3>3
  <2> QED
    BY <1>2, <2>1, <2>2, <2>4, <2>5 DEF Respects, b, m
<1>7. \A s \in Setup : Holds(s) => ~LockFree
  BY DEF LockFree
<1> QED
  BY <1>2, <1>3, <1>4, <1>6, <1>7 DEF UserInv

LEMMA EditedUser ==
    ASSUME StateInv, NEW h \in Harness, NEW v \in {NoFile} \cup Config, NEW d \in Edited(h, View(v))
    PROVE  \A i \in View(d).user : i \in View(v).user
              \/ /\ LockFree \/ <<h, "config">> \notin raced
                 /\ i \notin Present(v) /\ i \notin Own(RecordOf(h))
<1> DEFINE c == View(v)
<1>1. c \in Config /\ View(c) = c /\ Present(c) = Present(v)
  BY ConfigView DEF View, Empty, Config, Author, Present
<1>2. d \in Config /\ View(d) = d
  BY <1>1, EditedIs, ConfigView
<1> HIDE DEF c
<1>3. \/ d = [c EXCEPT !.text = ~@]
      \/ d = [c EXCEPT !.veto = ~@ /\ h # "codex"]
      \/ \E i \in Present(c) : d = [c EXCEPT !.setup = @ \ {i}, !.user = @ \ {i}]
      \/ \E i \in (IF LockFree \/ <<h, "config">> \notin raced
                   THEN Wanted(h) \ (Present(c) \cup Own(RecordOf(h)))
                   ELSE {}) : d = [c EXCEPT !.user = @ \cup {i},
                                            !.box = IF @ = "no" /\ h # "hermes" THEN "user" ELSE @]
      \/ /\ LockFree /\ h \in Owned
         /\ \E i \in RecordOf(h).own :
              d = [c EXCEPT !.setup = @ \cup {i},
                            !.box = IF @ # "no" \/ h = "hermes" THEN @
                                    ELSE IF RecordOf(h).box THEN "setup" ELSE "user"]
  BY DEF Edited, c
<1>4. CASE d = [c EXCEPT !.text = ~@] \/ d = [c EXCEPT !.veto = ~@ /\ h # "codex"]
  BY <1>1, <1>2, <1>4 DEF Config, c
<1>5. CASE \E i \in Present(c) : d = [c EXCEPT !.setup = @ \ {i}, !.user = @ \ {i}]
  BY <1>1, <1>2, <1>5 DEF Config, c
<1>6. CASE \E i \in (IF LockFree \/ <<h, "config">> \notin raced
                     THEN Wanted(h) \ (Present(c) \cup Own(RecordOf(h)))
                     ELSE {}) : d = [c EXCEPT !.user = @ \cup {i},
                                              !.box = IF @ = "no" /\ h # "hermes" THEN "user" ELSE @]
  <2>1. LockFree \/ <<h, "config">> \notin raced
    BY <1>6
  <2>2. PICK i \in Wanted(h) \ (Present(c) \cup Own(RecordOf(h))) :
          d = [c EXCEPT !.user = @ \cup {i}, !.box = IF @ = "no" /\ h # "hermes" THEN "user" ELSE @]
    BY <1>6, <2>1
  <2>3. d.user = c.user \cup {i}
    BY <1>1, <2>2 DEF Config
  <2> QED
    BY <1>1, <1>2, <2>1, <2>2, <2>3 DEF c
<1>7. CASE \E i \in RecordOf(h).own :
              d = [c EXCEPT !.setup = @ \cup {i},
                            !.box = IF @ # "no" \/ h = "hermes" THEN @
                                    ELSE IF RecordOf(h).box THEN "setup" ELSE "user"]
  <2>1. d.user = c.user
    BY <1>1, <1>7 DEF Config
  <2> QED
    BY <1>2, <2>1 DEF c
<1> QED
  BY <1>3, <1>4, <1>5, <1>6, <1>7

LEMMA UserConfig ==
    ASSUME IInv, UserInv, NEW h \in Harness, EditConfig(h)
    PROVE  UserInv'
<1>1. StateInv
  BY DEF IInv
<1>2. PICK d \in Edited(h, View(At(h, "config"))) : file' = [file EXCEPT ![<<h, "config">>] = d]
  BY DEF EditConfig
<1>3. PICK p : p = <<h, "config">>
  OBVIOUS
<1>4. PICK v : v = file[p]
  OBVIOUS
<1>5. /\ p \in Files /\ p[1] = h /\ p[2] = "config" /\ p[2] \notin LinkName \cup Label
      /\ At(h, "config") = v /\ v \in {NoFile} \cup Config
  BY <1>1, <1>3, <1>4, FilesAre, ConfigIs DEF At, LinkName, Label
<1>6. \A i \in View(d).user : i \in View(v).user
        \/ /\ LockFree \/ p \notin raced
           /\ i \notin Present(v) /\ i \notin Own(RecordOf(h))
  BY <1>1, <1>2, <1>3, <1>5, EditedUser
<1>7. RecFor(file[Manifest], h) = RecordOf(h)
  BY RecForIs
<1>8. ASSUME NEW m, Keep(p, m, file[Manifest]), Free(p, v, RecFor(m, p[1]))
      PROVE  Free(p, d, RecFor(m, p[1]))
  BY <1>5, <1>6, <1>7, <1>8 DEF Free, Keep
<1>9. ASSUME NEW m, ~LockFree, Leaves(p, v, raced, file[Manifest], m)
      PROVE  Free(p, d, RecFor(m, p[1]))
  BY <1>5, <1>6, <1>7, <1>9 DEF Free, Leaves
<1>10. (~LockFree => raced' = raced \cup {p}) /\ UNCHANGED <<proc, killed, broken>>
  BY <1>3 DEF EditConfig
<1> QED
  BY <1>2, <1>3, <1>4, <1>5, <1>8, <1>9, <1>10, UserEdits

LEMMA UserLink ==
    ASSUME IInv, UserInv, NEW h \in Harness, EditLink(h)
    PROVE  UserInv'
<1>1. PICK v \in {NoFile} \cup [kind : {"link"}, to : {"roundtable", "elsewhere"}, by : {"user"}] :
        /\ v # NoFile => /\ At(h, "skill") = NoFile /\ h \notin Owned
                         /\ LockFree \/ <<h, "skill">> \notin raced
        /\ file' = [file EXCEPT ![<<h, "skill">>] = v]
  BY DEF EditLink
<1>2. PICK p : p = <<h, "skill">>
  OBVIOUS
<1>3. p \in Files /\ p[1] = h /\ p[2] = "skill" /\ p[2] \notin Label /\ At(h, "skill") = file[p]
  BY <1>2, FilesAre DEF Links, Label, At
<1>4. RecFor(file[Manifest], h) = RecordOf(h) /\ (h \notin Owned => RecordOf(h) = NoRecord)
  BY RecForIs DEF Owned
<1>5. v = NoFile => \A rec : Free(p, v, rec)
  BY FreeNothing
<1>6. ASSUME NEW m, v # NoFile, Keep(p, m, file[Manifest]) PROVE Free(p, v, RecFor(m, p[1]))
  BY <1>1, <1>3, <1>4, <1>6 DEF Free, Keep, LinkName
<1>7. ASSUME NEW m, v # NoFile, ~LockFree, Leaves(p, file[p], raced, file[Manifest], m)
      PROVE  Free(p, v, RecFor(m, p[1]))
  BY <1>1, <1>2, <1>3, <1>4, <1>7 DEF Free, Leaves, LinkName
<1>8. (~LockFree => raced' = raced \cup {p}) /\ UNCHANGED <<proc, killed, broken>>
  BY <1>2 DEF EditLink
<1> QED
  BY <1>1, <1>2, <1>3, <1>5, <1>6, <1>7, <1>8, UserEdits

LEMMA UserReload ==
    ASSUME IInv, UserInv, Reload
    PROVE  UserInv'
<1>1. /\ "codex" \in Harness /\ UNCHANGED <<proc, raced, killed, broken>> /\ LockFree
      /\ file' = [file EXCEPT ![Marker] = NoFile]
  BY DEF Reload, ghosts, Owned
<1>2. Marker \in Files
  BY <1>1, FilesAre
<1>3. \A rec : Free(Marker, NoFile, rec)
  BY FreeNothing
<1> QED
  BY <1>1, <1>2, <1>3, UserEdits

-----------------------------------------------------------------------------
(* UserEntriesStay: the hosts it begins with, and every step *)

LEMMA NoneClaimed ==
    ASSUME NEW f, f[Manifest] = NoFile
    PROVE  Proper(f[Manifest]) /\ AllFree(f, f[Manifest])
BY FilesAre, RecForIs DEF Proper, AllFree, Free

LEMMA OldHostFree ==
    "claude" \in Harness => Proper(OldHost[Manifest]) /\ AllFree(OldHost, OldHost[Manifest])
<1> SUFFICES ASSUME "claude" \in Harness PROVE Proper(OldHost[Manifest]) /\ AllFree(OldHost, OldHost[Manifest])
  OBVIOUS
<1> DEFINE m == OldHost[Manifest]
<1>1. \A h \in Harness : RecFor(m, h) = IF h = "claude" THEN OldRecord ELSE NoRecord
  <2> DEFINE of == [h \in Harness |-> IF h = "claude" THEN OldRecord ELSE NoRecord]
  <2>1. m = [kind |-> "manifest", of |-> of]
    BY PathsAre DEF OldHost, Manifest
  <2> HIDE DEF m
  <2>2. m # NoFile /\ m.of = of
    BY <2>1 DEF NoFile
  <2> QED
    BY <2>2 DEF RecFor
<1> HIDE DEF m
<1>2. OldRecord.own = {"start", "gate"} /\ OldRecord.has = {"start", "gate"} /\ OldRecord # NoRecord
  BY DEF OldRecord, NoRecord
<1>3. Proper(m)
  BY <1>1, <1>2 DEF Proper
<1>4. ASSUME NEW p \in Files PROVE Free(p, OldHost[p], RecFor(m, p[1]))
  <2>1. p \in Path /\ p # Manifest
    BY FilesAre
  <2>2. CASE p = <<"claude", "config">>
    <3> DEFINE c == [Empty EXCEPT !.setup = {"start", "gate"}, !.box = "setup"]
    <3>1. OldHost[p] = c
      BY <2>1, <2>2 DEF OldHost
    <3>2. c.user = {} /\ c \in Config
      BY DEF Empty, Config, Author, Item
    <3> HIDE DEF c
    <3>3. View(c) = c /\ p[2] = "config"
      BY <2>2, <3>2, ConfigView
    <3> QED
      BY <3>1, <3>2, <3>3 DEF Free, LinkName, Label
  <2>3. CASE p = <<"claude", "skill">>
    <3>1. OldHost[p] = OwnLink /\ p[2] # "config"
      BY <2>1, <2>3 DEF OldHost
    <3> QED
      BY <3>1, FreeNothing
  <2>4. CASE p # <<"claude", "config">> /\ p # <<"claude", "skill">>
    <3>1. OldHost[p] = NoFile
      BY <2>1, <2>4 DEF OldHost
    <3> QED
      BY <3>1, FreeNothing
  <2> QED
    BY <2>2, <2>3, <2>4
<1> QED
  BY <1>3, <1>4 DEF AllFree, m

LEMMA FullHostFree == Proper(FullHost[Manifest]) /\ AllFree(FullHost, FullHost[Manifest])
<1> DEFINE m == FullHost[Manifest]
<1>1. \A h \in Harness : RecFor(m, h) = FullRecord(h)
  <2> DEFINE of == [h \in Harness |-> FullRecord(h)]
  <2>1. m = [kind |-> "manifest", of |-> of]
    BY PathsAre DEF FullHost, Manifest, Marker, Label
  <2> HIDE DEF m
  <2>2. m # NoFile /\ m.of = of
    BY <2>1 DEF NoFile
  <2> QED
    BY <2>2 DEF RecFor
<1> HIDE DEF m
<1>2. \A h \in Harness : FullRecord(h).own = Wanted(h) /\ FullRecord(h).has = Wanted(h)
  BY DEF FullRecord
<1>3. Proper(m)
  BY <1>1, <1>2 DEF Proper
<1>4. ASSUME NEW p \in Files, NEW rec PROVE Free(p, FullHost[p], rec)
  <2>1. p \in Path /\ p # Manifest /\ p[1] \in Harness
    BY FilesAre
  <2>2. CASE p[2] = "config"
    <3> DEFINE box == IF p[1] = "hermes" THEN "no" ELSE "setup"
               c == [Empty EXCEPT !.setup = Wanted(p[1]), !.box = box]
    <3>1. FullHost[p] = c
      BY <2>1, <2>2 DEF FullHost, Marker, Label
    <3>2. c.user = {}
      BY DEF Empty
    <3>3. Wanted(p[1]) \subseteq Item /\ box \in Author
      BY <2>1, WantedIs DEF Author
    <3> HIDE DEF box
    <3>4. c \in Config
      BY <3>3 DEF Empty, Config, Author
    <3> HIDE DEF c
    <3>5. View(c) = c
      BY <3>4, ConfigView
    <3> QED
      BY <2>2, <3>1, <3>2, <3>5 DEF Free, LinkName, Label
  <2>3. CASE p[2] # "config"
    <3> DEFINE v == [kind |-> "plist", gen |-> 1, by |-> "setup"]
    <3>1. FullHost[p] = NoFile \/ FullHost[p] = v \/ FullHost[p] = OwnLink
      BY <2>1, <2>3 DEF FullHost
    <3>2. v.by = "setup"
      OBVIOUS
    <3> HIDE DEF v
    <3>3. Free(p, v, rec)
      BY <2>3, <3>2 DEF Free, Theirs
    <3> QED
      BY <2>3, <3>1, <3>3, FreeNothing
  <2> QED
    BY <2>2, <2>3
<1> QED
  BY <1>3, <1>4 DEF AllFree, m

LEMMA InitUser == Init => UserInv
<1> SUFFICES ASSUME Init PROVE UserInv
  OBVIOUS
<1>1. NewHost[Manifest] = NoFile /\ UserHost[Manifest] = NoFile
  BY PathsAre DEF NewHost, UserHost, Manifest
<1>2. Proper(file[Manifest]) /\ AllFree(file, file[Manifest])
  BY <1>1, NoneClaimed, OldHostFree, FullHostFree DEF Init
<1>3. \A s \in Setup : ~Holds(s)
  BY IdleIs DEF Init, Holds
<1> QED
  BY <1>2, <1>3 DEF UserInv

\* What is to stay at p when v becomes w; his container, when no command has died.
Stays(p, v, w, calm) ==
    /\ p[2] = "config" =>
        LET c == View(v)
            d == View(w)
        IN  c.user \subseteq d.user /\ c.text = d.text /\ c.veto = d.veto
            /\ (c.box = "user" /\ calm => d.box # "no")
    /\ v.kind \in {"link", "plist"} /\ v.by = "user" => v.kind = w.kind /\ w.by = "user"

LEMMA StaysWhen ==
    /\ \A p, v, calm : Stays(p, v, v, calm)
    /\ \A p, v, w, b, calm : /\ Alike(p, v, b) /\ Alike(p, w, b)
                             /\ (calm => SameBox(p, v, b) /\ SameBox(p, w, b))
                             => Stays(p, v, w, calm)
<1>1. \A p, v, calm : Stays(p, v, v, calm)
  BY DEF Stays
<1>2. ASSUME NEW p, NEW v, NEW w, NEW b, NEW calm, Alike(p, v, b), Alike(p, w, b),
             calm => SameBox(p, v, b) /\ SameBox(p, w, b)
      PROVE  Stays(p, v, w, calm)
  <2>1. v.kind \in {"link", "plist"} /\ v.by = "user" => v.kind = w.kind /\ w.by = "user"
    BY <1>2 DEF Alike, Theirs
  <2>2. ASSUME p[2] = "config" PROVE View(v).user \subseteq View(w).user /\ View(v).text = View(w).text
                                     /\ View(v).veto = View(w).veto
    BY <1>2, <2>2 DEF Alike
  <2>3. ASSUME p[2] = "config", calm, View(v).box = "user" PROVE View(w).box # "no"
    BY <1>2, <2>3 DEF SameBox
  <2> QED
    BY <2>1, <2>2, <2>3 DEF Stays
<1> QED
  BY <1>1, <1>2

\* What is no file of the user,
LEMMA StaysNot ==
    ASSUME StateInv, NEW p \in Path, p[2] # "config", p = Manifest \/ p = Marker, NEW w, NEW calm
    PROVE  Stays(p, file[p], w, calm)
<1>1. file[p] \in {NoFile} \cup ManifestFile \cup MarkerFile
  BY DEF StateInv, Fits, GoodManifest
<1>2. file[p].kind \in {"none", "manifest", "marker"}
  BY <1>1 DEF NoFile, ManifestFile, MarkerFile
<1> QED
  BY <1>2 DEF Stays

\* and what a command has that goes on.
LEMMA StaysAs ==
    ASSUME IInv, UserInv, UserInv', NEW s \in Setup, proc[s].at # "idle", NEW c,
           proc' = [proc EXCEPT ![s] = c], c.base = proc[s].base, c.at \in {"snap", "work", "undo"},
           UNCHANGED <<raced, killed, broken>>, ~broken, "undo" \notin killed
    PROVE  \A p \in Files \ raced : Stays(p, file[p], file'[p], killed = {})
<1>1. proc'[s] = c
  BY DEF IInv, LockInv
<1>2. Holds(s)'
  BY <1>1 DEF Holds
<1>3. PICK calm \in BOOLEAN : calm = (killed = {})
  OBVIOUS
<1>4. Respects(proc[s], file, raced, calm)
  BY <1>3, UserHeld
<1>5. Respects(c, file', raced, calm)
  BY <1>1, <1>2, <1>3 DEF UserInv
<1>6. PICK b : b = c.base[1]
  OBVIOUS
<1>7. \A p \in Files \ raced : /\ Alike(p, file[p], b[p]) /\ (calm => SameBox(p, file[p], b[p]))
                               /\ Alike(p, file'[p], b[p]) /\ (calm => SameBox(p, file'[p], b[p]))
  BY <1>4, <1>5, <1>6 DEF Respects
<1> QED
  BY <1>3, <1>7, StaysWhen

LEMMA StaysWork ==
    ASSUME IInv, UserInv, UserInv', NEW s \in Setup, Step(s), ~broken, "undo" \notin killed
    PROVE  \A p \in Files \ raced : Stays(p, file[p], file'[p], killed = {})
<1> DEFINE p == proc[s]
           x == Head(p.todo)
           r == Tail(p.todo)
           b == p.base[1]
<1>1. p.at = "work" /\ UNCHANGED <<raced, killed, broken>>
  BY DEF Step, ghosts
<1>2. p \in Proc /\ StateInv /\ x \in OpRecord /\ Cons(p.todo, x, r)
  BY <1>1, FirstOf
<1>3. Len(r) \in Nat
  BY <1>1, FirstOf
<1>4. CASE ~Can(x)
  <2>1. file' = file
    BY <1>4 DEF Step
  <2> QED
    BY <2>1, StaysWhen
<1>5. CASE Can(x)
  <2>1. /\ file' = NewFile(x)
        /\ IF x.op = "edit"
           THEN proc' = [proc EXCEPT ![s].todo = <<EditOp(x.path[1])>> \o r]
           ELSE IF r = << >> THEN Ends(s)
           ELSE proc' = [proc EXCEPT ![s].todo = r, ![s].external = @ \/ IsLoaded(x)]
    BY <1>5 DEF Step
  <2>2. CASE Len(r) = 0
    <3>1. Spares(p.todo, file, b, raced, killed = {})
      BY <1>1, UserHeld DEF Respects
    <3> HIDE DEF p, x, r, b
    <3>2. \A q \in Files : file'[q] = file[q]
      BY <1>2, <2>1, <2>2, <3>1, SparesEnd
    <3> QED
      BY <3>2, StaysWhen
  <2>3. CASE Len(r) > 0 /\ x.op # "edit"
    <3> DEFINE external == p.external \/ IsLoaded(x)
               c == [p EXCEPT !.todo = r, !.external = external]
    <3>1. r # << >>
      <4> HIDE DEF r, x
      <4>1. Len(r) # 0
        BY <1>3, <2>3
      <4> QED
        BY <4>1, EmptySeq
    <3>2. proc' = [proc EXCEPT ![s] = c]
      BY <2>1, <2>3, <3>1
    <3>3. c.at = "work" /\ c.base = p.base
      BY <1>1, <1>2 DEF Proc
    <3> HIDE DEF c, external
    <3> QED
      BY <1>1, <3>2, <3>3, StaysAs
  <2>4. CASE x.op = "edit"
    <3> DEFINE todo == <<EditOp(x.path[1])>> \o r
               c == [p EXCEPT !.todo = todo]
    <3>1. proc' = [proc EXCEPT ![s] = c]
      BY <2>1, <2>4
    <3> HIDE DEF todo
    <3>2. c.at = "work" /\ c.base = p.base
      BY <1>1, <1>2 DEF Proc
    <3> HIDE DEF c
    <3> QED
      BY <1>1, <3>1, <3>2, StaysAs
  <2> HIDE DEF p, x, r, b
  <2> QED
    BY <1>3, <2>2, <2>3, <2>4
<1> QED
  BY <1>4, <1>5

LEMMA StaysFault ==
    ASSUME IInv, UserInv, UserInv', NEW s \in Setup, Fault(s), ~broken, "undo" \notin killed
    PROVE  \A p \in Files \ raced : Stays(p, file[p], file'[p], killed = {})
<1> DEFINE p == proc[s]
<1>1. PICK external :
        proc' = [proc EXCEPT ![s].at = "undo", ![s].left = Len(proc[s].paths), ![s].external = external]
  BY DEF Fault
<1>2. p.at = "work" /\ UNCHANGED <<raced, killed, broken>>
  BY DEF Fault, ghosts, Trouble, Spend
<1>3. p \in Proc
  BY <1>2, HeldIs
<1> DEFINE c == [p EXCEPT !.at = "undo", !.left = Len(p.paths), !.external = external]
<1>4. proc' = [proc EXCEPT ![s] = c]
  BY <1>1
<1>5. c.at = "undo" /\ c.base = p.base
  BY <1>3 DEF Proc
<1> HIDE DEF c
<1> QED
  BY <1>2, <1>4, <1>5, StaysAs

LEMMA StaysUndo ==
    ASSUME IInv, UserInv, UserInv', NEW s \in Setup, Undo(s), ~broken, "undo" \notin killed
    PROVE  \A p \in Files \ raced : Stays(p, file[p], file'[p], killed = {})
<1> DEFINE p == proc[s]
           c == [p EXCEPT !.left = p.left - 1]
<1>1. /\ p.at = "undo" /\ UNCHANGED <<raced, killed>>
      /\ proc' = [proc EXCEPT ![s] = c]
      /\ file' = file \/ broken' = broken
  BY DEF Undo
<1>2. p \in Proc
  BY <1>1, HeldIs
<1>3. c.at = "undo" /\ c.base = p.base
  BY <1>1, <1>2 DEF Proc
<1> HIDE DEF c
<1>4. CASE file' = file
  BY <1>4, StaysWhen
<1>5. CASE broken' = broken
  BY <1>1, <1>3, <1>5, StaysAs
<1> QED
  BY <1>1, <1>4, <1>5

\* The counts are numbers, so that an edit is seen in them.
SpentInv == spent \in [{"command", "edit", "other"} -> Nat]

\* No step of a command or of the launcher takes from the user.
LEMMA StaysNext ==
    ASSUME IInv, UserInv, UserInv', SpentInv, [Next]_vars, spent'.edit = spent.edit,
           ~broken, "undo" \notin killed, NEW p \in Path \ raced
    PROVE  Stays(p, file[p], file'[p], killed = {})
<1>1. StateInv
  BY DEF IInv
<1>2. CASE p = Manifest
  BY <1>1, <1>2, StaysNot DEF Manifest
<1>3. CASE p \in Files
  <2>1. CASE file' = file
    BY <2>1, StaysWhen
  <2>2. ASSUME NEW s \in Setup, Step(s) \/ Fault(s) \/ Undo(s)
        PROVE  Stays(p, file[p], file'[p], killed = {})
    BY <1>3, <2>2, StaysWork, StaysFault, StaysUndo
  <2>3. ASSUME NEW s \in Setup, Begin(s) \/ Snapshot(s) \/ Report(s) \/ Kill(s)
        PROVE  file' = file
    BY <2>3 DEF Begin, Snapshot, Report, Kill
  <2>4. ASSUME NEW h \in Harness, EditConfig(h) \/ EditLink(h)
        PROVE  FALSE
    <3>1. spent' = [spent EXCEPT !["edit"] = @ + 1]
      BY <2>4 DEF EditConfig, EditLink, Trouble, Spend
    <3>2. spent["edit"] \in Nat /\ spent'["edit"] = spent["edit"] + 1
      BY <3>1 DEF SpentInv
    <3> QED
      BY <3>2
  <2>5. CASE Reload
    <3>1. "codex" \in Harness /\ file' = [file EXCEPT ![Marker] = NoFile]
      BY <2>5 DEF Reload, Owned
    <3>2. p # Marker => file'[p] = file[p]
      BY <1>1, <3>1 DEF StateInv
    <3>3. CASE p = Marker
      BY <1>1, <3>3, StaysNot DEF Marker
    <3> QED
      BY <3>2, <3>3, StaysWhen
  <2>6. CASE Upgrade \/ UNCHANGED vars
    BY <2>1, <2>6 DEF Upgrade, vars
  <2> QED
    BY <2>1, <2>2, <2>3, <2>4, <2>5, <2>6 DEF Next
<1> QED
  BY <1>2, <1>3 DEF Files

LEMMA SpentNext == SpentInv /\ [Next]_vars => SpentInv'
<1> SUFFICES ASSUME SpentInv, [Next]_vars PROVE SpentInv'
  OBVIOUS
<1>1. ASSUME NEW what \in {"command", "edit", "other"}, NEW limit, Spend(what, limit) PROVE SpentInv'
  BY <1>1 DEF Spend, SpentInv
<1>2. CASE UNCHANGED spent
  BY <1>2 DEF SpentInv
<1>3. ASSUME NEW what \in {"edit", "other"}, Trouble(what) PROVE SpentInv'
  BY <1>1, <1>3 DEF Trouble
<1>4. ASSUME NEW s \in Setup, Begin(s) PROVE SpentInv'
  BY <1>1, <1>4 DEF Begin
<1>5. ASSUME NEW s \in Setup, Snapshot(s) \/ Step(s) \/ Report(s) PROVE UNCHANGED spent
  BY <1>5 DEF Snapshot, Step, Report
<1>6. ASSUME NEW s \in Setup, Fault(s) \/ Kill(s) PROVE SpentInv'
  BY <1>3, <1>6 DEF Fault, Kill
<1>7. ASSUME NEW s \in Setup, Undo(s) PROVE SpentInv'
  BY <1>2, <1>3, <1>7 DEF Undo
<1>8. ASSUME NEW h \in Harness, EditConfig(h) \/ EditLink(h) PROVE SpentInv'
  BY <1>3, <1>8 DEF EditConfig, EditLink
<1>9. CASE Upgrade \/ Reload \/ UNCHANGED vars
  BY <1>2, <1>9 DEF Upgrade, Reload, vars
<1> QED
  BY <1>2, <1>4, <1>5, <1>6, <1>7, <1>8, <1>9 DEF Next

\* What UserEntriesStay says of a step.
StepKeeps ==
    spent'.edit = spent.edit /\ ~broken /\ "undo" \notin killed =>
        \A p \in Path \ raced :
            /\ p[2] = "config" =>
                LET c == View(file[p])
                    d == View(file'[p])
                IN  c.user \subseteq d.user /\ c.text = d.text /\ c.veto = d.veto
                    /\ (c.box = "user" /\ killed = {} => d.box # "no")
            /\ file[p].kind \in {"link", "plist"} /\ file[p].by = "user" =>
                file'[p].kind = file[p].kind /\ file'[p].by = "user"

\* No command takes away what the user has, in the files he has left alone since it began and as
\* long as no rollback has left something or died: a removal takes the entries of the record only,
\* the record has only what setup itself has added (own, box, links, plists; _remove_record), and
\* where the user adds something it stays out of the record that is to be written.
THEOREM UserKeepsHis == Spec => UserEntriesStay
<1>1. Init => UserInv /\ SpentInv
  BY InitUser DEF Init, SpentInv
<1>2. IInv /\ TidyInv /\ UserInv /\ [Next]_vars => UserInv'
  <2> SUFFICES ASSUME IInv, TidyInv, UserInv, [Next]_vars PROVE UserInv'
    OBVIOUS
  <2>1. ASSUME NEW s \in Setup, \/ Begin(s) \/ Snapshot(s) \/ Step(s) \/ Fault(s)
                                \/ Undo(s) \/ Report(s) \/ Kill(s)
        PROVE  UserInv'
    BY <2>1, UserBegin, UserSnapshot, UserWork, UserFault, UserUndo, UserReport
  <2>2. ASSUME NEW h \in Harness, EditConfig(h) \/ EditLink(h)
        PROVE  UserInv'
    BY <2>2, UserConfig, UserLink
  <2>3. CASE Upgrade
    BY <2>3, UserKept DEF Upgrade, ghosts
  <2>4. CASE Reload
    BY <2>4, UserReload
  <2>5. CASE UNCHANGED vars
    BY <2>5, UserKept DEF vars, ghosts
  <2> QED
    BY <2>1, <2>2, <2>3, <2>4, <2>5 DEF Next
<1>3. IInv /\ UserInv /\ UserInv' /\ SpentInv /\ [Next]_vars => [StepKeeps]_vars
  BY StaysNext DEF StepKeeps, Stays
<1>4. Spec => [][StepKeeps]_vars
  BY <1>1, <1>2, <1>3, SpentNext, Invariant, TidyAlways, PTL DEF Spec
<1> QED
  BY <1>4, PTL DEF UserEntriesStay, StepKeeps
=============================================================================
