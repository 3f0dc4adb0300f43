---------------------------- MODULE BuildProofs ----------------------------
(***************************************************************************)
(* BuildPrepare and Candidate for any number of runs and builds.           *)
(***************************************************************************)
EXTENDS BuildPrepare, Candidate, TLAPS

(***************************************************************************)
(* The inductive invariant of prepare.sh.  A directory that nobody made is *)
(* empty and unmarked, a person's is unmarked and was written by no run;   *)
(* the script's own is marked but while it is cleared or just made, or     *)
(* after a run was stopped there.  From mkdir on, every part is at the     *)
(* stage that the next command takes, written by this run - and by no      *)
(* other, but for a person if mkdir took over a directory - from the bytes *)
(* that it verified.                                                       *)
(***************************************************************************)
Untouched(p) == part[p] = Empty \/ (taken /\ part[p] = Foreign)
OfRun(p) == part[p].runs = {run} \/ (taken /\ part[p].runs = {0, run})
Begun(p) == Untouched(p) \/ (part[p].stage = "torn" /\ OfRun(p))

Sound(p) ==
  /\ p = "upstream" => part[p].bytes = "pinned" \/ swapped
  /\ p = "thunder" => part[p].bytes = "pinned"

Written(p, stages) == part[p].stage \in stages /\ OfRun(p) /\ Sound(p)

Filling == {"untar", "patch", "overlay", "provider", "sum", "extract", "thunder_patch", "thunder_overlay"}

FileInv ==
  /\ archive # "part"
  /\ pc = "move" => partial # "part" /\ partial # "none"
  /\ pc \in {"look", "clear", "mkdir", "mark"} \cup Filling => archive = "pinned" \/ swapped

RunInv == pc \in Commands => run # 0

OwnerInv ==
  /\ owner # "script" => ~marker
  /\ owner = "none" => \A p \in Parts : part[p] = Empty
  /\ owner = "person" => \A p \in Parts : part[p] \in {Empty, Foreign}
  /\ owner = "script" /\ ~marker => orphan \/ pc \in {"clear", "mark"}
  /\ pc = "mkdir" => owner # "script"
  /\ pc \in {"clear", "mark"} \cup Filling => owner = "script"
  /\ pc \in Filling => marker
  /\ pc = "done" /\ owner = "script" => marker

UpstreamInv ==
  /\ pc = "mark" => Untouched("upstream")
  /\ pc = "untar" => Begun("upstream")
  /\ pc = "patch" => Written("upstream", {"plain", "torn"})
  /\ pc = "overlay" => Written("upstream", {"patched", "torn"})
  /\ pc \in {"provider", "sum", "extract", "thunder_patch", "thunder_overlay"} => Written("upstream", {"complete"})

ProviderInv ==
  /\ pc \in {"mark", "untar", "patch", "overlay"} => Untouched("provider")
  /\ pc = "provider" => Begun("provider")
  /\ pc \in {"sum", "extract", "thunder_patch", "thunder_overlay"} => Written("provider", {"complete"})

ThunderInv ==
  /\ pc \in {"mark", "untar", "patch", "overlay", "provider", "sum"} => Untouched("thunder")
  /\ pc = "extract" => Begun("thunder")
  /\ pc = "thunder_patch" => Written("thunder", {"plain", "torn"})
  /\ pc = "thunder_overlay" => Written("thunder", {"patched", "torn"})

DoneInv == pc = "done" /\ owner = "script" => \A p \in Parts : Written(p, {"complete"})

PartInv == UpstreamInv /\ ProviderInv /\ ThunderInv /\ DoneInv

Inv == TypeOK /\ FileInv /\ RunInv /\ OwnerInv /\ PartInv

-----------------------------------------------------------------------------
LEMMA Places ==
  /\ Commands = {"fetch", "curl", "move", "hash", "look", "clear", "mkdir", "mark"} \cup Filling
  /\ DOMAIN Jobs = Filling \ {"sum"}
  /\ After["mkdir"] = "mark" /\ After["mark"] = "untar" /\ After["untar"] = "patch"
  /\ After["patch"] = "overlay" /\ After["overlay"] = "provider" /\ After["provider"] = "sum"
  /\ After["sum"] = "extract" /\ After["extract"] = "thunder_patch"
  /\ After["thunder_patch"] = "thunder_overlay" /\ After["thunder_overlay"] = "done"
  BY DEF Commands, After, Jobs, Filling

LEMMA JobParts ==
  /\ Jobs["untar"].part = "upstream" /\ Jobs["patch"].part = "upstream" /\ Jobs["overlay"].part = "upstream"
  /\ Jobs["provider"].part = "provider"
  /\ Jobs["extract"].part = "thunder" /\ Jobs["thunder_patch"].part = "thunder"
  /\ Jobs["thunder_overlay"].part = "thunder"
  BY DEF Jobs

LEMMA JobEnds ==
  /\ Jobs["untar"].to = "plain" /\ Jobs["patch"].to = "patched" /\ Jobs["overlay"].to = "complete"
  /\ Jobs["provider"].to = "complete"
  /\ Jobs["extract"].to = "plain" /\ Jobs["thunder_patch"].to = "patched"
  /\ Jobs["thunder_overlay"].to = "complete"
  BY DEF Jobs

LEMMA EmptyIsTyped ==
  /\ Empty \in [stage : Stages, runs : SUBSET (0..MaxRuns), bytes : {"none"} \cup Bytes]
  /\ Foreign \in [stage : Stages, runs : SUBSET (0..MaxRuns), bytes : {"none"} \cup Bytes]
  /\ Empty.stage = "absent" /\ Empty.runs = {} /\ Foreign.stage = "foreign" /\ Foreign.runs = {0}
  /\ \A filled \in SUBSET Parts :
       /\ PersonsTree(filled) \in [Parts -> {Empty, Foreign}]
       /\ PersonsTree(filled) \in
            [Parts -> [stage : Stages, runs : SUBSET (0..MaxRuns), bytes : {"none"} \cup Bytes]]
  /\ \A p \in Parts : PersonsTree({})[p] = Empty
<1>1. 0 \in 0..MaxRuns /\ "other" \in Bytes
  BY BuildPrepareAssumption DEF Bytes
<1>2. /\ Empty \in [stage : Stages, runs : SUBSET (0..MaxRuns), bytes : {"none"} \cup Bytes]
      /\ Foreign \in [stage : Stages, runs : SUBSET (0..MaxRuns), bytes : {"none"} \cup Bytes]
      /\ Empty.stage = "absent" /\ Empty.runs = {} /\ Foreign.stage = "foreign" /\ Foreign.runs = {0}
  BY <1>1 DEF Empty, Foreign, Stages
<1> QED
  BY <1>2 DEF PersonsTree

LEMMA InitInv == Init => Inv
<1> SUFFICES ASSUME Init PROVE Inv
  OBVIOUS
<1>1. TypeOK
  <2>1. part \in [Parts -> [stage : Stages, runs : SUBSET (0..MaxRuns), bytes : {"none"} \cup Bytes]]
    BY EmptyIsTyped DEF Init
  <2>2. run \in 0..MaxRuns
    BY BuildPrepareAssumption DEF Init
  <2> QED
    BY <2>1, <2>2 DEF Init, TypeOK, Ends
<1>2. FileInv /\ RunInv
  BY Places DEF Init, FileInv, RunInv, Bytes, Filling
<1>3. OwnerInv
  BY EmptyIsTyped DEF Init, OwnerInv, Filling
<1>4. PartInv
  BY DEF Init, PartInv, UpstreamInv, ProviderInv, ThunderInv, DoneInv
<1> QED
  BY <1>1, <1>2, <1>3, <1>4 DEF Inv

-----------------------------------------------------------------------------
(***************************************************************************)
(* The environment, and the ends of a run.                                 *)
(***************************************************************************)
LEMMA PersonMakesDirectoryInv ==
  ASSUME Inv, NEW filled \in SUBSET Parts, PersonMakesDirectory(filled)
  PROVE  Inv'
<1>1. /\ owner = "none" /\ owner' = "person" /\ part' = PersonsTree(filled)
      /\ UNCHANGED <<archive, partial, marker, cache, pc, run, swapped, taken, orphan>>
  BY DEF PersonMakesDirectory
<1>2. /\ part' \in [Parts -> [stage : Stages, runs : SUBSET (0..MaxRuns), bytes : {"none"} \cup Bytes]]
      /\ \A p \in Parts : part'[p] \in {Empty, Foreign}
  BY <1>1, EmptyIsTyped
<1>3. TypeOK'
  BY <1>1, <1>2 DEF Inv, TypeOK
<1>4. FileInv' /\ RunInv'
  BY <1>1 DEF Inv, FileInv, RunInv
<1>5. OwnerInv'
  BY <1>1, <1>2 DEF Inv, OwnerInv, Empty, Foreign
\* The script is not at work on a directory that nobody has made.
<1>6. pc \notin {"clear", "mark"} \cup Filling
  BY <1>1 DEF Inv, OwnerInv
<1>7. PartInv'
  BY <1>1, <1>6 DEF PartInv, UpstreamInv, ProviderInv, ThunderInv, DoneInv, Filling
<1> QED
  BY <1>3, <1>4, <1>5, <1>7 DEF Inv

LEMMA PersonRemovesDirectoryInv ==
  ASSUME Inv, PersonRemovesDirectory
  PROVE  Inv'
<1>1. /\ pc \in Ends /\ owner' = "none" /\ marker' = FALSE /\ orphan' = FALSE
      /\ part' = PersonsTree({})
      /\ UNCHANGED <<archive, partial, cache, pc, run, swapped, taken>>
  BY DEF PersonRemovesDirectory
<1>2. TypeOK'
  BY <1>1, EmptyIsTyped DEF Inv, TypeOK
<1>3. FileInv' /\ RunInv' /\ OwnerInv'
  BY <1>1, EmptyIsTyped DEF Inv, FileInv, RunInv, OwnerInv, Empty, Foreign, Ends, Filling
<1>4. PartInv'
  BY <1>1 DEF PartInv, UpstreamInv, ProviderInv, ThunderInv, DoneInv, Ends
<1> QED
  BY <1>2, <1>3, <1>4 DEF Inv

LEMMA PersonReplacesArchiveInv ==
  ASSUME Inv, NEW b \in {"none"} \cup Bytes, PersonReplacesArchive(b)
  PROVE  Inv'
<1>1. /\ pc \notin {"fetch", "curl", "move"} /\ archive' = b /\ swapped' = (swapped \/ pc \in Commands)
      /\ UNCHANGED <<partial, owner, marker, part, cache, pc, run, taken, orphan>>
  BY DEF PersonReplacesArchive, Running, tree
<1>2. TypeOK'
  BY <1>1 DEF Inv, TypeOK
<1>3. FileInv' /\ RunInv' /\ OwnerInv'
  BY <1>1, Places DEF Inv, FileInv, RunInv, OwnerInv, Empty, Foreign, Bytes
<1>4. PartInv'
  <2>1. UNCHANGED <<part, run, taken, owner, pc>> /\ (swapped => swapped')
    BY <1>1
  <2>2. \A p \in Parts : (Untouched(p) => Untouched(p)') /\ (Begun(p) => Begun(p)')
    BY <2>1 DEF Untouched, Begun, OfRun, Empty, Foreign
  <2>3. \A p \in Parts, stages \in SUBSET Stages : Written(p, stages) => Written(p, stages)'
    BY <2>1 DEF Written, OfRun, Sound
  <2>4. {"plain", "torn"} \in SUBSET Stages /\ {"patched", "torn"} \in SUBSET Stages /\ {"complete"} \in SUBSET Stages
    BY DEF Stages
  <2> QED
    BY <2>1, <2>2, <2>3, <2>4 DEF Inv, PartInv, UpstreamInv, ProviderInv, ThunderInv, DoneInv, Parts
<1> QED
  BY <1>2, <1>3, <1>4 DEF Inv

LEMMA CacheChangesInv ==
  ASSUME Inv, NEW c \in [sum : Bytes, zip : Bytes], CacheChanges(c)
  PROVE  Inv'
<1>1. cache' = c /\ UNCHANGED <<archive, partial, owner, marker, part, pc, run, swapped, taken, orphan>>
  BY DEF CacheChanges, tree
<1>2. TypeOK'
  BY <1>1 DEF Inv, TypeOK
<1>3. FileInv' /\ RunInv' /\ OwnerInv'
  BY <1>1 DEF Inv, FileInv, RunInv, OwnerInv, Empty, Foreign
<1>4. PartInv'
  BY <1>1 DEF Inv, PartInv, UpstreamInv, ProviderInv, ThunderInv, DoneInv, Untouched, Begun, OfRun, Written, Sound,
              Empty, Foreign
<1> QED
  BY <1>2, <1>3, <1>4 DEF Inv

LEMMA StartInv ==
  ASSUME Inv, Start
  PROVE  Inv'
<1>1. /\ pc \in Ends /\ run < MaxRuns /\ run' = run + 1 /\ pc' = "fetch" /\ swapped' = FALSE
      /\ UNCHANGED <<archive, partial, owner, marker, part, cache, taken, orphan>>
  BY DEF Start, diskVars
<1>2. run \in 0..MaxRuns /\ run' \in 0..MaxRuns /\ run' # 0
  BY <1>1, BuildPrepareAssumption DEF Inv, TypeOK
<1>3. TypeOK'
  BY <1>1, <1>2, Places DEF Inv, TypeOK
<1>4. FileInv' /\ RunInv' /\ OwnerInv'
  BY <1>1, <1>2 DEF Inv, FileInv, RunInv, OwnerInv, Empty, Foreign, Filling, Ends
<1>5. PartInv'
  BY <1>1 DEF PartInv, UpstreamInv, ProviderInv, ThunderInv, DoneInv
<1> QED
  BY <1>3, <1>4, <1>5 DEF Inv

LEMMA DieInv ==
  ASSUME Inv, Die
  PROVE  Inv'
<1>1. /\ pc \in Commands /\ pc' = "dead" /\ orphan' = (orphan \/ (pc \in {"clear", "mark"} /\ ~marker))
      /\ UNCHANGED <<archive, partial, owner, marker, part, cache, run, swapped, taken>>
  BY DEF Die, Running, diskVars
<1>2. TypeOK'
  BY <1>1 DEF Inv, TypeOK, Ends
<1>3. FileInv' /\ RunInv' /\ OwnerInv'
  BY <1>1, Places DEF Inv, FileInv, RunInv, OwnerInv, Empty, Foreign, Filling
<1>4. PartInv'
  BY <1>1 DEF PartInv, UpstreamInv, ProviderInv, ThunderInv, DoneInv
<1> QED
  BY <1>2, <1>3, <1>4 DEF Inv

-----------------------------------------------------------------------------
(***************************************************************************)
(* The script until the way is clear: no part is looked at.                *)
(***************************************************************************)
LEMMA DownloadInv ==
  ASSUME Inv, Fetch \/ (\E b \in Bytes : Curl(b)) \/ Move \/ Hash \/ Look
  PROVE  Inv'
<1>1. /\ pc \in {"fetch", "curl", "move", "hash", "look"}
      /\ pc' \in {"curl", "move", "hash", "look", "mismatch", "mkdir", "clear", "refused"}
      /\ UNCHANGED <<owner, marker, part, cache, run, taken, orphan>>
  BY DEF Fetch, Curl, Move, Hash, Look, Go, tree, diskVars
<1>2. archive' \in {"none"} \cup Bytes /\ partial' \in {"none", "part"} \cup Bytes /\ swapped' \in BOOLEAN
      /\ (pc' = "move" => partial' # "part" /\ partial' # "none")
  BY DEF Inv, TypeOK, FileInv, Fetch, Curl, Move, Hash, Look, Go, diskVars, Bytes
<1>3. pc' \in {"look", "clear", "mkdir"} => archive' = "pinned" \/ swapped'
  BY DEF Inv, FileInv, Fetch, Curl, Move, Hash, Look, Go, diskVars
<1>4. /\ pc' = "mkdir" => owner # "script"
      /\ pc' = "clear" => owner = "script"
  BY DEF Inv, OwnerInv, TypeOK, Fetch, Curl, Move, Hash, Look, Go
<1>5. TypeOK'
  BY <1>1, <1>2, Places DEF Inv, TypeOK, Ends
<1>6. FileInv' /\ RunInv'
  BY <1>1, <1>2, <1>3, Places DEF Inv, FileInv, RunInv, Bytes, Filling
<1>7. OwnerInv'
  BY <1>1, <1>4 DEF Inv, OwnerInv, Empty, Foreign, Filling
<1>8. PartInv'
  BY <1>1 DEF PartInv, UpstreamInv, ProviderInv, ThunderInv, DoneInv
<1> QED
  BY <1>5, <1>6, <1>7, <1>8 DEF Inv

LEMMA ClearInv ==
  ASSUME Inv, (\E p \in Parts : ClearPart(p)) \/ ClearMarker \/ ClearDirectory
  PROVE  Inv'
<1>1. /\ pc = "clear" /\ pc' \in {"clear", "mkdir"}
      /\ UNCHANGED <<archive, partial, cache, run, swapped, taken, orphan>>
      /\ marker' \in BOOLEAN
  BY DEF ClearPart, ClearMarker, ClearDirectory, Go, Inv, TypeOK
<1>2. part' \in [Parts -> [stage : Stages, runs : SUBSET (0..MaxRuns), bytes : {"none"} \cup Bytes]]
  BY EmptyIsTyped DEF ClearPart, ClearMarker, ClearDirectory, Go, Inv, TypeOK
<1>3. \/ owner' = "script" /\ pc' = "clear"
      \/ /\ owner' = "none" /\ pc' = "mkdir" /\ marker' = FALSE /\ part' = part
         /\ \A p \in Parts : part[p] = Empty
  BY DEF ClearPart, ClearMarker, ClearDirectory, Go, Inv, OwnerInv, TypeOK
<1>4. TypeOK'
  BY <1>1, <1>2, <1>3, Places DEF Inv, TypeOK
<1>5. FileInv' /\ RunInv'
  BY <1>1, Places DEF Inv, FileInv, RunInv
<1>6. OwnerInv'
  BY <1>1, <1>3 DEF OwnerInv, Empty, Foreign, Filling
<1>7. PartInv'
  BY <1>1 DEF PartInv, UpstreamInv, ProviderInv, ThunderInv, DoneInv
<1> QED
  BY <1>4, <1>5, <1>6, <1>7 DEF Inv

-----------------------------------------------------------------------------
(***************************************************************************)
(* The script from mkdir on: only the part of the command changes, and the *)
(* script goes on to the next command or to its end.                       *)
(***************************************************************************)
LEMMA MkdirInv ==
  ASSUME Inv, Mkdir
  PROVE  Inv'
<1>1. /\ pc = "mkdir" /\ pc' = "mark" /\ owner' = "script" /\ taken' = (owner = "person")
      /\ UNCHANGED <<archive, partial, marker, part, cache, run, swapped, orphan>>
  BY Places DEF Mkdir, Go
<1>2. TypeOK'
  BY <1>1, Places DEF Inv, TypeOK
<1>3. FileInv' /\ RunInv' /\ OwnerInv'
  BY <1>1, Places DEF Inv, FileInv, RunInv, OwnerInv, Empty, Foreign, Filling
<1>4. PartInv'
  <2>1. \A p \in Parts : part[p] = Empty \/ (owner = "person" /\ part[p] = Foreign)
    BY <1>1 DEF Inv, TypeOK, OwnerInv
  <2>2. \A p \in Parts : Untouched(p)'
    BY <1>1, <2>1 DEF Untouched, Empty, Foreign
  <2> QED
    BY <1>1, <2>2 DEF PartInv, UpstreamInv, ProviderInv, ThunderInv, DoneInv, Parts
<1> QED
  BY <1>2, <1>3, <1>4 DEF Inv

LEMMA MarkInv ==
  ASSUME Inv, Mark
  PROVE  Inv'
<1>1. /\ pc = "mark" /\ pc' = "untar" /\ marker' = TRUE
      /\ UNCHANGED <<archive, partial, owner, part, cache, run, swapped, taken, orphan>>
  BY Places DEF Mark, Go
<1>2. TypeOK'
  BY <1>1, Places DEF Inv, TypeOK, Filling
<1>3. FileInv' /\ RunInv' /\ OwnerInv'
  BY <1>1, Places DEF Inv, FileInv, RunInv, OwnerInv, Empty, Foreign, Filling
<1>4. PartInv'
  <2>1. \A p \in Parts : Untouched(p) => Begun(p)' /\ Untouched(p)'
    BY <1>1 DEF Untouched, Begun, OfRun, Empty, Foreign
  <2> QED
    BY <1>1, <2>1 DEF Inv, PartInv, UpstreamInv, ProviderInv, ThunderInv, DoneInv, Parts
<1> QED
  BY <1>2, <1>3, <1>4 DEF Inv

\* What a command that fills a part leaves of the invariant to show.
LEMMA FillInv ==
  ASSUME Inv, pc \in Filling, pc' \in Filling \cup {"done", "unsound"},
         UNCHANGED <<archive, partial, owner, marker, cache, run, swapped, taken, orphan>>,
         part' \in [Parts -> [stage : Stages, runs : SUBSET (0..MaxRuns), bytes : {"none"} \cup Bytes]],
         PartInv'
  PROVE  Inv'
<1>1. TypeOK'
  BY Places DEF Inv, TypeOK, Ends
<1>2. FileInv' /\ RunInv'
  BY Places DEF Inv, FileInv, RunInv, Filling
<1>3. OwnerInv'
  BY DEF Inv, OwnerInv, Filling
<1> QED
  BY <1>1, <1>2, <1>3 DEF Inv

LEMMA SumInv ==
  ASSUME Inv, Sum
  PROVE  Inv'
<1>1. /\ pc = "sum" /\ pc' \in {"extract", "unsound"}
      /\ UNCHANGED <<archive, partial, owner, marker, part, cache, run, swapped, taken, orphan>>
  BY Places DEF Sum, Go, diskVars
<1>2. PartInv'
  <2>1. \A p \in Parts : Untouched(p) => Begun(p)' /\ Untouched(p)'
    BY <1>1 DEF Untouched, Begun, OfRun, Empty, Foreign
  <2>2. Written("upstream", {"complete"}) => Written("upstream", {"complete"})'
    BY <1>1 DEF Written, OfRun, Sound
  <2>3. Written("provider", {"complete"}) => Written("provider", {"complete"})'
    BY <1>1 DEF Written, OfRun, Sound
  <2> QED
    BY <1>1, <2>1, <2>2, <2>3 DEF Inv, PartInv, UpstreamInv, ProviderInv, ThunderInv, DoneInv, Parts
<1>3. part' \in [Parts -> [stage : Stages, runs : SUBSET (0..MaxRuns), bytes : {"none"} \cup Bytes]]
  BY <1>1 DEF Inv, TypeOK
<1> QED
  BY <1>1, <1>2, <1>3, FillInv DEF Filling

LEMMA BeginInv ==
  ASSUME Inv, NEW j \in DOMAIN Jobs, Begin(j)
  PROVE  Inv'
<1>1. PICK p \in Parts : p = Jobs[j].part
  BY Places, JobParts DEF Parts, Filling
<1>2. run \in 1..MaxRuns /\ pc = j
  BY Places, BuildPrepareAssumption DEF Begin, Inv, TypeOK, RunInv
<1>3. /\ part' = [part EXCEPT ![p].stage = "torn", ![p].runs = @ \cup {run}]
      /\ pc' = pc /\ UNCHANGED <<archive, partial, owner, marker, cache, run, swapped, taken, orphan>>
  BY <1>1 DEF Begin
<1>4. part \in [Parts -> [stage : Stages, runs : SUBSET (0..MaxRuns), bytes : {"none"} \cup Bytes]]
  BY DEF Inv, TypeOK
<1>5. /\ part'[p].stage = "torn" /\ part'[p].runs = part[p].runs \cup {run} /\ part'[p].bytes = part[p].bytes
      /\ \A q \in Parts : q # p => part'[q] = part[q]
  BY <1>3, <1>4
<1>6. "torn" \in Stages
  BY DEF Stages
<1>7. part' \in [Parts -> [stage : Stages, runs : SUBSET (0..MaxRuns), bytes : {"none"} \cup Bytes]]
  <2>1. part[p].runs \cup {run} \in SUBSET (0..MaxRuns)
    BY <1>2, <1>4
  <2> QED
    BY <1>3, <1>4, <1>6, <2>1
<1>8. ASSUME Untouched(p) \/ OfRun(p) PROVE OfRun(p)'
  BY <1>3, <1>5, <1>8, EmptyIsTyped DEF Untouched, OfRun
<1>9. PartInv'
  <2> USE <1>1, <1>2, <1>3, <1>5, <1>8, JobParts
      DEF Inv, PartInv, UpstreamInv, ProviderInv, ThunderInv, DoneInv, Untouched, Begun, OfRun, Written, Sound,
          Empty, Foreign, Parts
  <2>1. CASE j = "untar"
    BY <2>1
  <2>2. CASE j = "patch"
    BY <2>2
  <2>3. CASE j = "overlay"
    BY <2>3
  <2>4. CASE j = "provider"
    BY <2>4
  <2>5. CASE j = "extract"
    BY <2>5
  <2>6. CASE j = "thunder_patch"
    BY <2>6
  <2>7. CASE j = "thunder_overlay"
    BY <2>7
  <2> QED
    BY <2>1, <2>2, <2>3, <2>4, <2>5, <2>6, <2>7, Places DEF Filling
<1>10. pc \in Filling /\ pc' \in Filling
  BY <1>2, <1>3, Places
<1> QED
  BY <1>3, <1>7, <1>9, <1>10, FillInv

LEMMA CompleteInv ==
  ASSUME Inv, NEW j \in DOMAIN Jobs, Complete(j)
  PROVE  Inv'
<1>1. PICK p \in Parts : p = Jobs[j].part
  BY Places, JobParts DEF Parts, Filling
<1>2. /\ pc = j /\ j \in Filling /\ part[p].stage = "torn" /\ pc' = After[j]
      /\ part' = [part EXCEPT ![p].stage = Jobs[j].to, ![p].bytes = Source(j, @)]
      /\ UNCHANGED <<archive, partial, owner, marker, cache, run, swapped, taken, orphan>>
  BY <1>1, Places DEF Complete, Go
<1>3. part \in [Parts -> [stage : Stages, runs : SUBSET (0..MaxRuns), bytes : {"none"} \cup Bytes]]
  BY DEF Inv, TypeOK
<1>4. /\ part'[p].stage = Jobs[j].to /\ part'[p].runs = part[p].runs /\ part'[p].bytes = Source(j, part[p].bytes)
      /\ \A q \in Parts : q # p => part'[q] = part[q]
  BY <1>2, <1>3
<1>5. Jobs[j].to \in Stages
  BY <1>2, JobEnds, Places DEF Stages, Filling
<1>6. Source(j, part[p].bytes) \in {"none"} \cup Bytes
  <2>1. part[p].bytes \in {"none"} \cup Bytes /\ "pinned" \in Bytes
    BY <1>3 DEF Bytes
  <2>2. j = "untar" => archive \in Bytes
    BY DEF Complete
  <2> QED
    BY <2>1, <2>2 DEF Source
<1>7. part' \in [Parts -> [stage : Stages, runs : SUBSET (0..MaxRuns), bytes : {"none"} \cup Bytes]]
  BY <1>2, <1>3, <1>5, <1>6
<1>8. OfRun(p) /\ OfRun(p)'
  <2>1. ASSUME Untouched(p) PROVE FALSE
    BY <1>2, <2>1, EmptyIsTyped DEF Untouched
  <2>2. OfRun(p)
    BY <1>1, <1>2, <2>1, JobParts, Places
    DEF Inv, PartInv, UpstreamInv, ProviderInv, ThunderInv, Begun, Written, Filling
  <2> QED
    BY <1>2, <1>4, <2>2 DEF OfRun
<1>9. Sound(p)'
  <2>1. j = "untar" => Source(j, part[p].bytes) = archive /\ (archive = "pinned" \/ swapped)
    BY <1>2 DEF Source, Inv, FileInv, Filling
  <2>2. j = "extract" => Source(j, part[p].bytes) = "pinned"
    BY DEF Source
  <2>3. j \notin {"untar", "extract"} => Source(j, part[p].bytes) = part[p].bytes
    BY DEF Source
  <2>4. j \in {"patch", "overlay", "thunder_patch", "thunder_overlay"} => Sound(p)
    BY <1>1, <1>2, JobParts DEF Inv, PartInv, UpstreamInv, ThunderInv, Written
  <2>5. p = "upstream" => j \in {"untar", "patch", "overlay"}
    BY <1>1, <1>2, JobParts, Places DEF Filling
  <2>6. p = "thunder" => j \in {"extract", "thunder_patch", "thunder_overlay"}
    BY <1>1, <1>2, JobParts, Places DEF Filling
  <2> QED
    BY <1>2, <1>4, <2>1, <2>2, <2>3, <2>4, <2>5, <2>6 DEF Sound
<1>10. part'[p].stage = Jobs[j].to /\ OfRun(p)'
  BY <1>2, <1>4, <1>8
<1>11. PartInv'
  <2>1. \A q \in Parts : q # p => /\ (Untouched(q) => Untouched(q)' /\ Begun(q)')
                                 /\ (Written(q, {"complete"}) => Written(q, {"complete"})')
    BY <1>2, <1>4 DEF Untouched, Begun, OfRun, Written, Sound, Empty, Foreign
  <2>2. PICK to : to = Jobs[j].to
    OBVIOUS
  <2>3. Written(p, {to})'
    BY <1>9, <1>10, <2>2 DEF Written
  <2> USE <1>1, <1>2, <2>1, <2>2, <2>3, JobParts, JobEnds, Places
      DEF Inv, PartInv, UpstreamInv, ProviderInv, ThunderInv, DoneInv, Parts
  <2>4. CASE j = "untar"
    BY <2>4 DEF Written
  <2>5. CASE j = "patch"
    BY <2>5 DEF Written
  <2>6. CASE j = "overlay"
    BY <2>6
  <2>7. CASE j = "provider"
    BY <2>7
  <2>8. CASE j = "extract"
    BY <2>8 DEF Written
  <2>9. CASE j = "thunder_patch"
    BY <2>9 DEF Written
  <2>10. CASE j = "thunder_overlay"
    BY <2>10
  <2> QED
    BY <2>4, <2>5, <2>6, <2>7, <2>8, <2>9, <2>10, Places DEF Filling
<1>12. pc' \in Filling \cup {"done", "unsound"}
  BY <1>2, Places DEF Filling
<1> QED
  BY <1>2, <1>7, <1>11, <1>12, FillInv

LEMMA NextInv == Inv /\ [Next]_vars => Inv'
<1> SUFFICES ASSUME Inv, [Next]_vars PROVE Inv'
  OBVIOUS
<1>1. ASSUME Script PROVE Inv'
  BY <1>1, DownloadInv, ClearInv, MkdirInv, MarkInv, SumInv, BeginInv, CompleteInv DEF Script
<1>2. CASE UNCHANGED vars
  BY <1>2 DEF vars, diskVars, Inv, TypeOK, FileInv, RunInv, OwnerInv, PartInv, UpstreamInv, ProviderInv, ThunderInv,
              DoneInv, Untouched, Begun, OfRun, Written, Sound, Empty, Foreign
<1> QED
  BY <1>1, <1>2, StartInv, DieInv, PersonMakesDirectoryInv, PersonRemovesDirectoryInv, PersonReplacesArchiveInv,
     CacheChangesInv DEF Next

-----------------------------------------------------------------------------
\* The inductive invariant of the files and of the script's position.
THEOREM Invariance == Spec => []Inv
  BY InitInv, NextInv, PTL DEF Spec

\* Types of the files and of the script's position.
THEOREM TypeCorrect == Spec => []TypeOK
<1>1. Inv => TypeOK
  BY DEF Inv
<1> QED
  BY <1>1, Invariance, PTL

(***************************************************************************)
(* When prepare.sh has printed its path, the build is whole, of this run   *)
(* alone and of the pinned bytes, however many runs came before it.        *)
(***************************************************************************)
THEOREM FreshWhenReadyAlways == Spec => []FreshWhenReady
<1>1. Inv => FreshWhenReady
  BY DEF Inv, OwnerInv, PartInv, DoneInv, Written, OfRun, Sound, FreshWhenReady, Parts
<1> QED
  BY <1>1, Invariance, PTL

(***************************************************************************)
(* prepare.sh leaves alone the directory that a person made: it goes past  *)
(* its look only when the marker is there, and nobody else leaves one.     *)
(***************************************************************************)
THEOREM ForeignUntouchedAlways == Spec => ForeignUntouched
<1>1. Inv /\ [Next]_vars => [owner = "person" /\ pc \notin Ends \cup {"mkdir"} => UNCHANGED tree]_vars
  <2> SUFFICES ASSUME Inv, Next, owner = "person", pc \notin Ends, pc # "mkdir" PROVE UNCHANGED tree
    BY DEF tree
  <2>1. pc \notin {"clear", "mark"} \cup Filling
    BY DEF Inv, OwnerInv
  <2>2. Script => UNCHANGED tree
    BY <2>1, Places
    DEF Script, Fetch, Curl, Move, Hash, Look, ClearPart, ClearMarker, ClearDirectory, Mkdir, Mark, Sum, Begin,
        Complete, diskVars, tree, Filling
  <2> QED
    BY <2>2 DEF Next, Start, Die, PersonMakesDirectory, PersonRemovesDirectory, PersonReplacesArchive, CacheChanges,
                diskVars, tree
<1> QED
  BY <1>1, Invariance, PTL DEF Spec, ForeignUntouched

(***************************************************************************)
(* prepare.sh refuses a directory only for a person's sake or after a run  *)
(* was stopped between making or clearing it and its marker, and is never  *)
(* stopped by what is left of a download, which never was in its place.    *)
(***************************************************************************)
THEOREM RefusedForCauseAlways == Spec => RefusedForCause
<1>1. Inv /\ [Next]_vars => [/\ pc = "look" /\ pc' = "refused" => owner = "person" \/ orphan
                             /\ pc = "hash" /\ pc' = "mismatch" => archive # "part"]_vars
  <2> SUFFICES ASSUME Inv, Next
               PROVE  /\ pc = "look" /\ pc' = "refused" => owner = "person" \/ orphan
                      /\ pc = "hash" /\ pc' = "mismatch" => archive # "part"
    OBVIOUS
  <2>1. archive # "part"
    BY DEF Inv, FileInv
  <2>2. ASSUME pc = "look", pc' = "refused" PROVE owner # "none" /\ ~marker
    <3>1. Look
      BY <2>2, Places
      DEF Next, Script, Start, Die, PersonMakesDirectory, PersonRemovesDirectory, PersonReplacesArchive, CacheChanges,
          Fetch, Curl, Move, Hash, ClearPart, ClearMarker, ClearDirectory, Mkdir, Mark, Sum, Begin, Complete,
          Ends, Filling
    <3> QED
      BY <2>2, <3>1 DEF Look, Go
  <2> QED
    BY <2>1, <2>2 DEF Inv, TypeOK, OwnerInv
<1> QED
  BY <1>1, Invariance, PTL DEF Spec, RefusedForCause

-----------------------------------------------------------------------------
(***************************************************************************)
(* The inductive invariant of a candidate build.  Until a path is hashed   *)
(* for the label nothing is counted against it; from then on, the count of *)
(* its edits says whether it still is what the label holds: it is after    *)
(* none, it is not after one, and two may have put it back.  The label     *)
(* tells the revision by what was in the tree when Git was asked, and the  *)
(* sidecars of earlier builds never are about the archive of a later one.  *)
(***************************************************************************)
Labelled == {"export", "verify_list", "verify", "artifact", "checksum"}
Exported == {"verify_list", "verify", "artifact", "checksum"}

DigestInv ==
  /\ at \in {"revision", "state", "list"} => label.sha = Nothing
  /\ at \in {"revision", "state", "list", "hash"} => context = Nothing
  /\ at \in {"revision", "state", "list", "hash", "export", "verify_list"} => current = Nothing
  /\ at \in Labelled => AllRead(label.sha)
  /\ at \in Exported => AllRead(context)
  /\ at \in {"artifact", "checksum"} => current = label.sha

\* What a comparison of path f finds, or would find.
Found(f) == IF current[f] = Unread THEN worktree[f] ELSE current[f]

Accounted(f) ==
  /\ label.sha[f] = Unread => edits[f] = 0
  /\ label.sha[f] # Unread /\ edits[f] = 0 => Found(f) = label.sha[f]
  /\ label.sha[f] # Unread /\ edits[f] = 1 => Found(f) # label.sha[f]
  /\ context[f] # Unread /\ edits[f] = 0 => context[f] = label.sha[f]

EditInv == Building => \A f \in Files : Accounted(f)

\* What the label holds of path f, or would hold.
Recorded(f) == IF label.sha[f] = Unread THEN worktree[f] ELSE label.sha[f]

LabelInv ==
  /\ at = "state" => \A f \in Tracked \ moved : label.revision[f] = head[f]
  /\ at \in {"list", "hash"} \cup Labelled /\ label.state = "clean" =>
       \A f \in Tracked \ moved : label.revision[f] = Recorded(f)

ArchiveInv ==
  /\ at \in {"revision", "state", "list", "hash", "export"} \cup Exported => checksum # build /\ metadata # build
  /\ at \in Exported =>
       oci.build = build /\ oci.label = label /\ oci.content = context /\ oci.moved = moved
  /\ at = "checksum" => oci.damage # "identity"
  /\ at = "metadata" => checksum = oci.build
  /\ Building => build # 0

CandidateInv == CandidateTypeOK /\ DigestInv /\ EditInv /\ LabelInv /\ ArchiveInv /\ SidecarVouches

\* The positions of the script.
LEMMA BuildingPlaces ==
  Building <=> at \in {"revision", "state", "list", "hash", "metadata"} \cup Labelled
BY DEF Building, Labelled

LEMMA CandidateInitInv == CandidateInit => CandidateInv
<1> SUFFICES ASSUME CandidateInit PROVE CandidateInv
  OBVIOUS
<1>1. Nothing \in Digests /\ Unknown \in [Tracked -> Contents \cup {Absent, Unread}]
  BY DEF Nothing, Unknown, Digests
<1>2. CandidateTypeOK
  BY <1>1, CandidateAssumption DEF CandidateInit, CandidateTypeOK, NoLabel, Labels
<1> QED
  BY <1>2 DEF CandidateInit, CandidateInv, DigestInv, EditInv, LabelInv, ArchiveInv, SidecarVouches, Fits, Building,
              Labelled, Exported

-----------------------------------------------------------------------------
(***************************************************************************)
(* People.                                                                 *)
(***************************************************************************)
LEMMA EditInvariant ==
  ASSUME CandidateInv, NEW f \in Files, NEW c \in Contents \cup {Absent}, Edit(f, c)
  PROVE  CandidateInv'
<1>1. /\ worktree' = [worktree EXCEPT ![f] = c] /\ c # worktree[f]
      /\ edits' = IF Watched(f) /\ edits[f] < 2 THEN [edits EXCEPT ![f] = @ + 1] ELSE edits
      /\ moved' = IF Labelling(f) THEN moved \cup {f} ELSE moved
      /\ UNCHANGED <<head, oci, checksum, metadata, undone, label, context, current, at, build>>
  BY DEF Edit, exports, locals
<1>2. CandidateTypeOK
  BY DEF CandidateInv
<1>3. CandidateTypeOK'
  <2>1. edits' \in [Files -> 0..2]
    BY <1>1, <1>2 DEF CandidateTypeOK
  <2>2. moved' \in SUBSET Tracked
    BY <1>1, <1>2 DEF CandidateTypeOK, Labelling
  <2> QED
    BY <1>1, <1>2, <2>1, <2>2 DEF CandidateTypeOK, Archives, Building
<1>4. DigestInv'
  BY <1>1 DEF CandidateInv, DigestInv, AllRead
<1>5. EditInv'
  <2> SUFFICES ASSUME Building, NEW g \in Files PROVE Accounted(g)'
    BY <1>1 DEF EditInv, Building
  <2>1. Accounted(g)
    BY DEF CandidateInv, EditInv
  <2>2. CASE g # f
    BY <1>1, <1>2, <2>1, <2>2 DEF CandidateTypeOK, Accounted, Found
  <2>3. CASE g = f /\ ~Watched(f)
    BY <1>1, <1>2, <2>1, <2>3 DEF CandidateTypeOK, Accounted, Found, Watched
  <2>4. CASE g = f /\ Watched(f)
    <3>1. edits[f] \in 0..2 /\ worktree'[f] = c
      BY <1>1, <1>2 DEF CandidateTypeOK
    <3>2. edits'[f] = IF edits[f] < 2 THEN edits[f] + 1 ELSE edits[f]
      BY <1>1, <1>2, <2>4 DEF CandidateTypeOK
    <3> QED
      BY <1>1, <2>1, <2>4, <3>1, <3>2 DEF Accounted, Found, Watched
  <2> QED
    BY <2>2, <2>3, <2>4
<1>6. LabelInv'
  BY <1>1, <1>2
  DEF CandidateInv, CandidateTypeOK, LabelInv, Recorded, Labelling, Labelled, DigestInv, AllRead, Nothing, Tracked
<1>7. ArchiveInv' /\ SidecarVouches'
  <2>1. at \in Exported => moved' = moved
    BY <1>1 DEF CandidateInv, DigestInv, Labelled, Exported, AllRead, Labelling
  <2> QED
    BY <1>1, <2>1 DEF CandidateInv, ArchiveInv, SidecarVouches, Fits, Building, Exported
<1> QED
  BY <1>3, <1>4, <1>5, <1>6, <1>7 DEF CandidateInv

LEMMA CommitInvariant ==
  ASSUME CandidateInv, Commit
  PROVE  CandidateInv'
<1>1. /\ head' = [f \in Tracked |-> worktree[f]]
      /\ moved' = moved \cup {f \in Tracked : Labelling(f) /\ worktree[f] # head[f]}
      /\ UNCHANGED <<worktree, oci, checksum, metadata, undone, label, context, current, edits, at, build>>
  BY DEF Commit, exports, locals
<1>2. CandidateTypeOK
  BY DEF CandidateInv
<1>3. CandidateTypeOK'
  BY <1>1, <1>2 DEF CandidateTypeOK, Archives, Building, Tracked
<1>4. DigestInv' /\ EditInv'
  BY <1>1 DEF CandidateInv, DigestInv, AllRead, EditInv, Building, Accounted, Found
<1>5. LabelInv'
  <2>1. ASSUME at = "state", NEW f \in Tracked \ moved' PROVE label'.revision[f] = head'[f]
    <3>1. Labelling(f)
      BY <2>1 DEF CandidateInv, DigestInv, Labelling, Nothing, Tracked
    <3> QED
      BY <1>1, <2>1, <3>1 DEF CandidateInv, LabelInv
  <2> QED
    BY <1>1, <2>1 DEF CandidateInv, LabelInv, Recorded
<1>6. ArchiveInv' /\ SidecarVouches'
  <2>1. at \in Exported => moved' = moved
    BY <1>1 DEF CandidateInv, DigestInv, Labelled, Exported, AllRead, Labelling
  <2> QED
    BY <1>1, <2>1 DEF CandidateInv, ArchiveInv, SidecarVouches, Fits, Building, Exported
<1> QED
  BY <1>3, <1>4, <1>5, <1>6 DEF CandidateInv

-----------------------------------------------------------------------------
(***************************************************************************)
(* The beginning and the end of a build.                                   *)
(***************************************************************************)
LEMMA StartBuildInvariant ==
  ASSUME CandidateInv, StartBuild
  PROVE  CandidateInv'
<1>1. /\ build' = build + 1 /\ build < MaxBuilds /\ at' = "revision"
      /\ label' = NoLabel /\ context' = Nothing /\ current' = Nothing
      /\ moved' = {} /\ edits' = [f \in Files |-> 0]
      /\ UNCHANGED <<worktree, head, oci, checksum, metadata, undone>>
  BY DEF StartBuild, inputs, exports
<1>2. CandidateTypeOK
  BY DEF CandidateInv
<1>3. build' \in 0..MaxBuilds /\ 1..build \subseteq 1..build'
  BY <1>1, <1>2, CandidateAssumption DEF CandidateTypeOK
<1>4. Nothing \in Digests /\ NoLabel \in Labels
  BY DEF Nothing, Unknown, Digests, NoLabel, Labels
<1>5. oci' \in Archives' \cup {None}
  BY <1>1, <1>2, <1>3 DEF CandidateTypeOK, Archives
<1>6. CandidateTypeOK'
  BY <1>1, <1>2, <1>3, <1>4, <1>5 DEF CandidateTypeOK, Building
<1>7. DigestInv' /\ EditInv' /\ LabelInv'
  BY <1>1 DEF DigestInv, EditInv, Accounted, LabelInv, NoLabel, Nothing, Labelled, Exported
<1>8. ArchiveInv' /\ SidecarVouches'
  <2>1. checksum # build' /\ metadata # build' /\ build' # 0
    BY <1>1, <1>2, CandidateAssumption DEF CandidateTypeOK
  <2> QED
    BY <1>1, <2>1 DEF CandidateInv, ArchiveInv, SidecarVouches, Fits, Building, Exported
<1> QED
  BY <1>6, <1>7, <1>8 DEF CandidateInv

LEMMA BuildDiesInvariant ==
  ASSUME CandidateInv, BuildDies
  PROVE  CandidateInv'
<1>1. /\ Building /\ at' = "dead"
      /\ checksum' \in IF at = "checksum" THEN {checksum, None} ELSE {checksum}
      /\ metadata' \in IF at = "metadata" THEN {metadata, None} ELSE {metadata}
      /\ oci' \in IF at = "export" THEN {oci, None} ELSE {oci}
      /\ UNCHANGED <<worktree, head, undone, label, context, current, moved, edits, build>>
  BY DEF BuildDies, inputs, locals, histories
<1>2. CandidateTypeOK'
  BY <1>1 DEF CandidateInv, CandidateTypeOK, Archives
<1>3. DigestInv' /\ EditInv' /\ LabelInv' /\ ArchiveInv'
  BY <1>1 DEF DigestInv, EditInv, LabelInv, ArchiveInv, Building, Labelled, Exported
<1>4. SidecarVouches'
  <2>1. SidecarVouches /\ ArchiveInv /\ CandidateTypeOK
    BY DEF CandidateInv
  <2>2. oci' # None => oci' = oci /\ oci'.build \in Int
    BY <1>1, <2>1 DEF CandidateTypeOK, Archives
  <2>3. Fits(checksum)' => Fits(checksum)
    BY <1>1, <2>2, CandidateAssumption DEF Fits
  <2>4. Fits(metadata)' => Fits(metadata)
    BY <1>1, <2>2, CandidateAssumption DEF Fits
  <2>5. at = "checksum" => ~Fits(metadata)
    BY <2>1 DEF ArchiveInv, Exported, Fits
  <2> QED
    BY <1>1, <2>1, <2>2, <2>3, <2>4, <2>5 DEF SidecarVouches, Fits
<1> QED
  BY <1>2, <1>3, <1>4 DEF CandidateInv

-----------------------------------------------------------------------------
(***************************************************************************)
(* The label.  What is in dist/ is of earlier builds.                      *)
(***************************************************************************)
\* The sidecars while a step leaves them and the archive alone.
LEMMA SidecarsStay ==
  ASSUME CandidateInv, UNCHANGED <<oci, checksum, metadata, undone, build, moved>>,
         at \in {"revision", "state", "list", "hash", "export"} \cup Exported,
         at' \notin Exported \/ (at \in Exported /\ UNCHANGED <<label, context>>),
         at' # "metadata", (at' = "checksum" => oci.damage # "identity")
  PROVE  ArchiveInv' /\ SidecarVouches'
BY DEF CandidateInv, ArchiveInv, SidecarVouches, Fits, Building, Exported

LEMMA LabelInvariant ==
  ASSUME CandidateInv, Revision \/ State \/ Unrecorded \/ List
  PROVE  CandidateInv'
<1>1. /\ at \in {"revision", "state", "list"} /\ at' \in {"state", "list", "hash"}
      /\ UNCHANGED <<worktree, head, oci, checksum, metadata, undone, context, current, moved, edits, build>>
  BY DEF Revision, State, Unrecorded, List, Step, inputs, exports, histories
<1>2. CandidateTypeOK /\ DigestInv /\ EditInv /\ LabelInv
  BY DEF CandidateInv
<1>3. label' \in Labels
  <2>1. Listed \in Digests /\ NoLabel \in Labels
    BY DEF Listed, Nothing, Unknown, Digests, NoLabel, Labels
  <2> QED
    BY <1>2, <2>1 DEF CandidateTypeOK, Revision, State, Unrecorded, List, Labels
<1>4. CandidateTypeOK'
  BY <1>1, <1>2, <1>3 DEF CandidateTypeOK, Archives, Building
<1>5. \/ at' \in {"state", "list"} /\ label'.sha = Nothing
      \/ at = "list" /\ at' = "hash" /\ label'.sha = Listed
  BY <1>2 DEF Revision, State, Unrecorded, List, Step, NoLabel, CandidateTypeOK, Labels, DigestInv
<1>6. DigestInv'
  BY <1>1, <1>2, <1>5 DEF DigestInv, Labelled, Exported
<1>7. EditInv'
  <2> SUFFICES ASSUME NEW f \in Files PROVE Accounted(f)'
    BY DEF EditInv
  <2>1. edits[f] = 0 /\ context[f] = Unread /\ current[f] = Unread
    BY <1>1, <1>2 DEF EditInv, Accounted, DigestInv, Nothing, Building
  <2>2. label'.sha[f] # Unread => label'.sha[f] = worktree[f]
    BY <1>5 DEF Nothing, Listed
  <2> QED
    BY <1>1, <2>1, <2>2 DEF Accounted, Found
<1>8. LabelInv'
  <2>1. CASE Revision
    BY <1>1, <1>2, <2>1 DEF Revision, Step, LabelInv, CandidateTypeOK, Labels, Labelled
  <2>2. CASE State
    BY <1>1, <1>2, <2>2
    DEF State, Step, LabelInv, CandidateTypeOK, Labels, Labelled, Recorded, DigestInv, Nothing, Tracked
  <2>3. CASE Unrecorded
    BY <1>1, <1>2, <2>3 DEF Unrecorded, Step, LabelInv, NoLabel
  <2>4. CASE List
    <3>1. /\ at = "list" /\ at' = "hash" /\ label'.state = label.state /\ label'.revision = label.revision
          /\ label'.sha = Listed
      BY <1>2, <2>4 DEF List, Step, CandidateTypeOK, Labels
    <3>2. \A f \in Files : Recorded(f)' = Recorded(f)
      BY <1>1, <1>2, <3>1 DEF Recorded, Listed, DigestInv, Nothing
    <3> QED
      BY <1>1, <1>2, <3>1, <3>2 DEF LabelInv, Labelled, Tracked
  <2> QED
    BY <2>1, <2>2, <2>3, <2>4
<1>9. ArchiveInv' /\ SidecarVouches'
  BY <1>1, SidecarsStay DEF Exported
<1> QED
  BY <1>4, <1>6, <1>7, <1>8, <1>9 DEF CandidateInv

LEMMA HashPathInvariant ==
  ASSUME CandidateInv, NEW f \in Files, HashPath(f)
  PROVE  CandidateInv'
<1>1. /\ at = "hash" /\ at' = "hash" /\ label.sha[f] = Unread
      /\ label' = [label EXCEPT !.sha[f] = worktree[f]]
      /\ UNCHANGED <<worktree, head, oci, checksum, metadata, undone, context, current, moved, edits, build>>
  BY DEF HashPath, Read, Step, inputs, exports, histories
<1>2. CandidateTypeOK /\ DigestInv /\ EditInv /\ LabelInv
  BY DEF CandidateInv
<1>3. worktree[f] \in Contents \cup {Absent} /\ worktree[f] # Unread
  BY <1>2, CandidateAssumption DEF CandidateTypeOK
<1>4. /\ label'.state = label.state /\ label'.revision = label.revision
      /\ label'.sha = [label.sha EXCEPT ![f] = worktree[f]]
  BY <1>1, <1>2 DEF CandidateTypeOK, Labels
<1>5. label' \in Labels
  BY <1>1, <1>2, <1>3 DEF CandidateTypeOK, Labels, Digests
<1>6. \A g \in Files : label'.sha[g] = IF g = f THEN worktree[f] ELSE label.sha[g]
  BY <1>2, <1>4 DEF CandidateTypeOK, Labels, Digests
<1>7. CandidateTypeOK' /\ DigestInv'
  BY <1>1, <1>2, <1>5 DEF CandidateTypeOK, Archives, Building, DigestInv, Labelled, Exported
<1>8. EditInv'
  <2> SUFFICES ASSUME NEW g \in Files PROVE Accounted(g)'
    BY DEF EditInv
  <2>1. Accounted(g) /\ context[g] = Unread /\ current[g] = Unread
    BY <1>1, <1>2 DEF EditInv, DigestInv, Nothing, Building
  <2> QED
    BY <1>1, <1>6, <2>1 DEF Accounted, Found
<1>9. LabelInv'
  <2>1. \A g \in Files : Recorded(g)' = Recorded(g)
    BY <1>1, <1>3, <1>6 DEF Recorded
  <2> QED
    BY <1>1, <1>2, <1>4, <2>1 DEF LabelInv, Tracked
<1>10. ArchiveInv' /\ SidecarVouches'
  BY <1>1, SidecarsStay DEF Exported
<1> QED
  BY <1>7, <1>8, <1>9, <1>10 DEF CandidateInv

-----------------------------------------------------------------------------
(***************************************************************************)
(* The export and the comparison.                                          *)
(***************************************************************************)
\* A step that leaves the locals alone, and the run of the script may end.
LEMMA GoesOn ==
  ASSUME CandidateInv, Hashed \/ Verified \/ Missing \/ Artifact
  PROVE  CandidateInv'
<1>1. /\ UNCHANGED <<worktree, head, oci, checksum, metadata, undone, label, context, current, moved, edits, build>>
      /\ \/ at = "hash" /\ at' = "export" /\ AllRead(label.sha)
         \/ at = "verify" /\ at' = "artifact" /\ current = label.sha
         \/ at = "artifact" /\ at' = "checksum" /\ oci.damage # "identity"
         \/ at \in {"hash", "verify", "artifact"} /\ at' \in {"changed", "missing", "unsound"}
  BY DEF Hashed, Verified, Missing, Artifact, Unchanged, Step, inputs, exports, locals, histories
<1>2. CandidateTypeOK' /\ DigestInv'
  BY <1>1 DEF CandidateInv, CandidateTypeOK, Archives, Building, DigestInv, AllRead, Labelled, Exported
<1>3. EditInv' /\ LabelInv'
  BY <1>1 DEF CandidateInv, EditInv, Accounted, Found, LabelInv, Recorded, Building, Labelled
<1>4. ArchiveInv' /\ SidecarVouches'
  BY <1>1, SidecarsStay DEF Exported
<1> QED
  BY <1>2, <1>3, <1>4 DEF CandidateInv

LEMMA UploadInvariant ==
  ASSUME CandidateInv, NEW f \in Files, Upload(f)
  PROVE  CandidateInv'
<1>1. /\ at = "export" /\ at' = "export"
      /\ context' = [context EXCEPT ![f] = worktree[f]]
      /\ UNCHANGED <<worktree, head, oci, checksum, metadata, undone, label, current, moved, edits, build>>
  BY DEF Upload, Step, inputs, exports, histories
<1>2. CandidateTypeOK /\ DigestInv /\ EditInv /\ LabelInv
  BY DEF CandidateInv
<1>3. CandidateTypeOK' /\ DigestInv'
  BY <1>1, <1>2 DEF CandidateTypeOK, Digests, Archives, Building, DigestInv, AllRead, Labelled, Exported
<1>4. EditInv'
  <2> SUFFICES ASSUME NEW g \in Files PROVE Accounted(g)'
    BY DEF EditInv
  <2>1. Accounted(g) /\ label.sha[g] # Unread /\ current[g] = Unread
    BY <1>1, <1>2 DEF EditInv, DigestInv, Nothing, Building, AllRead, Labelled
  <2>2. context'[g] = IF g = f THEN worktree[f] ELSE context[g]
    BY <1>1, <1>2 DEF CandidateTypeOK, Digests
  <2> QED
    BY <1>1, <2>1, <2>2 DEF Accounted, Found
<1>5. LabelInv'
  BY <1>1, <1>2 DEF LabelInv, Recorded
<1>6. ArchiveInv' /\ SidecarVouches'
  BY <1>1, SidecarsStay DEF Exported
<1> QED
  BY <1>3, <1>4, <1>5, <1>6 DEF CandidateInv

LEMMA ExportInvariant ==
  ASSUME CandidateInv, NEW damage \in Damages, Export(damage)
  PROVE  CandidateInv'
<1>1. /\ at = "export" /\ at' = "verify_list" /\ AllRead(context)
      /\ oci' = [build |-> build, label |-> label, content |-> context, damage |-> damage, moved |-> moved]
      /\ UNCHANGED <<worktree, head, checksum, metadata, undone, label, context, current, moved, edits, build>>
  BY DEF Export, Step, inputs, locals, histories
<1>2. CandidateTypeOK /\ DigestInv /\ EditInv /\ LabelInv /\ ArchiveInv
  BY DEF CandidateInv
<1>3. build \in 1..build
  <2>1. build # 0
    BY <1>1, <1>2 DEF ArchiveInv, Building
  <2> QED
    BY <1>2, <2>1, CandidateAssumption DEF CandidateTypeOK
<1>4. CandidateTypeOK'
  BY <1>1, <1>2, <1>3 DEF CandidateTypeOK, Archives, Building
<1>5. DigestInv' /\ EditInv' /\ LabelInv'
  BY <1>1, <1>2 DEF DigestInv, AllRead, EditInv, Accounted, Found, LabelInv, Recorded, Building, Labelled, Exported
<1>6. ArchiveInv' /\ SidecarVouches'
  BY <1>1, <1>2 DEF ArchiveInv, SidecarVouches, Fits, Building, Exported
<1> QED
  BY <1>4, <1>5, <1>6 DEF CandidateInv

LEMMA VerifyListInvariant ==
  ASSUME CandidateInv, VerifyList
  PROVE  CandidateInv'
<1>1. /\ at = "verify_list" /\ at' = "verify" /\ current' = Listed
      /\ UNCHANGED <<worktree, head, oci, checksum, metadata, undone, label, context, moved, edits, build>>
  BY DEF VerifyList, Step, inputs, exports, histories
<1>2. CandidateTypeOK /\ DigestInv /\ EditInv /\ LabelInv
  BY DEF CandidateInv
<1>3. CandidateTypeOK' /\ DigestInv'
  BY <1>1, <1>2 DEF CandidateTypeOK, Listed, Digests, Archives, Building, DigestInv, AllRead, Labelled, Exported
<1>4. EditInv'
  <2> SUFFICES ASSUME NEW f \in Files PROVE Accounted(f)'
    BY DEF EditInv
  <2>1. Accounted(f) /\ current[f] = Unread
    BY <1>1, <1>2 DEF EditInv, DigestInv, Nothing, Building
  <2>2. current'[f] = IF worktree[f] = Absent THEN Absent ELSE Unread
    BY <1>1 DEF Listed
  <2> QED
    BY <1>1, <2>1, <2>2, CandidateAssumption DEF Accounted, Found
<1>5. LabelInv'
  BY <1>1, <1>2 DEF LabelInv, Recorded, Labelled
<1>6. ArchiveInv' /\ SidecarVouches'
  BY <1>1, SidecarsStay DEF Exported
<1> QED
  BY <1>3, <1>4, <1>5, <1>6 DEF CandidateInv

LEMMA VerifyInvariant ==
  ASSUME CandidateInv, NEW f \in Files, Verify(f)
  PROVE  CandidateInv'
<1>1. /\ at = "verify" /\ at' = "verify" /\ current[f] = Unread
      /\ current' = [current EXCEPT ![f] = worktree[f]]
      /\ UNCHANGED <<worktree, head, oci, checksum, metadata, undone, label, context, moved, edits, build>>
  BY DEF Verify, Read, Step, inputs, exports, histories
<1>2. CandidateTypeOK /\ DigestInv /\ EditInv /\ LabelInv
  BY DEF CandidateInv
<1>3. worktree[f] # Unread
  BY <1>2, CandidateAssumption DEF CandidateTypeOK
<1>4. CandidateTypeOK' /\ DigestInv'
  BY <1>1, <1>2 DEF CandidateTypeOK, Digests, Archives, Building, DigestInv, AllRead, Labelled, Exported
<1>5. EditInv'
  <2> SUFFICES ASSUME NEW g \in Files PROVE Accounted(g)'
    BY DEF EditInv
  <2>1. Accounted(g)
    BY <1>1, <1>2 DEF EditInv, Building
  <2>2. current'[g] = IF g = f THEN worktree[f] ELSE current[g]
    BY <1>1, <1>2 DEF CandidateTypeOK, Digests
  <2> QED
    BY <1>1, <1>3, <2>1, <2>2 DEF Accounted, Found
<1>6. LabelInv'
  BY <1>1, <1>2 DEF LabelInv, Recorded
<1>7. ArchiveInv' /\ SidecarVouches'
  BY <1>1, SidecarsStay DEF Exported
<1> QED
  BY <1>4, <1>5, <1>6, <1>7 DEF CandidateInv

-----------------------------------------------------------------------------
(***************************************************************************)
(* The sidecars.                                                           *)
(***************************************************************************)
LEMMA ChecksumInvariant ==
  ASSUME CandidateInv, Checksum
  PROVE  CandidateInv'
<1>1. /\ at = "checksum" /\ at' = "metadata" /\ checksum' = oci.build
      /\ undone' = {f \in Files : edits[f] = 2}
      /\ UNCHANGED <<worktree, head, oci, metadata, label, context, current, moved, edits, build>>
  BY DEF Checksum, Step, inputs, locals, histories
<1>2. CandidateTypeOK /\ DigestInv /\ EditInv /\ LabelInv /\ ArchiveInv
  BY DEF CandidateInv
<1>3. oci.build = build /\ build \in 1..build
  BY <1>1, <1>2, CandidateAssumption DEF ArchiveInv, Exported, Building, CandidateTypeOK
<1>4. CandidateTypeOK'
  BY <1>1, <1>2, <1>3 DEF CandidateTypeOK, Archives, Building
<1>5. DigestInv' /\ EditInv' /\ LabelInv'
  BY <1>1, <1>2 DEF DigestInv, EditInv, Accounted, Found, LabelInv, Building, Labelled, Exported
<1>6. ArchiveInv'
  BY <1>1, <1>2 DEF ArchiveInv, Exported, Building
<1>7. SidecarVouches'
  <2>1. /\ oci.damage # "identity" /\ oci.label = label /\ oci.content = context /\ oci.moved = moved
        /\ metadata # oci.build
    BY <1>1, <1>2, <1>3 DEF ArchiveInv, Exported
  <2>2. ASSUME NEW f \in Files \ undone' PROVE context[f] = label.sha[f]
    <3>1. edits[f] \in {0, 1}
      BY <1>1, <1>2, <2>2 DEF CandidateTypeOK
    <3>2. /\ label.sha[f] # Unread /\ context[f] # Unread /\ current[f] = label.sha[f]
          /\ Accounted(f)
      BY <1>1, <1>2 DEF DigestInv, AllRead, EditInv, Building, Labelled, Exported
    <3> QED
      BY <3>1, <3>2 DEF Accounted, Found
  <2>3. ASSUME label.state = "clean", NEW f \in Tracked \ moved PROVE label.sha[f] = label.revision[f]
    BY <1>1, <1>2, <2>3 DEF LabelInv, Recorded, DigestInv, AllRead, Labelled, Tracked
  <2> QED
    BY <1>1, <2>1, <2>2, <2>3 DEF SidecarVouches, Fits
<1> QED
  BY <1>4, <1>5, <1>6, <1>7 DEF CandidateInv

LEMMA MetadataInvariant ==
  ASSUME CandidateInv, Metadata
  PROVE  CandidateInv'
<1>1. /\ at = "metadata" /\ at' = "done" /\ metadata' = oci.build
      /\ UNCHANGED <<worktree, head, oci, checksum, undone, label, context, current, moved, edits, build>>
  BY DEF Metadata, Step, inputs, locals, histories
<1>2. CandidateTypeOK /\ ArchiveInv /\ SidecarVouches
  BY DEF CandidateInv
<1>3. checksum = oci.build
  BY <1>1, <1>2 DEF ArchiveInv
<1>4. CandidateTypeOK'
  BY <1>1, <1>2, <1>3 DEF CandidateTypeOK, Archives, Building
<1>5. DigestInv' /\ EditInv' /\ LabelInv' /\ ArchiveInv'
  BY <1>1, <1>2 DEF DigestInv, EditInv, LabelInv, ArchiveInv, Building, Labelled, Exported
<1>6. SidecarVouches'
  BY <1>1, <1>2, <1>3 DEF SidecarVouches, Fits
<1> QED
  BY <1>4, <1>5, <1>6 DEF CandidateInv

LEMMA CandidateNextInv == CandidateInv /\ [CandidateNext]_candidateVars => CandidateInv'
<1> SUFFICES ASSUME CandidateInv, [CandidateNext]_candidateVars PROVE CandidateInv'
  OBVIOUS
<1>1. ASSUME BuildSteps PROVE CandidateInv'
  BY <1>1, LabelInvariant, HashPathInvariant, GoesOn, UploadInvariant, ExportInvariant, VerifyListInvariant,
     VerifyInvariant, ChecksumInvariant, MetadataInvariant DEF BuildSteps
<1>2. CASE UNCHANGED candidateVars
  <2>1. UNCHANGED <<worktree, head, oci, checksum, metadata, undone, label, context, current, moved, edits, at, build>>
    BY <1>2 DEF candidateVars, inputs, exports, locals, histories
  <2> QED
    BY <2>1
    DEF CandidateInv, CandidateTypeOK, Archives, Building, DigestInv, AllRead, EditInv, Accounted, Found, LabelInv,
        Recorded, ArchiveInv, SidecarVouches, Fits
<1> QED
  BY <1>1, <1>2, EditInvariant, CommitInvariant, StartBuildInvariant, BuildDiesInvariant DEF CandidateNext

\* The inductive invariant of a candidate build.
THEOREM CandidateInvariance == CandidateSpec => []CandidateInv
  BY CandidateInitInv, CandidateNextInv, PTL DEF CandidateSpec

\* Types of the checkout, the files in dist/ and the script's position.
THEOREM CandidateTypeCorrect == CandidateSpec => []CandidateTypeOK
<1>1. CandidateInv => CandidateTypeOK
  BY DEF CandidateInv
<1> QED
  BY <1>1, CandidateInvariance, PTL

(***************************************************************************)
(* However many builds of build.sh were killed, refused or exported torn,  *)
(* whatever people did to the inputs meanwhile: an archive in dist/ that   *)
(* fits its .sha256 was made of the inputs on its label, and a clean label *)
(* means the tracked files of its revision, but for what the two hashes    *)
(* and the two questions to Git cannot see.                                *)
(***************************************************************************)
THEOREM SidecarVouchesAlways == CandidateSpec => []SidecarVouches
<1>1. CandidateInv => SidecarVouches
  BY DEF CandidateInv
<1> QED
  BY <1>1, CandidateInvariance, PTL

=============================================================================
