---------------------------- MODULE BuildPrepare ----------------------------
(***************************************************************************)
(* integration/prepare.sh: the build directory is assembled from a pinned  *)
(* upstream archive, the patches and overlays of the repository and a      *)
(* pinned module.  What a run leaves on disk meets the next one: a run may *)
(* be killed, or fail, before and in the middle of every command.  One run *)
(* at a time uses a build directory; people may put a directory, an        *)
(* archive or another module cache in its way.                             *)
(***************************************************************************)
EXTENDS Integers

CONSTANT MaxRuns  \* bound on the runs

Parts == {"upstream", "provider", "thunder"}
Stages == {"absent", "foreign", "torn", "plain", "patched", "complete"}
Bytes == {"pinned", "other"}
Ends == {"idle", "dead", "refused", "mismatch", "unsound", "done"}

\* The commands that fill a part of the tree: the stages that they take, and the
\* one they leave behind.  tar and cp write over anything, git apply --check does
\* not, and O_EXCL writes beside what has other names.
Jobs == [
  untar           |-> [part |-> "upstream", from |-> Stages, to |-> "plain"],
  patch           |-> [part |-> "upstream", from |-> {"plain"}, to |-> "patched"],
  overlay         |-> [part |-> "upstream", from |-> Stages, to |-> "complete"],
  provider        |-> [part |-> "provider", from |-> Stages, to |-> "complete"],
  extract         |-> [part |-> "thunder", from |-> {"absent", "foreign"}, to |-> "plain"],
  thunder_patch   |-> [part |-> "thunder", from |-> {"plain"}, to |-> "patched"],
  thunder_overlay |-> [part |-> "thunder", from |-> Stages, to |-> "complete"]]

\* Mutant: the directory is marked as a build when it is complete.
AfterMarkingLast == [
  mkdir |-> "untar", untar |-> "patch", patch |-> "overlay", overlay |-> "provider",
  provider |-> "sum", sum |-> "extract", extract |-> "thunder_patch",
  thunder_patch |-> "thunder_overlay", thunder_overlay |-> "mark", mark |-> "done"]

\* The order of the commands once the way is clear.
After == [
  mkdir |-> "mark", mark |-> "untar", untar |-> "patch", patch |-> "overlay",
  overlay |-> "provider", provider |-> "sum", sum |-> "extract", extract |-> "thunder_patch",
  thunder_patch |-> "thunder_overlay", thunder_overlay |-> "done"]

Commands == {"fetch", "curl", "move", "hash", "look", "clear"} \cup DOMAIN After

ASSUME BuildPrepareAssumption == MaxRuns \in Nat

VARIABLES
  archive,  \* none, pinned or other bytes; "part" if a download stopped in it
  partial,  \* the same of archive.partial
  owner,    \* who made the build directory: none, script or person
  marker,   \* whether .esignet-candidate-build is there
  part,     \* per part: its stage, the runs that wrote it (0: a person did), and the
            \* bytes that it came from
  cache,    \* the module cache: the sum it states, and the bytes of the zip
  pc,       \* the next command, or how the last run ended
  run,      \* the number of the run
  swapped,  \* history: the archive changed after its hash was compared
  taken,    \* history: the last mkdir -p took over the directory of a person
  orphan    \* history: a run died while the directory was unmarked

diskVars == <<archive, partial, owner, marker, part, cache>>
tree == <<owner, marker, part>>
vars == <<diskVars, pc, run, swapped, taken, orphan>>

Running == pc \in Commands
Empty == [stage |-> "absent", runs |-> {}, bytes |-> "none"]
Foreign == [stage |-> "foreign", runs |-> {0}, bytes |-> "other"]

\* A directory as a person may leave it.
PersonsTree(filled) == [p \in Parts |-> IF p \in filled THEN Foreign ELSE Empty]

Init ==
  /\ archive \in {"none"} \cup Bytes
  /\ partial = "none"
  /\ marker = FALSE
  /\ \/ owner = "none" /\ part = PersonsTree({})
     \/ owner = "person" /\ \E filled \in SUBSET Parts : part = PersonsTree(filled)
  /\ cache \in [sum : Bytes, zip : Bytes]
  /\ pc = "idle"
  /\ run = 0
  /\ swapped = FALSE /\ taken = FALSE /\ orphan = FALSE

-----------------------------------------------------------------------------
(***************************************************************************)
(* The environment.                                                        *)
(***************************************************************************)
PersonMakesDirectory(filled) ==
  /\ owner = "none"
  /\ owner' = "person"
  /\ part' = PersonsTree(filled)
  /\ UNCHANGED <<archive, partial, marker, cache, pc, run, swapped, taken, orphan>>

PersonRemovesDirectory ==
  /\ pc \in Ends
  /\ owner' = "none"
  /\ marker' = FALSE
  /\ part' = PersonsTree({})
  /\ orphan' = FALSE
  /\ UNCHANGED <<archive, partial, cache, pc, run, swapped, taken>>

PersonReplacesArchive(b) ==
  /\ pc \notin {"fetch", "curl", "move"}
  /\ archive' = b
  /\ swapped' = (swapped \/ Running)
  /\ UNCHANGED <<partial, tree, cache, pc, run, taken, orphan>>

CacheChanges(c) ==
  /\ cache' = c
  /\ UNCHANGED <<archive, partial, tree, pc, run, swapped, taken, orphan>>

-----------------------------------------------------------------------------
(***************************************************************************)
(* The script.  A command that fails ends it (set -e), like a signal.      *)
(***************************************************************************)
Start ==
  /\ pc \in Ends
  /\ run < MaxRuns
  /\ run' = run + 1
  /\ pc' = "fetch"
  /\ swapped' = FALSE
  /\ UNCHANGED <<diskVars, taken, orphan>>

Die ==
  /\ Running
  /\ pc' = "dead"
  /\ orphan' = (orphan \/ (pc \in {"clear", "mark"} /\ ~marker))
  /\ UNCHANGED <<diskVars, run, swapped, taken>>

Go(to) == pc' = to /\ UNCHANGED <<run, orphan>>

\* Mutant: the download goes straight to its place.
FetchInPlace ==
  /\ pc = "fetch"
  /\ IF archive = "none" THEN archive' = "part" /\ Go("curl") ELSE Go("hash") /\ UNCHANGED archive
  /\ UNCHANGED <<partial, tree, cache, swapped, taken>>

Fetch ==
  /\ pc = "fetch"
  /\ IF archive = "none" THEN partial' = "part" /\ Go("curl") ELSE Go("hash") /\ UNCHANGED partial
  /\ UNCHANGED <<archive, tree, cache, swapped, taken>>

\* Whatever is served, a download that ends early fails.
Curl(b) ==
  /\ pc = "curl"
  /\ partial' = b
  /\ Go("move")
  /\ UNCHANGED <<archive, tree, cache, swapped, taken>>

Move ==
  /\ pc = "move"
  /\ archive' = partial
  /\ partial' = "none"
  /\ Go("hash")
  /\ UNCHANGED <<tree, cache, swapped, taken>>

Hash ==
  /\ pc = "hash"
  /\ Go(IF archive = "pinned" THEN "look" ELSE "mismatch")
  /\ swapped' = FALSE
  /\ UNCHANGED <<diskVars, taken>>

\* Mutant: a directory of the script is taken for a build that is done.
LookReuses ==
  /\ pc = "look"
  /\ Go(IF owner = "none" THEN "mkdir" ELSE IF marker THEN "done" ELSE "refused")
  /\ UNCHANGED <<diskVars, swapped, taken>>

\* Mutant: any directory is cleared.
LookAway ==
  /\ pc = "look"
  /\ Go(IF owner = "none" THEN "mkdir" ELSE "clear")
  /\ UNCHANGED <<diskVars, swapped, taken>>

Look ==
  /\ pc = "look"
  /\ Go(IF owner = "none" THEN "mkdir" ELSE IF marker THEN "clear" ELSE "refused")
  /\ UNCHANGED <<diskVars, swapped, taken>>

\* rm -rf, in any order: the marker may go first.
ClearPart(p) ==
  /\ pc = "clear"
  /\ part[p] # Empty
  /\ part' = [part EXCEPT ![p] = Empty]
  /\ UNCHANGED <<archive, partial, owner, marker, cache, pc, run, swapped, taken, orphan>>

ClearMarker ==
  /\ pc = "clear"
  /\ marker
  /\ marker' = FALSE
  /\ UNCHANGED <<archive, partial, owner, part, cache, pc, run, swapped, taken, orphan>>

ClearDirectory ==
  /\ pc = "clear"
  /\ ~marker /\ \A p \in Parts : part[p] = Empty
  /\ owner' = "none"
  /\ Go("mkdir")
  /\ UNCHANGED <<archive, partial, marker, part, cache, swapped, taken>>

\* mkdir -p takes a directory that has come to be since the look, with what is in it.
Mkdir ==
  /\ pc = "mkdir"
  /\ owner' = "script"
  /\ taken' = (owner = "person")
  /\ Go(After[pc])
  /\ UNCHANGED <<archive, partial, marker, part, cache, swapped>>

Mark ==
  /\ pc = "mark"
  /\ marker' = TRUE
  /\ Go(After[pc])
  /\ UNCHANGED <<archive, partial, owner, part, cache, swapped, taken>>

\* A command begins to write its part of the tree, and comes to its end.
Begin(j) ==
  LET p == Jobs[j].part IN
  /\ pc = j
  /\ part[p].stage \in Jobs[j].from
  /\ part' = [part EXCEPT ![p].stage = "torn", ![p].runs = @ \cup {run}]
  /\ UNCHANGED <<archive, partial, owner, marker, cache, pc, run, swapped, taken, orphan>>

\* Mutant: the zip is extracted as it is in the cache.
SourceUnverified(j, was) ==
  CASE j = "untar" -> archive
    [] j = "extract" -> cache.zip
    [] OTHER -> was

\* modulearchive comes to its end for the pinned bytes only: VerifiedExtraction.
Source(j, was) ==
  CASE j = "untar" -> archive
    [] j = "extract" -> "pinned"
    [] OTHER -> was

Complete(j) ==
  LET p == Jobs[j].part IN
  /\ pc = j
  /\ part[p].stage = "torn"
  /\ j = "untar" => archive \in Bytes
  /\ part' = [part EXCEPT ![p].stage = Jobs[j].to, ![p].bytes = Source(j, @)]
  /\ Go(After[j])
  /\ UNCHANGED <<archive, partial, owner, marker, cache, swapped, taken>>

\* go mod download states the sum that its cache has on record.
Sum ==
  /\ pc = "sum"
  /\ Go(IF cache.sum = "pinned" THEN After[pc] ELSE "unsound")
  /\ UNCHANGED <<diskVars, swapped, taken>>

Script ==
  \/ Fetch \/ Move \/ Hash \/ Look \/ ClearMarker \/ ClearDirectory \/ Mkdir \/ Mark \/ Sum
  \/ \E b \in Bytes : Curl(b)
  \/ \E p \in Parts : ClearPart(p)
  \/ \E j \in DOMAIN Jobs : Begin(j) \/ Complete(j)

Next ==
  \/ Start \/ Script \/ Die
  \/ \E filled \in SUBSET Parts : PersonMakesDirectory(filled)
  \/ PersonRemovesDirectory
  \/ \E b \in {"none"} \cup Bytes : PersonReplacesArchive(b)
  \/ \E c \in [sum : Bytes, zip : Bytes] : CacheChanges(c)

Spec == Init /\ [][Next]_vars

-----------------------------------------------------------------------------
\* Types of the files and of the script's position.
TypeOK ==
  /\ archive \in {"none", "part"} \cup Bytes
  /\ partial \in {"none", "part"} \cup Bytes
  /\ owner \in {"none", "script", "person"}
  /\ marker \in BOOLEAN
  /\ part \in [Parts -> [stage : Stages, runs : SUBSET (0..MaxRuns), bytes : {"none"} \cup Bytes]]
  /\ cache \in [sum : Bytes, zip : Bytes]
  /\ pc \in Commands \cup Ends
  /\ run \in 0..MaxRuns
  /\ swapped \in BOOLEAN /\ taken \in BOOLEAN /\ orphan \in BOOLEAN

(***************************************************************************)
(* "Refusing to replace unowned build directory": the script never touches *)
(* a directory that a person made, in no run and after no crash - but for  *)
(* the moment between its look and mkdir, which takes what has appeared.   *)
(***************************************************************************)
ForeignUntouched ==
  [][owner = "person" /\ pc \notin Ends \cup {"mkdir"} => UNCHANGED tree]_vars

(***************************************************************************)
(* When the script has printed its path, every part of the tree is whole,  *)
(* this run wrote it, and nothing of an earlier run is left in it, however *)
(* that one ended.  Files of a person lie beside those of the run only if  *)
(* mkdir -p took over a directory that had come to be since the look.      *)
(* What the run wrote came from the pinned bytes: of the module whatever   *)
(* the cache holds, and of the archive unless that was exchanged after its *)
(* hash was taken.                                                         *)
(***************************************************************************)
FreshWhenReady ==
  pc = "done" /\ owner = "script" =>
    /\ marker
    /\ \A p \in Parts :
         /\ part[p].stage = "complete" /\ run \in part[p].runs
         /\ part[p].runs \subseteq IF taken THEN {0, run} ELSE {run}
    /\ part["thunder"].bytes = "pinned"
    /\ part["upstream"].bytes = "pinned" \/ swapped

(***************************************************************************)
(* A run is refused its directory only if a person made it, or if a run    *)
(* was stopped just after making it or while removing it; and it is never  *)
(* stopped by the remains of a download.  After any other crash the next   *)
(* run starts over.                                                        *)
(***************************************************************************)
RefusedForCause ==
  [][/\ pc = "look" /\ pc' = "refused" => owner = "person" \/ orphan
     /\ pc = "hash" /\ pc' = "mismatch" => archive # "part"]_vars
=============================================================================
