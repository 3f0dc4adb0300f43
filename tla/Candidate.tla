------------------------------ MODULE Candidate ------------------------------
(***************************************************************************)
(* integration/build.sh with source-metadata.py and artifact-metadata.py:  *)
(* the inputs of an image are hashed and compared with Git, the image is   *)
(* built from them and exported, the inputs are hashed again, and two      *)
(* sidecars vouch for the archive.  One build at a time uses a checkout.   *)
(* Meanwhile people edit, add and remove inputs and commit them, and the   *)
(* build may be killed.  A SHA-256 is what was hashed; a revision is the   *)
(* tracked files that it holds.                                            *)
(***************************************************************************)
EXTENDS Integers

CONSTANTS
  Files,      \* the paths of the inputs
  Ignored,    \* those that .gitignore matches
  Contents,   \* what a file may hold
  MaxBuilds,  \* bound on the builds
  MaxEdits,   \* bound on the edits and commits
  Absent, Unread, None

ASSUME CandidateAssumption ==
  /\ Unread \notin Contents \cup {Absent}
  /\ None \notin Int
  /\ MaxBuilds \in Nat

Tracked == Files \ Ignored
Unknown == [f \in Tracked |-> Unread]
Nothing == [f \in Files |-> Unread]

\* What of an archive may be damaged: layers and what attestations hold, or what
\* identifies the image: index.json, indexes, manifests, configurations.
Damages == {"none", "layers", "identity"}

VARIABLES
  worktree,  \* the working tree: per path its content, or Absent
  head,      \* the revision at HEAD
  at,        \* the next step, or how the last build ended
  build,     \* the number of the build
  label,     \* its source_sha, source_revision and source_state
  context,   \* what BuildKit has read of the inputs
  current,   \* current_sha of verify_source_unchanged
  oci,       \* the export, archive in the script: its build, label and content,
             \* what of it is damaged, and, as history, what was moved before
  checksum,  \* the build whose archive .sha256 names
  metadata,  \* the build whose archive .metadata.json names
  moved,     \* history: the tracked paths edited, or committed, between the asking
             \* for the revision and the first hash
  edits,     \* history: per path, its edits between the two hashes, up to two
  undone,    \* history: the paths edited twice while the build of .sha256 ran
  edited     \* history: all edits and commits

inputs == <<worktree, head>>
exports == <<oci, checksum, metadata, undone>>
locals == <<label, context, current>>
histories == <<moved, edits>>
candidateVars == <<inputs, exports, locals, histories, at, build, edited>>

Building == at \in {"revision", "state", "list", "hash", "export", "verify_list", "verify", "artifact",
                   "checksum", "metadata"}
NoLabel == [sha |-> Nothing, revision |-> Unknown, state |-> "unrecorded"]

CandidateInit ==
  /\ worktree \in [Files -> Contents \cup {Absent}]
  /\ head \in [Tracked -> Contents \cup {Absent}]
  /\ at = "idle"
  /\ build = 0
  /\ label = NoLabel /\ context = Nothing /\ current = Nothing
  /\ oci = None /\ checksum = None /\ metadata = None
  /\ moved = {} /\ edits = [f \in Files |-> 0] /\ undone = {} /\ edited = 0

-----------------------------------------------------------------------------
(***************************************************************************)
(* People.  The histories count what happens to a path until it is read    *)
(* for the label, and from then until it is read for the comparison.       *)
(***************************************************************************)
Labelling(f) == f \in Tracked /\ at \in {"state", "list", "hash"} /\ label.sha[f] = Unread
Watched(f) == Building /\ label.sha[f] # Unread /\ current[f] = Unread

Edit(f, c) ==
  /\ edited < MaxEdits
  /\ c # worktree[f]
  /\ worktree' = [worktree EXCEPT ![f] = c]
  /\ edited' = edited + 1
  /\ edits' = IF Watched(f) /\ edits[f] < 2 THEN [edits EXCEPT ![f] = @ + 1] ELSE edits
  /\ moved' = IF Labelling(f) THEN moved \cup {f} ELSE moved
  /\ UNCHANGED <<head, exports, locals, at, build>>

Commit ==
  /\ edited < MaxEdits
  /\ head # [f \in Tracked |-> worktree[f]]
  /\ head' = [f \in Tracked |-> worktree[f]]
  /\ edited' = edited + 1
  /\ moved' = moved \cup {f \in Tracked : Labelling(f) /\ worktree[f] # head[f]}
  /\ UNCHANGED <<worktree, exports, locals, edits, at, build>>

-----------------------------------------------------------------------------
(***************************************************************************)
(* The script.                                                             *)
(***************************************************************************)
StartBuild ==
  /\ ~Building
  /\ build < MaxBuilds
  /\ build' = build + 1
  /\ at' = "revision"
  /\ label' = NoLabel /\ context' = Nothing /\ current' = Nothing
  /\ moved' = {} /\ edits' = [f \in Files |-> 0]
  /\ UNCHANGED <<inputs, exports, edited>>

\* A file that is being written is no longer the old one and not yet the new one.
BuildDies ==
  /\ Building
  /\ at' = "dead"
  /\ checksum' \in IF at = "checksum" THEN {checksum, None} ELSE {checksum}
  /\ metadata' \in IF at = "metadata" THEN {metadata, None} ELSE {metadata}
  /\ oci' \in IF at = "export" THEN {oci, None} ELSE {oci}
  /\ UNCHANGED <<inputs, undone, locals, histories, build, edited>>

\* What a step that ends at "to" leaves alone of all but the build's locals.
Step(from, to) ==
  /\ at = from
  /\ at' = to
  /\ UNCHANGED <<inputs, histories, build, edited>>

Revision ==
  /\ Step("revision", "state")
  /\ label' = [label EXCEPT !.revision = head]
  /\ UNCHANGED <<exports, context, current>>

\* Mutant: the status is asked for without the files that are not tracked.
StateOfTracked ==
  /\ Step("state", "list")
  /\ label' = [label EXCEPT !.state = IF \A f \in Tracked : head[f] # Absent => worktree[f] = head[f]
                                     THEN "clean" ELSE "dirty"]
  /\ UNCHANGED <<exports, context, current>>

\* git status lists what is changed or untracked, but not what is ignored.
State ==
  /\ Step("state", "list")
  /\ label' = [label EXCEPT !.state = IF \A f \in Tracked : worktree[f] = head[f] THEN "clean" ELSE "dirty"]
  /\ UNCHANGED <<exports, context, current>>

\* Without Git neither is recorded.
Unrecorded ==
  /\ Step("revision", "list") \/ Step("state", "list")
  /\ label' = NoLabel
  /\ UNCHANGED <<exports, context, current>>

\* source_hash: what is not there when the paths are listed is left out, what
\* has gone when it is read is an error.
Listed == [f \in Files |-> IF worktree[f] = Absent THEN Absent ELSE Unread]

Read(digest, f) == digest[f] = Unread /\ worktree[f] # Absent
Vanished(digest) == \E f \in Files : digest[f] = Unread /\ worktree[f] = Absent
AllRead(digest) == \A f \in Files : digest[f] # Unread

List ==
  /\ Step("list", "hash")
  /\ label' = [label EXCEPT !.sha = Listed]
  /\ UNCHANGED <<exports, context, current>>

HashPath(f) ==
  /\ Step("hash", "hash")
  /\ Read(label.sha, f)
  /\ label' = [label EXCEPT !.sha[f] = worktree[f]]
  /\ UNCHANGED <<exports, context, current>>

Hashed ==
  /\ Step("hash", "export")
  /\ AllRead(label.sha)
  /\ UNCHANGED <<exports, locals>>

\* BuildKit reads the inputs in its own time, and writes an archive that may be
\* damaged.
Upload(f) ==
  /\ Step("export", "export")
  /\ context[f] = Unread
  /\ context' = [context EXCEPT ![f] = worktree[f]]
  /\ UNCHANGED <<exports, label, current>>

Export(damage) ==
  /\ Step("export", "verify_list")
  /\ AllRead(context)
  /\ oci' = [build |-> build, label |-> label, content |-> context, damage |-> damage, moved |-> moved]
  /\ UNCHANGED <<checksum, metadata, undone, locals>>

VerifyList ==
  /\ Step("verify_list", "verify")
  /\ current' = Listed
  /\ UNCHANGED <<exports, label, context>>

Verify(f) ==
  /\ Step("verify", "verify")
  /\ Read(current, f)
  /\ current' = [current EXCEPT ![f] = worktree[f]]
  /\ UNCHANGED <<exports, label, context>>

\* Mutant: the inputs are hashed again and not compared.
UnchangedAlways == TRUE

\* verify_source_unchanged compares the digests, and neither revision nor state.
Unchanged == current = label.sha

Verified ==
  /\ AllRead(current)
  /\ Step("verify", IF Unchanged THEN "artifact" ELSE "changed")
  /\ UNCHANGED <<exports, locals>>

\* A path has gone between listing and reading.
Missing ==
  /\ \/ at = "hash" /\ Vanished(label.sha)
     \/ at = "verify" /\ Vanished(current)
  /\ Step(at, "missing")
  /\ UNCHANGED <<exports, locals>>

\* artifact-metadata.py follows the digests down to manifests and configurations,
\* and looks at both platforms and their labels.  It reads no layer.
Artifact ==
  /\ Step("artifact", IF oci.damage # "identity" /\ oci.label.sha = label.sha THEN "checksum" ELSE "unsound")
  /\ UNCHANGED <<exports, locals>>

\* Mutant: the sidecar with the identities is written first.
ChecksumOfMetadata ==
  /\ Step("checksum", "metadata")
  /\ metadata' = oci.build
  /\ UNCHANGED <<oci, checksum, undone, locals>>

Checksum ==
  /\ Step("checksum", "metadata")
  /\ checksum' = oci.build
  /\ undone' = {f \in Files : edits[f] = 2}
  /\ UNCHANGED <<oci, metadata, locals>>

Metadata ==
  /\ Step("metadata", "done")
  /\ metadata' = oci.build
  /\ UNCHANGED <<oci, checksum, undone, locals>>

BuildSteps ==
  \/ Revision \/ State \/ Unrecorded \/ List \/ Hashed \/ VerifyList \/ Verified \/ Missing
  \/ Artifact \/ Checksum \/ Metadata
  \/ \E f \in Files : HashPath(f) \/ Upload(f) \/ Verify(f)
  \/ \E damage \in Damages : Export(damage)

CandidateNext ==
  \/ StartBuild \/ BuildSteps \/ BuildDies
  \/ \E f \in Files, c \in Contents \cup {Absent} : Edit(f, c)
  \/ Commit

CandidateSpec == CandidateInit /\ [][CandidateNext]_candidateVars

-----------------------------------------------------------------------------
\* Types of the checkout, the files in dist/ and the script's position.
Digests == [Files -> Contents \cup {Absent, Unread}]
Labels == [sha : Digests, revision : [Tracked -> Contents \cup {Absent, Unread}],
           state : {"clean", "dirty", "unrecorded"}]
Archives == [build : 1..build, label : Labels, content : Digests, damage : Damages, moved : SUBSET Tracked]

CandidateTypeOK ==
  /\ worktree \in [Files -> Contents \cup {Absent}]
  /\ head \in [Tracked -> Contents \cup {Absent}]
  /\ Building \/ at \in {"idle", "dead", "missing", "changed", "unsound", "done"}
  /\ build \in 0..MaxBuilds
  /\ label \in Labels
  /\ context \in Digests /\ current \in Digests
  /\ oci \in Archives \cup {None}
  /\ checksum \in (1..build) \cup {None}
  /\ metadata \in (1..build) \cup {None}
  /\ moved \in SUBSET Tracked
  /\ edits \in [Files -> 0..2]
  /\ undone \in SUBSET Files

\* The archive that lies in dist/ is the one that a sidecar is about.
Fits(sidecar) == oci # None /\ sidecar = oci.build

(***************************************************************************)
(* "Source inputs changed during the build; rebuild before using the       *)
(* candidate": an archive that fits its .sha256, left there by whatever    *)
(* builds were killed or failed, is sound in what identifies its image -   *)
(* not in its layers - and was made of the very inputs of its label, path  *)
(* by path, unless a path was edited and put back between the two hashes,  *)
(* which they cannot see.  If the label is clean, every tracked path among *)
(* them is that of the label's revision, unless it was moved while the     *)
(* label was made.  What .metadata.json names, .sha256 names too.          *)
(***************************************************************************)
SidecarVouches ==
  /\ Fits(checksum) =>
       /\ oci.damage # "identity"
       /\ \A f \in Files \ undone : oci.content[f] = oci.label.sha[f]
       /\ oci.label.state = "clean" =>
            \A f \in Tracked \ oci.moved : oci.label.sha[f] = oci.label.revision[f]
  /\ Fits(metadata) => Fits(checksum)

(***************************************************************************)
(* "OCI labels record that digest, the base Git revision, whether those    *)
(* inputs are dirty" (integration/README.md): the inputs of a candidate    *)
(* that is labelled clean are those of its revision.  It does not hold:    *)
(* the digest is over every file, git status says nothing of ignored ones. *)
(***************************************************************************)
CleanMeansRevision ==
  Fits(checksum) /\ oci.label.state = "clean" =>
    \A f \in Files :
      oci.label.sha[f] = IF f \in Tracked THEN oci.label.revision[f] ELSE Absent
=============================================================================
