------------------------------- MODULE Release -------------------------------
(***************************************************************************)
(* .github/workflows/release.yml and the recovery that docs/release.md     *)
(* prescribes.  Runs of the workflow take turns; each checks that the      *)
(* version is unused, builds, retains its bytes, checks again, and         *)
(* publishes in steps: two images, the tag, a draft with its assets, the   *)
(* release.  A run may stop before and after each of them.  An operator    *)
(* may then complete the publication from the retained bytes.              *)
(***************************************************************************)
EXTENDS FiniteSets

CONSTANTS
  Runs,     \* dispatches of the workflow
  Commits,  \* of main
  Assets,   \* the files of the release
  None

Images == {"provider", "ui"}
Active == {"check", "build", "retain", "recheck", "push_provider", "verify_provider", "push_ui",
           "verify_ui", "tag", "draft", "upload"}
Over == {"done", "failed", "cancelled"}

\* An image as the registry has it: the run whose archive it was copied from, and
\* whether its index has the digest of that archive.
Image == [of : Runs, exact : BOOLEAN]
Draft == [state : {"none", "draft", "public"}, of : Runs \cup {None}, assets : SUBSET Assets]

ASSUME ReleaseAssumption ==
  /\ None \notin Runs \cup Commits \cup Image
  /\ Assets \cap (Images \cup {"tag", "draft", "public"}) = {}

VARIABLES
  main,      \* the HEAD of main
  ci,        \* the commits with a successful push run of CI
  pc,        \* per run: fresh, queued, a step, or how it ended
  sha,       \* per run: GITHUB_SHA
  artifact,  \* per run: none, kept or expired
  image,     \* per image: what the version's tag in the registry names
  tag,       \* the commit of the Git tag
  release    \* the GitHub release

ghVars == <<main, ci>>
published == <<image, tag, release>>
vars == <<ghVars, pc, sha, artifact, published>>

NoRelease == [state |-> "none", of |-> None, assets |-> {}]

Init ==
  /\ main \in Commits
  /\ ci = {}
  /\ pc = [r \in Runs |-> "fresh"]
  /\ sha = [r \in Runs |-> None]
  /\ artifact = [r \in Runs |-> "none"]
  /\ image = [i \in Images |-> None]
  /\ tag = None
  /\ release = NoRelease

-----------------------------------------------------------------------------
(***************************************************************************)
(* The environment: pushes to main, CI, the end of the retention.          *)
(***************************************************************************)
Push(c) ==
  /\ main' = c
  /\ UNCHANGED <<ci, pc, sha, artifact, published>>

CiSucceeds ==
  /\ ci' = ci \cup {main}
  /\ UNCHANGED <<main, pc, sha, artifact, published>>

Expire(r) ==
  /\ pc[r] \in Over
  /\ artifact[r] = "kept"
  /\ artifact' = [artifact EXCEPT ![r] = "expired"]
  /\ UNCHANGED <<ghVars, pc, sha, published>>

-----------------------------------------------------------------------------
(***************************************************************************)
(* The concurrency group: a new dispatch takes the place of one that       *)
(* waits, and starts when no other run is under way.                       *)
(***************************************************************************)
Dispatch(r) ==
  /\ pc[r] = "fresh"
  /\ pc' = [q \in Runs |-> IF q = r THEN "queued"
                           ELSE IF pc[q] = "queued" THEN "cancelled" ELSE pc[q]]
  /\ sha' = [sha EXCEPT ![r] = main]
  /\ UNCHANGED <<ghVars, artifact, published>>

\* Mutant: runs of the workflow are not in one group.
MayStartAnyTime(r) == TRUE

MayStart(r) == \A q \in Runs : pc[q] \notin Active

Move(r, from, to) ==
  /\ pc[r] = from
  /\ pc' = [pc EXCEPT ![r] = to]

Begin(r) ==
  /\ MayStart(r)
  /\ Move(r, "queued", "check")
  /\ UNCHANGED <<ghVars, sha, artifact, published>>

\* Any step may fail, run out of time or be lost with its runner.
Fail(r) ==
  /\ pc[r] \in Active
  /\ pc' = [pc EXCEPT ![r] = "failed"]
  /\ UNCHANGED <<ghVars, sha, artifact, published>>

\* Mutant: the registry is not asked.
UnusedByTag == tag = None /\ release.state # "public"

\* A draft has no tag of its own to be found by.
Unused ==
  /\ tag = None
  /\ release.state # "public"
  /\ \A i \in Images : image[i] = None

\* Mutant: CI of the commit is not looked at.
PreflightWithoutCI(r) == main = sha[r] /\ Unused

\* release-preflight.py, run before the build and again before publication.
Preflight(r) == main = sha[r] /\ sha[r] \in ci /\ Unused

Check(r) ==
  /\ Preflight(r)
  /\ Move(r, "check", "build") \/ Move(r, "recheck", "push_provider")
  /\ UNCHANGED <<ghVars, sha, artifact, published>>

\* Tests, scans, both archives, their verification, smoke tests and attestation.
Build(r) ==
  /\ Move(r, "build", "retain")
  /\ UNCHANGED <<ghVars, sha, artifact, published>>

\* Mutant: the bytes are retained when the run comes to its end.
RetainLater(r) ==
  /\ Move(r, "retain", "recheck")
  /\ UNCHANGED <<ghVars, sha, artifact, published>>

Retain(r) ==
  /\ Move(r, "retain", "recheck")
  /\ artifact' = [artifact EXCEPT ![r] = "kept"]
  /\ UNCHANGED <<ghVars, sha, published>>

\* skopeo copy, which overwrites a tag that is there.
Copy(r, i, exact) ==
  /\ image' = [image EXCEPT ![i] = [of |-> r, exact |-> exact]]
  /\ UNCHANGED <<ghVars, sha, artifact, tag, release>>

CopyProvider(r, exact) == Move(r, "push_provider", "verify_provider") /\ Copy(r, "provider", exact)
CopyUI(r, exact) == Move(r, "push_ui", "verify_ui") /\ Copy(r, "ui", exact)

\* Mutant: the digest in the registry is not compared.
ExactUnchecked(r, i) == TRUE

\* skopeo inspect and the comparison of digests.
Exact(r, i) == image[i] = [of |-> r, exact |-> TRUE]

VerifyProvider(r) ==
  /\ Exact(r, "provider")
  /\ Move(r, "verify_provider", "push_ui")
  /\ UNCHANGED <<ghVars, sha, artifact, published>>

VerifyUI(r) ==
  /\ Exact(r, "ui")
  /\ Move(r, "verify_ui", "tag")
  /\ UNCHANGED <<ghVars, sha, artifact, published>>

\* Mutant: the tag is put on the HEAD of main as it is now.
TagHead(r) ==
  /\ tag = None
  /\ tag' = main
  /\ UNCHANGED <<image, release>>

\* A reference that exists cannot be created again.
TagSource(r) ==
  /\ tag = None
  /\ tag' = sha[r]
  /\ UNCHANGED <<image, release>>

\* gh release create --verify-tag --draft, then its uploads.
CreateDraft(r) ==
  /\ tag # None
  /\ release.state = "none"
  /\ release' = [state |-> "draft", of |-> r, assets |-> {}]
  /\ UNCHANGED <<image, tag>>

Upload(r, a) ==
  /\ release.state = "draft" /\ release.of = r
  /\ a \notin release.assets
  /\ release' = [release EXCEPT !.assets = @ \cup {a}]
  /\ UNCHANGED <<image, tag>>

\* Mutant: the release is made public while its assets are uploaded.
PublishEarly(r) ==
  /\ release.state = "draft" /\ release.of = r
  /\ release' = [release EXCEPT !.state = "public"]
  /\ UNCHANGED <<image, tag>>

Publish(r) ==
  /\ release.state = "draft" /\ release.of = r
  /\ release.assets = Assets
  /\ release' = [release EXCEPT !.state = "public"]
  /\ UNCHANGED <<image, tag>>

PublishStep(r) ==
  \/ Move(r, "tag", "draft") /\ TagSource(r)
  \/ Move(r, "draft", "upload") /\ CreateDraft(r)
  \/ \E a \in Assets : pc[r] = "upload" /\ Upload(r, a) /\ UNCHANGED pc
  \/ Move(r, "upload", "done") /\ Publish(r)

RunStep(r) ==
  \/ Begin(r) \/ Check(r) \/ Build(r) \/ Retain(r)
  \/ \E exact \in BOOLEAN : CopyProvider(r, exact) \/ CopyUI(r, exact)
  \/ VerifyProvider(r) \/ VerifyUI(r)
  \/ PublishStep(r) /\ UNCHANGED <<ghVars, sha, artifact>>

-----------------------------------------------------------------------------
(***************************************************************************)
(* The operator of docs/release.md: after a run that failed, resume only   *)
(* the missing steps, with the bytes that it retained, when every identity *)
(* that exists agrees with them.                                           *)
(***************************************************************************)
Agrees(r) ==
  /\ \A i \in Images : image[i] # None => Exact(r, i)
  /\ tag \in {None, sha[r]}
  /\ release.of \in {None, r}

Resumable(r) ==
  /\ pc[r] = "failed"
  /\ artifact[r] = "kept"
  /\ image["provider"] # None
  /\ Agrees(r)

CopyMissing(r, exact) ==
  /\ image["ui"] = None
  /\ Copy(r, "ui", exact)

Recover(r) ==
  /\ Resumable(r)
  /\ \/ \E exact \in BOOLEAN : CopyMissing(r, exact)
     \/ /\ \A i \in Images : Exact(r, i)
        /\ TagSource(r) \/ CreateDraft(r) \/ (\E a \in Assets : Upload(r, a)) \/ Publish(r)
  /\ UNCHANGED <<ghVars, pc, sha, artifact>>

Next ==
  \/ \E c \in Commits : Push(c)
  \/ CiSucceeds
  \/ \E r \in Runs : Expire(r) \/ Dispatch(r) \/ RunStep(r) \/ Fail(r) \/ Recover(r)

Spec == Init /\ [][Next]_vars

\* Runners go on with a run or it fails, and operators do what the document says.
Proceeds(r) == WF_vars(RunStep(r) \/ Fail(r)) /\ WF_vars(Recover(r))
Scheduling == \A r \in Runs : Proceeds(r)
FairSpec == Spec /\ Scheduling

-----------------------------------------------------------------------------
\* Types of what GitHub and the registry keep.
TypeOK ==
  /\ main \in Commits /\ ci \subseteq Commits
  /\ pc \in [Runs -> {"fresh", "queued"} \cup Active \cup Over]
  /\ sha \in [Runs -> Commits \cup {None}]
  /\ artifact \in [Runs -> {"none", "kept", "expired"}]
  /\ image \in [Images -> Image \cup {None}]
  /\ tag \in Commits \cup {None}
  /\ release \in Draft

(***************************************************************************)
(* "Do not delete or move the tag, overwrite an image, replace an uploaded *)
(* asset": nothing that was published changes, by any run, however many    *)
(* are dispatched and wherever they stop, nor by a recovery.               *)
(***************************************************************************)
WriteOnce ==
  [][/\ \A i \in Images : image[i] # None => image'[i] = image[i]
     /\ tag # None => tag' = tag
     /\ release.of # None => release'.of = release.of /\ release.assets \subseteq release'.assets
     /\ release.state = "public" => release' = release]_vars

(***************************************************************************)
(* The tag vouches for both images: it is there only when both have the    *)
(* digests of one build, whose commit passed CI, and it is on that commit; *)
(* a public release is complete and of the same build.                     *)
(***************************************************************************)
TagVouches ==
  /\ tag # None =>
       \E r \in Runs :
         /\ \A i \in Images : image[i] = [of |-> r, exact |-> TRUE]
         /\ tag = sha[r] /\ tag \in ci
         /\ release.of \in {None, r}
  /\ release.state = "public" => tag # None /\ release.assets = Assets

(***************************************************************************)
(* "Resume only missing publication steps using the original verified      *)
(* bytes": whatever part of the version is public, all of it is of one     *)
(* run, whose bytes were retained before anything was published.           *)
(***************************************************************************)
PartIsRecoverable ==
  (\E i \in Images : image[i] # None) \/ tag # None \/ release.state # "none" =>
    \E r \in Runs :
      /\ artifact[r] # "none"
      /\ \A i \in Images : image[i] # None => image[i].of = r
      /\ tag \in {None, sha[r]} /\ release.of \in {None, r}

(***************************************************************************)
(* A publication that began is completed, unless the registry has other    *)
(* bytes or the retained ones expire: no interruption leaves the version   *)
(* in a state that the prescribed steps cannot complete.                   *)
(***************************************************************************)
Spoiled == \E i \in Images : image[i] # None /\ ~image[i].exact

Settled == release.state = "public" \/ Spoiled \/ \E r \in Runs : artifact[r] = "expired"

PublicationCompletes == image["provider"] # None ~> Settled

(***************************************************************************)
(* What fairness needs to get there: a run that is under way has a step,   *)
(* and so has an operator who may resume what is not public.  And what it  *)
(* does not give: uploads come to an end, being of finitely many assets.   *)
(***************************************************************************)
RunsNeverStuck == \A r \in Runs : pc[r] \in Active => ENABLED <<RunStep(r) \/ Fail(r)>>_vars
OperatorNeverStuck ==
  \A r \in Runs : Resumable(r) /\ release.state # "public" => ENABLED <<Recover(r)>>_vars
NeverStuck == RunsNeverStuck /\ OperatorNeverStuck

UploadsEnd == <>[][release'.assets = release.assets]_vars

(***************************************************************************)
(* The workflow and its recovery implement ReleasedVersion.                *)
(***************************************************************************)
Items == Images \cup {"tag", "draft", "public"} \cup Assets

Version == INSTANCE ReleasedVersion WITH
  Builds <- Runs,
  Needs <- [x \in Items |->
              CASE x \in Images -> {}
                [] x = "tag" -> Images
                [] x = "draft" -> {"tag"}
                [] x = "public" -> {"draft"} \cup Assets
                [] OTHER -> {"draft"}],
  origin <- IF image["provider"] = None THEN None ELSE image["provider"].of,
  published <- {i \in Images : image[i] # None}
                 \cup (IF tag = None THEN {} ELSE {"tag"})
                 \cup (IF release.state = "none" THEN {} ELSE {"draft"})
                 \cup (IF release.state = "public" THEN {"public"} ELSE {})
                 \cup release.assets,
  spoiled <- Spoiled

ImplementsVersion == Version!VSpec

=============================================================================
