---------------------------- MODULE ReleaseProofs ----------------------------
(***************************************************************************)
(* Release for any number of runs, commits and assets.  The inductive      *)
(* invariant: at most one run is active; what is published belongs to the  *)
(* run whose provider image is there, in the order of publication; and a   *)
(* run that publishes finds exactly what it left in the step before.  The  *)
(* operator cannot interfere: a run that publishes is not a failed one.    *)
(***************************************************************************)
EXTENDS Release, TLAPS

Bytes(r) == [of |-> r, exact |-> TRUE]

\* The positions of a run after it began to publish.
Publishing == {"verify_provider", "push_ui", "verify_ui", "tag", "draft", "upload"}

OneActive == \A r, q \in Runs : pc[r] \in Active /\ pc[q] \in Active => r = q

Named == \A r \in Runs : pc[r] # "fresh" => sha[r] \in Commits

Belongs(o) ==
  /\ sha[o] \in ci
  /\ artifact[o] # "none"
  /\ pc[o] \in Publishing \cup {"done", "failed"}
  /\ image["ui"] # None => image["ui"].of = o /\ image["provider"] = Bytes(o)
  /\ tag # None => tag = sha[o] /\ \A i \in Images : image[i] = Bytes(o)
  /\ release # NoRelease => tag # None /\ release.of = o /\ release.state # "none"
  /\ release.state = "public" => release.assets = Assets

Origins ==
  IF image["provider"] = None
  THEN image["ui"] = None /\ tag = None /\ release = NoRelease
  ELSE Belongs(image["provider"].of)

\* What a run at a given position finds.
Position(r) ==
  /\ pc[r] \in {"recheck", "push_provider"} \cup Publishing => artifact[r] = "kept"
  /\ pc[r] = "push_provider" => image["provider"] = None /\ sha[r] \in ci
  /\ pc[r] \in Publishing => image["provider"] # None /\ image["provider"].of = r
  /\ pc[r] \in {"verify_provider", "push_ui"} => image["ui"] = None
  /\ pc[r] \in Publishing \ {"verify_provider"} => image["provider"] = Bytes(r)
  /\ pc[r] \in {"verify_ui", "tag"} => image["ui"] # None /\ tag = None
  /\ pc[r] = "tag" => image["ui"] = Bytes(r)
  /\ pc[r] \in {"draft", "upload"} => tag # None
  /\ pc[r] = "draft" => release = NoRelease
  /\ pc[r] = "upload" => release.state = "draft"

IInv ==
  /\ TypeOK
  /\ OneActive
  /\ Named
  /\ Origins
  /\ \A r \in Runs : Position(r)

-----------------------------------------------------------------------------
\* Nothing is published, nobody runs.
LEMMA InitInv == Init => IInv
  BY ReleaseAssumption DEF Init, IInv, TypeOK, OneActive, Named, Origins, Position, Active, Over, Publishing, Images,
     Image, NoRelease, Draft

\* Pushes, CI and the end of the retention change nothing that is published, and
\* an artifact expires when its run is over.
LEMMA EnvironmentInv ==
  ASSUME IInv,
         (\E c \in Commits : Push(c)) \/ CiSucceeds \/ (\E r \in Runs : Expire(r))
  PROVE  IInv'
<1>1. ASSUME NEW c \in Commits, Push(c) PROVE IInv'
  BY <1>1 DEF Push, published, IInv, TypeOK, OneActive, Named, Origins, Belongs, Position
<1>2. ASSUME CiSucceeds PROVE IInv'
  BY <1>2 DEF CiSucceeds, published, IInv, TypeOK, OneActive, Named, Origins, Belongs, Position
<1>3. ASSUME NEW r \in Runs, Expire(r) PROVE IInv'
  <2>1. TypeOK /\ OneActive /\ Named /\ Origins /\ \A q \in Runs : Position(q)
    BY DEF IInv
  <2>2. artifact' \in [Runs -> {"none", "kept", "expired"}]
    BY <1>3, <2>1 DEF Expire, TypeOK
  <2>3. pc[r] \in Over /\ artifact'[r] = "expired" /\ \A q \in Runs : q # r => artifact'[q] = artifact[q]
    BY <1>3, <2>1 DEF Expire, TypeOK
  <2>4. UNCHANGED <<main, ci, pc, sha, image, tag, release>>
    BY <1>3 DEF Expire, ghVars, published
  <2>5. TypeOK'
    BY <2>1, <2>2, <2>4 DEF TypeOK
  <2>6. OneActive' /\ Named'
    BY <2>1, <2>4 DEF OneActive, Named
  <2>7. \A q \in Runs : artifact[q] # "none" => artifact'[q] # "none"
    BY <2>3
  <2>8. image["provider"] # None => image["provider"].of \in Runs
    BY <2>1 DEF TypeOK, Images, Image
  <2>9. Origins'
    BY <2>1, <2>4, <2>7, <2>8 DEF Origins, Belongs
  <2>10. \A q \in Runs : Position(q)'
    BY <2>1, <2>3, <2>4 DEF Position, Over, Publishing
  <2> QED
    BY <2>5, <2>6, <2>9, <2>10 DEF IInv
<1> QED
  BY <1>1, <1>2, <1>3

\* A dispatch changes no run that is under way.
LEMMA DispatchInv ==
  ASSUME IInv, NEW r \in Runs, Dispatch(r)
  PROVE  IInv'
<1>1. TypeOK /\ OneActive /\ Named /\ Origins /\ \A q \in Runs : Position(q)
  BY DEF IInv
<1>2. UNCHANGED <<main, ci, artifact, image, tag, release>>
  BY DEF Dispatch, ghVars, published
<1>3. /\ pc[r] = "fresh"
      /\ pc' \in [Runs -> {"fresh", "queued"} \cup Active \cup Over]
      /\ sha' \in [Runs -> Commits \cup {None}]
  BY <1>1 DEF Dispatch, TypeOK, Over
<1>4. \A q \in Runs : pc[q] \in Active \cup Over \/ pc'[q] \in Active \cup {"done", "failed"} =>
                        pc'[q] = pc[q] /\ sha'[q] = sha[q]
  BY <1>1, <1>3 DEF Dispatch, TypeOK, Active, Over
<1>5. sha'[r] \in Commits /\ \A q \in Runs : q # r => sha'[q] = sha[q] /\ (pc[q] = "fresh" <=> pc'[q] = "fresh")
  BY <1>1 DEF Dispatch, TypeOK
<1>6. TypeOK'
  BY <1>1, <1>2, <1>3 DEF TypeOK
<1>7. OneActive'
  BY <1>1, <1>4 DEF OneActive
<1>8. Named'
  BY <1>1, <1>5 DEF Named
<1>9. Origins'
  BY <1>1, <1>2, <1>4 DEF Origins, Belongs, TypeOK, Images, Image, Publishing, Active, Over
<1>10. \A q \in Runs : Position(q)'
  BY <1>1, <1>2, <1>4 DEF Position, Publishing, Active
<1> QED
  BY <1>6, <1>7, <1>8, <1>9, <1>10 DEF IInv

\* A run that starts is the only one.
LEMMA BeginInv ==
  ASSUME IInv, NEW r \in Runs, Begin(r)
  PROVE  IInv'
<1>1. TypeOK /\ OneActive /\ Named /\ Origins /\ \A q \in Runs : Position(q)
  BY DEF IInv
<1>2. UNCHANGED <<main, ci, sha, artifact, image, tag, release>>
  BY DEF Begin, ghVars, published
<1>3. /\ pc[r] = "queued" /\ pc'[r] = "check" /\ \A q \in Runs : q # r => pc'[q] = pc[q]
      /\ pc' \in [Runs -> {"fresh", "queued"} \cup Active \cup Over]
  BY <1>1 DEF Begin, Move, TypeOK, Active
<1>4. \A q \in Runs : pc[q] \notin Active
  BY DEF Begin, MayStart
<1>5. TypeOK'
  BY <1>1, <1>2, <1>3 DEF TypeOK
<1>6. OneActive'
  BY <1>3, <1>4 DEF OneActive
<1>7. Named'
  BY <1>1, <1>2, <1>3 DEF Named
<1>8. Origins'
  BY <1>1, <1>2, <1>3 DEF Origins, Belongs, TypeOK, Images, Image, Publishing
<1>9. \A q \in Runs : Position(q)'
  BY <1>1, <1>2, <1>3 DEF Position, Publishing
<1> QED
  BY <1>5, <1>6, <1>7, <1>8, <1>9 DEF IInv

\* A run that fails leaves what it published to its operator.
LEMMA FailInv ==
  ASSUME IInv, NEW r \in Runs, Fail(r)
  PROVE  IInv'
<1>1. TypeOK /\ OneActive /\ Named /\ Origins /\ \A q \in Runs : Position(q)
  BY DEF IInv
<1>2. UNCHANGED <<main, ci, sha, artifact, image, tag, release>>
  BY DEF Fail, ghVars, published
<1>3. /\ pc[r] \in Active /\ pc'[r] = "failed" /\ \A q \in Runs : q # r => pc'[q] = pc[q]
      /\ pc' \in [Runs -> {"fresh", "queued"} \cup Active \cup Over]
  BY <1>1 DEF Fail, TypeOK, Over
<1>4. TypeOK'
  BY <1>1, <1>2, <1>3 DEF TypeOK
<1>5. OneActive'
  BY <1>1, <1>3 DEF OneActive, Active
<1>6. Named'
  BY <1>1, <1>2, <1>3 DEF Named, Active
<1>7. Origins'
  BY <1>1, <1>2, <1>3 DEF Origins, Belongs, TypeOK, Images, Image, Publishing
<1>8. \A q \in Runs : Position(q)'
  BY <1>1, <1>2, <1>3 DEF Position, Publishing
<1> QED
  BY <1>4, <1>5, <1>6, <1>7, <1>8 DEF IInv

\* The steps of an active run to its next position.
LEMMA MoveFacts ==
  ASSUME TypeOK, OneActive, Named, NEW r \in Runs, NEW from \in Active, NEW to \in Active \cup {"done"},
         Move(r, from, to), UNCHANGED sha
  PROVE  /\ pc' \in [Runs -> {"fresh", "queued"} \cup Active \cup Over]
         /\ pc[r] = from /\ pc'[r] = to
         /\ \A q \in Runs : q # r => pc'[q] = pc[q] /\ pc[q] \notin Active
         /\ OneActive' /\ Named'
<1>1. pc[r] = from /\ pc'[r] = to /\ \A q \in Runs : q # r => pc'[q] = pc[q]
  BY DEF Move, TypeOK
<1>2. pc' \in [Runs -> {"fresh", "queued"} \cup Active \cup Over]
  BY DEF Move, TypeOK, Over
<1>3. \A q \in Runs : q # r => pc[q] \notin Active
  BY <1>1 DEF OneActive
<1>4. OneActive'
  BY <1>1, <1>3 DEF OneActive
<1>5. Named'
  BY <1>1 DEF Named, Active
<1> QED
  BY <1>1, <1>2, <1>3, <1>4, <1>5

\* Before it publishes, a run moves when nothing is published, or keeps its bytes.
LEMMA BuildInv ==
  ASSUME IInv, NEW r \in Runs, Check(r) \/ Build(r) \/ Retain(r)
  PROVE  IInv'
<1>1. TypeOK /\ OneActive /\ Named /\ Origins /\ \A q \in Runs : Position(q)
  BY DEF IInv
<1>2. UNCHANGED <<main, ci, sha, image, tag, release>>
  BY DEF Check, Build, Retain, ghVars, published
<1>3. PICK from \in {"check", "recheck", "build", "retain"}, to \in {"build", "push_provider", "retain", "recheck"} :
        /\ Move(r, from, to)
        /\ to = "push_provider" => image["provider"] = None /\ sha[r] \in ci /\ from = "recheck"
        /\ to = "recheck" => artifact'[r] = "kept"
  BY <1>1 DEF Check, Build, Retain, Preflight, Unused, Images, TypeOK
<1>4. /\ artifact' \in [Runs -> {"none", "kept", "expired"}]
      /\ \A q \in Runs : artifact'[q] = artifact[q] \/ artifact'[q] = "kept"
  BY <1>1 DEF Check, Build, Retain, TypeOK
<1>5. from \in Active /\ to \in Active
  BY DEF Active
<1>6. /\ pc' \in [Runs -> {"fresh", "queued"} \cup Active \cup Over]
      /\ pc[r] = from /\ pc'[r] = to
      /\ \A q \in Runs : q # r => pc'[q] = pc[q] /\ pc[q] \notin Active
      /\ OneActive' /\ Named'
  BY <1>1, <1>2, <1>3, <1>5, MoveFacts
<1>7. TypeOK'
  BY <1>1, <1>2, <1>4, <1>6 DEF TypeOK
<1>8. Origins'
  BY <1>1, <1>2, <1>4, <1>6 DEF Origins, Belongs, TypeOK, Images, Image, Publishing
<1>9. \A q \in Runs : Position(q)'
  <2>1. TAKE q \in Runs
  <2>2. CASE q # r
    BY <1>1, <1>2, <1>6, <2>2 DEF Position, Publishing, Active
  <2>3. CASE q = r
    <3>1. to = "push_provider" => artifact'[r] = "kept"
      BY <1>1, <1>3, <1>4, <1>6 DEF Position
    <3> QED
      BY <1>2, <1>3, <1>6, <2>3, <3>1 DEF Position, Publishing
  <2> QED
    BY <2>2, <2>3
<1> QED
  BY <1>6, <1>7, <1>8, <1>9 DEF IInv

\* What a copy puts into the registry.
LEMMA CopyFacts ==
  ASSUME TypeOK, NEW r \in Runs, NEW i \in Images, NEW exact \in BOOLEAN, Copy(r, i, exact)
  PROVE  /\ image' \in [Images -> Image \cup {None}]
         /\ image'[i] = [of |-> r, exact |-> exact] /\ image'[i] # None /\ image'[i].of = r
         /\ \A j \in Images : j # i => image'[j] = image[j]
         /\ UNCHANGED <<main, ci, sha, artifact, tag, release>>
<1>1. [of |-> r, exact |-> exact] \in Image
  BY DEF Image
<1> QED
  BY <1>1, ReleaseAssumption DEF Copy, TypeOK, ghVars

\* A run that publishes its first image finds nothing, and becomes the origin.
LEMMA CopyProviderInv ==
  ASSUME IInv, NEW r \in Runs, NEW exact \in BOOLEAN, CopyProvider(r, exact)
  PROVE  IInv'
<1>1. TypeOK /\ OneActive /\ Named /\ Origins /\ \A q \in Runs : Position(q)
  BY DEF IInv
<1>2. /\ image' \in [Images -> Image \cup {None}]
      /\ image'["provider"] # None /\ image'["provider"].of = r /\ image'["ui"] = image["ui"]
      /\ UNCHANGED <<main, ci, sha, artifact, tag, release>>
  BY <1>1, CopyFacts DEF CopyProvider, Images
<1>3. /\ pc' \in [Runs -> {"fresh", "queued"} \cup Active \cup Over]
      /\ pc[r] = "push_provider" /\ pc'[r] = "verify_provider"
      /\ \A q \in Runs : q # r => pc'[q] = pc[q] /\ pc[q] \notin Active
      /\ OneActive' /\ Named'
  <2>1. Move(r, "push_provider", "verify_provider") /\ UNCHANGED sha
    BY <1>2 DEF CopyProvider
  <2> QED
    BY <1>1, <2>1, MoveFacts DEF Active
<1>4. /\ image["provider"] = None /\ image["ui"] = None /\ tag = None /\ release = NoRelease
      /\ artifact[r] = "kept" /\ sha[r] \in ci
  BY <1>1, <1>3 DEF Position, Origins
<1>5. TypeOK'
  BY <1>1, <1>2, <1>3 DEF TypeOK
<1>6. Origins'
  BY <1>2, <1>3, <1>4 DEF Origins, Belongs, Publishing, NoRelease
<1>7. \A q \in Runs : Position(q)'
  BY <1>1, <1>2, <1>3, <1>4 DEF Position, Publishing, Active
<1> QED
  BY <1>3, <1>5, <1>6, <1>7 DEF IInv

\* The second image follows the first, whose digest was compared.
LEMMA CopyUIInv ==
  ASSUME IInv, NEW r \in Runs, NEW exact \in BOOLEAN, CopyUI(r, exact)
  PROVE  IInv'
<1>1. TypeOK /\ OneActive /\ Named /\ Origins /\ \A q \in Runs : Position(q)
  BY DEF IInv
<1>2. /\ image' \in [Images -> Image \cup {None}]
      /\ image'["ui"] # None /\ image'["ui"].of = r /\ image'["provider"] = image["provider"]
      /\ UNCHANGED <<main, ci, sha, artifact, tag, release>>
  BY <1>1, CopyFacts DEF CopyUI, Images
<1>3. /\ pc' \in [Runs -> {"fresh", "queued"} \cup Active \cup Over]
      /\ pc[r] = "push_ui" /\ pc'[r] = "verify_ui"
      /\ \A q \in Runs : q # r => pc'[q] = pc[q] /\ pc[q] \notin Active
      /\ OneActive' /\ Named'
  <2>1. Move(r, "push_ui", "verify_ui") /\ UNCHANGED sha
    BY <1>2 DEF CopyUI
  <2> QED
    BY <1>1, <2>1, MoveFacts DEF Active
<1>4. /\ image["provider"] # None /\ image["provider"].of = r /\ image["provider"] = Bytes(r)
      /\ image["ui"] = None /\ Belongs(r)
  BY <1>1, <1>3 DEF Position, Origins, Publishing
<1>5. tag = None /\ release = NoRelease
  BY <1>4 DEF Belongs, Images, Bytes
<1>6. TypeOK'
  BY <1>1, <1>2, <1>3 DEF TypeOK
<1>7. Origins'
  BY <1>2, <1>3, <1>4, <1>5 DEF Origins, Belongs, Publishing, NoRelease
<1>8. \A q \in Runs : Position(q)'
  BY <1>1, <1>2, <1>3, <1>4, <1>5 DEF Position, Publishing, Active
<1> QED
  BY <1>3, <1>6, <1>7, <1>8 DEF IInv

\* A comparison changes nothing and lets the run go on with exact bytes only.
LEMMA VerifyInv ==
  ASSUME IInv, NEW r \in Runs, VerifyProvider(r) \/ VerifyUI(r)
  PROVE  IInv'
<1>1. TypeOK /\ OneActive /\ Named /\ Origins /\ \A q \in Runs : Position(q)
  BY DEF IInv
<1>2. UNCHANGED <<main, ci, sha, artifact, image, tag, release>>
  BY DEF VerifyProvider, VerifyUI, ghVars, published
<1>3. PICK from \in {"verify_provider", "verify_ui"}, to \in {"push_ui", "tag"} :
        /\ Move(r, from, to)
        /\ to = "push_ui" => from = "verify_provider" /\ image["provider"] = Bytes(r)
        /\ to = "tag" => from = "verify_ui" /\ image["ui"] = Bytes(r)
  BY DEF VerifyProvider, VerifyUI, Exact, Bytes
<1>4. /\ pc' \in [Runs -> {"fresh", "queued"} \cup Active \cup Over]
      /\ pc[r] = from /\ pc'[r] = to
      /\ \A q \in Runs : q # r => pc'[q] = pc[q] /\ pc[q] \notin Active
      /\ OneActive' /\ Named'
  BY <1>1, <1>2, <1>3, MoveFacts DEF Active
<1>5. TypeOK'
  BY <1>1, <1>2, <1>4 DEF TypeOK
<1>6. Origins'
  BY <1>1, <1>2, <1>4 DEF Origins, Belongs, TypeOK, Images, Image, Publishing
<1>7. \A q \in Runs : Position(q)'
  BY <1>1, <1>2, <1>3, <1>4 DEF Position, Publishing, Active
<1> QED
  BY <1>4, <1>5, <1>6, <1>7 DEF IInv

\* The tag, the draft, its assets and the release, for a build whose images are both exact.
LEMMA PublicationFacts ==
  ASSUME IInv, NEW r \in Runs, \A i \in Images : image[i] = Bytes(r),
         TagSource(r) \/ CreateDraft(r) \/ (\E a \in Assets : Upload(r, a)) \/ Publish(r)
  PROVE  /\ image["provider"] # None /\ Belongs(r) /\ image' = image
         /\ tag' = sha[r] /\ tag' # None /\ tag' \in Commits
         /\ release' \in Draft
         /\ release' # NoRelease => release'.of = r /\ release'.state # "none"
         /\ release'.state = "public" => release'.assets = Assets
         /\ TagSource(r) => release' = release
         /\ (\E a \in Assets : Upload(r, a)) => release'.state = "draft"
         /\ CreateDraft(r) => release'.state = "draft"
<1>1. TypeOK /\ Named /\ Origins
  BY DEF IInv
<1>2. Bytes(r) \in Image /\ Bytes(r).of = r
  BY DEF Bytes, Image
<1>3. image["provider"] # None /\ image["provider"].of = r
  BY <1>2, ReleaseAssumption DEF Images
<1>4. Belongs(r)
  BY <1>1, <1>3 DEF Origins
<1>5. sha[r] \in Commits /\ sha[r] # None
  BY <1>1, <1>4, ReleaseAssumption DEF Named, Belongs, Publishing
<1>6. release \in Draft /\ (release # NoRelease => tag # None /\ release.of = r)
  BY <1>1, <1>4 DEF TypeOK, Belongs
<1>7. ASSUME TagSource(r) PROVE tag' = sha[r] /\ release' = release /\ release = NoRelease /\ image' = image
  BY <1>6, <1>7 DEF TagSource
<1>8. ASSUME CreateDraft(r)
      PROVE  /\ tag' = tag /\ tag = sha[r] /\ release'.of = r /\ release'.state = "draft"
             /\ release' \in Draft /\ image' = image
  BY <1>4, <1>8 DEF CreateDraft, Belongs, Draft
<1>9. ASSUME NEW a \in Assets, Upload(r, a)
      PROVE  /\ tag' = tag /\ tag = sha[r] /\ release'.of = r /\ release'.state = "draft"
             /\ release' \in Draft /\ image' = image
  <2>1. release # NoRelease
    BY <1>9 DEF Upload, NoRelease
  <2>2. release' \in Draft /\ release'.of = r /\ release'.state = "draft"
    BY <1>6, <1>9, <2>1 DEF Upload, Draft
  <2> QED
    BY <1>4, <1>9, <2>1, <2>2 DEF Upload, Belongs
<1>10. ASSUME Publish(r)
       PROVE  /\ tag' = tag /\ tag = sha[r] /\ release'.of = r /\ release'.state = "public"
              /\ release'.assets = Assets /\ release' \in Draft /\ image' = image
  <2>1. release # NoRelease
    BY <1>10 DEF Publish, NoRelease
  <2>2. release' \in Draft /\ release'.of = r /\ release'.state = "public" /\ release'.assets = Assets
    BY <1>6, <1>10, <2>1 DEF Publish, Draft
  <2> QED
    BY <1>4, <1>10, <2>1, <2>2 DEF Publish, Belongs
<1>11. CASE TagSource(r)
  <2>1. ~CreateDraft(r) /\ ~(\E a \in Assets : Upload(r, a)) /\ ~Publish(r)
    BY <1>7, <1>11 DEF CreateDraft, Upload, Publish, NoRelease, TagSource
  <2> QED
    BY <1>3, <1>4, <1>5, <1>6, <1>7, <1>11, <2>1 DEF NoRelease
<1>12. CASE CreateDraft(r)
  <2>1. ~TagSource(r)
    BY <1>12 DEF TagSource, CreateDraft
  <2> QED
    BY <1>3, <1>4, <1>5, <1>8, <1>12, <2>1
<1>13. CASE \E a \in Assets : Upload(r, a)
  <2>1. /\ tag' = tag /\ tag = sha[r] /\ release'.of = r /\ release'.state = "draft"
        /\ release' \in Draft /\ image' = image
    BY <1>9, <1>13
  <2>2. ~TagSource(r)
    BY <1>5, <2>1 DEF TagSource
  <2> QED
    BY <1>3, <1>4, <1>5, <2>1, <2>2
<1>14. CASE Publish(r)
  <2>1. /\ tag' = tag /\ tag = sha[r] /\ release'.of = r /\ release'.state = "public"
        /\ release'.assets = Assets /\ release' \in Draft /\ image' = image
    BY <1>10, <1>14
  <2>2. ~TagSource(r) /\ ~CreateDraft(r) /\ ~(\E a \in Assets : Upload(r, a))
    BY <1>5, <1>8, <1>9, <2>1 DEF TagSource
  <2> QED
    BY <1>3, <1>4, <1>5, <2>1, <2>2
<1> QED
  BY <1>11, <1>12, <1>13, <1>14

\* The last steps of a run.
LEMMA PublishStepInv ==
  ASSUME IInv, NEW r \in Runs, PublishStep(r), UNCHANGED <<ghVars, sha, artifact>>
  PROVE  IInv'
<1>1. TypeOK /\ OneActive /\ Named /\ Origins /\ \A q \in Runs : Position(q)
  BY DEF IInv
<1>2. UNCHANGED <<main, ci, sha, artifact>>
  BY DEF ghVars
<1>3. pc[r] \in {"tag", "draft", "upload"}
  BY DEF PublishStep, Move
<1>4. /\ image["provider"] # None /\ image["provider"].of = r /\ image["provider"] = Bytes(r)
      /\ pc[r] = "tag" => image["ui"] = Bytes(r)
      /\ pc[r] \in {"draft", "upload"} => tag # None
  BY <1>1, <1>3 DEF Position, Publishing
<1>5. Belongs(r)
  BY <1>1, <1>4 DEF Origins
<1>6. \A i \in Images : image[i] = Bytes(r)
  BY <1>3, <1>4, <1>5 DEF Belongs, Images
<1>7. PICK to \in {"draft", "upload", "done"} :
        /\ Move(r, pc[r], to) \/ (pc[r] = "upload" /\ to = "upload" /\ pc' = pc)
        /\ to = "draft" => TagSource(r) /\ pc[r] = "tag"
        /\ to = "upload" => CreateDraft(r) \/ \E a \in Assets : Upload(r, a)
        /\ to = "done" => Publish(r)
  BY DEF PublishStep, Move
<1>8. /\ image["provider"] # None /\ Belongs(r) /\ image' = image
      /\ tag' = sha[r] /\ tag' # None /\ tag' \in Commits
      /\ release' \in Draft
      /\ release' # NoRelease => release'.of = r /\ release'.state # "none"
      /\ release'.state = "public" => release'.assets = Assets
      /\ to = "draft" => release' = release
      /\ to = "upload" => release'.state = "draft"
  BY <1>6, <1>7, PublicationFacts
<1>9. /\ pc' \in [Runs -> {"fresh", "queued"} \cup Active \cup Over]
      /\ pc'[r] = to
      /\ \A q \in Runs : q # r => pc'[q] = pc[q] /\ pc[q] \notin Active
      /\ OneActive' /\ Named'
  <2>1. CASE Move(r, pc[r], to)
    BY <1>1, <1>2, <1>3, <2>1, MoveFacts DEF Active
  <2>2. CASE pc' = pc /\ pc[r] = "upload" /\ to = "upload"
    BY <1>1, <1>2, <2>2 DEF TypeOK, OneActive, Named, Active
  <2> QED
    BY <1>7, <2>1, <2>2
<1>10. TypeOK'
  BY <1>1, <1>2, <1>8, <1>9 DEF TypeOK
<1>11. Origins'
  BY <1>2, <1>4, <1>5, <1>6, <1>8, <1>9 DEF Origins, Belongs, Publishing
<1>12. to = "draft" => release' = NoRelease
  BY <1>1, <1>5, <1>7, <1>8 DEF Belongs, Position, TagSource
<1>13. \A q \in Runs : Position(q)'
  <2>1. TAKE q \in Runs
  <2>2. CASE q # r
    BY <1>1, <1>2, <1>9, <2>2 DEF Position, Publishing, Active
  <2>3. CASE q = r
    <3>1. artifact[r] = "kept"
      BY <1>1, <1>3 DEF Position, Publishing
    <3> QED
      BY <1>2, <1>4, <1>7, <1>8, <1>9, <1>12, <2>3, <3>1 DEF Position, Publishing
  <2> QED
    BY <2>2, <2>3
<1> QED
  BY <1>9, <1>10, <1>11, <1>13 DEF IInv

\* What an operator leaves is still of the build that failed.
LEMMA RecoverFacts ==
  ASSUME IInv, NEW r \in Runs, Recover(r)
  PROVE  /\ image["provider"] = Bytes(r)
         /\ image' \in [Images -> Image \cup {None}] /\ image'["provider"] = Bytes(r)
         /\ image'["ui"] # None => image'["ui"].of = r
         /\ tag' \in Commits \cup {None}
         /\ tag' # None => tag' = sha[r] /\ \A i \in Images : image'[i] = Bytes(r)
         /\ release' \in Draft
         /\ release' # NoRelease => tag' # None /\ release'.of = r /\ release'.state # "none"
         /\ release'.state = "public" => release'.assets = Assets
<1>1. TypeOK /\ Origins
  BY DEF IInv
<1>2. image["provider"] = Bytes(r) /\ image["provider"] # None /\ Bytes(r).of = r
  BY DEF Recover, Resumable, Agrees, Exact, Images, Bytes
<1>3. Belongs(r)
  BY <1>1, <1>2 DEF Origins
<1>4. CASE \E exact \in BOOLEAN : CopyMissing(r, exact)
  <2>1. PICK exact \in BOOLEAN : CopyMissing(r, exact)
    BY <1>4
  <2>2. /\ image' \in [Images -> Image \cup {None}]
        /\ image'["ui"].of = r /\ image'["provider"] = image["provider"]
        /\ UNCHANGED <<tag, release>> /\ image["ui"] = None
    BY <1>1, <2>1, CopyFacts DEF CopyMissing, Images
  <2>3. Bytes(r) \in Image
    BY DEF Bytes, Image
  <2>4. tag = None
    BY <1>3, <2>2, <2>3, ReleaseAssumption DEF Belongs, Images
  <2>5. release = NoRelease
    BY <1>3, <2>4 DEF Belongs
  <2> QED
    BY <1>1, <1>2, <2>2, <2>4, <2>5 DEF TypeOK, NoRelease
<1>5. CASE /\ \A i \in Images : Exact(r, i)
           /\ TagSource(r) \/ CreateDraft(r) \/ (\E a \in Assets : Upload(r, a)) \/ Publish(r)
  <2>1. \A i \in Images : image[i] = Bytes(r)
    BY <1>5 DEF Exact, Bytes
  <2> QED
    BY <1>1, <1>2, <1>5, <2>1, PublicationFacts DEF TypeOK, Images
<1> QED
  BY <1>4, <1>5 DEF Recover

\* An operator works on a run that failed, so no run publishes.
LEMMA RecoverInv ==
  ASSUME IInv, NEW r \in Runs, Recover(r)
  PROVE  IInv'
<1>1. TypeOK /\ OneActive /\ Named /\ Origins /\ \A q \in Runs : Position(q)
  BY DEF IInv
<1>2. UNCHANGED <<main, ci, pc, sha, artifact>>
  BY DEF Recover, ghVars
<1>3. /\ image["provider"] = Bytes(r)
      /\ image' \in [Images -> Image \cup {None}] /\ image'["provider"] = Bytes(r)
      /\ image'["ui"] # None => image'["ui"].of = r
      /\ tag' \in Commits \cup {None}
      /\ tag' # None => tag' = sha[r] /\ \A i \in Images : image'[i] = Bytes(r)
      /\ release' \in Draft
      /\ release' # NoRelease => tag' # None /\ release'.of = r /\ release'.state # "none"
      /\ release'.state = "public" => release'.assets = Assets
  BY RecoverFacts
<1>4. Bytes(r).of = r /\ Bytes(r) \in Image /\ Bytes(r) # None
  <2>1. Bytes(r).of = r /\ Bytes(r) \in Image
    BY DEF Bytes, Image
  <2> QED
    BY <2>1, ReleaseAssumption
<1>5. pc[r] = "failed" /\ Belongs(r)
  BY <1>1, <1>3, <1>4 DEF Recover, Resumable, Origins
<1>6. \A q \in Runs : pc[q] \notin {"push_provider"} \cup Publishing
  BY <1>1, <1>3, <1>4, <1>5 DEF Position, Publishing
<1>7. TypeOK'
  BY <1>1, <1>2, <1>3 DEF TypeOK
<1>8. OneActive' /\ Named'
  BY <1>1, <1>2 DEF OneActive, Named
<1>9. Origins'
  BY <1>2, <1>3, <1>4, <1>5 DEF Origins, Belongs
<1>10. \A q \in Runs : Position(q)'
  BY <1>1, <1>2, <1>6 DEF Position, Publishing
<1> QED
  BY <1>7, <1>8, <1>9, <1>10 DEF IInv

LEMMA RunStepInv ==
  ASSUME IInv, NEW r \in Runs, RunStep(r)
  PROVE  IInv'
  BY BeginInv, BuildInv, CopyProviderInv, CopyUIInv, VerifyInv, PublishStepInv DEF RunStep

LEMMA NextInv == IInv /\ [Next]_vars => IInv'
<1>1. ASSUME IInv, UNCHANGED vars PROVE IInv'
  BY <1>1 DEF vars, ghVars, published, IInv, TypeOK, OneActive, Named, Origins, Belongs, Position
<1>2. ASSUME IInv, Next PROVE IInv'
  BY <1>2, EnvironmentInv, DispatchInv, RunStepInv, FailInv, RecoverInv DEF Next
<1> QED
  BY <1>1, <1>2

-----------------------------------------------------------------------------
\* The invariant holds in every state, however many dispatches there are.
THEOREM Invariance == Spec => []IInv
  BY InitInv, NextInv, PTL DEF Spec

\* TypeOK, for every number of runs, commits and assets.
THEOREM TypeCorrect == Spec => []TypeOK
<1>1. IInv => TypeOK
  BY DEF IInv
<1> QED
  BY <1>1, Invariance, PTL

\* TagVouches: what the tag stands on was compared, byte for byte, before it.
THEOREM TagVouchesAlways == Spec => []TagVouches
<1>1. ASSUME IInv PROVE TagVouches
  <2>1. TypeOK /\ Origins
    BY <1>1 DEF IInv
  <2>2. CASE image["provider"] = None
    BY <2>1, <2>2 DEF Origins, TagVouches, NoRelease
  <2>3. CASE image["provider"] # None
    <3>1. PICK o \in Runs : o = image["provider"].of
      BY <2>1, <2>3 DEF TypeOK, Images, Image
    <3>2. Belongs(o)
      BY <2>1, <2>3, <3>1 DEF Origins
    <3>3. tag # None => \A i \in Images : image[i] = [of |-> o, exact |-> TRUE]
      BY <3>2 DEF Belongs, Bytes
    <3>4. tag # None => tag = sha[o] /\ tag \in ci
      BY <3>2 DEF Belongs
    <3>5. release.of \in {None, o} /\ (release.state = "public" => tag # None /\ release.assets = Assets)
      BY <3>2 DEF Belongs, NoRelease
    <3> QED
      BY <3>3, <3>4, <3>5 DEF TagVouches
  <2> QED
    BY <2>2, <2>3
<1> QED
  BY <1>1, Invariance, PTL

\* PartIsRecoverable: the run that owns the first image owns the rest, and kept its bytes.
THEOREM PartIsRecoverableAlways == Spec => []PartIsRecoverable
<1>1. ASSUME IInv PROVE PartIsRecoverable
  <2>1. TypeOK /\ Origins
    BY <1>1 DEF IInv
  <2>2. CASE image["provider"] = None
    BY <2>1, <2>2 DEF Origins, PartIsRecoverable, NoRelease, Images
  <2>3. CASE image["provider"] # None
    <3>1. PICK o \in Runs : o = image["provider"].of
      BY <2>1, <2>3 DEF TypeOK, Images, Image
    <3>2. Belongs(o)
      BY <2>1, <2>3, <3>1 DEF Origins
    <3>3. artifact[o] # "none" /\ tag \in {None, sha[o]} /\ release.of \in {None, o}
      BY <3>2 DEF Belongs, NoRelease
    <3>4. \A i \in Images : image[i] # None => image[i].of = o
      BY <3>1, <3>2 DEF Belongs, Images
    <3> QED
      BY <3>3, <3>4 DEF PartIsRecoverable
  <2> QED
    BY <2>2, <2>3
<1> QED
  BY <1>1, Invariance, PTL

-----------------------------------------------------------------------------
\* What a step can publish, and what it finds there.
FirstImage(r, exact) ==
  /\ image["provider"] = None /\ image["ui"] = None /\ tag = None /\ release = NoRelease
  /\ Copy(r, "provider", exact)

SecondImage(r, exact) ==
  /\ image["provider"] = Bytes(r) /\ image["ui"] = None /\ tag = None /\ release = NoRelease
  /\ Copy(r, "ui", exact)

TagOrRelease(r) ==
  /\ \A i \in Images : image[i] = Bytes(r)
  /\ TagSource(r) \/ CreateDraft(r) \/ (\E a \in Assets : Upload(r, a)) \/ Publish(r)

LEMMA Steps ==
  ASSUME IInv, [Next]_vars
  PROVE  \/ UNCHANGED published
         \/ \E r \in Runs, exact \in BOOLEAN : FirstImage(r, exact) \/ SecondImage(r, exact)
         \/ \E r \in Runs : TagOrRelease(r)
<1>1. TypeOK /\ Origins /\ \A q \in Runs : Position(q)
  BY DEF IInv
<1>2. ASSUME NEW r \in Runs, NEW exact \in BOOLEAN, CopyProvider(r, exact) PROVE FirstImage(r, exact)
  <2>1. image["provider"] = None
    BY <1>1, <1>2 DEF CopyProvider, Move, Position
  <2> QED
    BY <1>1, <1>2, <2>1 DEF CopyProvider, Origins, FirstImage
<1>3. ASSUME NEW r \in Runs, image["provider"] # None, image["provider"].of = r, image["ui"] = None
      PROVE  tag = None /\ release = NoRelease
  <2>1. Belongs(r)
    BY <1>1, <1>3 DEF Origins
  <2>2. Bytes(r) \in Image
    BY DEF Bytes, Image
  <2>3. Bytes(r) # None
    BY <2>2, ReleaseAssumption
  <2> QED
    BY <1>3, <2>1, <2>3 DEF Belongs, Images
<1>4. ASSUME NEW r \in Runs, NEW exact \in BOOLEAN, CopyUI(r, exact) PROVE SecondImage(r, exact)
  <2>1. image["provider"] # None /\ image["provider"].of = r /\ image["provider"] = Bytes(r) /\ image["ui"] = None
    BY <1>1, <1>4 DEF CopyUI, Move, Position, Publishing
  <2> QED
    BY <1>3, <1>4, <2>1 DEF CopyUI, SecondImage
<1>5. ASSUME NEW r \in Runs, PublishStep(r) PROVE TagOrRelease(r)
  <2>1. pc[r] \in {"tag", "draft", "upload"}
    BY <1>5 DEF PublishStep, Move
  <2>2. /\ image["provider"] # None /\ image["provider"].of = r /\ image["provider"] = Bytes(r)
        /\ pc[r] = "tag" => image["ui"] = Bytes(r)
        /\ pc[r] \in {"draft", "upload"} => tag # None
    BY <1>1, <2>1 DEF Position, Publishing
  <2>3. Belongs(r)
    BY <1>1, <2>2 DEF Origins
  <2>4. \A i \in Images : image[i] = Bytes(r)
    BY <2>1, <2>2, <2>3 DEF Belongs, Images
  <2> QED
    BY <1>5, <2>4 DEF PublishStep, TagOrRelease
<1>6. ASSUME NEW r \in Runs, Recover(r)
      PROVE  (\E exact \in BOOLEAN : SecondImage(r, exact)) \/ TagOrRelease(r)
  <2>1. image["provider"] = Bytes(r) /\ image["provider"] # None /\ Bytes(r).of = r
    BY <1>6 DEF Recover, Resumable, Agrees, Exact, Images, Bytes
  <2>2. ASSUME NEW exact \in BOOLEAN, CopyMissing(r, exact) PROVE SecondImage(r, exact)
    BY <1>3, <2>1, <2>2 DEF CopyMissing, SecondImage
  <2>3. (\A i \in Images : Exact(r, i)) => \A i \in Images : image[i] = Bytes(r)
    BY DEF Exact, Bytes
  <2> QED
    BY <1>6, <2>2, <2>3 DEF Recover, TagOrRelease
<1>7. ASSUME NEW r \in Runs, RunStep(r)
      PROVE  \/ UNCHANGED published
             \/ \E exact \in BOOLEAN : FirstImage(r, exact) \/ SecondImage(r, exact)
             \/ TagOrRelease(r)
  <2>1. ASSUME Begin(r) \/ Check(r) \/ Build(r) \/ Retain(r) \/ VerifyProvider(r) \/ VerifyUI(r)
        PROVE  UNCHANGED published
    BY <2>1 DEF Begin, Check, Build, Retain, VerifyProvider, VerifyUI
  <2> QED
    BY <1>2, <1>4, <1>5, <1>7, <2>1 DEF RunStep
<1>8. ASSUME (\E c \in Commits : Push(c)) \/ CiSucceeds
             \/ (\E r \in Runs : Expire(r) \/ Dispatch(r) \/ Fail(r)) \/ UNCHANGED vars
      PROVE  UNCHANGED published
  BY <1>8 DEF Push, CiSucceeds, Expire, Dispatch, Fail, vars
<1> QED
  BY <1>6, <1>7, <1>8 DEF Next

\* No run and no operator replaces what is there.
Kept ==
  /\ \A i \in Images : image[i] # None => image'[i] = image[i]
  /\ tag # None => tag' = tag
  /\ release.of # None => release'.of = release.of /\ release.assets \subseteq release'.assets
  /\ release.state = "public" => release' = release

LEMMA NothingReplaced ==
  ASSUME IInv, [Next]_vars
  PROVE  Kept
<1> USE DEF Kept
<1>1. TypeOK /\ Origins
  BY DEF IInv
<1>2. CASE UNCHANGED published
  BY <1>2 DEF published
<1>3. ASSUME NEW r \in Runs, NEW exact \in BOOLEAN, FirstImage(r, exact) \/ SecondImage(r, exact)
      PROVE  Kept
  BY <1>1, <1>3 DEF FirstImage, SecondImage, Copy, TypeOK, Images
<1>4. ASSUME NEW r \in Runs, TagOrRelease(r) PROVE Kept
  <2>1. /\ \A i \in Images : image[i] = Bytes(r)
        /\ TagSource(r) \/ CreateDraft(r) \/ (\E a \in Assets : Upload(r, a)) \/ Publish(r)
    BY <1>4 DEF TagOrRelease
  <2>2. Belongs(r) /\ image' = image
    BY <2>1, PublicationFacts
  <2>3. release \in Draft
    BY <1>1 DEF TypeOK
  <2>4. CASE TagSource(r)
    BY <2>2, <2>4 DEF TagSource
  <2>5. CASE CreateDraft(r)
    BY <2>2, <2>5 DEF CreateDraft, Belongs, NoRelease
  <2>6. CASE \E a \in Assets : Upload(r, a)
    BY <2>2, <2>3, <2>6 DEF Upload, Draft
  <2>7. CASE Publish(r)
    BY <2>2, <2>3, <2>7 DEF Publish, Draft
  <2> QED
    BY <2>1, <2>4, <2>5, <2>6, <2>7
<1> QED
  BY <1>2, <1>3, <1>4, Steps

\* WriteOnce, for every number of dispatches, wherever they stop.
THEOREM WriteOnceAlways == Spec => WriteOnce
<1>1. IInv /\ [Next]_vars => [Kept]_vars
  BY NothingReplaced
<1>2. Spec => [][Kept]_vars
  BY <1>1, Invariance, PTL DEF Spec
<1> QED
  BY <1>2 DEF WriteOnce, Kept

-----------------------------------------------------------------------------
\* The state of ReleasedVersion, as Release instantiates it.
Origin == IF image["provider"] = None THEN None ELSE image["provider"].of

ThereAre ==
  {i \in Images : image[i] # None}
    \cup (IF tag = None THEN {} ELSE {"tag"})
    \cup (IF release.state = "none" THEN {} ELSE {"draft"})
    \cup (IF release.state = "public" THEN {"public"} ELSE {})
    \cup release.assets

Order ==
  [x \in Items |->
     CASE x \in Images -> {}
       [] x = "tag" -> Images
       [] x = "draft" -> {"tag"}
       [] x = "public" -> {"draft"} \cup Assets
       [] OTHER -> {"draft"}]

\* Items are different things, in the order of publication.
LEMMA OrderFacts ==
  /\ Order["provider"] = {} /\ Order["ui"] = {}
  /\ Order["tag"] = Images /\ Order["draft"] = {"tag"} /\ Order["public"] = {"draft"} \cup Assets
  /\ \A a \in Assets : Order[a] = {"draft"} /\ a \in Items /\ a \notin Images \cup {"tag", "draft", "public"}
  /\ Images \cup {"tag", "draft", "public"} \subseteq Items
  BY ReleaseAssumption DEF Order, Items, Images

LEMMA PublishesOne ==
  ASSUME NEW r \in Runs, NEW x \in Items,
         ~Spoiled, Origin \in {None, r}, x \notin ThereAre, Order[x] \subseteq ThereAre,
         Origin' = r, ThereAre' = ThereAre \cup {x}
  PROVE  Version!VNext
<1>1. Spoiled' \in BOOLEAN
  BY DEF Spoiled
<1> QED
  BY <1>1 DEF Version!VNext, Version!Publish, Origin, ThereAre, Order

\* A copy publishes an image, whose bytes may be other ones.
LEMMA ImageRefines ==
  ASSUME IInv, NEW r \in Runs, NEW exact \in BOOLEAN, FirstImage(r, exact) \/ SecondImage(r, exact)
  PROVE  Version!VNext
<1>1. TypeOK
  BY DEF IInv
<1>2. Bytes(r) # None /\ Bytes(r).of = r /\ Bytes(r).exact = TRUE
  <2>1. Bytes(r) \in Image
    BY DEF Bytes, Image
  <2> QED
    BY <2>1, ReleaseAssumption DEF Bytes
<1>3. tag' = tag /\ tag = None /\ release' = release /\ release = NoRelease
  BY DEF FirstImage, SecondImage, Copy
<1>4. CASE FirstImage(r, exact)
  <2>1. /\ image["provider"] = None /\ image["ui"] = None /\ image'["ui"] = None
        /\ image'["provider"] # None /\ image'["provider"].of = r
    BY <1>1, <1>4, CopyFacts DEF FirstImage, Images
  <2>2. ~Spoiled
    BY <2>1 DEF Spoiled, Images
  <2>3. Origin = None /\ Origin' = r
    BY <2>1 DEF Origin
  <2>4. ThereAre = {} /\ ThereAre' = {"provider"}
    BY <1>3, <2>1 DEF ThereAre, NoRelease, Images
  <2>5. "provider" \in Items
    BY OrderFacts DEF Images
  <2> QED
    BY <2>2, <2>3, <2>4, <2>5, OrderFacts, PublishesOne
<1>5. CASE SecondImage(r, exact)
  <2>1. /\ image["provider"] = Bytes(r) /\ image["ui"] = None /\ image'["provider"] = Bytes(r)
        /\ image'["ui"] # None /\ image'["ui"].of = r
    BY <1>1, <1>5, CopyFacts DEF SecondImage, Images
  <2>2. ~Spoiled
    BY <1>2, <2>1 DEF Spoiled, Images
  <2>3. Origin = r /\ Origin' = r
    BY <1>2, <2>1 DEF Origin
  <2>4. ThereAre = {"provider"} /\ ThereAre' = {"provider", "ui"}
    BY <1>2, <1>3, <2>1 DEF ThereAre, NoRelease, Images
  <2>5. "ui" \in Items
    BY OrderFacts DEF Images
  <2> QED
    BY <2>2, <2>3, <2>4, <2>5, OrderFacts, PublishesOne
<1> QED
  BY <1>4, <1>5

\* The tag, the draft, an asset or the release of a build whose images are both exact.
LEMMA TagOrReleaseRefines ==
  ASSUME IInv, NEW r \in Runs, TagOrRelease(r)
  PROVE  Version!VNext
<1>1. TypeOK
  BY DEF IInv
<1>2. /\ \A i \in Images : image[i] = Bytes(r)
      /\ TagSource(r) \/ CreateDraft(r) \/ (\E a \in Assets : Upload(r, a)) \/ Publish(r)
  BY DEF TagOrRelease
<1>3. Belongs(r) /\ image["provider"] # None /\ image' = image /\ tag' = sha[r] /\ tag' # None
  BY <1>2, PublicationFacts
<1>4. \A i \in Images : image[i] # None /\ image[i].of = r /\ image[i].exact
  <2>1. Bytes(r) \in Image
    BY DEF Bytes, Image
  <2>2. Bytes(r) # None
    BY <2>1, ReleaseAssumption
  <2> QED
    BY <1>2, <2>2 DEF Bytes
<1>5. ~Spoiled
  BY <1>4 DEF Spoiled
<1>6. Origin = r /\ Origin' = r
  BY <1>3, <1>4 DEF Origin, Images
<1>7. {i \in Images : image[i] # None} = Images /\ {i \in Images : image'[i] # None} = Images
  BY <1>3, <1>4
<1>8. release \in Draft /\ release.assets \subseteq Assets
  BY <1>1 DEF TypeOK, Draft
<1>9. CASE TagSource(r)
  <2>1. tag = None /\ release = NoRelease /\ release' = release
    BY <1>3, <1>9 DEF TagSource, Belongs
  <2>2. ThereAre = Images /\ ThereAre' = Images \cup {"tag"}
    BY <1>3, <1>7, <2>1 DEF ThereAre, NoRelease
  <2>3. "tag" \notin Images
    BY DEF Images
  <2> QED
    BY <1>5, <1>6, <2>2, <2>3, OrderFacts, PublishesOne
<1>10. CASE CreateDraft(r)
  <2>1. tag # None /\ release = NoRelease /\ release'.state = "draft" /\ release'.assets = {}
    BY <1>3, <1>10 DEF CreateDraft, Belongs, NoRelease
  <2>2. ThereAre = Images \cup {"tag"} /\ ThereAre' = Images \cup {"tag", "draft"}
    BY <1>3, <1>7, <2>1 DEF ThereAre, NoRelease
  <2>3. "draft" \notin Images \cup {"tag"}
    BY DEF Images
  <2> QED
    BY <1>5, <1>6, <2>2, <2>3, OrderFacts, PublishesOne
<1>11. CASE \E a \in Assets : Upload(r, a)
  <2>1. PICK a \in Assets : Upload(r, a)
    BY <1>11
  <2>2. /\ tag # None /\ release.state = "draft" /\ a \notin release.assets
        /\ release'.state = "draft" /\ release'.assets = release.assets \cup {a}
    BY <1>3, <1>8, <2>1 DEF Upload, Belongs, NoRelease, Draft
  <2>3. /\ ThereAre = Images \cup {"tag", "draft"} \cup release.assets
        /\ ThereAre' = Images \cup {"tag", "draft"} \cup release.assets \cup {a}
    BY <1>3, <1>7, <2>2 DEF ThereAre
  <2> QED
    BY <1>5, <1>6, <2>2, <2>3, OrderFacts, PublishesOne
<1>12. CASE Publish(r)
  <2>1. /\ tag # None /\ release.state = "draft" /\ release.assets = Assets
        /\ release'.state = "public" /\ release'.assets = Assets
    BY <1>3, <1>8, <1>12 DEF Publish, Belongs, NoRelease, Draft
  <2>2. /\ ThereAre = Images \cup {"tag", "draft"} \cup Assets
        /\ ThereAre' = Images \cup {"tag", "draft"} \cup Assets \cup {"public"}
    BY <1>3, <1>7, <2>1 DEF ThereAre
  <2>3. "public" \notin Images \cup {"tag", "draft"} \cup Assets
    BY ReleaseAssumption DEF Images
  <2> QED
    BY <1>5, <1>6, <2>2, <2>3, OrderFacts, PublishesOne
<1> QED
  BY <1>2, <1>9, <1>10, <1>11, <1>12

\* ImplementsVersion: a version is published once, in order, by one build.
THEOREM Refinement == Spec => ImplementsVersion
<1>1. ASSUME Init PROVE Version!VInit
  <2>1. /\ \A i \in Images : image[i] = None
        /\ tag = None /\ release = NoRelease
    BY <1>1 DEF Init
  <2>2. Spoiled = FALSE
    BY <2>1 DEF Spoiled
  <2>3. Origin = None /\ ThereAre = {}
    BY <2>1 DEF Origin, ThereAre, NoRelease, Images
  <2> QED
    BY <2>2, <2>3 DEF Version!VInit, Origin, ThereAre
<1>2. ASSUME IInv, [Next]_vars PROVE [Version!VNext]_Version!vvars
  <2>1. CASE UNCHANGED published
    <3>1. UNCHANGED <<Origin, ThereAre, Spoiled>>
      BY <2>1 DEF published, Origin, ThereAre, Spoiled
    <3> QED
      BY <3>1 DEF Version!vvars, Origin, ThereAre
  <2> QED
    BY <1>2, <2>1, Steps, ImageRefines, TagOrReleaseRefines
<1> QED
  BY <1>1, <1>2, Invariance, PTL DEF Spec, ImplementsVersion, Version!VSpec

-----------------------------------------------------------------------------
(***************************************************************************)
(* Progress.  Begun(o): the version is of run o, whose image is there and  *)
(* stays.  The run goes on from step to step until it is done or fails;    *)
(* done, it has published; failed, the operator finds it resumable and     *)
(* completes it item by item, unless bytes were spoiled or expired.        *)
(***************************************************************************)
Begun(o) == image["provider"] # None /\ image["provider"].of = o

DonePublished == \A r \in Runs : pc[r] = "done" => release.state = "public"

\* A run comes to its end by publishing, and a public release stays.
THEOREM DoneIsPublic == Spec => []DonePublished
<1>1. Init => DonePublished
  BY DEF Init, DonePublished
<1>2. ASSUME IInv, DonePublished, [Next]_vars PROVE DonePublished'
  <2>1. release.state = "public" => release'.state = "public"
    BY <1>2, NothingReplaced DEF Kept
  <2>2. ASSUME NEW r \in Runs, pc'[r] = "done", pc[r] # "done" PROVE release'.state = "public"
    <3>1. TypeOK
      BY <1>2 DEF IInv
    <3>2. pc' # pc
      BY <2>2
    <3>3. ~(\E c \in Commits : Push(c)) /\ ~CiSucceeds /\ \A q \in Runs : ~Expire(q) /\ ~Recover(q)
      BY <3>2 DEF Push, CiSucceeds, Expire, Recover
    <3>4. ASSUME NEW q \in Runs, Dispatch(q) \/ Fail(q) PROVE FALSE
      BY <2>2, <3>1, <3>4 DEF Dispatch, Fail, TypeOK
    <3>5. ASSUME NEW q \in Runs, RunStep(q) PROVE release'.state = "public"
      <4>1. q = r
        BY <2>2, <3>1, <3>5 DEF RunStep, Begin, Check, Build, Retain, CopyProvider, CopyUI, VerifyProvider,
           VerifyUI, PublishStep, Move, TypeOK
      <4>2. Publish(r)
        BY <2>2, <3>1, <3>5, <4>1 DEF RunStep, Begin, Check, Build, Retain, CopyProvider, CopyUI, VerifyProvider,
           VerifyUI, PublishStep, Move, TypeOK
      <4> QED
        BY <3>1, <4>2 DEF Publish, TypeOK, Draft
    <3> QED
      BY <1>2, <3>2, <3>3, <3>4, <3>5 DEF Next, vars
  <2> QED
    BY <1>2, <2>1, <2>2 DEF DonePublished
<1> QED
  BY <1>1, <1>2, Invariance, PTL DEF Spec

Ahead == [
  verify_provider |-> {"push_ui", "failed"},
  push_ui         |-> {"verify_ui", "failed"},
  verify_ui       |-> {"tag", "failed"},
  tag             |-> {"draft", "failed"},
  draft           |-> {"upload", "failed"},
  upload          |-> {"done", "failed"}]

GoesOn(r, x) == pc[r] = x ~> pc[r] \in Ahead[x]

\* Only a run itself leaves a position from which it publishes.
LEMMA OwnPosition ==
  ASSUME NEW r \in Runs, NEW x \in Publishing, TypeOK, pc[r] = x, [Next]_vars
  PROVE  pc'[r] = x \/ pc'[r] \in Ahead[x]
<1> USE DEF Publishing, Ahead, Active, Over, TypeOK
<1>1. CASE UNCHANGED vars
  BY <1>1 DEF vars
<1>2. ASSUME NEW q \in Runs, RunStep(q) PROVE pc'[r] = x \/ pc'[r] \in Ahead[x]
  BY <1>2 DEF RunStep, Begin, Check, Build, Retain, CopyProvider, CopyUI, VerifyProvider,
     VerifyUI, PublishStep, Move
<1>3. ASSUME NEW q \in Runs, Expire(q) \/ Dispatch(q) \/ Fail(q) \/ Recover(q)
      PROVE  pc'[r] = x \/ pc'[r] \in Ahead[x]
  BY <1>3 DEF Expire, Dispatch, Fail, Recover
<1> QED
  BY <1>1, <1>2, <1>3 DEF Next, Push, CiSucceeds

\* The run's own step takes it ahead, unless it uploads one more asset.
LEMMA OwnStep ==
  ASSUME NEW r \in Runs, NEW x \in Publishing, TypeOK, pc[r] = x, RunStep(r) \/ Fail(r)
  PROVE  pc'[r] \in Ahead[x] \/ (x = "upload" /\ release'.assets # release.assets)
<1> USE DEF Publishing, Ahead, Active, TypeOK
<1>1. CASE Fail(r)
  BY <1>1 DEF Fail
<1>2. CASE \E a \in Assets : pc[r] = "upload" /\ Upload(r, a)
  BY <1>2 DEF Upload, Draft
<1>3. CASE RunStep(r) /\ ~\E a \in Assets : pc[r] = "upload" /\ Upload(r, a)
  BY <1>3 DEF RunStep, Begin, Check, Build, Retain, CopyProvider, CopyUI, VerifyProvider,
     VerifyUI, PublishStep, Move
<1> QED
  BY <1>1, <1>2, <1>3

LEMMA RunGoesOn ==
  ASSUME NEW r \in Runs, NEW x \in Publishing
  PROVE  Spec /\ Proceeds(r) /\ []NeverStuck /\ UploadsEnd => GoesOn(r, x)
<1>1. TypeOK /\ pc[r] = x /\ [Next]_vars => (pc[r] = x)' \/ (pc[r] \in Ahead[x])'
  BY OwnPosition
<1>2. TypeOK /\ pc[r] = x /\ <<RunStep(r) \/ Fail(r)>>_vars /\ [release'.assets = release.assets]_vars
        => (pc[r] \in Ahead[x])'
  BY OwnStep
<1>3. NeverStuck /\ pc[r] = x => ENABLED <<RunStep(r) \/ Fail(r)>>_vars
  BY DEF NeverStuck, RunsNeverStuck, Publishing, Active
<1> QED
  BY <1>1, <1>2, <1>3, TypeCorrect, PTL DEF Spec, Proceeds, UploadsEnd, GoesOn

\* The positions from verify_provider on, and where each leads.
Way(r) ==
  /\ pc[r] \in Publishing =>
       pc[r] = "verify_provider" \/ pc[r] = "push_ui" \/ pc[r] = "verify_ui" \/ pc[r] = "tag"
         \/ pc[r] = "draft" \/ pc[r] = "upload"
  /\ pc[r] \in Ahead["verify_provider"] => pc[r] = "push_ui" \/ pc[r] = "failed"
  /\ pc[r] \in Ahead["push_ui"] => pc[r] = "verify_ui" \/ pc[r] = "failed"
  /\ pc[r] \in Ahead["verify_ui"] => pc[r] = "tag" \/ pc[r] = "failed"
  /\ pc[r] \in Ahead["tag"] => pc[r] = "draft" \/ pc[r] = "failed"
  /\ pc[r] \in Ahead["draft"] => pc[r] = "upload" \/ pc[r] = "failed"
  /\ pc[r] \in Ahead["upload"] => pc[r] = "done" \/ pc[r] = "failed"

RunEnds(r) == pc[r] \in Publishing ~> pc[r] = "done" \/ pc[r] = "failed"

LEMMA RunComesToItsEnd ==
  ASSUME NEW r \in Runs
  PROVE  Spec /\ Proceeds(r) /\ []NeverStuck /\ UploadsEnd => RunEnds(r)
<1>1. Way(r)
  BY DEF Way, Ahead, Publishing
<1>2. /\ "verify_provider" \in Publishing /\ "push_ui" \in Publishing /\ "verify_ui" \in Publishing
      /\ "tag" \in Publishing /\ "draft" \in Publishing /\ "upload" \in Publishing
  BY DEF Publishing
<1>3. Spec /\ Proceeds(r) /\ []NeverStuck /\ UploadsEnd =>
        /\ GoesOn(r, "verify_provider") /\ GoesOn(r, "push_ui") /\ GoesOn(r, "verify_ui")
        /\ GoesOn(r, "tag") /\ GoesOn(r, "draft") /\ GoesOn(r, "upload")
  BY <1>2, RunGoesOn, Zenon
<1> QED
  BY <1>1, <1>3, PTL DEF Way, GoesOn, RunEnds

(***************************************************************************)
(* What is left to the operator, item by item: the second image, the tag,  *)
(* the draft, the publication of the draft once its uploads are over.      *)
(***************************************************************************)
NoUI == image["ui"] = None
NoTag == tag = None
NoDraft == release.state = "none"
Drafted == release.state = "draft"
Public == release.state = "public"

LEMMA Standing ==
  ASSUME NEW o \in Runs, IInv, Begun(o)
  PROVE  /\ NoDraft \/ Drafted \/ Public
         /\ pc[o] \in Publishing \/ pc[o] = "done" \/ pc[o] = "failed"
<1>1. TypeOK /\ Origins
  BY DEF IInv
<1> QED
  BY <1>1 DEF TypeOK, Draft, NoDraft, Drafted, Public, Begun, Origins, Belongs

\* What exists goes on existing, and a run that failed remains so.
LEMMA Stages ==
  ASSUME NEW o \in Runs, IInv, [Next]_vars, Begun(o)
  PROVE  /\ Begun(o)'
         /\ pc[o] = "failed" => pc'[o] = "failed"
         /\ ~NoUI => ~NoUI'
         /\ ~NoTag => ~NoTag'
         /\ ~NoDraft => ~NoDraft'
<1>1. TypeOK /\ Origins /\ TypeOK' /\ Origins'
  BY NextInv DEF IInv
<1>2. Belongs(o) /\ Kept
  BY <1>1, NothingReplaced DEF Begun, Origins
<1>3. Begun(o)' /\ (~NoUI => ~NoUI') /\ (~NoTag => ~NoTag')
  BY <1>2 DEF Begun, Kept, Images, NoUI, NoTag
<1>4. pc[o] = "failed" => pc'[o] = "failed"
  <2>1. ASSUME NEW q \in Runs, RunStep(q), pc[o] = "failed" PROVE pc'[o] = "failed"
    BY <1>1, <2>1 DEF RunStep, Begin, Check, Build, Retain, CopyProvider, CopyUI, VerifyProvider,
       VerifyUI, PublishStep, Move, TypeOK
  <2>2. ASSUME NEW q \in Runs, Expire(q) \/ Dispatch(q) \/ Fail(q) \/ Recover(q), pc[o] = "failed"
        PROVE  pc'[o] = "failed"
    BY <1>1, <2>2 DEF Expire, Dispatch, Fail, Recover, Active, TypeOK
  <2> QED
    BY <2>1, <2>2 DEF Next, Push, CiSucceeds, vars
<1>5. ~NoDraft => ~NoDraft'
  <2>1. SUFFICES ASSUME release.state # "none" PROVE release'.state # "none"
    BY DEF NoDraft
  <2>2. release # NoRelease
    BY <2>1 DEF NoRelease
  <2>3. release.of = o /\ release'.of = o
    BY <1>2, <2>2, ReleaseAssumption DEF Belongs, Kept
  <2>4. release' # NoRelease /\ Belongs(o)'
    BY <1>1, <1>3, <2>3, ReleaseAssumption DEF NoRelease, Origins, Begun
  <2> QED
    BY <2>4 DEF Belongs, NoRelease
<1> QED
  BY <1>3, <1>4, <1>5

\* After a failure, what is there can be resumed unless the publication is settled.
LEMMA CanResume ==
  ASSUME NEW o \in Runs, IInv, Begun(o), pc[o] = "failed", ~Settled
  PROVE  Resumable(o) /\ release.state # "public"
<1>1. TypeOK /\ Origins
  BY DEF IInv
<1>2. Belongs(o)
  BY <1>1 DEF Begun, Origins
<1>3. artifact[o] = "kept"
  BY <1>1, <1>2 DEF TypeOK, Belongs, Settled
<1>4. ASSUME NEW i \in Images, image[i] # None PROVE Exact(o, i)
  <2>1. image[i].exact = TRUE
    BY <1>1, <1>4 DEF Settled, Spoiled, TypeOK, Image
  <2>2. image[i].of = o
    BY <1>2, <1>4 DEF Belongs, Begun, Images
  <2> QED
    BY <1>1, <1>4, <2>1, <2>2 DEF Exact, TypeOK, Image
<1>5. tag \in {None, sha[o]} /\ release.of \in {None, o}
  BY <1>2 DEF Belongs, NoRelease
<1> QED
  BY <1>3, <1>4, <1>5 DEF Resumable, Agrees, Begun, Settled

\* Each step of the operator brings the next item.
LEMMA Resumed ==
  ASSUME NEW o \in Runs, IInv, Begun(o), Recover(o), ~Settled
  PROVE  /\ NoUI => ~NoUI'
         /\ ~NoUI /\ NoTag => ~NoTag'
         /\ ~NoTag /\ NoDraft => ~NoDraft'
         /\ ~NoTag /\ Drafted => Public' \/ release'.assets # release.assets
         /\ Drafted => ~NoTag
         /\ ~NoTag => ~NoUI
<1>1. TypeOK /\ Origins /\ Named
  BY DEF IInv
<1>2. Belongs(o) /\ pc[o] = "failed"
  BY <1>1 DEF Begun, Origins, Recover, Resumable
<1>3. (Drafted => ~NoTag) /\ (~NoTag => ~NoUI)
  <2>1. Bytes(o) \in Image
    BY DEF Bytes, Image
  <2>2. Bytes(o) # None
    BY <2>1, ReleaseAssumption
  <2> QED
    BY <1>2, <2>2 DEF Belongs, Drafted, NoTag, NoUI, NoRelease, Images
<1>4. ASSUME NEW exact \in BOOLEAN, CopyMissing(o, exact)
      PROVE  NoUI /\ ~NoUI'
  <2>1. [of |-> o, exact |-> exact] \in Image
    BY DEF Image
  <2>2. [of |-> o, exact |-> exact] # None
    BY <2>1, ReleaseAssumption
  <2> QED
    BY <1>1, <1>4, <2>2 DEF CopyMissing, Copy, NoUI, TypeOK, Images
<1>5. ASSUME \A i \in Images : Exact(o, i) PROVE ~NoUI
  <2>1. image["ui"] = Bytes(o) /\ Bytes(o) \in Image
    BY <1>5 DEF Exact, Images, Bytes, Image
  <2> QED
    BY <2>1, ReleaseAssumption DEF NoUI
<1>6. ASSUME TagSource(o) PROVE NoTag /\ ~NoTag'
  <2>1. sha[o] \in Commits
    BY <1>1, <1>2 DEF Named
  <2> QED
    BY <1>6, <2>1, ReleaseAssumption DEF TagSource, NoTag
<1>7. ASSUME CreateDraft(o) PROVE ~NoTag /\ NoDraft /\ ~NoDraft'
  BY <1>7 DEF CreateDraft, NoTag, NoDraft
<1>8. ASSUME NEW a \in Assets, Upload(o, a) PROVE Drafted /\ release'.assets # release.assets
  BY <1>1, <1>8 DEF Upload, Drafted, TypeOK, Draft
<1>9. ASSUME Publish(o) PROVE Drafted /\ Public'
  BY <1>1, <1>9 DEF Publish, Drafted, Public, TypeOK, Draft
<1>10. Drafted => ~NoDraft
  BY DEF Drafted, NoDraft
<1>11. \/ \E exact \in BOOLEAN : CopyMissing(o, exact)
       \/ /\ \A i \in Images : Exact(o, i)
          /\ TagSource(o) \/ CreateDraft(o) \/ (\E a \in Assets : Upload(o, a)) \/ Publish(o)
  BY DEF Recover
<1> QED
  BY <1>3, <1>4, <1>5, <1>6, <1>7, <1>8, <1>9, <1>10, <1>11

CompletesFor(r) == [](Begun(r) => <>Settled)

LEMMA BegunCompletes ==
  ASSUME NEW r \in Runs
  PROVE  Spec /\ Proceeds(r) /\ []NeverStuck /\ UploadsEnd => CompletesFor(r)
<1>1. IInv /\ Begun(r) /\ [Next]_vars =>
        /\ Begun(r)'
        /\ pc[r] = "failed" => (pc[r] = "failed")'
        /\ (~NoUI => ~NoUI') /\ (~NoTag => ~NoTag') /\ (~NoDraft => ~NoDraft')
  BY Stages
<1>2. IInv /\ Begun(r) =>
        /\ NoDraft \/ Drafted \/ Public
        /\ pc[r] \in Publishing \/ pc[r] = "done" \/ pc[r] = "failed"
  BY Standing
<1>3. Spec /\ Proceeds(r) /\ []NeverStuck /\ UploadsEnd => RunEnds(r)
  BY RunComesToItsEnd
<1>4. (DonePublished /\ pc[r] = "done" => Public) /\ (Public => Settled)
  BY DEF DonePublished, Public, Settled
<1>5. IInv /\ NeverStuck /\ Begun(r) /\ pc[r] = "failed" /\ ~Settled => ENABLED <<Recover(r)>>_vars
  <2>1. NeverStuck => (Resumable(r) /\ release.state # "public" => ENABLED <<Recover(r)>>_vars)
    BY Zenon DEF NeverStuck, OperatorNeverStuck
  <2>2. IInv /\ Begun(r) /\ pc[r] = "failed" /\ ~Settled => Resumable(r) /\ release.state # "public"
    BY CanResume
  <2> QED
    BY <2>1, <2>2, Zenon
<1>6. IInv /\ Begun(r) /\ ~Settled /\ <<Recover(r)>>_vars /\ [release'.assets = release.assets]_vars =>
        /\ NoUI => ~NoUI'
        /\ ~NoUI /\ NoTag => ~NoTag'
        /\ ~NoTag /\ NoDraft => ~NoDraft'
        /\ ~NoTag /\ Drafted => Public'
        /\ (Drafted => ~NoTag) /\ (~NoTag => ~NoUI)
  BY Resumed
<1> QED
  BY <1>1, <1>2, <1>3, <1>4, <1>5, <1>6, Invariance, DoneIsPublic, PTL
  DEF Spec, Proceeds, UploadsEnd, RunEnds, CompletesFor

(***************************************************************************)
(* PublicationCompletes, for every number of dispatches: a publication     *)
(* that began is completed, by its run or by the operator, unless bytes    *)
(* were spoiled or expired, if runners and operators go on, none is stuck  *)
(* and the uploads of the finitely many assets come to an end.             *)
(***************************************************************************)
THEOREM PublicationCompletesUnlessStuck ==
  FairSpec /\ []NeverStuck /\ UploadsEnd => PublicationCompletes
<1> DEFINE Completed == <>Settled
<1>1. FairSpec /\ []NeverStuck /\ UploadsEnd => \A o \in Runs : CompletesFor(o)
  <2>1. FairSpec => Spec /\ Scheduling
    BY PTL DEF FairSpec
  <2>2. Scheduling => \A o \in Runs : Proceeds(o)
    BY Zenon DEF Scheduling
  <2> QED
    BY <2>1, <2>2, BegunCompletes, Zenon
<1>2. (\A o \in Runs : CompletesFor(o)) => [](\A o \in Runs : Begun(o) => <>Settled)
  BY DEF CompletesFor
<1>3. (\A o \in Runs : Begun(o) => Completed) => ((\E o \in Runs : Begun(o)) => Completed)
  <2> HIDE DEF Completed
  <2> QED BY Zenon
<1>4. IInv /\ image["provider"] # None => \E o \in Runs : Begun(o)
  BY DEF IInv, TypeOK, Images, Image, Begun
<1> QED
  BY <1>1, <1>2, <1>3, <1>4, Invariance, PTL DEF FairSpec, Spec, PublicationCompletes

=============================================================================
