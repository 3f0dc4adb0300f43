# Formal verification of the eSignet BREG authenticator

This directory holds TLA+ specifications of the programs under `src/`, the TLC
configurations that check them on small instances, and TLAPS proofs of the
properties that matter most for every instance. Line numbers refer to the
sources at the commit the directory lies beside; `PROJECT.json` ties every
definition to its lines.

    tlc -workers 2 -config MCTokenCache.cfg MCTokenCache.tla     # one run
    tlapm TokenCacheProofs.tla                                   # one proof module

## 1. Inventory

The repository is a Go library, `provider`, that signs a person in by a one-time
code and releases consented attributes from a registry (BREG), and an adapter
that plugs it into eSignet. Around it are scripts that assemble the host, build
candidate images and release them.

| Component | Code | State | Operations | What is hard |
|---|---|---|---|---|
| Token cache and lookups | `provider/http.go` | `token`, `tokenDeadline`, `acquiring` under `p.mu` | `accessToken`, `acquire`, `lookup`, `invalidate` | waiters coalesce on another caller's request; outcomes, expiry and invalidation race |
| Mailpit verifier | `provider/mailpit.go` | `pending`, `inFlight` under `v.mu` | `SendOTP`, `deliver`, `Verify` | check and insertion lie on both sides of an SMTP delivery; attempts; expiry; restart |
| Identity provider | `provider/provider.go` | immutable configuration; contexts live in the host | `SendOTP`, `Authenticate`, `GetAttributes`, `Subject`, `SupportedClaims` | a code is consumed before the login is complete; contexts are judged by a wall clock |
| Configuration | `provider/config.go`, `New` | the collections, copied from or shared with the caller | `LoadConfig`, `defaults`, `validate`, `New`, the adapter's `Init` | conditions across fields and modules; a caller that writes to what it passed |
| Keys and assertions | `provider/keys.go` | the signing key | `loadKey`, `assertion` | a PEM key that names no algorithm; JWK members that contradict the key |
| eSignet adapter | `overlay/.../breg/authenticator.go` | none; contexts are the host's attribute token | `Init`, `SendOTP`, `Authenticate`, `GetAttributes` | order of host calls; transaction id; nil probe before consent |
| Consent wrapper and flow | `overlay/.../breg/consent.go`, `flow-breg-otp.yaml`, `thunder-consent.patch` | host's flow state | `RecordConsent`, `ResolveConsent`, the nodes of the flow | refusal, timeout and loops of the flow graph |
| Build preparation | `integration/prepare.sh` | a build directory with its marker, a downloaded archive | fetch, verify, clear, assemble | interruption before or inside any command; people's own directories |
| Module archive extraction | `integration/modulearchive` | the destination | two passes over one zip | bytes that change between the passes |
| Candidate builds | `integration/build.sh`, `source-metadata.py`, `artifact-metadata.py` | an archive and two sidecars in `dist/` | hash, build, hash again, vouch | inputs that are edited meanwhile |
| Release | `.github/workflows/release.yml`, `docs/release.md` | registry tags, Git tag, draft, release, retained bytes | preflight, build, retain, publish, recover | a workflow that stops between two publications |
| Companion UI, CI, host patches | `ui/`, `ci.yml`, `candidate.yml`, `esignet.patch`, `thunder.patch` | none | - | - |

How they interact: the host's flow calls the adapter; the adapter resolves the
client, builds a binding (relying party, client, transaction) and calls the
provider; the provider calls the challenge verifier (Mailpit, a static code or an
injected one), and for the account check and the attributes calls `lookup`, which
takes a token from the cache and asks the registry. Every host request is a
goroutine of its own with a context that may be cancelled or time out at any
moment. Only two mutexes exist, and neither is held across a network exchange,
so the whole difficulty is in what other calls do while one is outside its lock.
Around the program, `prepare.sh` calls `modulearchive`; the release workflow builds
its images with `build.sh` and publishes them. There the difficulty is what a stopped
run leaves to the next one.

What makes each component correct:

* Token cache: one acquisition at a time; nobody uses a token past its life; a
  refused token does not come back; a good token is not thrown away; every
  caller returns; a caller fails only for a reason of its own.
* Mailpit: at most `mailpitMaxPending` challenges pending or being sent; slots
  never leak; a code is accepted once, in time, after it was really delivered,
  for its own key, within `mailpitMaxAttempts`; room is refused only when taken.
* Identity provider: no token or registry request without an accepted challenge; one
  code makes at most one context, with a verifier that consumes codes; nothing beyond the approved claims is asked or
  released; contexts are honoured under their own binding and for their lifetime.
* Configuration and keys: what starts is fit for every operation that relies on it,
  and stays so; lifetimes do not overflow; assertions are signed as they say.
* Adapter and flow: no attributes without consent of this very login; a denied or
  timed-out consent releases nothing; every flow ends once a decision was submitted.
* Build preparation: a finished tree holds nothing of an earlier run, is of pinned bytes, and
  holds files of people only if their directory appeared between the look and `mkdir -p`; a
  foreign directory is not removed; a crash does not block the next run for ever.
* Module archive: nothing is written before everything was verified, and nothing
  is written over; what is there after success is pinned, unless bytes changed between the
  passes behind one CRC-32 or in an entry for which the zip states none.
* Candidates: an archive that fits its checksum was made of the inputs on its label, and
  a clean label vouches for the tracked files of its revision.
* Release: each version is published once, from one build that passed CI, each part
  after what it vouches for; a publication that stopped can be completed.

`PROJECT.json` lists the hazards one by one with the line where each bites.

## 2. Modules

| Module | What it is |
|---|---|
| `TokenService` | abstract specification: one current token, shared, issued when there is none, dropped only by a call it failed |
| `TokenCache` | the cache and the lookups of `http.go` |
| `TokenCacheProofs` | its inductive invariant, safety theorems, refinement of `TokenService` and progress |
| `OneTimeCode` | abstract specification of a verifier: one current challenge per key, used up by the answer that is accepted, withdrawn at any moment |
| `Mailpit` | the verifier of `mailpit.go` |
| `MailpitProofs` | its inductive invariant, safety theorems, refinement of `OneTimeCode` and progress |
| `IdentityProvider` | `provider.go` over any `OneTimeCode` |
| `IdentityProviderProofs` | its inductive invariant and safety theorems |
| `Configuration` | `config.go`, `New`, `keys.go`, the adapter's `Init`, and what is in effect afterwards |
| `ConfigurationProofs` | its inductive invariant and safety theorems |
| `ConsentedRelease` | abstract specification of a sign-in: proof, then a decision, then a release within it |
| `SignIn` | the flow, the adapter and the consent wrapper over any `OneTimeCode` |
| `SignInProofs` | its inductive invariant, safety theorems, refinement of `ConsentedRelease` and progress |
| `VerifiedExtraction` | abstract specification: verify, then enter what is admitted, over nothing that is there |
| `ModuleArchive` | the two passes of `modulearchive/main.go` |
| `ModuleArchiveProofs` | its inductive invariant, safety theorems and refinement of `VerifiedExtraction` |
| `BuildPrepare` | `prepare.sh`, run after run over one directory |
| `Candidate` | `build.sh` with its two Python scripts, in a checkout that people edit |
| `BuildProofs` | the inductive invariants and safety theorems of `BuildPrepare` and `Candidate` |
| `ReleasedVersion` | abstract specification: items published once, in order, from one build |
| `Release` | the workflow `release.yml` and the recovery of `docs/release.md` |
| `ReleaseProofs` | its inductive invariant, safety theorems, refinement of `ReleasedVersion` and progress |
| `MC...` | the instances for TLC |

`OneTimeCode` is the seam between the modules: `Mailpit` implements it (proved), and
`IdentityProvider` and `SignIn` take it for their verifier by `INSTANCE`. Their properties
therefore hold with the Mailpit verifier, restarts and expiry included, and with any other
that implements `OneTimeCode`. The static verifier (`provider.go:272-280`) does not: it neither
binds nor consumes its code, so with it one code may make many contexts and
`OneContextPerCode` and `ProofOfThisSignIn` do not hold. In the same way
`BuildPrepare` has of `modulearchive` what `VerifiedExtraction` promises: it ends
well for pinned bytes only (the exceptions that no checksum sees are stated in
`ModuleArchive` and left out here), and over nothing that is there.

Definitions named "Mutant" stand beside the definition they alter the way a
plausible bug would; no specification uses them. Each property of a run is
violated when its mutant takes the definition's place (`mutants` in
`PROJECT.json`), which shows that the property can fail.

### TokenCache

An element of `Calls` is one invocation of `lookup`. `pc` follows it through
`accessToken`; everything between `p.mu.Lock` and `p.mu.Unlock` is one action,
everything outside is separate ones, so that other calls fall between:

| Action | Code |
|---|---|
| `GiveUp`, `Hit`, `Join`, `Lead` | one turn of the loop, `http.go:22-48`; a miss clears the stale token even when the call then waits |
| `WaitDone`, `WaitCancelled` | the `select`; a waiter whose flight succeeded starts over |
| `Stamp`, `Grant`, `AcquireFails` | `start := p.now()` and `acquire`, without the lock; the issuer grants, then the answer arrives, is lost, is late or is rejected by one of `acquire`'s checks |
| `SettleOk`, `SettleErr` | the second critical section; a token spent in transit is an error |
| `Answer`, `Invalidate` | the registry request, then `invalidate` as a critical section of its own |

A flight and the token it obtains carry the name of the leading call: an issuer
grants a distinct token each time. `flight` is the `tokenFlight` record: `done`
is closed when it is `"ok"` or `"failed"`, and `err` tells the two apart. The
value of a token, the form of requests and the JSON of answers are abstracted to
their classification. `joined`, `issued`, `answer` are what the calls saw; no
action's guard looks at `issued` or, outside a call's own, `answer`.

### Mailpit

An element of `Sends` is one invocation of `mailpitVerifier.SendOTP`; a
challenge carries its name. `Reserve`/`Full` are the first critical section with
its sweep, `Generate`, `Accept`, `Delivered`, `Fails` the work outside the lock,
`Store` the second critical section and `Release` the deferred third. `Accept`
is the moment the mail server takes the mail; `Fails` may still follow. `Verify`
holds the lock throughout and is one step. `attempts[s]` is the counter kept in
the stored challenge; it stays readable after the challenge is deleted, so that
properties can speak of it. Salt and digest are abstracted to equality of codes,
and two challenges may by chance have the same code. `Restart` empties the table
and ends every call, as the comment "process-local" says.

### IdentityProvider

`Authenticate` is split where other calls matter: the call, the verifier's
decision, the account check, the context. `VerifyAccepts(l, "unavailable")` is
the case of `provider.go:115`, in which an accepted code is spent although the
login fails. The verifier is any `OneTimeCode`: `SendOTP` offers a challenge, `VerifyAccepts`
uses the current one of the key, and `Lapse` withdraws challenges at any moment. The registry
is external: it resolves the enrolled subjects and may return fewer or other fields than it
was asked for. Time is counted in ticks of which `PerSecond` make a second, so that the
truncation by `Unix()` is visible; `offset` is the error of the clock that `p.now()` reads, and
stands for a clock that is set back as well as for a replica that is behind. Contexts are kept
by the host unchanged, so the checks of `restore` for malformed contexts cannot fail and are
left out. `Present` and its refusal follow `GetAttributes` (`NilApproval` is `provider.go:172-174`).
The context is checked once, before the lookup; the registry's answer may come when it has
expired, and is released all the same. `HonouredForItsTime` is about that check and says
nothing of the moment of the release. The account check stands for the whole `lookup`,
the token acquisition included. `Subject` restores a context as `GetAttributes` does
and asks nobody; `SupportedClaims` is the domain of the claim map with what it maps
to. Neither changes anything.

### SignIn

An element of `Flows` is one execution of the flow by the engine, for one client.
`flow[f]` is the data that the engine keeps between requests: the node, the inputs, the
context that `Authenticate` returned and the outcome of the consent step. `log[f]`
is history: which codes were sent, which one was accepted, what was decided and
what the client received. No action's guard looks at it.

The graph of `flow-breg-otp.yaml` is the functions `OnSuccess`, `OnIncomplete` and
`NextNode`; a task moves to `OnSuccess` of its node, so the edges are the file's.
`SendOTP`, `Accepted`, `Rejected` and `AuthAssert` are the adapter's operations as
the executors call them: `BoundTo` is its binding, of which only the person and the
transaction vary within a client; `OtpKey` draws a transaction when the host passes
none. `ConsentCheck` is the probe with nil and the forced prompt, `RecordConsent`
the wrapper with the renamed error, `UserAttributes` the patched choice of what to
ask for. In a run the flow always has its transaction when it sends a code; the
mutant of `CodeFitsFlow` shows what happens when it has none.

The engine and its executors are not in the repository. They are modelled by what
the flow, the patches and their tests rely on, and freely where these say nothing:
a task that fails may end the flow or send the person back to the node before it; a
late decision may end in an error or go on with nothing to share. A code may be
typed into any sign-in, and the consent records of one sign-in are there in the next.
`Decide` submits what the declared inputs of the button allow (`Inputs`), or nothing, after which
`ConsentCheck` shows the prompt again, its time running on or anew. `ConsentFails` is any
error of the host but the refusal of an essential claim, whatever was decided:
`consent.go:24-33` passes it on as it is. The clock may move before every step, in the tasks as
at the prompts, so that a context may be older than its prompt and expire in a slow
sign-in. In the runs a tick is 150 seconds: a prompt of 120 seconds survives none, a context
of 300 seconds expires at the second.

### Configuration

One start-up of one process: `LoadConfig` from a document, then `AdapterInit` or `Embed`,
which call `New`; an embedding program may skip the document, inject a verifier, and
go on writing to the slices and the map it passed (`CallerWrites`). `held` is the
caller's configuration, `config` the provider's, and `detached` says which collections
were copied, so that `InEffect` is what requests really read. The text settings that
`validate` checks by themselves are abstracted to whether they pass (`malformed`); those
that others depend on have values, scopes their lengths. `Lifetime` computes in the
width of `time.Duration`. `KeyLoads` decides for PEM and JWK as `loadKey` does,
`Assertion` is the header, the lifetime and the algorithm of an assertion.

### ModuleArchive

An element of `Entries` is an entry of the zip. The directory of the zip is read
once (`OpenReader`), the data twice: `Hash` in the first pass, `ExtractFile` in the second,
both in the order of names. `Change` writes other bytes into the open file at any
moment. `Intact` is the only check the second pass has, the CRC-32 of the directory; `archive/zip`
compares it only for the entries in `zip.checked`, since it skips a CRC-32 of 0 in an entry without
data descriptor, and the pinned h1 sum does not cover that field.
`ExtractTears` is a file that was created and not written whole.

### BuildPrepare

Each command of the script is an action, those that fill a part of the tree are two
(`Begin`, `Complete`), and `rm -rf` removes marker and parts in any order. `Die` may
follow any of them; what lies on disk then meets the next run. `part[p].runs` names the
runs that wrote into a part, by which mixing shows. `Jobs` says which stages a command
takes: `tar` and `cp` write over anything, `git apply --check` does not, and `O_EXCL` writes
beside files of other names. People make the directory where there is none, with any contents
(`Foreign`, run 0 in `part[p].runs`), replace the archive and change the module cache; a directory
that the script has made they leave alone, unless they remove it whole between two runs. `taken`
is history: `mkdir -p` took over a directory that appeared after the look (`prepare.sh:20-24`),
and then its files may be in the finished tree, which `FreshWhenReady` says.

### Candidate

One `build.sh` after another in one checkout, without `--load`. The inputs are
read path by path, three times: for the label (`Hash`), by BuildKit (`Upload`) and for the
comparison (`Verify`). `Edit` and `Commit` may come between any two reads. A SHA-256 is what
was hashed. An export may be damaged (`Damages`): in its index, manifests or configurations, which
`artifact-metadata.py` reads and refuses, or in its layers and attestations, which it does not
read and which only the release checks (`release.yml:135-144`); `SidecarVouches` speaks of what
the former hold. `edits`, `undone` and `moved` are history. The first two mark paths that were changed and
put back between the hashes, which no comparison of digests can see; `moved` holds the tracked paths
that were edited or committed while the label was made, which is asked for its revision,
its state and its digest one after the other (`source-metadata.py`, `main`).

### Release

An element of `Runs` is a dispatch of the workflow; the steps of `release.yml` are its
values of `pc`, and `Fail` may follow each of them. `MayStart` is the concurrency group.
The build is one step: its tests, scans and attestation have no effect outside the run.
`image[i].exact` says whether the registry has the digest of the archive; the step that
compares it comes after the copy, as in the file. `Recover` is what `docs/release.md` tells an
operator to do for a run that failed, from its retained bytes, and is part of the
specification since the workflow refuses to run over a publication that stopped.

## 3. Runs

| Run | Question | Bounds | Result |
|---|---|---|---|
| `cache_safety` | do concurrent lookups ever share a wrong token, and do they behave as the token service? | 3 calls, lifetimes 1 and 3 around a cap of 2, clock to 3 | 3.4 million states, holds |
| `cache_liveness` | does every lookup return? | 3 calls, lifetime 1, clock to 1, weak fairness | 0.5 million states, holds |
| `mailpit_safety` | bound, one-time use within the attempts, expiry; is it a `OneTimeCode`? | 3 sends, 2 keys, 2 codes, 2 slots, 2 attempts, lifetime 1, clock to 1 | 0.9 million states, holds |
| `provider_safety` | proof before lookup, one context per code, consent, validity | 2 logins, 1 read, 2 codes, 2 bindings, lifetime 1 s = 2 ticks, clock error of 1 tick | 0.6 million states, holds |
| `signin_safety` | is each sign-in proved by its own code, and is what it releases what was agreed to in it? | 2 flows, 2 people, 3 codes, 1 essential and 2 optional claims, a tick of 150 s: prompt 0, context 2, clock to 2 | 0.6 million states, holds |
| `signin_liveness` | does a flow end once a decision was submitted, and does every SendOTP of the verifier return with its slot given back? | 2 flows, 1 person, 2 codes; 2 sends, 1 slot; weak fairness | 0.1 million states, holds |
| `configuration` | is whatever starts fit for service, and does it stay so? | 1 valid configuration varied group by group across every boundary, 18 key files, secrets at the limits of their size, grants beyond the cap and the width | 9 thousand states, holds |
| `module_archive` | is anything written before all is verified, and what is there at success? | 11 zips of 2 entries: sound, in any order, short, duplicate, foreign, mistyped, with a CRC-32 twin, without a CRC-32; 3 destinations; any change of bytes | 15 thousand states, holds |
| `build_prepare` | is a finished tree fresh, are foreign directories safe, does a crash block? | 3 runs, killed anywhere; directories of people with any contents | 0.5 million states, holds |
| `candidate` | does a checksum vouch for the inputs on the label, and a clean label for its revision? | 2 builds, a tracked and an ignored path, 3 edits or commits, damaged exports | 8.8 million states, holds |
| `candidate_clean` | does a clean label mean the inputs of the revision? | 1 build of a tracked and an ignored path, nobody edits | violated, see below |
| `release` | is a version published once, from one build, in order, and can a stopped publication be completed? | 3 dispatches, 2 commits, 2 assets, weak fairness | 0.1 million states, holds |

Why the bounds are enough: three lookups are a leader, a waiter and a third that
refreshes, invalidates or leads again while the first two are still under way;
a lifetime below and one above the cap take both sides of the minimum; a clock
that may pass a deadline once exercises every comparison on both sides. Three
SendOTPs over two slots fill the table, are refused and leave room again, and two
of them may share a key. Two logins with one code are the race; half-second ticks
show the truncation. Two sign-ins of one person exchange codes and meet each other's
consent records, a third code is sent again after a failure, and the claims are an
essential one, an optional one and one that the registry has no value for.
The settings of a configuration are checked apart from those of other groups, so a
group is varied with the others valid; a second of 1000 units in a word that holds the
largest cap and little more lets products overflow as in 64 bits. Two entries can
be out of order, duplicate, missing and foreign. A run of `prepare.sh` that is killed, one that
meets its remains and is killed in turn, and one that meets both are three. Three edits
change a path, put it back and change another. Three dispatches are one that stops,
one that meets what it left and one that waits. The bounds on clocks, calls and runs
are constants named in the modules; the proofs do without them, but for `MaxRuns`, which
they leave open.

Type invariants are not repeated in the runs: each component with proofs has its own as a
theorem (`TypeCorrect`, `CandidateTypeCorrect`).

`candidate_clean` refutes what `integration/README.md:74-75` says, that the labels record
"whether those inputs are dirty", those whose digest they bear. `source_state` comes from
`git status --porcelain --untracked-files=normal` (`source-metadata.py:49`), which does not list
ignored files, while the digest and the build context take every file below `provider/`
and `integration/`. With an ignored file there the label says clean although the inputs are
not those of the revision. The digest on the label stays true to the inputs in any case,
and a clean label to the tracked files of its revision unless one was moved while the
label was made: this is what `SidecarVouches` says, and `candidate` checks.

`signin_liveness` asks two questions in one behaviour space. `SignIn` knows its verifier by
`OneTimeCode` alone, so it shares no state with `Mailpit`, and `MCSignInLive` puts the two beside each
other: whichever moves first goes on while the other is at rest, each under its own fairness.

Four more configurations are run by hand: `MCTokenCacheStuck.cfg`, `MCMailpitStuck.cfg`,
`MCSignInStuck.cfg` and `MCReleaseStuck.cfg` check, under the bounds of the liveness runs,
the hypotheses of the theorems about progress (section 4). All four pass.

Symmetry is used in safety runs only. `CHECK_DEADLOCK FALSE` stands in the
runs of the token cache, the sign-in, the configuration, the module archive and the
candidate: when every lookup has returned, every flow is over, the process has failed
to start, the extraction has ended, or the last build and the last edit are done,
nothing is left to do.

Fairness: `WF_vars(Step(c))` for each lookup and `WF_vars(Step(s))` for each
SendOTP. A goroutine that can run is eventually run, a `sync.Mutex` is not
starved, and each network exchange ends because of `http.Client.Timeout`
(`provider.go:95`) and of the dial timeout and `conn.SetDeadline`
(`mailpit.go:154-160`). Nothing is assumed of arrivals, cancellations, the
clock, `Verify` or restarts. In `SignIn` it is `WF_vars(Task(f))`, since the engine runs
the tasks of a request to the end and each of them is bounded by
`http.timeout_seconds`; nobody need ever answer a prompt. With the finitely many calls of a run, a waiter
that starts over cannot do so for ever; the code gives no bound for an unlimited
stream of refused tokens, and no such claim is made. In `Release` a run goes on or
fails (`timeout-minutes`), and an operator does what `docs/release.md` prescribes: this
last is an assumption about people, without which nothing is promised. Nothing is
assumed of dispatches, pushes, CI or the end of the retention.

## 4. Proofs

`TokenCacheProofs` proves for any set of calls, any set of positive lifetimes,
any cap and any length of a run, from `TokenCacheAssumption` alone, that `Spec`
implies `[]TypeOK`, `[]SingleFlight`, `[]CacheWithinGrant`,
`[]RefusedTokenStaysOut`, `[]NoRedundantToken`, `FailureHasCause`,
`HandedTokenUnexpired`, and `ImplementsService`.

None of these is inductive alone. `Inv` adds:

* `FlightInv`: who is between `Lead` and settling is exactly the registered
  flight, whose record is open; a call that leads no flight yet has no record.
  Without it two settlements could not be excluded.
* `GrantInv`: the order of `start`, grant and settlement, and that what is cached
  is the outcome of a flight that succeeded with that flight's deadline.
* `HolderInv`: a call holds only tokens of flights that succeeded. A leader that
  settles therefore caches a token that nobody has been refused, which is what
  `RefusedTokenStaysOut` needs.

A second invariant, `JoinedInv`, follows it up: a call starts over only after the flight it joined
has succeeded.

One lemma per part shows that each action preserves it. `SingleFlight` gives
the refinement its one hard case: `SettleOk` implements `Issue` because no token can
be cached while a flight is open.

`MailpitProofs` proves, for any finite sets of calls and keys and any limits,
`[]TypeOK`, `[]InFlightExact`, `[]CapacityBound`, `[]PendingIsAnswerable`,
`[]OneTime`, `AcceptsOnlyFreshMail`, `RefusedOnlyWhenFull` and
`ImplementsOneTimeCode`. Its invariant takes
the count and the bound together (`CountInv`): a slot is given back only after the
insertion, so the check of `Reserve` counts every challenge that is yet to be stored.
`ChallengeInv` adds that what is stored or about to be was really mailed, that a
challenge has no guesses and no acceptance before it is stored, and that the
table holds only challenges of calls that stored them. For the refinement the table without its expired
challenges is `current`; a restart or a tick that lets challenges expire is
`Withdraw`. The cardinalities are handled by the library's theorems on finite sets.

`SignInProofs` proves, for any sets of flows, people, codes and claims, any prompt timeout and
any lifetime of contexts (`SignInAssumption`), `[]TypeOK`, `[]CodeFitsFlow`,
`[]ProofOfThisSignIn`, `[]AgreedIsDelivered`, `[]RefusalIsDenial`, `[]ReleaseIsOnRecord` and
`ImplementsConsentedRelease`.
`IInv` adds three parts:

* `ProgressInv`: what a flow has been through, by node. Before the code was
  accepted nothing is decided; between the decision and the assertion the engine
  holds exactly the decision that was taken; the attributes about to be asked for
  are within it. It makes the stage of `ConsentedRelease` a function of the node and the
  decision, from which each action is one step of it or none.
* `CodesInv`: the code that is current for a flow was sent in it, no code was
  sent in two flows, and an accepted code is a used one of its own flow.
* `RecordInv`: before the assertion the host has no record of a sign-in that goes on; at it,
  a record stands for a decision with the essential claims, and without one nothing is
  about to be asked for. A refusal on record is a flow that was denied, and the other way round.

`IdentityProviderProofs` proves, for any sets of logins, reads, codes, persons,
bindings and claims, any claim map, lifetime, clock resolution and skew
(`IdentityProviderAssumption`), `[]TypeOK`, `[]NoLookupWithoutProof`,
`[]OneContextPerCode`, `[]ReleasedWithinApproval` and `HonouredForItsTime`. `IInv` adds
`LoginInv` (who is past the verifier had its code accepted under the key it submitted, and no
code was accepted twice), `Keyed` (the code that is current for a key was sent for it and is
fresh no more), `Issued` (a context
bears the second that some clock showed when it was made) and `ReadInv`
(what a read asked and got, by its place). The truncation to whole seconds is the
one piece of arithmetic, and has lemmas of its own.

`ConfigurationProofs` proves, for any configurations, documents, key files and
later writes, `[]TypeOK`, `[]ReadyForService` and `FixedForLife`. `Inv` says what a
loaded and a running configuration has passed and that `defaults` changes nothing the
second time. The heart of it are lemmas about the operators: what `validate` admits
as a list of scopes, `parseScope` admits as one string; a lifetime that is capped first
does not wrap; a key that loads signs with the algorithm of its header.

`ModuleArchiveProofs` proves, for any zips, listings, checksums and destinations,
`[]TypeOK`, `[]WrittenAfterAll`, `[]ExtractedIsPinned`, `NothingOverwritten` and
`ImplementsExtraction`. `IInv` relates the listing that was hashed so far to the entries
that are done (`Covered`, `Distinct`, `Ordered`), the bytes to it unless they changed since
(`Faithful`; a change is noticed only where there is a CRC-32 to compare), and the destination to the entries extracted (`Extracted`).

`BuildProofs` proves of `BuildPrepare`, for any number of runs, `[]TypeOK`, `[]FreshWhenReady`,
`ForeignUntouched` and `RefusedForCause`. `Inv` adds `FileInv` (the archive is never the
remains of a download), `OwnerInv` (what may be unmarked, and when, and that a directory of
people holds nothing of the script) and, by the next command, what the parts of the tree hold and who wrote them (`PartInv`). Of `Candidate` it proves,
for any sets of files and contents, any number of builds, edits and commits and what an earlier
build left, `[]CandidateTypeOK` and `[]SidecarVouches`. `SidecarVouches` speaks of an archive that is already there
and says nothing of the build that is making the next one; `CandidateInv` adds

* `DigestInv`: which hashes are complete at which step, and that the second one equals the
  label once the comparison has passed;
* `EditInv`: path by path, what the comparison has found or would find now, counted against
  the edits since the first hash: none, and it is the label's and BuildKit read it; one, and it
  differs; two, and nothing is known. This is what makes the comparison conclusive for
  a path that was not edited twice, though nothing is locked at any time;
* `LabelInv`: while the label is made, a tracked path that was not moved is as the revision
  has it, if the state is clean;
* `ArchiveInv`: what the archive, the checksum and the metadata have in common with the
  build under way.

`ReleaseProofs` proves, for any sets of dispatches, commits and assets, `[]TypeOK`,
`[]TagVouches`, `[]PartIsRecoverable`, `WriteOnce` and `ImplementsVersion`. `IInv` says that one
run at a time is active, that it finds at each step what it left in the one before
(`Position`), and that everything public is of one run (`Origins`). That an operator's
steps interleave with nobody's follows: a run that starts meanwhile is refused by
its preflight.

Progress. What a run checks about liveness is proved for every value of the constants
up to a gap that is named. Neither `ENABLED` nor induction over a finite set
within a temporal formula is in the provers' reach, so the theorems carry them as hypotheses:

| Theorem | From `FairSpec` and | Conclusion |
|---|---|---|
| `EveryWaitEndsUnlessStuck` | `[]NeverStuck` | every waiter of a flight is woken |
| `EveryCallReturnsUnlessStuck` | `[]NeverStuck`, `JoinsEnd` | `EveryCallReturns` |
| `SlotsComeBackUnlessStuck` | `[]NeverStuck` | `SlotsComeBack` |
| `ConsentSettlesUnlessStuck` | `[]NeverStuck` | `ConsentSettles` |
| `PublicationCompletesUnlessStuck` | `[]NeverStuck`, `UploadsEnd` | `PublicationCompletes` |

`NeverStuck` says, in each module, that whoever is under way has a step to take, which is
what weak fairness is about: a call of the cache unless it waits for a flight that is open, a
SendOTP that has not returned, the tasks of a flow after its decision, a run that
is active and an operator who may resume. It is a state predicate about one step, and TLC checks it as an
invariant. `JoinsEnd` says that a call joins finitely many flights and `UploadsEnd` that
assets are uploaded finitely often. Both hold because `Calls` and `Assets` are finite: a call
joins no flight twice (`NoFlightTwice`, proved), and a call leads one flight at most; an asset that is
uploaded stays (`WriteOnce`, proved) and is not uploaded again. TLC checks them, too.

The arguments are chains of positions. Each lemma says that a call at one position stays there
or goes to one of the next (`Onward`, `Ahead`), that its own step takes it there, and
that fairness makes it take one; the invariants say where each actor finds itself. Two of them are more
than chains. A waiter does not move by itself: its flight's leader has settled it after at most four
steps of its own, the flight stays settled, and then the waiter has a step, whichever flight it
was. And a publication changes hands: the run goes on to its end or fails, after which
`IInv` makes what is there resumable unless it is spoiled or expired, and each step of the
operator brings the next item.

Only model-checked: these hypotheses, in the bounds of the runs.

## 5. Not modelled

* The wording of errors, logging, redaction, HTTP headers and JSON layout.
* Cryptography: signatures, HMAC and digests are taken as injective; a CRC-32 is not.
* The static verifier, which has no state; an injected one is taken to implement `OneTimeCode`.
* The layers and attestations of an OCI archive, which the workflow checks and the scripts of
  `integration/` do not.
* The form of addresses, URLs and texts in a configuration, abstracted to whether they
  pass their check.
* In the adapter, which error a failure is turned into, a client that changes within
  one flow, and the operations that only return an error.
* Two runs of `prepare.sh`, or two of `build.sh`, at a time in one directory: the scripts
  assume one. `git status` and `git rev-parse` are one step each.
* `build.sh --load`, which leaves no sidecars, and what an OCI archive consists of beyond the
  parts that `artifact-metadata.py` reads and those it does not.
* A copy to the registry that arrives after the run that sent it was stopped; the
  preflight asks its questions in one step.
* The UI, the workflows `ci.yml` and `candidate.yml`, and the patches `esignet.patch` and
  `thunder.patch`, which have no state of their own.
* eSignet, Thunder, Redis, PostgreSQL, GitHub, the registry and Docker, which are not in
  the repository: they appear as what the code relies on.

## 6. Plan

1. Done: `TokenService` and `TokenCache`, `OneTimeCode` and `Mailpit`,
   `IdentityProvider`, `Configuration`, `ConsentedRelease` and `SignIn`,
   `VerifiedExtraction` and `ModuleArchive`, `BuildPrepare`, `Candidate`,
   `ReleasedVersion` and `Release`, each with its proofs.
2. Done: progress in `TokenCache`, `Mailpit`, `SignIn` and `Release`, under fairness.
3. Next: the adapter's mapping of errors together with what the flow does for each of them.
4. Two concurrent runs of the scripts, should they ever be allowed.
