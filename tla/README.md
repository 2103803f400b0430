# Formal model of curl-impersonate

TLA+ modules, TLC runs and TLAPS proofs for this repository: a libcurl that can be made
to look like a browser (`patches/`), and the tool that captures what browsers look like
and turns it into native profiles (`tools/fingerprint-harvester`, `.github/workflows`).

    tlc -workers 2 -config Harvest.cfg MCHarvest     # a run: <cfg> <module>, see "Runs"
    tlapm HarvestProofs.tla                          # a proof

## The system

| Component | State | Operations | Meets |
|---|---|---|---|
| Capture commands (`cli.py`, `bundle.py`, `readiness.py`) | bundle directories below a workspace or at `--output` | `harvest`, `cft-harvest`, `capture`, `safari-capture`, `android-capture` | the release feed, the installed browser, each other through the file system |
| Browser runners (`chrome_runner.py`, `android_runner.py`, `safari_runner.py`) | a browser process or driver, one session at a time | start, visit the capture service over HTTP/2 and HTTP/3, stop | called once per sample |
| Downloads (`releases.py`) | archive, unpacked directory, marker file | `fetch_*_release`, `download_chrome` | called by `cft-harvest`, `releases`, `download` |
| Normaliser, diff, capability gate | none | pure functions of samples | called by the bundle writer and the compiler |
| Compiler, candidate, render, replay (`compiler.py`, `replay.py`) | files they are told to write | pure functions of bundles and profiles; replay runs the built curl | called by the workflows |
| Workflows (`.github/workflows`) | the branch `main`, tags, releases, concurrency groups | three scheduled harvests, tagging, release | commit profiles, dispatch each other, race developers |
| Build (`cmake/`, `CMakeLists.txt`) | a build tree | patch curl, inject generated profiles, compile | reads `profiles/generated` |
| Easy handle (`easy.c`, `setopt.c`, `url.c` in `patches/curl.patch`) | options, base headers, merged headers | `curl_easy_init/impersonate/setopt/perform/reset/duphandle` | called by the application, in any order |
| Request headers (`http.c`) | lists of one request | merge, order | called once per request |
| HTTP/2, HTTP/3, TLS, SOCKS5-UDP, WebSocket parts of `curl.patch` | connection state | settings, frames, extensions, proxy handshake | called by curl's connection filters |

What is hard, and what must hold:

* Captures run for minutes while the feed moves and browsers update themselves; several
  commands share a workspace; any may be killed. A bundle must be written once and whole,
  be what its path says, and be called *ready* only if it is evidence of a consumer browser.
* A capture session starts drivers, browsers, port forwards and tabs on machines and phones
  where any step can fail. It must end what it started, retry a bounded number of times, and
  keep only samples of a fresh browser that did answer over HTTP/3.
* A browser draws GREASE values, orders and parameters anew for each connection. Normalising
  must make one variant of one browser and no fewer of two; what is compiled must be what the
  gate let pass, and a replay that matches must be the browser.
* A handle is given profiles, options, resets and copies in any order; profiles set an
  option only if they have one. A handle that holds one profile must be wholly that browser,
  and what the application asked for must win.
* Two loops over linked lists with repeated and blank names make every request's headers.
* Harvests wait in concurrency groups with an old checkout, then push to `main`; jobs are
  lost between two commands; waiting runs are cancelled. What is committed must be what was
  replayed, nothing may be undone, and everything committed must be released.

`PROJECT.json` lists all hazards by source line, with the property that covers each or the
reason there is none yet.

## Modules

| Module | Stands for |
|---|---|
| `WriteOnceStore` | the abstract promise about bundle directories |
| `Harvest` | the five capture commands over a shared store (`MCHarvest`, `HarvestProofs`) |
| `SampleLoop` | the abstract promise of a command about its samples |
| `CaptureSession` | the runners under the sample loops (`MCCaptureSession`, `CaptureSessionProofs`) |
| `Normalize` | `normalize.py` and `diffing.py`, as pure operators |
| `Gate` | `capabilities.py` and the readiness gate, extending `Normalize` |
| `NativeProfile` | the options `compiler.py` derives, extending `Gate` |
| `Compile` | capture, gate, candidate and replay of one bundle, extending `NativeProfile` (`MCCompile`, `CompileProofs`) |
| `Download` | `download_chrome`, by several commands at once (`DownloadProofs`) |
| `HttpHeaders` | what the header list of a request is, as pure operators |
| `EasyHandle` | one easy handle and every call that changes it (`MCEasyHandle`, `EasyHandleProofs`) |
| `RequestHeaders` | the merge and order loops of one request (`MCRequestHeaders`, `RequestHeadersProofs`) |
| `Publish` | `main`, tags, releases and the workflows that change them (`MCPublish`, `PublishProofs`) |
| `Sublists` | the entries of a list at a set of places, for `HttpHeaders`, `EasyHandle`, `RequestHeaders` and `Normalize` |
| `Lemmas` | facts about numbers, places, sublists and permutations that several proofs cite |

**Harvest.** A process runs one command line (`job`), and goes through the handler: `fetch`
the release, `look` for a bundle, take samples, `observe` the version all samples agree on,
`claim` the path, `write` the files of the temporary directory, `rename` it. `bundle` is
indexed by the path: a pair of command and version, or an `--output` path. A sample is the version of the
browser that answered and one of the stable fingerprints (`Variants`) the normaliser can
produce. `Abort` ends a command between any two steps. `ImplementsWriteOnceStore` says that
`Harvest` refines `WriteOnceStore` under the mapping that takes a path to its bundle.

**CaptureSession.** One command takes its samples with the Chrome, Android, Safari or iOS runner
(`setup`). `pc` is the place in `__enter__`, `capture_sample`, its `finally` clause, the loop of
`cli.py` and `__exit__`; `failing` says that an exception is on its way. `on` is what the command
has started and still goes on, `asked` what of it was told to end since: what is told to end may go
on, because the code suppresses or does not read the result (`Ask`), unless it is killed and waited
for (`Kill`). `slips` records what made the command let go of something that it does not even ask to
end. `alive` is the process that was started as Chrome, whose group may outlive it. Steps that
differ by runner are a disjunct for each (`LaunchChrome`, `LaunchAndroid`, ...). Chrome and Android
enter one runner for all samples, Safari one for each attempt. A kept sample is what a reader needs
to know of it: whether HTTP/3 was shown and whether the browser had answered before.
`EveryEndIsAsked` says that without a slip nothing is forgotten on any path. `ImplementsSampleLoop`
maps this to `SampleLoop`: the number kept, the attempt, and how the command ended. `SampleLoop` is
what `Harvest` takes for granted in `TakeSample` and `LoseSample`.

**Normalize, Gate, NativeProfile.** A sample is a record of the two ClientHellos (TCP and QUIC),
the HTTP/2 and the HTTP/3 part. Lists keep their order and their identifiers; every identifier
the normaliser treats specially has its own rule, and what it copies is a value. `Gate` has one
conjunct for each gap the code reports, with the lists of what can be emitted as they are in
`capabilities.py`. What a harvester declares is a record, so that another version is another
record. `NativeProfile!Options` is `candidate_from_bundle` without the options that are the
same for every profile and without spelling.

**Compile.** The life of one bundle: samples are taken and written with their profile and
readiness, the harvester may be replaced, a candidate is compiled, and a curl is asked over TLS
and HTTP/3 with the retries of `replay.py`, then compared. The browser and curl are free: each sample
is any of a set. `VariantsAreBrowsers` and `MatchMeansSame` compare the result with `Alike`, which
says without normalising when two samples differ only in what is drawn anew.
Outcome `error` is exit status 2, `escaped` an exception that leaves `main`. What order was observed
is compared by `OrderPolicy` with the raw samples.

**Download.** The archive, the directory it is unpacked into, the manifest and the failure mark
are shared; each command has a place in `download_chrome` and the digest it computed. A command
that dies leaves everything as it is. The server may send an archive that does not unpack.
The manifest of a build that can be served is a `WriteOnceStore` with one path.

**EasyHandle.** The calls `_do_impersonate` makes are a sequence (`Calls`); the first *n* of
them are one operator (`Impersonated`), so that an impersonation that fails in the middle
is an action like the complete one. Options that are only set when a profile has them are
the constants `Before` and `After`: what they mean to TLS is not modelled, which profile they
come from is. `profile` and `own` are history variables for the properties: the one profile
the handle was given since it was made or reset, and what the application set since.

**RequestHeaders.** One step per loop iteration of `Curl_http_merge_headers` and of
`http_req_apply_header_order` (a base line without a name is passed over), with the temporary copy
whose entries are freed as they are taken. Its result is compared with the operators of
`HttpHeaders`, which `EasyHandle` uses.

**Publish.** `main` is the sequence of its commits. A concurrency group has a running and a
waiting run, each with the commit it was triggered at. A harvest captures, prepares,
builds and replays, pushes, and dispatches the tagging workflow; that computes a tag,
pushes it, and dispatches the release. A person may start the tagging workflow as well
(`DispatchByHand`). Each step is lost or fails at will.

## Runs

| Run | Instance | Shows |
|---|---|---|
| `Harvest` | 2 polls, with and without `--allow-version-mismatch`, 2 versions, 2 fingerprints of which 1 is representable | type, `PathNamesCapturedVersion`, `ReadyBundlesAreEvidence`, `ReportsAreTrue`, `ImplementsWriteOnceStore`, `ExactPollsAreIdempotent` |
| `HarvestCommands` | 1 process, the nine command lines of `MCHarvest!ByHand` | `ReadyBundlesAreEvidence` of the other commands, `EveryCommandEnds` |
| `Download` | 3 commands, a sound archive and one cut off | `ServedIsWhole`, `ImplementsWriteOnceStore`, `EveryDownloadEnds` |
| `EasyHandle` | 2 profiles, 1 option only the first sets, 3 base lists, 2 header lists (one with a header twice, a blank User-Agent and a Transfer-Encoding), 2 special lists (one of a Firefox, with Priority and Connection), 1 user agent, `CURL_IMPERSONATE=safari` | `ProfileIsWhole`, `OwnVersionsStay`, `ApplicationHeadersWin`, `NoForeignHeader`, `DuplicateSendsTheSame` |
| `EasyHandleStale`, `EasyHandleSecond` | as above | **violations** of `LaterSettingsOverride`, `SslVersionOfProfile` |
| `RequestHeaders` | 6 base lists, all own lists of up to 3 of 5 headers, all orders of up to 3 names | `MergeIsAsDefined`, `OrderIsStableSort`, `EveryRequestIsBuilt` |
| `Publish` | Chrome and Safari harvests, 2 majors, 3 commits, nobody tags by hand | `CommittedAsReplayed`, `ChromeSetsAreWhole`, `TagsAreOrdered`, `HarvestsOnlyAdd` |
| `PublishReleases` | Android harvest, 2 majors, 3 commits, tagging also started by hand until there is a tag | `TagsAreOrdered`, `EveryProfileIsReleased` |
| `CaptureSession` | 3 samples; Chrome, Android with and without a reset, Safari and iOS with and without a collector of HTTP/3 | `SamplesAreSound`, `EveryEndIsAsked`, `ImplementsSampleLoop`, `EveryCaptureEnds` |
| `Compile` | 9 captures and 6 answers (`MCCompile`), 2 harvesters, 2 distributions, 2 or 3 samples | `VariantsAreBrowsers`, `OrderPolicy`, `CandidatesAreSupported`, `MatchMeansSame`, `EveryReplayEnds` |
| `CompileGate` | a Safari, and one that offers two certificate compressions | **violation** of `RepresentedMeansKept` |

Deadlock is checked wherever the program never stops of itself; a request, a capture session and a
replay end, so `RequestHeaders`, `CaptureSession` and `Compile` do not check it. The three
violations are differences between the code and a sentence of its documents or comments;
`PROJECT.json` quotes each.

### Bounds

* *Two processes* race for a path; a third adds no new kind of rival, and the proofs hold for
  any number. *Two versions* are enough for a feed and a browser to differ either way, and for
  an update in the middle of a capture. *Two fingerprints*, one representable, tell apart
  every conjunct of the gate. `MaxSamples` (5) is what the workflows ask for; runs use 3, the
  least the gate accepts, and 2, which only `capture` allows.
* *Two profiles* that differ in an option only the first sets, the TLS version and the headers. The
  versions come before the headers and that option after them, so that an impersonation can fail on
  either side of each kind of call; a second option before them makes nearly four times the states
  and adds no case, and `AllCalls` proves that any number of options is reached. Header lists have
  repeated names, a blank and a name no profile has.
* *Three samples of a session* have one before and one after any other, with failures in each;
  the six attempts at HTTP/3 and the three at a sample are the code's own. The proofs hold for any number.
* *Nine captures*: a Chrome that permutes, drawn three times with other GREASE, orders and
  `initial_rtt`, one of them without the `cache-control` that a reload adds, and once with its two
  connections crossed; a Safari that does not permute, and one whose QUIC extensions alone are
  permuted, which one switch cannot say; a sample with an extension only another harvester declares,
  one without HTTP/3, one headless. *Two or three samples*: three is the least that is ready, two
  the least that shows an order.
* *Three downloads*: one that fills the directory, one that replaces its archive, one that
  comes later.
* *Base lists of three, own lists of three*: a name twice in either, a header taken from
  the middle, none taken, all taken. *Orders of three names* name all, some and none.
* *Three commits*: the first, a harvest's, and one of somebody else's before or after, which is what
  a stale checkout and a replaced waiting run need. `MaxTags`, in `PublishReleases`, lets a person
  start the tagging workflow as often as wanted until the first tag is there: one such run and
  another that waits, so that a commit is tagged twice and a harvest's run takes a waiting one's
  place; more tags by hand make the run take too long. `Publish` leaves persons out. In `Publish`
  one fingerprint and majors 1 and 2: the machines of one run may have different majors.

### Fairness

* `Harvest`: weak fairness of each command's own steps, but not of taking a sample: a runner may wait for
  ever. `EveryCommandEnds` says that a command ends or stays in a sample. The other steps look at files or
  at the feed, whose requests have a timeout. Nothing makes the feed move, the browser
  update or anybody start a command, and a crash is never required.
* `Download`: weak fairness of each command's own steps; the request of an archive has a timeout.
* `CaptureSession`: weak fairness of the command's steps, but not where it may be in a wait that has
  no timeout (`Endless`): Playwright's `start`, `stop`, `new_page`, `evaluate`, `send`, `detach` and
  `close` (android_runner.py:94, 101, 242, 301, 319; chrome_runner.py:139, 144, 271, 291, 323),
  taskkill (chrome_runner.py:193) and the driver that is asked for its version
  (safari_runner.py:30). Every other wait has one, after which the command goes on or raises.
  `EveryCaptureEnds` says that a command ends or stays in such a wait. That Chrome dies is never
  required.
* `Compile`: weak fairness of the two requests of a replay, which have a timeout of a minute each.
  Nobody has to compile or to replay.
* `RequestHeaders`: weak fairness of the only thread there is.
* `Publish`: weak fairness of the dispatch that follows a push, of the tagging workflow, and of
  the release; GitHub runs what is queued. Failures are not excluded: a run that was
  lost is recorded in `lost`, and `EveryProfileIsReleased` asks for a release unless there is one.
* `EasyHandle` has only safety properties and no fairness.

## Proofs

All theorems hold for every value of the constants that satisfies the named assumptions.
Each type invariant, safety invariant, action property and refinement that a passing
run checks is also a theorem; the listed ones are in `PROJECT.json`.

**HarvestProofs.** `IInv` is `TypeOK`, `LocalInv(p)` of every process, and an invariant of the
store. The properties are not inductive alone: that a renamed bundle is evidence follows from
what the process has read and captured since its first step, so `LocalInv` says, for
each place in the handler, which of release, samples, version and files are there and
how they agree. The store's part says of every bundle that its files are whole, its label is
the one of the command that owns its path, and its readiness is the gate's. `HarvestedInv`
says that what was harvested exactly is still at its path. `WriteOnce`, `ExactIdempotence` and
`ReportsTrue` are about steps: only `RenameIntoPlace` writes the store, and only
at a path that holds nothing; exit status 0 is given only over a bundle that is marked ready.

**CaptureSessionProofs.** `IInv` is `TypeOK`, `Placed` (which runner can be at each place), `Going`
(what each runner can have going), `Asking` (what of that nobody has asked to end yet, place by
place, as long as nothing slipped), `Sound` (what was kept, and what the present sample has shown)
and `Counted` (no more samples than were asked for, no sample when the loop gave up at once).
`EveryEndIsAsked` speaks of three places only and is not inductive: that nothing is forgotten there
follows from what each way to them has asked before. `TakesWhatIsAsked` shows that each step is a
step of `SampleLoop` or leaves its variables alone.

**DownloadProofs.** `IInv` says that at most one command owns the directory (`OneOwner`: `mkdir`
succeeds once), how far the owner has filled it wherever it is (`Filling`), and that a
directory whose manifest is whole has no owner and no failure mark (`Handed`). `ServedIsWhole` alone is not
inductive: it does not say that nobody is still writing what was served.

**EasyHandleProofs.** `IInv` is `TypeOK`, `ProfileIsWhole` and `FlagFollows`, which relates the flag
`ssl_version_set` to the version and to who set it; without it a second call of `_do_impersonate`
could not be shown to leave the version alone. `AllCalls` proves that a complete impersonation
reaches every option, whatever sequences `Before` and `After` are. `NothingForeign` adds to it
`NothingStale`: a handle without base headers has no merged ones left of a profile it had before.
`OwnHeadersWin` has a hypothesis about base lists (`NamesOnce`): none names a header twice, and none
has a header whose name is a proper beginning of "User-Agent". Where one name is there twice, a
header of the application replaces only the first of that name, and the second is sent beside it; a
base header `User` would take the application's User-Agent, since curl.patch:2406 compares as many
characters as the base header's name has. The lists in `curl.patch` and in `profiles/` satisfy it,
and so do the base lists of the run; those of `RequestHeaders` do not all.

**RequestHeadersProofs.** `IInv` adds the two loops' invariants to the result. `Merging`:
the entries of the copy that are freed are those that a base header before `head` has taken,
the *n*th of a name by the *n*th, and the result has a line for each base header before `head` and then
for each entry left that was passed. `Sorting` (`InOrder`): the lines moved so far are those of the
names passed in `order`, in its order, and those of one name stand as they stood. That the loops give
what `HttpHeaders` defines follows at their ends; `EasyHandle` relies on it.

**PublishProofs.** A commit is right because of a plan made several steps earlier at an old
checkout, so `IInv` follows a run: `Phased` (the phases and commits of the runs of a group),
`Numbered` (sources change no more often than there are commits), `Filed` (one profile for each
target), `Planned` (what is to be pushed fits the checkout of its run and, once committed, was
replayed), then `CommittedAsReplayed` and `ChromeSetsAreWhole` themselves, and `Tagged` (the tags a
run has fetched are all there are while it runs) and `Counted` (a revision is no greater than the
number of tags, so that there is a greatest). `HarvestsAddOnly` is about steps.

**CompileProofs.** The operators first, then the bundle.
1. `sorted` gives the same list for two arrangements of the same entries, and only for those:
   the place of a key is between the number of entries below it and the number up to it.
2. `StableMeansAlike` and `AlikeMeansStable`: normalised samples have the same stable view exactly if
   the samples differ in nothing but what a browser draws anew, as `Alike` says without normalising.
   `Rearranged` is by classes, and `LikeIsPermuted` makes a permutation of them.
3. `IInv`: `TypeOK`; what is compiled and compared is what was taken, normalised (`SamplesAreKept`);
   `NothingReplayed` before there is a candidate; `BundleIsProfile` of all the samples;
   `CandidateIsReady`, which keeps what both gates found, the bundle's and, since the harvester may
   be replaced after the bundle is written, the one of the harvester that compiles it;
   `ReplaysAreCounted`; and `MatchIsCompared`.
4. `VariantsCorrect` is a bijection of views and classes of samples; `PolicyCorrect` relates what the profile
   says of each list to the raw samples; `MatchCorrect` combines 2 with the comparison of the replay.

*Induction.* What is proved of sequences of any length is by induction over numbers, with sets in place of
predicates: `Lemmas!AllNumbers` (a set that holds 0 and every successor holds `Nat`) and
`Lemmas!Least`. The entries of a list that satisfy a condition are those at a set of places
(`Sublists`): the length and order of such a list are those of the set, which a fold would not give.

*Assumptions.* All are in the module that declares the constants; these are more than a type.
* `Publish!LegacyAssumption`: no two profiles of `main` have one target. A profile is a file named for it.
* `Compile!SampleAssumption`: an extension and a parameter other than GREASE occur once (RFC 8446,
  4.2, and RFC 9000, 7.4), GREASE is called by its name and the parameters of extension 57 are
  reported apart, as the collectors do; the answer to a request over HTTP/3 names its protocol.
* `RequestHeaders!HeaderAssumption`: a freed entry (`Freed`) is no header; `OrderAssumption`: no
  order is no list.
* `HttpHeaders!AgentAssumption`: `AgentPrefixes` are the names of headers that are a beginning of
  "User-Agent", that name included. `NameAssumption`, of `RequestHeaders` and `EasyHandle`: the
  application's own lists have no line without a name.
* `EasyHandle!ListAssumption`: header lists are sequences. `OwnAssumption`: a user agent
  is a string and not the mark of a removed header (`Blank`), and a list may be taken back (`<<>>`).

*What the proofs found.* `Alike`, the reference the normaliser is compared with, had disregarded too little:
`normalize_headers` drops `cache-control`, so a bundle may hold a sample with and one without it as one
variant. That instance was added to `MCCompile`. `NamesOnce` above was the other.

*Only model-checked.* Six liveness properties: `EveryCommandEnds`, `EveryRequestIsBuilt`, `EveryDownloadEnds`,
`EveryCaptureEnds`, `EveryReplayEnds`, `EveryProfileIsReleased`. They depend on fairness, hence on
`ENABLED`, which the provers do not handle. The three violations are TLC's counterexamples.

## Abstractions

* One platform and channel in `Harvest`: the paths of others are disjoint by name.
  The download inside `cft-harvest` is `Download`; to `Harvest` its build is just there.
* Header names are compared without case in C; a name is one value here. Name
  characters, string lengths and allocation failures inside the header loops are left out.
* An allocation or feature failure of a setopt call is `ImpersonateInPart`, at any call.
* GitHub's side of `Publish` is taken from how the workflows rely on it: one waiting run per
  group, no workflow started by a push of a workflow's own token, refusal of a push
  that is no fast-forward.
* `HttpHeaders`: the lines of `Curl_add_custom_headers`. `Connection` is never one of them: curl
  writes it from the list elsewhere (`http_add_connection_hd`, curl.patch:2777-2795). That
  function's own rules for Host, Content-Type, Content-Length, Authorization and Cookie are lines of
  curl that the patch does not show: they are left out. So is a line of the application that has
  neither colon nor semicolon.
* `Publish`: an old run that is started again from GitHub's page checks out its old commit; a tag
  made so would be later than one of a later commit. Such runs are left out, and so are tags pushed
  by hand.
* `CaptureSession`: that the command itself is killed is in `Harvest`, not here. Temporary files and
  directories are not among what is started.
* `Compile`: a bundle has the samples as captured (`samples`, its raw.json) and normalised
  (`normalized`). The ciphers of a QUIC ClientHello are known by their list, as in `ja3n`. Bytes of
  extensions that the collectors do not parse, ClientHello fields that are compared as they are, and
  header values are left out. The TLS and the HTTP/3 answer of a replay are chosen together;
  `Crossed` is the case where they are of two connections. A candidate can be refused because its
  output exists. A replay follows a candidate, as in the workflows.
* With few samples a short list that a browser permutes may look fixed by chance:
  `OrderPolicy` speaks of the samples that were taken.

### Loose ends

Places where code and documents differ, or that a maintainer may want to know of:

* README.md of the harvester, line 231, asks for matching OS-independent transport semantics;
  fingerprint-harvest.yml:212-213 lets each platform be replayed against its own bundle, and
  that is what `Publish` has.
* README.md of the harvester, line 247: "The workflow intentionally does not tag or release."
  fingerprint-harvest.yml:273 starts profile-release.yml, which pushes a tag and starts
  release.yml (60-71). `Publish` has it as the workflows do.
* With `--allow-version-mismatch` `_handle_harvest` looks for a bundle at the path of the feed's
  release and writes it at that of the observed version. Polls are idempotent, as lines 57-58 of the
  README say, for releases that were captured exactly: `ExactPollsAreIdempotent`.
* `subprocess` timeouts and Playwright's exceptions are none of those `main` turns into
  exit status 2 (cli.py:821-828), though README.md:312 says "Operational errors exit with status 2.":
  outcome `escaped` of `Compile`.
* What the runners let slip: the Safari driver when `wait_until_ready` fails
  (safari_runner.py:219-226); Playwright, and the debug app, when `_enable_test_launch` fails in
  Android's `__enter__` (android_runner.py:93-96); the app and the debug app when Playwright's
  `stop` raises in `__exit__` (101); a forward or tab whose answer is lost; what is left of a Chrome
  whose first process is dead (chrome_runner.py:184).
* What they ask to end and do not look after: a forward whose removal was refused is struck off the
  list all the same (android_runner.py:363-364), and so are tabs and the app; the result of taskkill
  is not read and the last wait for Chrome is given up (chrome_runner.py:193-202). `on` keeps it,
  through later samples.
* README.md of the harvester, line 124: "Every sample terminates and opens MobileSafari afresh."
  That MobileSafari could not be terminated is ignored, for whatever reason
  (ios_safari_capture.mjs:106-115): a sample of the simulator may be another answer of a
  MobileSafari that has answered before, and `SamplesAreSound` does not speak of it. A Safari sample
  may lack HTTP/3 after six attempts, and is then refused by the normaliser when a bundle is
  written.
* The curves of a candidate are those of TCP (compiler.py:488); the gate looks at those of QUIC too.
  Like the second certificate compression of `CompileGate`, a difference would show in the replay.

## Not modelled

* Scraping of APK sources, the automation inside a browser (selectors, CDP messages), the contents
  of the profiles, packet formats, the curl tool's option table, the wrapper scripts, the superbuild and
  the CI matrices: I/O or data.
* `render` and the validation of its input (compiler.py 20-250, 576-612): formatting of C text.
* The SOCKS5 UDP association, the key of the TLS session cache, HTTP/2 and HTTP/3 settings: the
  patch inserts steps into files of curl, or calls of BoringSSL, nghttp2, nghttp3 and ngtcp2, that
  the repository does not hold. The states around the inserted ones could only be guessed.

## Plan

Modelled, checked and proved as above: `Harvest`, `Download`, `CaptureSession`, `EasyHandle`,
`RequestHeaders`, `Publish`, `Compile`. What is left, the most useful first:

* an abstract promise of `Publish` (an archive of profiles to which harvests only add, released in
  order) and of `Compile` (what matches is the browser of the bundle), and the refinements from the
  invariants proved;
* that `RequestHeaders` refines one step that sets the list as `HttpHeaders` defines it;
* that a harvester which declares more lets pass whatever one that declares less does (`Gate`);
* shorter proofs of the sorting and counting lemmas of `CompileProofs`.
