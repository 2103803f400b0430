------------------------------- MODULE Harvest -------------------------------
(***************************************************************************)
(* The five commands of tools/fingerprint-harvester that capture a browser *)
(* and write a capture bundle: harvest, cft-harvest, capture,              *)
(* safari-capture and android-capture (cli.py), with the bundle writer     *)
(* they share (bundle.py) and the readiness gate they report               *)
(* (readiness.py).                                                         *)
(*                                                                         *)
(* Several commands run at once over one workspace, while the release feed *)
(* moves and the installed browser updates itself.  A command can be       *)
(* killed, or fail on I/O, between any two of its steps.                   *)
(*                                                                         *)
(* One platform and one channel: a bundle path names both, so the paths of *)
(* two platforms never meet.  Browser versions are the numbers             *)
(* 1..MaxVersion; a fingerprint is an element of Variants.                 *)
(***************************************************************************)
EXTENDS Naturals, FiniteSets

CONSTANTS
    Procs,           \* the commands that may run at the same time
    MaxVersion,      \* browser versions are 1..MaxVersion
    Variants,        \* stable fingerprints a sample can normalise to
    Representable,   \* those the harvester's capability gate accepts
    Outputs,         \* paths given with --output
    Jobs,            \* the command lines that are run: a subset of Job
    NoJob,           \* the command line of a process that runs none
    NoBundle         \* what is at a path that does not exist

Versions  == 1..MaxVersion
NoVersion == 0                    \* no release was asked for

Commands == {"harvest", "cft-harvest", "capture", "safari-capture",
             "android-capture"}

MaxSamples      == 5              \* bound: --samples; the workflows use 5
MinReadySamples == 3              \* evaluate_readiness and the handlers
MaxAttempts     == 3              \* _capture_samples, _capture_safari_samples

\* A command line.  check: the release feed is consulted (capture without
\* --no-release-check).  expected: the version given with --expected-version
\* (android-capture only).
Job == [cmd      : Commands,
        samples  : 1..MaxSamples,
        mode     : {"headful", "headless"},
        check    : BOOLEAN,
        allow    : BOOLEAN,       \* --allow-version-mismatch
        expected : Versions \cup {NoVersion},
        output   : Outputs]

ASSUME MaxVersionAssumption == MaxVersion \in Nat \ {0}
ASSUME JobsAssumption == Jobs \subseteq Job /\ NoJob \notin Jobs
ASSUME VariantsAssumption == IsFiniteSet(Variants)

\* The workspace path WORKSPACE/captures/.../VERSION/PLATFORM of a harvest.
HarvestPath(cmd, version) == <<cmd, version>>

Paths == {HarvestPath(cmd, v) : cmd \in {"harvest", "cft-harvest"}, v \in Versions}
         \cup {<<"output", o>> : o \in Outputs}

Distributions == {"consumer-chrome", "consumer-chrome-android", "consumer-safari",
                  "chrome-for-testing", "unverified"}

\* The distributions that may be compiled into a profile.  The two Safari ones are
\* one here: no rule tells them apart.
CANONICAL_DISTRIBUTIONS ==
    {"consumer-chrome", "consumer-chrome-android", "consumer-safari"}

\* What a command has captured: how many samples, and what they showed.
Shots == [count    : 0..MaxSamples,
          versions : SUBSET Versions,
          variants : SUBSET Variants]

NoShots == [count |-> 0, versions |-> {}, variants |-> {}]

\* How much of a bundle directory is there: its samples, profile, capabilities
\* and readiness files go first, its manifest last.
Extent == {"empty", "some", "all"}

\* A bundle directory, and what its manifest, profile and readiness files say.
BundleRecord == [files        : Extent,
                 shots        : Shots,
                 mode         : {"headful", "headless"},
                 distribution : Distributions,
                 expected     : Versions \cup {NoVersion},
                 ready        : BOOLEAN]

ASSUME NoBundleIsNoBundle == NoBundle \notin BundleRecord

\* What a command prints and returns when it ends.  Nobody reads it later: the next
\* step of any command clears it.
NoReport == [status |-> "none", exit |-> 0]

Report == [status : {"none", "captured", "already_harvested", "error", "killed"},
           exit   : 0..2]

VARIABLES
    feed,          \* the newest version the release feed names
    installed,     \* the version of the installed browser
    bundle,        \* the bundle at each path, or NoBundle
    report,        \* the report of a command that has just ended
    harvested,     \* history: [release, exact] of every harvest that captured
    pc,            \* where each process is, "idle" when it runs no command
    job, release, shots, attempt, observed, written   \* its local variables

env   == <<feed, installed>>
local == <<job, release, shots, attempt, observed, written>>
vars  == <<env, bundle, report, harvested, pc, local>>

PC == {"idle", "fetch", "look", "sample", "observe", "claim", "write", "rename"}

TypeOK ==
    /\ feed \in Versions /\ installed \in Versions
    /\ bundle \in [Paths -> BundleRecord \cup {NoBundle}]
    /\ report \in Report
    /\ harvested \subseteq [release : Versions, exact : BOOLEAN]
    /\ pc \in [Procs -> PC]
    /\ job \in [Procs -> Jobs \cup {NoJob}]
    /\ release \in [Procs -> Versions \cup {NoVersion}]
    /\ shots \in [Procs -> Shots]
    /\ attempt \in [Procs -> 1..MaxAttempts]
    /\ observed \in [Procs -> Versions \cup {NoVersion}]
    /\ written \in [Procs -> Extent]
-----------------------------------------------------------------------------
(***************************************************************************)
(* The gate, and the bundle a command builds.                              *)
(***************************************************************************)

\* Mutant: a representable variant among several is enough.
ReadyWithSeveralVariants(distribution, mode, taken) ==
    /\ distribution \in CANONICAL_DISTRIBUTIONS
    /\ taken.count >= MinReadySamples
    /\ Representable \cap taken.variants # {}
    /\ mode = "headful"

\* The samples of the selected variant are all the samples exactly when there is
\* one variant; a capability gap is a variant the harvester cannot represent.
evaluate_readiness(distribution, mode, taken) ==
    /\ distribution \in CANONICAL_DISTRIBUTIONS
    /\ taken.count >= MinReadySamples
    /\ \E variant \in Representable : taken.variants = {variant}
    /\ mode = "headful"

IsHarvest(j) == j.cmd \in {"harvest", "cft-harvest"}
ReadsFeed(j) == IsHarvest(j) \/ (j.cmd = "capture" /\ j.check)

\* The version _observed_version compares with; NoVersion compares with none.
ExpectedVersion(p) ==
    IF job[p].cmd = "android-capture" THEN job[p].expected ELSE release[p]

\* Mutant: a capture that consulted the feed is labelled a consumer Chrome.
DistributionOfChecked(p) ==
    CASE job[p].cmd = "harvest"         -> "consumer-chrome"
      [] job[p].cmd = "cft-harvest"     -> "chrome-for-testing"
      [] job[p].cmd = "safari-capture"  -> "consumer-safari"
      [] job[p].cmd = "android-capture" -> "consumer-chrome-android"
      [] job[p].cmd = "capture"         -> IF job[p].check THEN "consumer-chrome"
                                           ELSE "unverified"

\* The distribution each handler labels its bundle with.
Distribution(p) ==
    CASE job[p].cmd = "harvest"         -> "consumer-chrome"
      [] job[p].cmd = "cft-harvest"     -> "chrome-for-testing"
      [] job[p].cmd = "safari-capture"  -> "consumer-safari"
      [] job[p].cmd = "android-capture" -> "consumer-chrome-android"
      [] job[p].cmd = "capture"         -> IF job[p].check /\ observed[p] = release[p]
                                           THEN "consumer-chrome" ELSE "unverified"

\* harvest writes at the version it observed, cft-harvest at the release it
\* downloaded, the captures where --output says.
BundlePath(p) ==
    CASE job[p].cmd = "harvest"     -> HarvestPath("harvest", observed[p])
      [] job[p].cmd = "cft-harvest" -> HarvestPath("cft-harvest", release[p])
      [] OTHER                      -> <<"output", job[p].output>>

\* Mutant: the bundle does not record the release it was harvested for.
DraftWithoutRelease(p) ==
    [files        |-> written[p],
     shots        |-> shots[p],
     mode         |-> job[p].mode,
     distribution |-> Distribution(p),
     expected     |-> NoVersion,
     ready        |-> evaluate_readiness(Distribution(p), job[p].mode, shots[p])]

\* The directory p is writing.  Only the commands that read the feed have a release
\* to record; the others leave it NoVersion.
Draft(p) == [files        |-> written[p],
             shots        |-> shots[p],
             mode         |-> job[p].mode,
             distribution |-> Distribution(p),
             expected     |-> release[p],
             ready        |-> evaluate_readiness(Distribution(p), job[p].mode, shots[p])]

\* The command ends: its report is what remains of it.
Finish(p, status, exit) ==
    /\ report'   = [status |-> status, exit |-> exit]
    /\ pc'       = [pc EXCEPT ![p] = "idle"]
    /\ job'      = [job EXCEPT ![p] = NoJob]
    /\ release'  = [release EXCEPT ![p] = NoVersion]
    /\ shots'    = [shots EXCEPT ![p] = NoShots]
    /\ attempt'  = [attempt EXCEPT ![p] = 1]
    /\ observed' = [observed EXCEPT ![p] = NoVersion]
    /\ written'  = [written EXCEPT ![p] = "empty"]

GoTo(p, label) == pc' = [pc EXCEPT ![p] = label] /\ report' = NoReport
-----------------------------------------------------------------------------
Init ==
    /\ feed \in Versions /\ installed \in Versions
    /\ bundle = [path \in Paths |-> NoBundle]
    /\ report = NoReport
    /\ harvested = {}
    /\ pc = [p \in Procs |-> "idle"]
    /\ job = [p \in Procs |-> NoJob]
    /\ release = [p \in Procs |-> NoVersion]
    /\ shots = [p \in Procs |-> NoShots]
    /\ attempt = [p \in Procs |-> 1]
    /\ observed = [p \in Procs |-> NoVersion]
    /\ written = [p \in Procs |-> "empty"]
-----------------------------------------------------------------------------
(***************************************************************************)
(* A command, step by step.                                                *)
(***************************************************************************)

\* The handlers refuse fewer than three samples, except capture.
Start(p, j) ==
    /\ pc[p] = "idle"
    /\ j.cmd # "capture" => j.samples >= MinReadySamples
    /\ job' = [job EXCEPT ![p] = j]
    /\ GoTo(p, IF ReadsFeed(j) THEN "fetch" ELSE "sample")
    /\ UNCHANGED <<env, bundle, harvested, release, shots, attempt, observed, written>>

FetchRelease(p) ==
    /\ pc[p] = "fetch"
    /\ release' = [release EXCEPT ![p] = feed]
    /\ GoTo(p, IF IsHarvest(job[p]) THEN "look" ELSE "sample")
    /\ UNCHANGED <<env, bundle, harvested, job, shots, attempt, observed, written>>

\* The harvests look for a bundle of the release the feed named.
FoundBundle(p) == bundle[HarvestPath(job[p].cmd, release[p])]

FindNoBundle(p) ==
    /\ pc[p] = "look"
    /\ FoundBundle(p) = NoBundle
    /\ GoTo(p, "sample")
    /\ UNCHANGED <<env, bundle, harvested, local>>

\* harvest requires that the manifest it finds names the release.  Both report the
\* readiness the gate gives the bundle now; cft-harvest exits 1 whatever it is.
Consistent(p) == job[p].cmd = "harvest" => FoundBundle(p).expected = release[p]

FindBundle(p) ==
    LET found == FoundBundle(p) IN
    /\ pc[p] = "look"
    /\ found # NoBundle
    /\ IF Consistent(p)
       THEN Finish(p, "already_harvested",
                   IF /\ job[p].cmd = "harvest"
                      /\ evaluate_readiness(found.distribution, found.mode, found.shots)
                   THEN 0 ELSE 1)
       ELSE Finish(p, "error", 2)
    /\ UNCHANGED <<env, bundle, harvested>>

\* One browser session, started afresh, answers one sample.  cft-harvest runs the
\* build it downloaded, the others what is installed at this moment.
TakeSample(p, variant) ==
    LET version == IF job[p].cmd = "cft-harvest" THEN release[p] ELSE installed IN
    /\ pc[p] = "sample"
    /\ shots' = [shots EXCEPT ![p] = [count    |-> @.count + 1,
                                      versions |-> @.versions \cup {version},
                                      variants |-> @.variants \cup {variant}]]
    /\ attempt' = [attempt EXCEPT ![p] = 1]
    /\ GoTo(p, IF shots[p].count + 1 = job[p].samples THEN "observe" ELSE "sample")
    /\ UNCHANGED <<env, bundle, harvested, job, release, observed, written>>

\* Mutant: one attempt too many.
AttemptsAndOne(j) == IF j.cmd = "android-capture" THEN 1 ELSE MaxAttempts + 1

\* A sample that fails is tried again, three times in all; android-capture does
\* not retry.
Attempts(j) == IF j.cmd = "android-capture" THEN 1 ELSE MaxAttempts

\* Mutant: the last attempt is followed by a first one.
LoseSampleForEver(p) ==
    /\ pc[p] = "sample"
    /\ attempt' = [attempt EXCEPT ![p] = IF @ < Attempts(job[p]) THEN @ + 1 ELSE 1]
    /\ GoTo(p, "sample")
    /\ UNCHANGED <<env, bundle, harvested, job, release, shots, observed, written>>

LoseSample(p) ==
    /\ pc[p] = "sample"
    /\ IF attempt[p] < Attempts(job[p])
       THEN /\ attempt' = [attempt EXCEPT ![p] = @ + 1]
            /\ GoTo(p, "sample")
            /\ UNCHANGED <<job, release, shots, observed, written>>
       ELSE Finish(p, "error", 2)
    /\ UNCHANGED <<env, bundle, harvested>>

\* Mutant: one of the samples shows the version.
AgreedBySome(p, version) ==
    /\ version \in shots[p].versions
    /\ \/ ExpectedVersion(p) \in {NoVersion, version}
       \/ job[p].allow /\ job[p].cmd # "cft-harvest"

\* _observed_version: every sample must show one version, and the expected one
\* unless the command line allows another.
Agreed(p, version) ==
    /\ shots[p].versions = {version}
    /\ \/ ExpectedVersion(p) \in {NoVersion, version}
       \/ job[p].allow /\ job[p].cmd # "cft-harvest"

ObserveVersion(p) ==
    /\ pc[p] = "observe"
    /\ \E version \in Versions :
          /\ Agreed(p, version)
          /\ observed' = [observed EXCEPT ![p] = version]
    /\ GoTo(p, "claim")
    /\ UNCHANGED <<env, bundle, harvested, job, release, shots, attempt, written>>

RejectVersion(p) ==
    /\ pc[p] = "observe"
    /\ \A version \in Versions : ~Agreed(p, version)
    /\ Finish(p, "error", 2)
    /\ UNCHANGED <<env, bundle, harvested>>

\* write_capture_bundle: refuse a path that exists.
ClaimPath(p) ==
    /\ pc[p] = "claim"
    /\ IF bundle[BundlePath(p)] = NoBundle
       THEN GoTo(p, "write") /\ UNCHANGED local
       ELSE Finish(p, "error", 2)
    /\ UNCHANGED <<env, bundle, harvested>>

\* The files go into a temporary directory of p's own beside the path.
WriteFiles(p) ==
    /\ pc[p] = "write"
    /\ \/ /\ written[p] = "empty"
          /\ written' = [written EXCEPT ![p] = "some"]
          /\ GoTo(p, "write")
       \/ /\ written[p] = "some"
          /\ written' = [written EXCEPT ![p] = "all"]
          /\ GoTo(p, "rename")
    /\ UNCHANGED <<env, bundle, harvested, job, release, shots, attempt, observed>>

\* Mutant: the rename replaces what is there.
MayAlwaysRename(path) == path \in Paths

\* os.replace fails when a rival has meanwhile put a bundle, which is never an
\* empty directory, at the path.
MayRename(path) == bundle[path] = NoBundle

RenameIntoPlace(p) ==
    /\ pc[p] = "rename"
    /\ MayRename(BundlePath(p))
    /\ bundle' = [bundle EXCEPT ![BundlePath(p)] = Draft(p)]
    /\ harvested' = harvested \cup
          {h \in {[release |-> release[p], exact |-> observed[p] = release[p]]} :
              job[p].cmd = "harvest"}
    /\ Finish(p, "captured", IF job[p].cmd # "cft-harvest" /\ Draft(p).ready THEN 0 ELSE 1)
    /\ UNCHANGED env

\* Mutant: the rival's bundle is reported as p's own.
LoseRenameQuietly(p) ==
    /\ pc[p] = "rename"
    /\ ~MayRename(BundlePath(p))
    /\ Finish(p, "captured", IF Draft(p).ready THEN 0 ELSE 1)
    /\ UNCHANGED <<env, bundle, harvested>>

LoseRename(p) ==
    /\ pc[p] = "rename"
    /\ ~MayRename(BundlePath(p))
    /\ Finish(p, "error", 2)
    /\ UNCHANGED <<env, bundle, harvested>>

\* An I/O error, or a kill, ends the command anywhere; a temporary directory it
\* leaves behind is read by no command.
Abort(p) ==
    /\ pc[p] # "idle"
    /\ Finish(p, "killed", 2)
    /\ UNCHANGED <<env, bundle, harvested>>
-----------------------------------------------------------------------------
(***************************************************************************)
(* The world moves: the feed names another version, the browser updates.   *)
(***************************************************************************)
FeedMoves ==
    /\ feed' \in Versions \ {feed}
    /\ UNCHANGED <<installed, bundle, report, harvested, pc, local>>

BrowserUpdates ==
    /\ installed < MaxVersion
    /\ installed' = installed + 1
    /\ UNCHANGED <<feed, bundle, report, harvested, pc, local>>

Step(p) ==
    \/ FetchRelease(p) \/ FindNoBundle(p) \/ FindBundle(p)
    \/ (\E variant \in Variants : TakeSample(p, variant)) \/ LoseSample(p)
    \/ ObserveVersion(p) \/ RejectVersion(p) \/ ClaimPath(p)
    \/ WriteFiles(p) \/ RenameIntoPlace(p) \/ LoseRename(p)

Next ==
    \/ \E p \in Procs : Step(p) \/ Abort(p) \/ (\E j \in Jobs : Start(p, j))
    \/ FeedMoves \/ BrowserUpdates

\* The feeds and downloads are read with a timeout and the files are local, so a running
\* command takes its steps, but for its samples: Playwright and the driver are waited for
\* without limit (CaptureSession).  Nothing makes anybody start a command, and nothing
\* makes the world move.
Fairness == \A p \in Procs : WF_vars(Step(p) /\ pc[p] # "sample")

Spec == Init /\ [][Next]_vars /\ Fairness
-----------------------------------------------------------------------------
(***************************************************************************)
(* Properties.                                                             *)
(***************************************************************************)

\* A bundle a reader may rely on: all its files, and at least one sample.
WholeBundles == {b \in BundleRecord : b.files = "all" /\ b.shots.count > 0}

Store == INSTANCE WriteOnceStore WITH store <- bundle, Bundles <- WholeBundles

\* README "Bundle contract": each bundle is created atomically and is never
\* overwritten, whatever commands race for its path and wherever they die.
ImplementsWriteOnceStore == Store!Init /\ [][Store!Next]_bundle

\* The version in a harvested bundle's path is the version every one of its
\* samples was taken with, though the browser may update itself between two
\* samples and the feed may move at any time (_observed_version, cli.py).
PathNamesCapturedVersion ==
    \A cmd \in {"harvest", "cft-harvest"}, v \in Versions :
        LET b == bundle[HarvestPath(cmd, v)] IN
        b # NoBundle => b.shots.versions = {v}

\* readiness.json is the authoritative gate: a bundle marked ready holds at least
\* three headful samples of one version and of one representable fingerprint, is no
\* Chrome-for-Testing bundle and, written by capture, is of the version the feed named.
ReadyBundlesAreEvidence ==
    \A path \in Paths :
        LET b == bundle[path] IN
        (b # NoBundle /\ b.ready) =>
            /\ b.shots.count >= 3
            /\ b.mode = "headful"
            /\ \E version \in Versions : b.shots.versions = {version}
            /\ \E variant \in Representable : b.shots.variants = {variant}
            /\ path[1] # "cft-harvest"
            /\ (path[1] = "output" /\ b.distribution = "consumer-chrome") =>
                  b.shots.versions = {b.expected}

Ends(p) == pc[p] # "idle" /\ pc'[p] = "idle"

\* What a command reports is true of the store: what it says it captured is its own
\* capture, now at its path, and not a rival's; and it exits 0 only over a bundle
\* that is marked ready (_capture_summary, cli.py).
ReportsAreTrue ==
    [][\A p \in Procs : Ends(p) =>
          LET path == IF report'.status = "captured" THEN BundlePath(p)
                      ELSE HarvestPath(job[p].cmd, release[p])
          IN  /\ report'.status = "captured" =>
                    bundle'[path] # NoBundle /\ bundle'[path].shots = shots[p]
              /\ report'.exit = 0 => bundle'[path] # NoBundle /\ bundle'[path].ready]_vars

\* A poll looks for the bundle of a release that some harvest has captured before, at
\* the very version the feed named, and does anything but report already_harvested.
RepeatsInVain(p) ==
    /\ pc[p] = "look" /\ pc'[p] # "look"
    /\ job[p].cmd = "harvest"
    /\ \E h \in harvested : h.release = release[p] /\ h.exact
    /\ pc'[p] = "idle" => report'.status \notin {"already_harvested", "killed"}

\* Once a harvest captured the very version the feed named, every later poll of
\* that release reports already_harvested: it neither captures again nor finds the
\* bundle inconsistent, whatever polls with --allow-version-mismatch did meanwhile.
ExactPollsAreIdempotent == [][\A p \in Procs : ~RepeatsInVain(p)]_vars

\* A command that does not end stays in one attempt at one sample: it neither repeats
\* its attempts for ever, nor waits for anything else, another command included.
StaysInSample(p, count, n) ==
    pc[p] = "sample" /\ shots[p].count = count /\ attempt[p] = n

EveryCommandEnds ==
    \A p \in Procs :
        \/ []<>(pc[p] = "idle")
        \/ \E count \in 0..MaxSamples, n \in 1..MaxAttempts : <>[]StaysInSample(p, count, n)
=============================================================================
