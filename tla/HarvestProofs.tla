---------------------------- MODULE HarvestProofs ----------------------------
(***************************************************************************)
(* The safety of the harvest commands, for any number of concurrent        *)
(* commands, versions, fingerprints, outputs and command lines.            *)
(***************************************************************************)
EXTENDS Harvest, TLAPS

\* What the local variables of a command are at each of its steps.
LocalInv(p) ==
    /\ pc[p] = "idle" =>
          /\ release[p] = NoVersion /\ shots[p] = NoShots /\ attempt[p] = 1
          /\ observed[p] = NoVersion /\ written[p] = "empty"
    /\ pc[p] # "idle" => job[p] \in Jobs
    /\ pc[p] \in {"fetch", "look"} => shots[p] = NoShots
    /\ pc[p] = "look" => IsHarvest(job[p])
    /\ (pc[p] \notin {"idle", "fetch"} /\ ReadsFeed(job[p])) => release[p] \in Versions
    /\ pc[p] \in {"fetch", "look", "sample"} => shots[p].count < job[p].samples
    /\ pc[p] \in {"observe", "claim", "write", "rename"} => shots[p].count = job[p].samples
    /\ pc[p] \in {"claim", "write", "rename"} =>
          /\ observed[p] \in Versions
          /\ shots[p].versions = {observed[p]}
          /\ job[p].cmd = "cft-harvest" => observed[p] = release[p]
    /\ pc[p] = "write" => written[p] # "all"
    /\ pc[p] \in {"fetch", "look", "sample", "observe", "claim"} => written[p] = "empty"
    /\ pc[p] = "rename" => written[p] = "all"

\* A stored bundle is whole, its readiness is what the gate says of it, and its
\* label is the one its path allows.
BundleInv(path) ==
    LET b == bundle[path] IN
    b # NoBundle =>
        /\ b \in WholeBundles
        /\ b.ready = evaluate_readiness(b.distribution, b.mode, b.shots)
        /\ \E version \in Versions : b.shots.versions = {version}
        /\ \A cmd \in {"harvest", "cft-harvest"}, v \in Versions :
              path = HarvestPath(cmd, v) => b.shots.versions = {v}
        /\ path[1] = "cft-harvest" => b.distribution = "chrome-for-testing"
        /\ (path[1] = "output" /\ b.distribution = "consumer-chrome") =>
              b.shots.versions = {b.expected}

\* The bundle of an exact harvest is at the path of its release and names it.
HarvestedInv ==
    \A h \in harvested : h.exact =>
        LET b == bundle[HarvestPath("harvest", h.release)] IN
        b # NoBundle /\ b.expected = h.release

IInv ==
    /\ TypeOK
    /\ \A p \in Procs : LocalInv(p)
    /\ \A path \in Paths : BundleInv(path)
    /\ HarvestedInv
-----------------------------------------------------------------------------
\* A step of p leaves the local variables of the others alone.
Frame(p) ==
    \A q \in Procs \ {p} :
        /\ pc'[q] = pc[q] /\ job'[q] = job[q] /\ release'[q] = release[q]
        /\ shots'[q] = shots[q] /\ attempt'[q] = attempt[q]
        /\ observed'[q] = observed[q] /\ written'[q] = written[q]

LocalTypeOK ==
    /\ report \in Report
    /\ pc \in [Procs -> PC]
    /\ job \in [Procs -> Jobs \cup {NoJob}]
    /\ release \in [Procs -> Versions \cup {NoVersion}]
    /\ shots \in [Procs -> Shots]
    /\ attempt \in [Procs -> 1..MaxAttempts]
    /\ observed \in [Procs -> Versions \cup {NoVersion}]
    /\ written \in [Procs -> Extent]

LEMMA NoShotsType == NoShots \in Shots
BY DEF NoShots, Shots, MaxSamples

LEMMA TypeOKParts ==
    TypeOK <=> /\ LocalTypeOK
               /\ feed \in Versions /\ installed \in Versions
               /\ bundle \in [Paths -> BundleRecord \cup {NoBundle}]
               /\ harvested \subseteq [release : Versions, exact : BOOLEAN]
BY DEF TypeOK, LocalTypeOK

\* Ending a command leaves its process idle and every other process alone.
LEMMA FinishStep ==
    ASSUME LocalTypeOK, NEW p \in Procs,
           NEW s \in {"none", "captured", "already_harvested", "error", "killed"},
           NEW e \in 0..2, Finish(p, s, e)
    PROVE  LocalTypeOK' /\ LocalInv(p)' /\ Frame(p)
<1>1. LocalTypeOK'
  BY NoShotsType DEF LocalTypeOK, Finish, Report, PC, NoVersion, MaxAttempts, Extent
<1>2. LocalInv(p)'
  BY DEF LocalTypeOK, LocalInv, Finish, NoVersion
<1>3. Frame(p)
  BY DEF LocalTypeOK, Frame, Finish
<1> QED BY <1>1, <1>2, <1>3

\* A step of p that leaves the store alone has only p's part to establish.
LEMMA LocalStep ==
    ASSUME IInv, NEW p \in Procs, UNCHANGED <<env, bundle, harvested>>,
           LocalTypeOK', LocalInv(p)', Frame(p)
    PROVE  IInv'
<1>1. TypeOK'
  BY TypeOKParts DEF IInv, TypeOK, LocalTypeOK, env
<1>2. ASSUME NEW q \in Procs PROVE LocalInv(q)'
  <2>1. CASE q = p
    BY <2>1
  <2>2. CASE q # p
    BY <2>2 DEF IInv, LocalInv, Frame, IsHarvest, ReadsFeed
  <2> QED BY <2>1, <2>2
<1>3. ASSUME NEW path \in Paths PROVE BundleInv(path)'
  BY DEF IInv, BundleInv
<1>4. HarvestedInv'
  BY DEF IInv, HarvestedInv
<1> QED BY <1>1, <1>2, <1>3, <1>4 DEF IInv
-----------------------------------------------------------------------------
(***************************************************************************)
(* One lemma per step of a command.                                        *)
(***************************************************************************)
LEMMA StartStep ==
    ASSUME IInv, NEW p \in Procs, NEW j \in Jobs, Start(p, j)
    PROVE  IInv'
<1> USE JobsAssumption
<1>1. LocalTypeOK'
  BY TypeOKParts DEF IInv, LocalTypeOK, Start, GoTo, NoReport, Report, PC
<1>2. LocalInv(p)'
  <2>1. j.samples \in 1..MaxSamples
    BY DEF Job
  <2>2. job'[p] = j /\ pc'[p] \in {"fetch", "sample"} /\ shots'[p] = NoShots
        /\ written'[p] = "empty" /\ (pc'[p] = "sample" => ~ReadsFeed(j))
    BY TypeOKParts DEF IInv, LocalTypeOK, LocalInv, Start, GoTo
  <2> QED BY <2>1, <2>2 DEF LocalInv, NoShots, MaxSamples, ReadsFeed, IsHarvest
<1>3. Frame(p)
  BY TypeOKParts DEF IInv, LocalTypeOK, Start, GoTo, Frame
<1> QED BY <1>1, <1>2, <1>3, LocalStep DEF Start

LEMMA FetchReleaseStep ==
    ASSUME IInv, NEW p \in Procs, FetchRelease(p)
    PROVE  IInv'
<1>1. LocalTypeOK'
  BY TypeOKParts DEF IInv, LocalTypeOK, FetchRelease, GoTo, NoReport, Report, PC
<1>2. LocalInv(p)'
  BY TypeOKParts DEF IInv, LocalTypeOK, LocalInv, FetchRelease, GoTo, ReadsFeed, IsHarvest
<1>3. Frame(p)
  BY TypeOKParts DEF IInv, LocalTypeOK, FetchRelease, GoTo, Frame
<1> QED BY <1>1, <1>2, <1>3, LocalStep DEF FetchRelease

LEMMA FindNoBundleStep ==
    ASSUME IInv, NEW p \in Procs, FindNoBundle(p)
    PROVE  IInv'
<1>1. LocalTypeOK'
  BY TypeOKParts DEF IInv, LocalTypeOK, FindNoBundle, GoTo, NoReport, Report, PC, local
<1>2. LocalInv(p)'
  BY TypeOKParts DEF IInv, LocalTypeOK, LocalInv, FindNoBundle, GoTo, local, ReadsFeed, IsHarvest
<1>3. Frame(p)
  BY TypeOKParts DEF IInv, LocalTypeOK, FindNoBundle, GoTo, Frame, local
<1> QED BY <1>1, <1>2, <1>3, LocalStep DEF FindNoBundle

LEMMA FindBundleStep ==
    ASSUME IInv, NEW p \in Procs, FindBundle(p)
    PROVE  IInv'
<1>1. \E s \in {"already_harvested", "error"}, e \in 0..2 : Finish(p, s, e)
  <2>1. CASE Consistent(p)
    BY <2>1 DEF FindBundle
  <2>2. CASE ~Consistent(p)
    BY <2>2 DEF FindBundle
  <2> QED BY <2>1, <2>2
<1>2. LocalTypeOK' /\ LocalInv(p)' /\ Frame(p)
  BY <1>1, TypeOKParts, FinishStep DEF IInv
<1> QED BY <1>2, LocalStep DEF FindBundle

LEMMA TakeSampleStep ==
    ASSUME IInv, NEW p \in Procs, NEW variant \in Variants, TakeSample(p, variant)
    PROVE  IInv'
<1> DEFINE version == IF job[p].cmd = "cft-harvest" THEN release[p] ELSE installed
           taken   == [count    |-> shots[p].count + 1,
                       versions |-> shots[p].versions \cup {version},
                       variants |-> shots[p].variants \cup {variant}]
<1> USE TypeOKParts DEF IInv
<1>1. pc[p] = "sample" /\ job[p] \in Job /\ shots[p] \in Shots
  BY JobsAssumption DEF TakeSample, LocalTypeOK, LocalInv
<1>2. job[p].samples \in 1..5 /\ shots[p].count \in 0..5
      /\ shots[p].count < job[p].samples
  BY <1>1 DEF Job, Shots, MaxSamples, LocalInv
<1>3. version \in Versions
  BY <1>1 DEF LocalInv, ReadsFeed, IsHarvest
<1>4. taken \in Shots
  BY <1>1, <1>2, <1>3 DEF Shots, MaxSamples
<1>5. shots' = [shots EXCEPT ![p] = taken]
  BY DEF TakeSample
<1>6. LocalTypeOK'
  BY <1>4, <1>5 DEF LocalTypeOK, TakeSample, GoTo, NoReport, Report, PC, MaxAttempts
<1>7. LocalInv(p)'
  BY <1>1, <1>2, <1>5
     DEF LocalTypeOK, LocalInv, TakeSample, GoTo, ReadsFeed, IsHarvest
<1>8. Frame(p)
  BY <1>5 DEF LocalTypeOK, TakeSample, GoTo, Frame
<1> QED BY <1>6, <1>7, <1>8, LocalStep DEF TakeSample

LEMMA LoseSampleStep ==
    ASSUME IInv, NEW p \in Procs, LoseSample(p)
    PROVE  IInv'
<1> USE TypeOKParts DEF IInv
<1>1. CASE attempt[p] < Attempts(job[p])
  <2>1. /\ attempt' = [attempt EXCEPT ![p] = @ + 1]
        /\ GoTo(p, "sample")
        /\ UNCHANGED <<job, release, shots, observed, written>>
    BY <1>1 DEF LoseSample
  <2>2. attempt[p] + 1 \in 1..MaxAttempts
    BY <1>1 DEF LocalTypeOK, Attempts, MaxAttempts
  <2>3. LocalTypeOK'
    BY <2>1, <2>2 DEF LocalTypeOK, GoTo, NoReport, Report, PC
  <2>4. LocalInv(p)'
    BY <2>1 DEF LoseSample, LocalTypeOK, LocalInv, GoTo, ReadsFeed, IsHarvest
  <2>5. Frame(p)
    BY <2>1 DEF LocalTypeOK, GoTo, Frame
  <2> QED BY <2>3, <2>4, <2>5, LocalStep DEF LoseSample
<1>2. CASE ~(attempt[p] < Attempts(job[p]))
  <2>1. Finish(p, "error", 2)
    BY <1>2 DEF LoseSample
  <2>2. LocalTypeOK' /\ LocalInv(p)' /\ Frame(p)
    BY <2>1, FinishStep
  <2> QED BY <2>2, LocalStep DEF LoseSample
<1> QED BY <1>1, <1>2

LEMMA ObserveVersionStep ==
    ASSUME IInv, NEW p \in Procs, ObserveVersion(p)
    PROVE  IInv'
<1> USE TypeOKParts DEF IInv
<1>1. PICK version \in Versions :
         Agreed(p, version) /\ observed' = [observed EXCEPT ![p] = version]
  BY DEF ObserveVersion
<1>2. job[p].cmd = "cft-harvest" => version = release[p]
  <2> SUFFICES ASSUME job[p].cmd = "cft-harvest" PROVE version = release[p]
    OBVIOUS
  <2>1. release[p] \in Versions /\ release[p] # NoVersion
    BY MaxVersionAssumption
       DEF ObserveVersion, LocalInv, ReadsFeed, IsHarvest, Versions, NoVersion
  <2> QED BY <1>1, <2>1 DEF Agreed, ExpectedVersion
<1>3. LocalTypeOK'
  BY <1>1 DEF LocalTypeOK, ObserveVersion, GoTo, NoReport, Report, PC
<1>4. LocalInv(p)'
  BY <1>1, <1>2
     DEF LocalTypeOK, LocalInv, ObserveVersion, GoTo, Agreed, ReadsFeed, IsHarvest
<1>5. Frame(p)
  BY <1>1 DEF LocalTypeOK, ObserveVersion, GoTo, Frame
<1> QED BY <1>3, <1>4, <1>5, LocalStep DEF ObserveVersion

LEMMA ClaimPathStep ==
    ASSUME IInv, NEW p \in Procs, ClaimPath(p)
    PROVE  IInv'
<1> USE TypeOKParts DEF IInv
<1>1. CASE bundle[BundlePath(p)] = NoBundle
  <2>1. GoTo(p, "write") /\ UNCHANGED local
    BY <1>1 DEF ClaimPath
  <2>2. LocalTypeOK'
    BY <2>1 DEF LocalTypeOK, GoTo, NoReport, Report, PC, local
  <2>3. LocalInv(p)'
    BY <2>1 DEF ClaimPath, LocalTypeOK, LocalInv, GoTo, local, ReadsFeed, IsHarvest
  <2>4. Frame(p)
    BY <2>1 DEF LocalTypeOK, GoTo, Frame, local
  <2> QED BY <2>2, <2>3, <2>4, LocalStep DEF ClaimPath
<1>2. CASE bundle[BundlePath(p)] # NoBundle
  <2>1. Finish(p, "error", 2)
    BY <1>2 DEF ClaimPath
  <2>2. LocalTypeOK' /\ LocalInv(p)' /\ Frame(p)
    BY <2>1, FinishStep
  <2> QED BY <2>2, LocalStep DEF ClaimPath
<1> QED BY <1>1, <1>2

LEMMA WriteFilesStep ==
    ASSUME IInv, NEW p \in Procs, WriteFiles(p)
    PROVE  IInv'
<1> USE TypeOKParts DEF IInv
<1>1. LocalTypeOK'
  BY DEF LocalTypeOK, WriteFiles, GoTo, NoReport, Report, PC, Extent
<1>2. LocalInv(p)'
  BY DEF LocalTypeOK, LocalInv, WriteFiles, GoTo, ReadsFeed, IsHarvest
<1>3. Frame(p)
  BY DEF LocalTypeOK, WriteFiles, GoTo, Frame
<1> QED BY <1>1, <1>2, <1>3, LocalStep DEF WriteFiles

\* The steps that only end a command.
LEMMA EndStep ==
    ASSUME IInv, NEW p \in Procs, RejectVersion(p) \/ LoseRename(p) \/ Abort(p)
    PROVE  IInv'
<1>1. Finish(p, "error", 2) \/ Finish(p, "killed", 2)
  BY DEF RejectVersion, LoseRename, Abort
<1>2. LocalTypeOK' /\ LocalInv(p)' /\ Frame(p)
  BY <1>1, TypeOKParts, FinishStep DEF IInv
<1> QED BY <1>2, LocalStep DEF RejectVersion, LoseRename, Abort
-----------------------------------------------------------------------------
(***************************************************************************)
(* The step that publishes a bundle.                                       *)
(***************************************************************************)

\* What p renames into place is a whole bundle fit for p's path.
LEMMA DraftIsSound ==
    ASSUME IInv, NEW p \in Procs, pc[p] = "rename"
    PROVE  /\ BundlePath(p) \in Paths
           /\ Draft(p) \in WholeBundles
           /\ Draft(p).shots.versions = {observed[p]}
           /\ Draft(p).ready =
                 evaluate_readiness(Draft(p).distribution, Draft(p).mode, Draft(p).shots)
           /\ \A cmd \in {"harvest", "cft-harvest"}, v \in Versions :
                 BundlePath(p) = HarvestPath(cmd, v) => observed[p] = v
           /\ BundlePath(p)[1] = "cft-harvest" =>
                 Draft(p).distribution = "chrome-for-testing"
           /\ (BundlePath(p)[1] = "output" /\ Draft(p).distribution = "consumer-chrome") =>
                 observed[p] = Draft(p).expected
<1> USE TypeOKParts DEF IInv
<1>1. /\ job[p] \in Job /\ shots[p] \in Shots /\ observed[p] \in Versions
      /\ release[p] \in Versions \cup {NoVersion}
      /\ shots[p].versions = {observed[p]} /\ shots[p].count = job[p].samples
      /\ written[p] = "all"
      /\ ReadsFeed(job[p]) => release[p] \in Versions
      /\ job[p].cmd = "cft-harvest" => observed[p] = release[p]
  BY JobsAssumption DEF LocalTypeOK, LocalInv
<1>2. /\ job[p].cmd \in Commands /\ job[p].mode \in {"headful", "headless"}
      /\ job[p].output \in Outputs /\ job[p].samples \in 1..MaxSamples
  BY <1>1 DEF Job
<1>3. Distribution(p) \in Distributions
  BY <1>2 DEF Distribution, Distributions, Commands
<1>4. Draft(p).ready \in BOOLEAN
  BY DEF Draft, evaluate_readiness
<1>5. Draft(p) \in BundleRecord
  BY <1>1, <1>2, <1>3, <1>4 DEF Draft, BundleRecord, Extent
<1>6. Draft(p) \in WholeBundles
  BY <1>1, <1>2, <1>5 DEF WholeBundles, Draft, MaxSamples
<1>7. BundlePath(p) \in Paths
  BY <1>1, <1>2 DEF BundlePath, Paths, HarvestPath, ReadsFeed, IsHarvest
<1>8. \A cmd \in {"harvest", "cft-harvest"}, v \in Versions :
         BundlePath(p) = HarvestPath(cmd, v) => observed[p] = v
  BY <1>1, <1>2 DEF BundlePath, HarvestPath
<1>9. BundlePath(p)[1] = "cft-harvest" => Draft(p).distribution = "chrome-for-testing"
  BY <1>2 DEF BundlePath, HarvestPath, Draft, Distribution, Commands
<1>10. (BundlePath(p)[1] = "output" /\ Draft(p).distribution = "consumer-chrome") =>
          observed[p] = Draft(p).expected
  BY <1>2 DEF BundlePath, HarvestPath, Draft, Distribution, Commands
<1>11. Draft(p).shots.versions = {observed[p]}
  BY <1>1 DEF Draft
<1>12. Draft(p).ready =
          evaluate_readiness(Draft(p).distribution, Draft(p).mode, Draft(p).shots)
  BY DEF Draft
<1> QED BY <1>6, <1>7, <1>8, <1>9, <1>10, <1>11, <1>12

LEMMA RenameStep ==
    ASSUME IInv, NEW p \in Procs, RenameIntoPlace(p)
    PROVE  IInv'
<1> DEFINE path == BundlePath(p)
           draft == Draft(p)
<1> USE TypeOKParts DEF IInv
<1>1. pc[p] = "rename" /\ bundle[path] = NoBundle
  BY DEF RenameIntoPlace, MayRename
<1>2. path \in Paths /\ draft \in WholeBundles /\ draft \in BundleRecord
  BY <1>1, DraftIsSound DEF WholeBundles
<1>3. bundle' = [bundle EXCEPT ![path] = draft] /\ UNCHANGED env
  BY DEF RenameIntoPlace
<1>4. LocalTypeOK' /\ LocalInv(p)' /\ Frame(p)
  <2>1. \E e \in 0..2 : Finish(p, "captured", e)
    BY DEF RenameIntoPlace
  <2> QED BY <2>1, FinishStep
<1>5. \A q \in Procs : LocalInv(q)'
  <2>1. ASSUME NEW q \in Procs, q # p PROVE LocalInv(q)'
    BY <2>1, <1>4 DEF LocalInv, Frame, IsHarvest, ReadsFeed
  <2> QED BY <2>1, <1>4
<1>6. ASSUME NEW h \in harvested', h \notin harvested
      PROVE  /\ h \in [release : Versions, exact : BOOLEAN]
             /\ h.exact => path = HarvestPath("harvest", h.release)
                           /\ draft.expected = h.release
  <2>1. h = [release |-> release[p], exact |-> observed[p] = release[p]]
        /\ job[p].cmd = "harvest"
    BY <1>6 DEF RenameIntoPlace
  <2>2. release[p] \in Versions
    BY <1>1, <2>1 DEF LocalInv, ReadsFeed, IsHarvest
  <2> QED BY <2>1, <2>2 DEF BundlePath, Draft
<1>7. TypeOK'
  <2>1. bundle' \in [Paths -> BundleRecord \cup {NoBundle}]
    BY <1>2, <1>3
  <2>2. harvested' \subseteq [release : Versions, exact : BOOLEAN]
    BY <1>6
  <2> QED BY <1>3, <1>4, <2>1, <2>2 DEF TypeOK, LocalTypeOK, env
<1>8. ASSUME NEW other \in Paths PROVE BundleInv(other)'
  <2>1. CASE other = path
    <3>1. bundle'[path] = draft
      BY <1>2, <1>3
    <3>2. draft.shots.versions = {observed[p]} /\ observed[p] \in Versions
      BY <1>1, DraftIsSound DEF LocalInv
    <3> HIDE DEF draft, path
    <3>3. \A cmd \in {"harvest", "cft-harvest"}, v \in Versions :
             path = HarvestPath(cmd, v) => observed[p] = v
      BY <1>1, DraftIsSound DEF path
    <3>4. /\ draft.ready = evaluate_readiness(draft.distribution, draft.mode, draft.shots)
          /\ path[1] = "cft-harvest" => draft.distribution = "chrome-for-testing"
          /\ (path[1] = "output" /\ draft.distribution = "consumer-chrome") =>
                observed[p] = draft.expected
      BY <1>1, DraftIsSound DEF path, draft
    <3> QED BY <2>1, <1>2, <3>1, <3>2, <3>3, <3>4 DEF BundleInv
  <2>2. CASE other # path
    <3>1. bundle'[other] = bundle[other]
      BY <2>2, <1>3
    <3> QED BY <3>1 DEF BundleInv
  <2> QED BY <2>1, <2>2
<1>9. HarvestedInv'
  <2> SUFFICES ASSUME NEW h \in harvested', h.exact
               PROVE  LET b == bundle'[HarvestPath("harvest", h.release)] IN
                      b # NoBundle /\ b.expected = h.release
    BY DEF HarvestedInv
  <2>1. h \in [release : Versions, exact : BOOLEAN]
    BY <1>6
  <2>2. HarvestPath("harvest", h.release) \in Paths
    BY <2>1 DEF Paths
  <2>3. CASE h \in harvested
    <3>1. bundle[HarvestPath("harvest", h.release)] # NoBundle
          /\ bundle[HarvestPath("harvest", h.release)].expected = h.release
      BY <2>3 DEF HarvestedInv
    <3>2. HarvestPath("harvest", h.release) # path
      BY <1>1, <3>1
    <3> QED BY <1>3, <2>2, <3>1, <3>2
  <2>4. CASE h \notin harvested
    <3>1. path = HarvestPath("harvest", h.release) /\ draft.expected = h.release
      BY <1>6, <2>4
    <3>2. bundle'[path] = draft /\ draft # NoBundle
      BY <1>2, <1>3, NoBundleIsNoBundle
    <3> QED BY <3>1, <3>2
  <2> QED BY <2>3, <2>4
<1> QED BY <1>5, <1>7, <1>8, <1>9
-----------------------------------------------------------------------------
(***************************************************************************)
(* The invariant.                                                          *)
(***************************************************************************)
LEMMA InitIInv == Init => IInv
<1> SUFFICES ASSUME Init PROVE IInv
  OBVIOUS
<1>1. TypeOK
  BY NoShotsType, MaxVersionAssumption
     DEF Init, TypeOK, NoReport, Report, PC, NoVersion, MaxAttempts, Extent
<1>2. \A p \in Procs : LocalInv(p)
  BY DEF Init, LocalInv
<1>3. \A path \in Paths : BundleInv(path)
  BY DEF Init, BundleInv
<1>4. HarvestedInv
  BY DEF Init, HarvestedInv
<1> QED BY <1>1, <1>2, <1>3, <1>4 DEF IInv

\* The world moves without touching the commands or the store.
LEMMA WorldStep ==
    ASSUME IInv, UNCHANGED <<bundle, report, harvested, pc, local>>,
           feed' \in Versions, installed' \in Versions
    PROVE  IInv'
<1>1. TypeOK'
  BY DEF IInv, TypeOK, local
<1>2. \A p \in Procs : LocalInv(p)'
  BY DEF IInv, LocalInv, local, IsHarvest, ReadsFeed
<1>3. \A path \in Paths : BundleInv(path)'
  BY DEF IInv, BundleInv
<1>4. HarvestedInv'
  BY DEF IInv, HarvestedInv
<1> QED BY <1>1, <1>2, <1>3, <1>4 DEF IInv

LEMMA NextIInv == IInv /\ [Next]_vars => IInv'
<1> SUFFICES ASSUME IInv, [Next]_vars PROVE IInv'
  OBVIOUS
<1>1. ASSUME NEW p \in Procs, Step(p) PROVE IInv'
  BY <1>1, FetchReleaseStep, FindNoBundleStep, FindBundleStep, TakeSampleStep,
     LoseSampleStep, ObserveVersionStep, ClaimPathStep, WriteFilesStep, RenameStep,
     EndStep DEF Step
<1>2. ASSUME NEW p \in Procs, Abort(p) PROVE IInv'
  BY <1>2, EndStep
<1>3. ASSUME NEW p \in Procs, NEW j \in Jobs, Start(p, j) PROVE IInv'
  BY <1>3, StartStep
<1>4. CASE FeedMoves
  BY <1>4, WorldStep DEF FeedMoves, IInv, TypeOK
<1>5. CASE BrowserUpdates
  <2>1. installed' \in Versions
    BY <1>5, MaxVersionAssumption DEF BrowserUpdates, IInv, TypeOK, Versions
  <2> QED BY <1>5, <2>1, WorldStep DEF BrowserUpdates, IInv, TypeOK
<1>6. CASE UNCHANGED vars
  BY <1>6, WorldStep DEF vars, env, IInv, TypeOK
<1> QED BY <1>1, <1>2, <1>3, <1>4, <1>5, <1>6 DEF Next

\* Every reachable state satisfies the inductive invariant.
THEOREM Invariance == Spec => []IInv
BY InitIInv, NextIInv, PTL DEF Spec

\* Every variable keeps its type, for any number of commands and versions.
THEOREM TypeCorrect == Spec => []TypeOK
<1>1. IInv => TypeOK
  BY DEF IInv
<1> QED BY Invariance, <1>1, PTL

\* A harvested bundle's path names the version of its every sample: no browser
\* update between two samples and no move of the feed gets past _observed_version.
THEOREM PathsNameVersions == Spec => []PathNamesCapturedVersion
<1>1. IInv => PathNamesCapturedVersion
  <2> SUFFICES ASSUME IInv, NEW cmd \in {"harvest", "cft-harvest"}, NEW v \in Versions,
                      bundle[HarvestPath(cmd, v)] # NoBundle
               PROVE  bundle[HarvestPath(cmd, v)].shots.versions = {v}
    BY DEF PathNamesCapturedVersion
  <2>1. HarvestPath(cmd, v) \in Paths
    BY DEF Paths
  <2> QED BY <2>1 DEF IInv, BundleInv
<1> QED BY Invariance, <1>1, PTL

\* A bundle marked ready is canonical evidence, whichever command wrote it.
THEOREM ReadyIsEvidence == Spec => []ReadyBundlesAreEvidence
<1>1. IInv => ReadyBundlesAreEvidence
  <2> SUFFICES ASSUME IInv, NEW path \in Paths,
                      bundle[path] # NoBundle, bundle[path].ready
               PROVE  LET b == bundle[path] IN
                      /\ b.shots.count >= 3
                      /\ b.mode = "headful"
                      /\ \E version \in Versions : b.shots.versions = {version}
                      /\ \E variant \in Representable : b.shots.variants = {variant}
                      /\ path[1] # "cft-harvest"
                      /\ (path[1] = "output" /\ b.distribution = "consumer-chrome") =>
                            b.shots.versions = {b.expected}
    BY DEF ReadyBundlesAreEvidence
  <2>1. BundleInv(path)
    BY DEF IInv
  <2>2. evaluate_readiness(bundle[path].distribution, bundle[path].mode, bundle[path].shots)
    BY <2>1 DEF BundleInv
  <2> QED BY <2>1, <2>2
          DEF BundleInv, evaluate_readiness, MinReadySamples, CANONICAL_DISTRIBUTIONS
<1> QED BY Invariance, <1>1, PTL
-----------------------------------------------------------------------------
(***************************************************************************)
(* The store the commands share, and their reports.                        *)
(***************************************************************************)

\* No step but a rename touches the store.
LEMMA OnlyRenameWrites ==
    ASSUME [Next]_vars, ~ \E p \in Procs : RenameIntoPlace(p)
    PROVE  UNCHANGED <<bundle, harvested>>
BY DEF Next, Step, FetchRelease, FindNoBundle, FindBundle, TakeSample, LoseSample,
       ObserveVersion, RejectVersion, ClaimPath, WriteFiles, LoseRename, Abort, Start,
       FeedMoves, BrowserUpdates, vars

\* The harvester implements the write-once store: racing writers and crashes can
\* neither replace a bundle nor show a part of one.
THEOREM WriteOnce == Spec => ImplementsWriteOnceStore
<1>1. Init => Store!Init
  BY DEF Init, Store!Init
<1>2. IInv /\ [Next]_vars => [Store!Next]_bundle
  <2> SUFFICES ASSUME IInv, [Next]_vars, bundle' # bundle PROVE Store!Next
    OBVIOUS
  <2>1. PICK p \in Procs : RenameIntoPlace(p)
    BY OnlyRenameWrites
  <2>2. /\ pc[p] = "rename" /\ bundle[BundlePath(p)] = NoBundle
        /\ bundle' = [bundle EXCEPT ![BundlePath(p)] = Draft(p)]
    BY <2>1 DEF RenameIntoPlace, MayRename
  <2>3. BundlePath(p) \in Paths /\ Draft(p) \in WholeBundles
    BY <2>2, DraftIsSound
  <2>4. bundle'[BundlePath(p)] = Draft(p)
    BY <2>2, <2>3 DEF IInv, TypeOK
  <2>5. Store!Create(BundlePath(p))
    BY <2>2, <2>3, <2>4 DEF Store!Create
  <2> QED BY <2>3, <2>5 DEF Store!Next
<1> QED BY <1>1, <1>2, Invariance, PTL DEF Spec, ImplementsWriteOnceStore

\* A repeated poll of a release that was harvested exactly reports already_harvested.
THEOREM ExactIdempotence == Spec => ExactPollsAreIdempotent
<1>1. IInv /\ [Next]_vars => [\A p \in Procs : ~RepeatsInVain(p)]_vars
  <2> SUFFICES ASSUME IInv, [Next]_vars, NEW p \in Procs, RepeatsInVain(p)
               PROVE  FALSE
    OBVIOUS
  <2>1. pc[p] = "look" /\ pc'[p] # "look" /\ job[p].cmd = "harvest"
    BY DEF RepeatsInVain
  <2>2. FoundBundle(p) # NoBundle /\ FoundBundle(p).expected = release[p]
    BY <2>1 DEF RepeatsInVain, IInv, HarvestedInv, FoundBundle
  <2>3. FindBundle(p) \/ Abort(p)
    <3>1. ASSUME NEW q \in Procs, q # p, Step(q) \/ Abort(q) \/ (\E j \in Jobs : Start(q, j))
          PROVE  pc'[p] = pc[p]
      BY <3>1 DEF Step, FetchRelease, FindNoBundle, FindBundle, TakeSample, LoseSample,
         ObserveVersion, RejectVersion, ClaimPath, WriteFiles, RenameIntoPlace,
         LoseRename, Abort, Start, GoTo, Finish, IInv, TypeOK
    <3>2. Step(p) \/ Abort(p) \/ (\E j \in Jobs : Start(p, j))
      BY <2>1, <3>1 DEF Next, FeedMoves, BrowserUpdates, vars
    <3> QED BY <2>1, <2>2, <3>2
            DEF Step, FetchRelease, FindNoBundle, TakeSample, LoseSample, ObserveVersion,
                RejectVersion, ClaimPath, WriteFiles, RenameIntoPlace, LoseRename, Start
  <2>4. pc'[p] = "idle" /\ report'.status \in {"already_harvested", "killed"}
    <3>1. CASE FindBundle(p)
      <4>1. Consistent(p)
        BY <2>2 DEF Consistent
      <4> QED BY <3>1, <4>1, <2>1 DEF FindBundle, Finish, IInv, TypeOK
    <3>2. CASE Abort(p)
      BY <3>2 DEF Abort, Finish, IInv, TypeOK
    <3> QED BY <2>3, <3>1, <3>2
  <2> QED BY <2>4 DEF RepeatsInVain
<1> QED BY <1>1, Invariance, PTL DEF Spec, ExactPollsAreIdempotent

\* Only a step of a command itself ends it.
LEMMA OwnEnd ==
    ASSUME IInv, [Next]_vars, NEW p \in Procs, Ends(p)
    PROVE  Step(p) \/ Abort(p)
<1>1. pc[p] # "idle" /\ pc'[p] = "idle"
  BY DEF Ends
<1>2. ASSUME NEW q \in Procs, q # p, Step(q) \/ Abort(q) \/ (\E j \in Jobs : Start(q, j))
      PROVE  pc'[p] = pc[p]
  BY <1>2 DEF Step, FetchRelease, FindNoBundle, FindBundle, TakeSample, LoseSample,
     ObserveVersion, RejectVersion, ClaimPath, WriteFiles, RenameIntoPlace,
     LoseRename, Abort, Start, GoTo, Finish, IInv, TypeOK
<1>3. Step(p) \/ Abort(p) \/ (\E j \in Jobs : Start(p, j))
  BY <1>1, <1>2 DEF Next, FeedMoves, BrowserUpdates, vars
<1> QED BY <1>1, <1>3 DEF Start

\* What a command reports is true of the store: what it captured is its own capture, at
\* its path, and it exits 0 only over a bundle that is marked ready.
THEOREM ReportsTrue == Spec => ReportsAreTrue
<1> DEFINE Path(p) == IF report'.status = "captured" THEN BundlePath(p)
                      ELSE HarvestPath(job[p].cmd, release[p])
<1>1. ASSUME IInv, [Next]_vars, NEW p \in Procs, Ends(p)
      PROVE  /\ report'.status = "captured" =>
                   bundle'[Path(p)] # NoBundle /\ bundle'[Path(p)].shots = shots[p]
             /\ report'.exit = 0 => bundle'[Path(p)] # NoBundle /\ bundle'[Path(p)].ready
  <2>1. pc[p] # "idle" /\ pc'[p] = "idle"
    BY <1>1 DEF Ends
  <2>2. CASE RenameIntoPlace(p)
    <3>1. pc[p] = "rename" /\ bundle[BundlePath(p)] = NoBundle
      BY <2>2 DEF RenameIntoPlace, MayRename
    <3>2. BundlePath(p) \in Paths /\ Draft(p) \in WholeBundles
      BY <1>1, <3>1, DraftIsSound
    <3>3. bundle'[BundlePath(p)] = Draft(p) /\ Draft(p) # NoBundle
      BY <1>1, <2>2, <3>2, NoBundleIsNoBundle
         DEF RenameIntoPlace, WholeBundles, IInv, TypeOK
    <3>4. /\ report'.status = "captured"
          /\ report'.exit = IF job[p].cmd # "cft-harvest" /\ Draft(p).ready THEN 0 ELSE 1
      BY <2>2 DEF RenameIntoPlace, Finish
    <3> QED BY <3>3, <3>4 DEF Draft
  <2>3. CASE FindBundle(p)
    <3>1. /\ pc[p] = "look" /\ FoundBundle(p) # NoBundle /\ UNCHANGED bundle
          /\ report'.status # "captured"
          /\ report'.exit = 0 => /\ job[p].cmd = "harvest"
                                 /\ evaluate_readiness(FoundBundle(p).distribution,
                                       FoundBundle(p).mode, FoundBundle(p).shots)
      BY <2>3 DEF FindBundle, Finish
    <3>2. HarvestPath(job[p].cmd, release[p]) \in Paths
      BY <1>1, <3>1 DEF IInv, LocalInv, IsHarvest, ReadsFeed, Paths
    <3> QED BY <1>1, <3>1, <3>2 DEF IInv, BundleInv, FoundBundle
  <2>4. CASE LoseSample(p) \/ RejectVersion(p) \/ ClaimPath(p) \/ LoseRename(p) \/ Abort(p)
    <3>1. \E s \in {"error", "killed"} : Finish(p, s, 2)
      BY <1>1, <2>1, <2>4
         DEF LoseSample, RejectVersion, ClaimPath, LoseRename, Abort, GoTo, IInv, TypeOK
    <3> QED BY <3>1 DEF Finish
  <2>5. CASE \/ FetchRelease(p) \/ FindNoBundle(p) \/ ObserveVersion(p) \/ WriteFiles(p)
             \/ \E variant \in Variants : TakeSample(p, variant)
    BY <1>1, <2>1, <2>5
       DEF FetchRelease, FindNoBundle, ObserveVersion, WriteFiles, TakeSample, GoTo, IInv, TypeOK
  <2> QED BY <1>1, <2>2, <2>3, <2>4, <2>5, OwnEnd DEF Step
<1>2. IInv /\ [Next]_vars =>
        [\A p \in Procs : Ends(p) =>
            LET path == IF report'.status = "captured" THEN BundlePath(p)
                        ELSE HarvestPath(job[p].cmd, release[p])
            IN  /\ report'.status = "captured" =>
                      bundle'[path] # NoBundle /\ bundle'[path].shots = shots[p]
                /\ report'.exit = 0 => bundle'[path] # NoBundle /\ bundle'[path].ready]_vars
  BY <1>1
<1> QED BY <1>2, Invariance, PTL DEF Spec, ReportsAreTrue
=============================================================================
