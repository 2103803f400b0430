------------------------------- MODULE Publish -------------------------------
(***************************************************************************)
(* From a captured browser to a release: the three scheduled harvest       *)
(* workflows, which commit native profiles to the branch main, the         *)
(* workflow that tags main, and the one that builds and publishes a tag    *)
(* (.github/workflows).  Developers push to main at any time, and any job  *)
(* can fail or be cancelled between two of its steps.                      *)
(*                                                                         *)
(* What GitHub does with the files is taken from how they use it: a run    *)
(* checks out the commit that was the head of main when it was triggered,  *)
(* a concurrency group has one run that runs and one that waits, a push    *)
(* that is no fast-forward is refused, and a push or a tag made with a     *)
(* workflow's own token starts no other workflow.                          *)
(***************************************************************************)
EXTENDS Integers, Sequences, FiniteSets, FiniteSetsExt

CONSTANTS
    MaxVersion,       \* major versions, of Chrome and of Safari, are 1..MaxVersion
    Families,         \* the harvests that are scheduled
    Variants,         \* the fingerprints a capture of a browser can show
    Handmade,         \* the provenance of a profile a developer wrote
    Legacy,           \* the profiles of the first commit
    PatchedTargets,   \* the targets curl.patch defines
    DeveloperTargets, \* bound: the targets developers write profiles of
    MaxCommits,       \* bound: main has at most so many commits
    MaxTags           \* bound: with so many tags nobody asks for one more by hand

AllFamilies == {"chrome", "android", "safari"}
Versions == 1..MaxVersion

\* The capture jobs of each harvest.
Platforms == [chrome  |-> {"linux", "win64", "mac", "mac_arm64"},
              android |-> {"android"},
              safari  |-> {"macos", "ios"}]

\* The targets each can publish, and the platform whose bundle each is compiled from.
\* The first five are chromeN, chromeN_linux and so on.
Suffixes == [chrome  |-> {"default", "linux", "windows", "macos", "macos_arm64"},
             android |-> {"android"},
             safari  |-> {"safari", "safari_ios"}]

BundleOf == [default     |-> "mac",
             linux       |-> "linux",
             windows     |-> "win64",
             macos       |-> "mac",
             macos_arm64 |-> "mac_arm64",
             android     |-> "android",
             safari      |-> "macos",
             safari_ios  |-> "ios"]

Target  == [suffix : DOMAIN BundleOf, version : Versions]
Bundle  == [platform : UNION {Platforms[f] : f \in AllFamilies},
            version : Versions, variant : Variants]
Profile == [target : Target, bundle : Bundle \cup {Handmade}]

\* What a commit holds: the sources, numbered, and profiles/.
Tree == [source : 0..MaxCommits, profiles : SUBSET Profile]

\* A commit, who made it, and the profiles whose replay matched in a build of its tree.
Commit == [tree : Tree, author : AllFamilies \cup {"developer"}, replayed : SUBSET Profile]

Targets(profiles) == {p.target : p \in profiles}

ASSUME MaxAssumption == MaxVersion \in Nat \ {0} /\ MaxCommits \in Nat \ {0} /\ MaxTags \in Nat
\* A profile is a file named after its target.
ASSUME LegacyAssumption ==
    /\ Legacy \subseteq Profile
    /\ \A p, q \in Legacy : p.target = q.target => p = q
ASSUME FamiliesAssumption == Families \subseteq AllFamilies
ASSUME DevelopersAssumption == DeveloperTargets \subseteq Target
ASSUME PatchAssumption == PatchedTargets \subseteq Target

VARIABLES
    main,       \* the commits of main, oldest first
    group,      \* of each concurrency group, the commits its two runs check out
    phase,      \* what the run that runs does next
    plan,       \* of a harvest, the profiles it adds
    replayed,   \* of a harvest, those of them whose replay matched
    next_tag,   \* of the tagging run, the tag it computed
    tags,       \* the tags of the repository
    building,   \* tags whose release.yml runs
    published,  \* tags with a GitHub release
    lost        \* history: a tag or a release was given up

harvest == <<plan, replayed>>
release == <<next_tag, tags, building, published>>
vars    == <<main, group, phase, harvest, release, lost>>

Workflows == Families \cup {"release"}
NoTag     == [major |-> 0, revision |-> 0, commit |-> 0]
Tag       == [major : Versions, revision : Nat \ {0}, commit : 1..MaxCommits]

TypeOK ==
    /\ main \in Seq(Commit) /\ Len(main) \in 1..MaxCommits
    /\ group \in [Workflows -> [running : 0..Len(main), pending : 0..Len(main)]]
    /\ phase \in [Workflows -> {"idle", "capture", "replay", "commit",
                                "dispatch", "compute", "tag", "release"}]
    /\ plan \in [Families -> SUBSET Profile]
    /\ \A f \in Families : replayed[f] \subseteq plan[f]
    /\ next_tag \in Tag \cup {NoTag}
    /\ tags \subseteq Tag /\ building \subseteq tags /\ published \subseteq tags
    /\ lost \in BOOLEAN
-----------------------------------------------------------------------------
(***************************************************************************)
(* Concurrency groups.                                                     *)
(***************************************************************************)

FirstPhase(w) == IF w = "release" THEN "compute" ELSE "capture"

Idle == [running |-> 0, pending |-> 0]

\* Mutant: a run that waits is not cancelled in favour of a later one.
QueuedFirst(g, commit) == IF g.running = 0 THEN [g EXCEPT !.running = commit]
                          ELSE IF g.pending = 0 THEN [g EXCEPT !.pending = commit] ELSE g

\* A run is triggered: it runs at once, or waits in place of the one that waited.  (An old
\* run that is started again, which checks out its old commit, is left out.)
Queued(g, commit) == IF g.running = 0 THEN [g EXCEPT !.running = commit]
                     ELSE [g EXCEPT !.pending = commit]

Trigger(w, commit) ==
    /\ group' = [group EXCEPT ![w] = Queued(@, commit)]
    /\ phase' = [phase EXCEPT ![w] = IF @ = "idle" THEN FirstPhase(w) ELSE @]

\* The group of a run that ends.
Ended(g) == [running |-> g.pending, pending |-> 0]

AfterEnd(w) == IF group[w].pending = 0 THEN "idle" ELSE FirstPhase(w)

End(w) ==
    /\ group' = [group EXCEPT ![w] = Ended(@)]
    /\ phase' = [phase EXCEPT ![w] = AfterEnd(w)]

\* Mutant: a run inherits the replays of the one before it.
ForgetPlan(f) == plan' = [plan EXCEPT ![f] = {}] /\ replayed' = replayed

Forget(f) ==
    /\ plan'     = [plan EXCEPT ![f] = {}]
    /\ replayed' = [replayed EXCEPT ![f] = {}]

\* The head of main.
Newest == Len(main)

\* What the run of a workflow has checked out.
Checkout(w) == main[group[w].running].tree
-----------------------------------------------------------------------------
Init ==
    /\ main = <<[tree |-> [source |-> 0, profiles |-> Legacy], author |-> "developer",
                 replayed |-> {}]>>
    /\ group = [w \in Workflows |-> Idle]
    /\ phase = [w \in Workflows |-> "idle"]
    /\ plan = [f \in Families |-> {}]
    /\ replayed = [f \in Families |-> {}]
    /\ next_tag = NoTag /\ tags = {} /\ building = {} /\ published = {}
    /\ lost = FALSE
-----------------------------------------------------------------------------
(***************************************************************************)
(* A harvest.                                                              *)
(***************************************************************************)

\* The schedule, or a person, starts one.
StartHarvest(f) ==
    /\ Trigger(f, Newest)
    /\ UNCHANGED <<main, harvest, release, lost>>

\* What the capture jobs hand to the publish job: one ready bundle each, of the
\* version installed on its machine.
Captures(f) ==
    {{[platform |-> p, version |-> version[p], variant |-> variant[p]] : p \in Platforms[f]} :
        version \in [Platforms[f] -> Versions], variant \in [Platforms[f] -> Variants]}

\* The profiles such bundles can be compiled into.
Candidates(f, bundles) ==
    {[target |-> [suffix |-> x[1], version |-> x[2].version], bundle |-> x[2]] :
        x \in {y \in Suffixes[f] \X bundles : y[2].platform = BundleOf[y[1]]}}

Existing(f, profiles) == {p \in profiles : p.target \in Targets(Checkout(f).profiles)}

Converged(bundles) == Cardinality({b.version : b \in bundles}) = 1

\* Mutant: of a set that exists in part, the rest is added.
AddedMissing(f, bundles) ==
    LET candidates == Candidates(f, bundles) IN
    IF f = "chrome" /\ ~Converged(bundles) THEN {}
    ELSE candidates \ Existing(f, candidates)

\* The profiles that are added.  Chrome's are added all together, once all platforms
\* have one major, and not at all if some exist; Safari's each for itself.
Wanted(f, bundles) ==
    LET candidates == Candidates(f, bundles)
        existing   == Existing(f, candidates)
    IN  IF f = "chrome" /\ (~Converged(bundles) \/ existing # {}) THEN {}
        ELSE candidates \ existing

\* The capture jobs, then the publish job up to its build.  It ends when there is
\* nothing to add.  No step in between looks at anything but the checkout.
Prepare(f) ==
    /\ phase[f] = "capture"
    /\ \E bundles \in Captures(f) :
          IF Wanted(f, bundles) = {}
          THEN End(f) /\ Forget(f)
          ELSE /\ plan' = [plan EXCEPT ![f] = Wanted(f, bundles)]
               /\ phase' = [phase EXCEPT ![f] = "replay"]
               /\ UNCHANGED <<group, replayed>>
    /\ UNCHANGED <<main, release, lost>>

\* The tree a harvest builds, and would commit.
Built(f) == [Checkout(f) EXCEPT !.profiles = @ \cup plan[f]]

\* InjectImpersonationProfiles: a generated target must be no target of the patch.
\* (Handmade ones have no generated file.)
Builds(tree) ==
    \A p \in tree.profiles : p.bundle # Handmade => p.target \notin PatchedTargets

\* Mutant: the last replay decides.
MatchedLast(f, ok) == ok # {}

\* The loop over the targets stops at the first whose replay does not match.
Matched(f, ok) == ok = plan[f]

Replay(f) ==
    /\ phase[f] = "replay"
    /\ Builds(Built(f))
    /\ \E ok \in SUBSET plan[f] :
          /\ Matched(f, ok)
          /\ replayed' = [replayed EXCEPT ![f] = ok]
    /\ phase' = [phase EXCEPT ![f] = "commit"]
    /\ UNCHANGED <<main, group, plan, release, lost>>

\* Mutant: the push is forced.
FastForwardOrNot(f) == group[f].running <= Newest

\* git push HEAD:main is refused when main has moved since the checkout.
FastForward(f) == group[f].running = Newest

Push(f) ==
    /\ phase[f] = "commit"
    /\ FastForward(f)
    /\ Newest < MaxCommits
    /\ main' = Append(main, [tree |-> Built(f), author |-> f, replayed |-> replayed[f]])
    /\ phase' = [phase EXCEPT ![f] = "dispatch"]
    /\ UNCHANGED <<group, harvest, release, lost>>

\* gh workflow run profile-release.yml, on what main is by now.
Dispatch(f) ==
    /\ phase[f] = "dispatch"
    /\ group' = [group EXCEPT !["release"] = Queued(@, Newest), ![f] = Ended(@)]
    /\ phase' = [phase EXCEPT !["release"] = IF @ = "idle" THEN "compute" ELSE @,
                              ![f] = AfterEnd(f)]
    /\ Forget(f)
    /\ UNCHANGED <<main, release, lost>>

\* A job fails: for want of readiness, a build or a matching replay, because the push
\* is refused, or because its machine is lost.  What was pushed stays.
FailHarvest(f) ==
    /\ phase[f] # "idle"
    /\ End(f) /\ Forget(f)
    /\ lost' = (lost \/ phase[f] = "dispatch")
    /\ UNCHANGED <<main, release>>
-----------------------------------------------------------------------------
(***************************************************************************)
(* Tags and releases.                                                      *)
(***************************************************************************)

\* The majors of the files of profiles/chrome.
ChromeMajors(tree) ==
    {p.target.version : p \in {q \in tree.profiles :
                                  q.target.suffix \in Suffixes["chrome"] \cup Suffixes["android"]}}

Revisions(major) == {t.revision : t \in {u \in tags : u.major = major}}

\* Mutant: majors are sorted by their text.
LowestMajor(majors) == Min(majors)

NewestMajor(majors) == Max(majors)

\* profile-release.yml: the newest Chrome names the tag.  All tags are fetched.
ComputeTag ==
    LET majors == ChromeMajors(Checkout("release"))
        major  == NewestMajor(majors)
    IN  /\ phase["release"] = "compute"
        /\ majors # {}
        /\ next_tag' = [major    |-> major,
                        revision |-> Max({0} \cup Revisions(major)) + 1,
                        commit   |-> group["release"].running]
        /\ phase' = [phase EXCEPT !["release"] = "tag"]
        /\ UNCHANGED <<main, group, harvest, tags, building, published, lost>>

\* A person starts profile-release.yml, whether or not anything changed since the last tag.
DispatchByHand ==
    /\ Cardinality(tags) < MaxTags
    /\ Trigger("release", Newest)
    /\ UNCHANGED <<main, harvest, release, lost>>

\* git push of the tag: no tag of its name must exist.
PushTag ==
    /\ phase["release"] = "tag"
    /\ \A t \in tags : <<t.major, t.revision>> # <<next_tag.major, next_tag.revision>>
    /\ tags' = tags \cup {next_tag}
    /\ phase' = [phase EXCEPT !["release"] = "release"]
    /\ UNCHANGED <<main, group, harvest, next_tag, building, published, lost>>

\* gh workflow run release.yml: a tag pushed with the workflow's token starts nothing.
DispatchRelease ==
    /\ phase["release"] = "release"
    /\ building' = building \cup {next_tag}
    /\ next_tag' = NoTag
    /\ End("release")
    /\ UNCHANGED <<main, harvest, tags, published, lost>>

FailRelease ==
    /\ phase["release"] # "idle"
    /\ End("release")
    /\ next_tag' = NoTag
    /\ lost' = TRUE
    /\ UNCHANGED <<main, harvest, tags, building, published>>

\* release.yml: both builds succeed, and the release is published.
PublishRelease(t) ==
    /\ t \in building
    /\ Builds(main[t.commit].tree)
    /\ building' = building \ {t}
    /\ published' = published \cup {t}
    /\ UNCHANGED <<main, group, phase, harvest, next_tag, tags, lost>>

FailBuild(t) ==
    /\ t \in building
    /\ building' = building \ {t}
    /\ lost' = TRUE
    /\ UNCHANGED <<main, group, phase, harvest, next_tag, tags, published>>
-----------------------------------------------------------------------------
(***************************************************************************)
(* Developers push sources, which starts nothing here, or profiles, which  *)
(* starts profile-release.yml.                                             *)
(***************************************************************************)
DeveloperCommit(tree) ==
    [tree |-> tree, author |-> "developer", replayed |-> {}]

PushSources ==
    /\ Newest < MaxCommits
    /\ main' = Append(main, DeveloperCommit([main[Newest].tree EXCEPT !.source = @ + 1]))
    /\ UNCHANGED <<group, phase, harvest, release, lost>>

PushProfile(target) ==
    /\ Newest < MaxCommits
    /\ main' = Append(main, DeveloperCommit(
                  [main[Newest].tree EXCEPT
                      !.profiles = {p \in @ : p.target # target}
                                   \cup {[target |-> target, bundle |-> Handmade]}]))
    /\ Trigger("release", Newest + 1)
    /\ UNCHANGED <<harvest, release, lost>>

HarvestStep(f) == Prepare(f) \/ Replay(f) \/ Push(f) \/ Dispatch(f)

ReleaseStep == ComputeTag \/ PushTag \/ DispatchRelease

Next ==
    \/ \E f \in Families : StartHarvest(f) \/ HarvestStep(f) \/ FailHarvest(f)
    \/ ReleaseStep \/ FailRelease \/ DispatchByHand
    \/ \E t \in tags : PublishRelease(t) \/ FailBuild(t)
    \/ PushSources
    \/ \E target \in DeveloperTargets : PushProfile(target)

\* A run whose machine is not lost goes on; nothing makes anybody start one.
Fairness ==
    /\ \A f \in Families : WF_vars(Dispatch(f))
    /\ WF_vars(ReleaseStep)
    /\ WF_vars(\E t \in tags : PublishRelease(t))

Spec == Init /\ [][Next]_vars /\ Fairness
-----------------------------------------------------------------------------
(***************************************************************************)
(* Properties.                                                             *)
(***************************************************************************)

\* What a commit adds to its parent.
Added(i) == main[i].tree.profiles \ main[i - 1].tree.profiles

ByHarvest == {i \in 2..Len(main) : main[i].author # "developer"}

\* "Commits the verified profile set only after every replay matches": every profile a
\* harvest's commit adds to main was replayed in a build of the tree that is committed,
\* against its own platform's capture, though main may move at any time.
CommittedAsReplayed ==
    \A i \in ByHarvest :
        /\ Added(i) \subseteq main[i].replayed
        /\ Builds(main[i].tree)
        /\ \A p \in Added(i) : p.bundle.platform = BundleOf[p.target.suffix]

\* A harvest adds profiles: it takes back nothing that developers or another harvest
\* pushed meanwhile, neither profiles nor sources, though it may have waited in its
\* group since long before.
HarvestsOnlyAdd ==
    [][\A i \in DOMAIN main' \ DOMAIN main : main'[i].author # "developer" =>
          /\ main'[i].tree.source = main[i - 1].tree.source
          /\ main[i - 1].tree.profiles \subseteq main'[i].tree.profiles
          /\ \A p, q \in main'[i].tree.profiles : p.target = q.target => p = q]_main

\* The five Chrome targets of a major are published together, from one run's captures
\* of that major, and no part of a set somebody else began is completed.
ChromeSetsAreWhole ==
    \A i \in ByHarvest : main[i].author = "chrome" =>
        \E version \in Versions :
            Targets(Added(i)) = [suffix : Suffixes["chrome"], version : {version}]

\* Tags have names of their own, name the newest Chrome they hold, and the later of two
\* of one Chrome holds the later commit, whatever runs of the tagging workflow waited
\* for each other.
TagsAreOrdered ==
    \A t, u \in tags :
        /\ (t.major = u.major /\ t.revision = u.revision) => t = u
        /\ (t.major = u.major /\ t.revision < u.revision) => t.commit <= u.commit
        /\ \A v \in ChromeMajors(main[t.commit].tree) : v <= t.major

\* Every profile a harvest commits is released, if no job that should have tagged or
\* released it fails: a run of the tagging workflow that is cancelled while it waits is
\* made up for by the one that took its place.
EveryProfileIsReleased ==
    \A i \in 2..MaxCommits :
        (i \in ByHarvest) ~> (lost \/ \E t \in published : t.commit >= i)
=============================================================================
