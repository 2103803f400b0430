---------------------------- MODULE PublishProofs ----------------------------
(***************************************************************************)
(* The safety of the harvest and release workflows, for any number of      *)
(* versions, fingerprints, commits and harvests, and whatever developers   *)
(* push.                                                                   *)
(***************************************************************************)
EXTENDS Publish, FiniteSetTheorems, SequenceTheorems, Lemmas

\* A tree has one file of a target.
OneEach(profiles) == \A p, q \in profiles : p.target = q.target => p = q

\* The phases of a workflow are its own, a run that waits waits for one that runs, and
\* checks out no earlier commit.
Phased ==
    /\ \A f \in Families : phase[f] \in {"idle", "capture", "replay", "commit", "dispatch"}
    /\ phase["release"] \in {"idle", "compute", "tag", "release"}
    /\ \A w \in Workflows :
          /\ phase[w] = "idle" <=> group[w].running = 0
          /\ group[w].pending # 0 => group[w].running \in 1..group[w].pending

\* The sources of a commit changed no more often than there were commits.
Numbered == \A i \in DOMAIN main : main[i].tree.source < i

Filed == \A i \in DOMAIN main : OneEach(main[i].tree.profiles)

\* What the profiles a harvest adds look like, and the tree they are added to.
WellPlanned(f, profiles, tree) ==
    /\ OneEach(profiles)
    /\ \A p \in profiles :
          p.bundle \in Bundle /\ p.bundle.platform = BundleOf[p.target.suffix]
    /\ Targets(profiles) \cap Targets(tree.profiles) = {}
    /\ f = "chrome" => \E version \in Versions :
          Targets(profiles) = [suffix : Suffixes["chrome"], version : {version}]

\* A plan is made after the captures, fits the checkout of its run, and is committed only
\* after it was built and every profile of it was replayed.
Fits(f) ==
    /\ phase[f] \in {"idle", "capture"} => plan[f] = {}
    /\ phase[f] \in {"replay", "commit"} => WellPlanned(f, plan[f], Checkout(f))
    /\ phase[f] = "commit" => replayed[f] = plan[f] /\ Builds(Built(f))

Planned ==
    /\ replayed \in [Families -> SUBSET Profile]
    /\ \A f \in Families : Fits(f)

\* What the tagging workflow has tagged and is about to tag.  The tags a run has fetched
\* stay all there are, since no other run of its group makes one.
Tagged ==
    /\ TagsAreOrdered
    /\ \A t \in tags : t.commit <= Newest
    /\ group["release"].running # 0 => \A t \in tags : t.commit <= group["release"].running
    /\ phase["release"] = "tag" =>
          /\ next_tag \in Tag /\ next_tag.commit = group["release"].running
          /\ \A v \in ChromeMajors(Checkout("release")) : v <= next_tag.major
          /\ next_tag.revision <= Cardinality(tags) + 1
          /\ \A t \in tags : t.major = next_tag.major => t.revision < next_tag.revision
    /\ phase["release"] = "release" => next_tag \in tags

\* A revision is one more than one there is, so revisions are no more than tags.
Counted == IsFiniteSet(tags) /\ \A t \in tags : t.revision <= Cardinality(tags)

IInv ==
    /\ TypeOK
    /\ Phased
    /\ Numbered
    /\ Filed
    /\ Planned
    /\ CommittedAsReplayed
    /\ ChromeSetsAreWhole
    /\ Tagged
    /\ Counted
-----------------------------------------------------------------------------
(***************************************************************************)
(* Runs and their groups.                                                  *)
(***************************************************************************)

Grouped ==
    /\ group \in [Workflows -> [running : 0..Len(main), pending : 0..Len(main)]]
    /\ phase \in [Workflows -> {"idle", "capture", "replay", "commit",
                                "dispatch", "compute", "tag", "release"}]
    /\ Phased

LEMMA ReleaseIsNoFamily == "release" \notin Families /\ "release" \in Workflows
BY FamiliesAssumption DEF AllFamilies, Workflows

\* Groups that are as they should be stay so while main grows.
LEMMA GroupedOnGrowth ==
  ASSUME Grouped, Len(main) \in Nat, Len(main') \in Nat, Len(main) <= Len(main'),
         UNCHANGED <<group, phase>>
  PROVE  Grouped'
<1>1. group' \in [Workflows -> [running : 0..Len(main'), pending : 0..Len(main')]]
  BY DEF Grouped
<1> QED BY <1>1 DEF Grouped, Phased

\* A run is triggered on a commit no earlier than those its group knows.
LEMMA TriggerGrouped ==
  ASSUME Grouped, Len(main) \in Nat, Len(main') \in Nat, Len(main) <= Len(main'),
         NEW w \in Workflows, NEW commit \in 1..Len(main'), Len(main) <= commit,
         Trigger(w, commit)
  PROVE  Grouped'
<1> USE ReleaseIsNoFamily
<1>1. group[w] \in [running : 0..Len(main), pending : 0..Len(main)]
  BY DEF Grouped
<1>2. Queued(group[w], commit) \in [running : 0..Len(main'), pending : 0..Len(main')]
  BY <1>1 DEF Queued
<1>3. group' \in [Workflows -> [running : 0..Len(main'), pending : 0..Len(main')]]
  BY <1>2 DEF Grouped, Trigger
<1>4. phase' \in [Workflows -> {"idle", "capture", "replay", "commit",
                               "dispatch", "compute", "tag", "release"}]
  BY DEF Grouped, Trigger, FirstPhase
<1>5. Phased'
  <2>1. \A f \in Families : phase'[f] \in {"idle", "capture", "replay", "commit", "dispatch"}
    BY DEF Grouped, Phased, Trigger, FirstPhase, Workflows
  <2>2. phase'["release"] \in {"idle", "compute", "tag", "release"}
    BY DEF Grouped, Phased, Trigger, FirstPhase
  <2>3. ASSUME NEW x \in Workflows
        PROVE  /\ phase'[x] = "idle" <=> group'[x].running = 0
               /\ group'[x].pending # 0 => group'[x].running \in 1..group'[x].pending
    <3>1. CASE x = w
      <4>1. group'[x] = Queued(group[w], commit)
        BY <3>1 DEF Grouped, Trigger
      <4>2. phase'[x] = IF phase[w] = "idle" THEN FirstPhase(w) ELSE phase[w]
        BY <3>1 DEF Grouped, Trigger
      <4>3. phase[w] = "idle" <=> group[w].running = 0
        BY DEF Grouped, Phased
      <4>4. group[w].pending # 0 => group[w].running \in 1..group[w].pending
        BY DEF Grouped, Phased
      <4> QED BY <1>1, <4>1, <4>2, <4>3, <4>4 DEF Queued, FirstPhase
    <3>2. CASE x # w
      <4>1. group'[x] = group[x] /\ phase'[x] = phase[x]
        BY <3>2 DEF Grouped, Trigger
      <4> QED BY <4>1 DEF Grouped, Phased
    <3> QED BY <3>1, <3>2
  <2> QED BY <2>1, <2>2, <2>3 DEF Phased
<1> QED BY <1>3, <1>4, <1>5 DEF Grouped

\* A run ends, and the one that waited starts.
LEMMA EndGrouped ==
  ASSUME Grouped, Len(main) \in Nat, UNCHANGED main,
         NEW w \in Workflows, End(w)
  PROVE  Grouped'
<1> USE ReleaseIsNoFamily
<1>1. group[w] \in [running : 0..Len(main), pending : 0..Len(main)]
  BY DEF Grouped
<1>2. group' \in [Workflows -> [running : 0..Len(main'), pending : 0..Len(main')]]
  BY <1>1 DEF Grouped, End, Ended
<1>3. phase' \in [Workflows -> {"idle", "capture", "replay", "commit",
                               "dispatch", "compute", "tag", "release"}]
  BY DEF Grouped, End, AfterEnd, FirstPhase
<1>4. Phased'
  <2>1. \A f \in Families : phase'[f] \in {"idle", "capture", "replay", "commit", "dispatch"}
    BY DEF Grouped, Phased, End, AfterEnd, FirstPhase, Workflows
  <2>2. phase'["release"] \in {"idle", "compute", "tag", "release"}
    BY DEF Grouped, Phased, End, AfterEnd, FirstPhase
  <2>3. ASSUME NEW x \in Workflows
        PROVE  /\ phase'[x] = "idle" <=> group'[x].running = 0
               /\ group'[x].pending # 0 => group'[x].running \in 1..group'[x].pending
    <3>1. CASE x = w
      <4>1. group'[x] = Ended(group[w]) /\ phase'[x] = AfterEnd(w)
        BY <3>1 DEF Grouped, End
      <4> QED BY <1>1, <4>1 DEF Ended, AfterEnd, FirstPhase
    <3>2. CASE x # w
      <4>1. group'[x] = group[x] /\ phase'[x] = phase[x]
        BY <3>2 DEF Grouped, End
      <4> QED BY <4>1 DEF Grouped, Phased
    <3> QED BY <3>1, <3>2
  <2> QED BY <2>1, <2>2, <2>3 DEF Phased
<1> QED BY <1>2, <1>3, <1>4 DEF Grouped

\* A run goes on to another phase of its workflow.
LEMMA PhaseGrouped ==
  ASSUME Grouped, Len(main) \in Nat, Len(main') \in Nat, Len(main) <= Len(main'),
         UNCHANGED group,
         NEW w \in Workflows, NEW next, phase[w] # "idle",
         phase' = [phase EXCEPT ![w] = next],
         next \in IF w = "release" THEN {"tag", "release"} ELSE {"replay", "commit", "dispatch"}
  PROVE  Grouped'
<1> USE ReleaseIsNoFamily
<1>1. group' \in [Workflows -> [running : 0..Len(main'), pending : 0..Len(main')]]
  BY DEF Grouped
<1>2. phase' \in [Workflows -> {"idle", "capture", "replay", "commit",
                               "dispatch", "compute", "tag", "release"}]
  BY DEF Grouped
<1>3. Phased'
  <2>1. \A f \in Families : phase'[f] \in {"idle", "capture", "replay", "commit", "dispatch"}
    BY DEF Grouped, Phased, Workflows
  <2>2. phase'["release"] \in {"idle", "compute", "tag", "release"}
    BY DEF Grouped, Phased
  <2>3. \A x \in Workflows : phase'[x] = "idle" <=> phase[x] = "idle"
    BY DEF Grouped
  <2> QED BY <2>1, <2>2, <2>3 DEF Grouped, Phased
<1> QED BY <1>1, <1>2, <1>3 DEF Grouped
-----------------------------------------------------------------------------
(***************************************************************************)
(* Commits.                                                                *)
(***************************************************************************)

\* No commit of main is ever changed.
Extends == /\ Len(main) \in Nat \ {0} /\ Len(main') \in Nat /\ Len(main) <= Len(main')
           /\ \A i \in 1..Len(main) : main'[i] = main[i]

Commits(c) == c \in Commit /\ main' = Append(main, c)

LEMMA NoCommit ==
  ASSUME TypeOK, UNCHANGED main
  PROVE  Extends
BY DEF TypeOK, Extends

LEMMA OneCommit ==
  ASSUME TypeOK, NEW c, Commits(c)
  PROVE  /\ main' \in Seq(Commit)
         /\ Len(main') = Len(main) + 1
         /\ DOMAIN main = 1..Len(main)
         /\ DOMAIN main' = 1..(Len(main) + 1)
         /\ main'[Len(main) + 1] = c
         /\ Extends
<1>1. main \in Seq(Commit) /\ Len(main) \in Nat \ {0}
  BY DEF TypeOK
<1>2. /\ main' \in Seq(Commit)
      /\ Len(main') = Len(main) + 1
      /\ \A i \in 1..Len(main) : main'[i] = main[i]
      /\ main'[Len(main) + 1] = c
  BY <1>1, AppendProperties DEF Commits
<1> QED BY <1>1, <1>2, LenProperties DEF Extends

History == Numbered /\ Filed /\ CommittedAsReplayed /\ ChromeSetsAreWhole

LEMMA HistoryKept ==
  ASSUME History, UNCHANGED main
  PROVE  History'
BY DEF History, Numbered, Filed, OneEach, CommittedAsReplayed, ChromeSetsAreWhole, ByHarvest,
       Added, Builds, Targets

\* What a commit must be for the history to stay as it was.
Proper(c) ==
    /\ c.tree.source < Len(main) + 1
    /\ OneEach(c.tree.profiles)
    /\ c.author # "developer" =>
          LET added == c.tree.profiles \ main[Newest].tree.profiles IN
          /\ added \subseteq c.replayed
          /\ Builds(c.tree)
          /\ \A p \in added : p.bundle.platform = BundleOf[p.target.suffix]
          /\ c.author = "chrome" =>
                \E version \in Versions :
                   Targets(added) = [suffix : Suffixes["chrome"], version : {version}]

LEMMA HistoryGrows ==
  ASSUME TypeOK, History, NEW c, Commits(c), Proper(c)
  PROVE  History'
<1>0. PICK last : last = Len(main) + 1
  OBVIOUS
<1>1. /\ DOMAIN main = 1..Len(main) /\ DOMAIN main' = 1..last
      /\ main'[last] = c /\ Len(main') = last /\ Extends
  BY <1>0, OneCommit
<1>2. Len(main) \in Nat \ {0} /\ \A i \in 1..Len(main) : main'[i] = main[i]
  BY <1>1 DEF Extends
<1>3. \A i \in DOMAIN main' : i \in DOMAIN main \/ i = last
  BY <1>0, <1>1, <1>2
<1>4. Numbered' /\ Filed'
  <2>1. ASSUME NEW i \in DOMAIN main'
        PROVE  main'[i].tree.source < i /\ OneEach(main'[i].tree.profiles)
    <3>1. CASE i \in DOMAIN main
      BY <1>1, <1>2, <3>1 DEF History, Numbered, Filed
    <3>2. CASE i = last
      BY <1>0, <1>1, <3>2 DEF Proper
    <3> QED BY <1>3, <3>1, <3>2
  <2> QED BY <2>1 DEF Numbered, Filed, OneEach
<1>5. ASSUME NEW i \in 2..Len(main)
      PROVE  Added(i)' = Added(i)
  <2>1. i \in 1..Len(main) /\ i - 1 \in 1..Len(main)
    BY <1>2
  <2> QED BY <1>2, <2>1 DEF Added
<1>6. Added(last)' = c.tree.profiles \ main[Newest].tree.profiles
  <2>1. last - 1 = Newest /\ Newest \in 1..Len(main)
    BY <1>0, <1>2 DEF Newest
  <2> QED BY <1>1, <1>2, <2>1 DEF Added
<1>7. ASSUME NEW i \in ByHarvest'
      PROVE  \/ i \in ByHarvest /\ main'[i] = main[i] /\ Added(i)' = Added(i)
             \/ i = last /\ c.author # "developer"
  <2>1. i \in 2..last /\ main'[i].author # "developer"
    BY <1>1 DEF ByHarvest
  <2>2. i \in 2..Len(main) \/ i = last
    BY <1>0, <1>2, <2>1
  <2>3. CASE i \in 2..Len(main)
    <3>1. i \in 1..Len(main)
      BY <2>3, <1>2
    <3> QED BY <1>2, <1>5, <2>1, <2>3, <3>1 DEF ByHarvest
  <2>4. CASE i = last
    BY <1>1, <2>1, <2>4
  <2> QED BY <2>2, <2>3, <2>4
<1>8. CommittedAsReplayed'
  <2> SUFFICES ASSUME NEW i \in ByHarvest'
               PROVE  /\ Added(i)' \subseteq main'[i].replayed
                      /\ Builds(main'[i].tree)
                      /\ \A p \in Added(i)' : p.bundle.platform = BundleOf[p.target.suffix]
    BY DEF CommittedAsReplayed, Builds
  <2>1. CASE i \in ByHarvest /\ main'[i] = main[i] /\ Added(i)' = Added(i)
    BY <2>1 DEF History, CommittedAsReplayed, Builds
  <2>2. CASE i = last /\ c.author # "developer"
    BY <1>1, <1>6, <2>2 DEF Builds, Proper
  <2> QED BY <1>7, <2>1, <2>2
<1>9. ChromeSetsAreWhole'
  <2> SUFFICES ASSUME NEW i \in ByHarvest', main'[i].author = "chrome"
               PROVE  \E version \in Versions :
                         Targets(Added(i)') = [suffix : Suffixes["chrome"], version : {version}]
    BY DEF ChromeSetsAreWhole, Targets
  <2>1. CASE i \in ByHarvest /\ main'[i] = main[i] /\ Added(i)' = Added(i)
    BY <2>1 DEF History, ChromeSetsAreWhole
  <2>2. CASE i = last /\ c.author # "developer"
    BY <1>1, <1>6, <2>2 DEF Proper
  <2> QED BY <1>7, <2>1, <2>2
<1> QED BY <1>4, <1>8, <1>9 DEF History
-----------------------------------------------------------------------------
(***************************************************************************)
(* Plans, tags and their number, across a step that is not about them.     *)
(***************************************************************************)

\* A plan fits as long as its run stays in its phase.
LEMMA FitsKept ==
  ASSUME Grouped, Extends, NEW f \in Families, Fits(f),
         phase'[f] \in {"replay", "commit"} =>
            /\ phase'[f] = phase[f] /\ group'[f].running = group[f].running
            /\ plan'[f] = plan[f] /\ replayed'[f] = replayed[f],
         phase'[f] \in {"idle", "capture"} => plan'[f] = {}
  PROVE  Fits(f)'
<1> SUFFICES ASSUME phase'[f] \in {"replay", "commit"}
             PROVE  Fits(f)'
  BY DEF Fits
<1>1. group[f].running \in 1..Len(main)
  BY DEF Grouped, Phased, Workflows, Extends
<1>2. Checkout(f)' = Checkout(f)
  BY <1>1 DEF Checkout, Extends
<1>3. Built(f)' = Built(f)
  BY <1>2 DEF Built
<1> QED BY <1>2, <1>3 DEF Fits, WellPlanned, OneEach, Targets, Builds

\* No tag is made, and a tag that is about to be pushed stays.
LEMMA TaggedKept ==
  ASSUME TypeOK, Grouped, Extends, Tagged, UNCHANGED tags,
         group'["release"].running # 0 =>
            \A t \in tags : t.commit <= group'["release"].running,
         phase'["release"] \in {"tag", "release"} =>
            /\ phase'["release"] = phase["release"] /\ next_tag' = next_tag
            /\ group'["release"].running = group["release"].running
  PROVE  Tagged'
<1> USE ReleaseIsNoFamily
<1>1. \A t \in tags : t.commit \in 1..Len(main) /\ main'[t.commit] = main[t.commit]
  BY DEF TypeOK, Tag, Tagged, Newest, Extends
<1>2. TagsAreOrdered'
  BY <1>1 DEF Tagged, TagsAreOrdered, ChromeMajors
<1>3. (\A t \in tags : t.commit <= Newest)'
  BY <1>1 DEF Newest, Extends
<1>4. (phase["release"] = "tag" =>
          /\ next_tag \in Tag /\ next_tag.commit = group["release"].running
          /\ \A v \in ChromeMajors(Checkout("release")) : v <= next_tag.major
          /\ next_tag.revision <= Cardinality(tags) + 1
          /\ \A t \in tags : t.major = next_tag.major => t.revision < next_tag.revision)'
  <2> SUFFICES ASSUME phase'["release"] = "tag"
               PROVE  (/\ next_tag \in Tag /\ next_tag.commit = group["release"].running
                       /\ \A v \in ChromeMajors(Checkout("release")) : v <= next_tag.major
                       /\ next_tag.revision <= Cardinality(tags) + 1
                       /\ \A t \in tags : t.major = next_tag.major =>
                             t.revision < next_tag.revision)'
    OBVIOUS
  <2>1. group["release"].running \in 1..Len(main)
    BY DEF Grouped, Phased, Extends
  <2>2. Checkout("release")' = Checkout("release")
    BY <2>1 DEF Checkout, Extends
  <2> QED BY <2>2 DEF Tagged, ChromeMajors
<1>5. (phase["release"] = "release" => next_tag \in tags)'
  BY DEF Tagged
<1> QED BY <1>2, <1>3, <1>4, <1>5 DEF Tagged

-----------------------------------------------------------------------------
(***************************************************************************)
(* What bundles are compiled into.                                         *)
(***************************************************************************)

\* The bundles of a harvest: one of each platform.
LEMMA Captured ==
  ASSUME NEW f \in Families, NEW bundles \in Captures(f)
  PROVE  /\ bundles \subseteq Bundle
         /\ \A b, c \in bundles : b.platform = c.platform => b = c
         /\ \A p \in Platforms[f] : \E b \in bundles : b.platform = p
<1>1. PICK version \in [Platforms[f] -> Versions], variant \in [Platforms[f] -> Variants] :
        bundles = {[platform |-> p, version |-> version[p], variant |-> variant[p]] :
                      p \in Platforms[f]}
  BY DEF Captures
<1>2. Platforms[f] \subseteq UNION {Platforms[g] : g \in AllFamilies}
  BY FamiliesAssumption
<1>3. bundles \subseteq Bundle
  BY <1>1, <1>2 DEF Bundle
<1>4. \A b \in bundles : b.platform \in Platforms[f] /\
         b = [platform |-> b.platform, version |-> version[b.platform],
              variant |-> variant[b.platform]]
  <2> SUFFICES ASSUME NEW p \in Platforms[f], NEW b,
                      b = [platform |-> p, version |-> version[p], variant |-> variant[p]]
               PROVE  b.platform = p
    BY <1>1
  <2> QED OBVIOUS
<1>5. ASSUME NEW p \in Platforms[f]
      PROVE  \E b \in bundles : b.platform = p
  <2> DEFINE b == [platform |-> p, version |-> version[p], variant |-> variant[p]]
  <2>1. b \in bundles /\ b.platform = p
    BY <1>1
  <2> QED BY <2>1
<1>6. \A b, c \in bundles : b.platform = c.platform => b = c
  BY <1>4
<1> QED BY <1>3, <1>5, <1>6

\* Of such bundles, each profile has the suffix and the version of its own.
LEMMA CandidatesFit ==
  ASSUME NEW f \in Families, NEW bundles \in Captures(f)
  PROVE  /\ Candidates(f, bundles) \subseteq Profile
         /\ OneEach(Candidates(f, bundles))
         /\ \A p \in Candidates(f, bundles) :
               /\ p.bundle \in bundles /\ p.bundle.platform = BundleOf[p.target.suffix]
               /\ p.target \in [suffix : Suffixes[f], version : {p.bundle.version}]
<1>1. \A p \in Candidates(f, bundles) :
         \E s \in Suffixes[f], b \in bundles :
            /\ b.platform = BundleOf[s]
            /\ p = [target |-> [suffix |-> s, version |-> b.version], bundle |-> b]
  BY DEF Candidates
<1>2. Suffixes[f] \subseteq DOMAIN BundleOf
  BY FamiliesAssumption DEF Suffixes, BundleOf, AllFamilies
<1>3. bundles \subseteq Bundle /\ \A b, c \in bundles : b.platform = c.platform => b = c
  BY Captured
<1>4. \A b \in bundles : b.version \in Versions
  BY <1>3 DEF Bundle
<1>5. ASSUME NEW p \in Candidates(f, bundles)
      PROVE  /\ p \in Profile
             /\ p.bundle \in bundles /\ p.bundle.platform = BundleOf[p.target.suffix]
             /\ p.target \in [suffix : Suffixes[f], version : {p.bundle.version}]
  <2>1. PICK s \in Suffixes[f], b \in bundles :
           /\ b.platform = BundleOf[s]
           /\ p = [target |-> [suffix |-> s, version |-> b.version], bundle |-> b]
    BY <1>1
  <2>2. p.target = [suffix |-> s, version |-> b.version] /\ p.bundle = b
    BY <2>1
  <2>3. p \in Profile
    BY <1>2, <1>3, <1>4, <2>1 DEF Profile, Target
  <2> QED BY <2>1, <2>2, <2>3
<1>6. ASSUME NEW p \in Candidates(f, bundles), NEW q \in Candidates(f, bundles),
             p.target = q.target
      PROVE  p = q
  <2>1. p.bundle = q.bundle
    BY <1>3, <1>5, <1>6
  <2>2. p \in Profile /\ q \in Profile
    BY <1>5
  <2> QED BY <1>6, <2>1, <2>2 DEF Profile
<1> QED BY <1>5, <1>6 DEF OneEach

\* What a harvest wants to add fits its checkout.
LEMMA WantedFits ==
  ASSUME NEW f \in Families, NEW bundles \in Captures(f), Wanted(f, bundles) # {}
  PROVE  Wanted(f, bundles) \subseteq Profile
         /\ WellPlanned(f, Wanted(f, bundles), Checkout(f))
<1> DEFINE candidates == Candidates(f, bundles)
           wanted     == Wanted(f, bundles)
<1>1. wanted = candidates \ Existing(f, candidates)
  BY DEF Wanted
<1>2. /\ candidates \subseteq Profile /\ OneEach(candidates)
      /\ \A p \in candidates :
            /\ p.bundle \in bundles /\ p.bundle.platform = BundleOf[p.target.suffix]
            /\ p.target \in [suffix : Suffixes[f], version : {p.bundle.version}]
  BY CandidatesFit
<1>3. bundles \subseteq Bundle
  BY Captured
<1> HIDE DEF candidates, wanted
<1>4. wanted \subseteq Profile /\ OneEach(wanted)
      /\ \A p \in wanted : p.bundle \in Bundle /\ p.bundle.platform = BundleOf[p.target.suffix]
  BY <1>1, <1>2, <1>3 DEF OneEach
<1>5. Targets(wanted) \cap Targets(Checkout(f).profiles) = {}
  BY <1>1 DEF Existing, Targets
<1>6. ASSUME f = "chrome"
      PROVE  \E version \in Versions :
                Targets(wanted) = [suffix : Suffixes["chrome"], version : {version}]
  <2>1. Converged(bundles) /\ wanted = candidates
    BY <1>1, <1>6 DEF Wanted, wanted, candidates
  <2>2. PICK version : {b.version : b \in bundles} = {version}
    <3>1. {b.version : b \in bundles} \in SUBSET (1..MaxVersion)
      BY <1>3 DEF Bundle, Versions
    <3>2. IsFiniteSet({b.version : b \in bundles})
      <4>1. IsFiniteSet(1..MaxVersion)
        BY MaxAssumption, FS_Interval
      <4> QED BY <3>1, <4>1, FS_Subset
    <3>3. Cardinality({b.version : b \in bundles}) = 1
      BY <2>1 DEF Converged
    <3> QED BY <3>2, <3>3, FS_Singleton
  <2>3. \A b \in bundles : b.version = version
    BY <2>2
  <2>4. version \in Versions
    BY <1>3, <2>2 DEF Bundle
  <2>5. Targets(wanted) \subseteq [suffix : Suffixes["chrome"], version : {version}]
    BY <1>2, <1>6, <2>1, <2>3 DEF Targets
  <2>6. ASSUME NEW t \in [suffix : Suffixes["chrome"], version : {version}]
        PROVE  t \in Targets(wanted)
    <3>1. t.suffix \in Suffixes["chrome"] /\ t = [suffix |-> t.suffix, version |-> version]
      OBVIOUS
    <3>2. BundleOf[t.suffix] \in Platforms["chrome"]
      BY <3>1 DEF Suffixes, BundleOf, Platforms
    <3>3. PICK b \in bundles : b.platform = BundleOf[t.suffix]
      BY <1>6, <3>2, Captured
    <3>4. [target |-> t, bundle |-> b] \in candidates
      <4>1. PICK x \in Suffixes[f] \X bundles : x[1] = t.suffix /\ x[2] = b
        <5>1. <<t.suffix, b>> \in Suffixes[f] \X bundles
          BY <1>6, <3>1
        <5> QED BY <5>1
      <4>2. [target |-> [suffix |-> x[1], version |-> x[2].version], bundle |-> x[2]] \in candidates
        BY <3>3, <4>1 DEF candidates, Candidates
      <4> QED BY <2>3, <3>1, <4>1, <4>2
    <3> QED BY <2>1, <3>4 DEF Targets
  <2> QED BY <2>4, <2>5, <2>6
<1> QED BY <1>4, <1>5, <1>6 DEF WellPlanned, wanted

-----------------------------------------------------------------------------
(***************************************************************************)
(* The invariant, action by action.                                        *)
(***************************************************************************)

LEMMA Parts ==
  ASSUME IInv
  PROVE  /\ TypeOK /\ Grouped /\ History /\ Planned /\ Tagged /\ Counted
         /\ Len(main) \in Nat \ {0} /\ Len(main) \in 1..MaxCommits
BY MaxAssumption DEF IInv, TypeOK, Grouped, History

LEMMA Whole ==
  ASSUME Grouped', History', Planned', Tagged', Counted',
         main' \in Seq(Commit) /\ Len(main') \in 1..MaxCommits,
         plan' \in [Families -> SUBSET Profile],
         \A f \in Families : replayed'[f] \subseteq plan'[f],
         next_tag' \in Tag \cup {NoTag},
         tags' \subseteq Tag /\ building' \subseteq tags' /\ published' \subseteq tags',
         lost' \in BOOLEAN
  PROVE  IInv'
BY DEF IInv, TypeOK, Grouped, History

LEMMA PlannedKept ==
  ASSUME Grouped, Extends, Planned, replayed' \in [Families -> SUBSET Profile],
         \A f \in Families :
            phase'[f] \in {"replay", "commit"} =>
               /\ phase'[f] = phase[f] /\ group'[f].running = group[f].running
               /\ plan'[f] = plan[f] /\ replayed'[f] = replayed[f],
         \A f \in Families : phase'[f] \in {"idle", "capture"} => plan'[f] = {}
  PROVE  Planned'
<1>1. ASSUME NEW f \in Families
      PROVE  Fits(f)'
  <2>1. Fits(f)
    BY DEF Planned
  <2> QED BY <2>1, FitsKept
<1> QED BY <1>1 DEF Planned

\* A step that leaves the tagging workflow alone.
LEMMA HarvestOnly ==
  ASSUME IInv, Extends, UNCHANGED <<tags, next_tag>>,
         group'["release"] = group["release"], phase'["release"] = phase["release"]
  PROVE  Tagged' /\ Counted'
<1>1. TypeOK /\ Grouped /\ Tagged /\ Counted
  BY Parts
<1>2. group'["release"].running # 0 => \A t \in tags : t.commit <= group'["release"].running
  BY <1>1 DEF Tagged
<1>3. Tagged'
  BY <1>1, <1>2, TaggedKept
<1> QED BY <1>1, <1>3 DEF Counted

LEMMA StartHarvestKeeps ==
  ASSUME IInv, NEW f \in Families, StartHarvest(f)
  PROVE  IInv'
<1> USE ReleaseIsNoFamily
<1>1. /\ TypeOK /\ Grouped /\ History /\ Planned
      /\ Len(main) \in Nat \ {0} /\ Len(main) \in 1..MaxCommits
  BY Parts
<1>2. Trigger(f, Newest) /\ UNCHANGED <<main, plan, replayed>>
      /\ UNCHANGED <<next_tag, tags, building, published>> /\ UNCHANGED lost
  BY DEF StartHarvest, harvest, release
<1>3. f \in Workflows /\ f # "release" /\ Newest \in 1..Len(main')
  BY <1>1, <1>2 DEF Workflows, Newest
<1>4. Extends
  BY <1>1, <1>2, NoCommit
<1>5. Grouped'
  BY <1>1, <1>2, <1>3, TriggerGrouped DEF Newest
<1>6. History'
  BY <1>1, <1>2, HistoryKept
<1>7. Planned'
  <2>1. replayed' \in [Families -> SUBSET Profile]
    BY <1>1, <1>2 DEF Planned
  <2>2. ASSUME NEW g \in Families, phase'[g] \in {"replay", "commit"}
        PROVE  phase'[g] = phase[g] /\ group'[g].running = group[g].running
    <3>1. CASE g # f
      BY <1>1, <1>2, <3>1 DEF Trigger, Grouped, Workflows
    <3>2. CASE g = f
      <4>1. phase[f] # "idle" /\ phase'[f] = phase[f]
        BY <1>1, <1>2, <1>3, <2>2, <3>2 DEF Trigger, Grouped, FirstPhase
      <4>2. group[f].running # 0
        BY <1>1, <1>3, <4>1 DEF Grouped, Phased
      <4>3. group'[f] = [group[f] EXCEPT !.pending = Newest]
        BY <1>1, <1>2, <1>3, <4>2 DEF Trigger, Grouped, Queued
      <4>4. group[f] \in [running : 0..Len(main), pending : 0..Len(main)]
        BY <1>1, <1>3 DEF Grouped
      <4> QED BY <3>2, <4>1, <4>3, <4>4
    <3> QED BY <3>1, <3>2
  <2>3. ASSUME NEW g \in Families, phase'[g] \in {"idle", "capture"}
        PROVE  plan'[g] = {}
    <3>1. phase[g] \in {"idle", "capture"}
      BY <1>1, <1>2, <2>3 DEF Trigger, Grouped, Workflows
    <3> QED BY <1>1, <1>2, <3>1 DEF Planned, Fits
  <2> QED BY <1>1, <1>2, <1>4, <2>1, <2>2, <2>3, PlannedKept
<1>8. Tagged' /\ Counted'
  <2>1. group'["release"] = group["release"] /\ phase'["release"] = phase["release"]
    BY <1>1, <1>2, <1>3 DEF Trigger, Grouped
  <2> QED BY <1>2, <1>4, <2>1, HarvestOnly
<1> QED BY <1>1, <1>2, <1>5, <1>6, <1>7, <1>8, Whole DEF TypeOK

\* A harvest ends, with or without anything done.
LEMMA HarvestEnds ==
  ASSUME IInv, NEW f \in Families, End(f), Forget(f), UNCHANGED <<main, release>>,
         lost' \in BOOLEAN
  PROVE  IInv'
<1> USE ReleaseIsNoFamily
<1>1. /\ TypeOK /\ Grouped /\ History /\ Planned
      /\ Len(main) \in Nat \ {0} /\ Len(main) \in 1..MaxCommits
  BY Parts
<1>2. UNCHANGED main /\ UNCHANGED <<next_tag, tags, building, published>>
  BY DEF release
<1>3. f \in Workflows /\ f # "release"
  BY DEF Workflows
<1>4. Extends
  BY <1>1, <1>2, NoCommit
<1>5. Grouped'
  BY <1>1, <1>2, <1>3, EndGrouped
<1>6. History'
  BY <1>1, <1>2, HistoryKept
<1>7. /\ plan' \in [Families -> SUBSET Profile] /\ replayed' \in [Families -> SUBSET Profile]
      /\ \A g \in Families : replayed'[g] \subseteq plan'[g]
      /\ \A g \in Families \ {f} : plan'[g] = plan[g] /\ replayed'[g] = replayed[g]
  BY <1>1 DEF TypeOK, Planned, Forget
<1>8. phase'[f] \in {"idle", "capture"}
  BY <1>1, <1>3 DEF Grouped, End, AfterEnd, FirstPhase
<1>9. \A w \in Workflows \ {f} : group'[w] = group[w] /\ phase'[w] = phase[w]
  BY <1>1 DEF Grouped, End
<1>10. Planned'
  <2>1. \A g \in Families : phase'[g] \in {"replay", "commit"} => g # f /\ g \in Workflows
    BY <1>8 DEF Workflows
  <2>2. \A g \in Families : phase'[g] \in {"idle", "capture"} => plan'[g] = {}
    BY <1>1, <1>7, <1>9 DEF Workflows, Planned, Fits, Forget, TypeOK
  <2> QED BY <1>1, <1>4, <1>7, <1>9, <2>1, <2>2, PlannedKept
<1>11. Tagged' /\ Counted'
  <2>1. group'["release"] = group["release"] /\ phase'["release"] = phase["release"]
    BY <1>3, <1>9
  <2> QED BY <1>2, <1>4, <2>1, HarvestOnly
<1> QED BY <1>1, <1>2, <1>5, <1>6, <1>7, <1>10, <1>11, Whole DEF TypeOK

LEMMA PrepareKeeps ==
  ASSUME IInv, NEW f \in Families, Prepare(f)
  PROVE  IInv'
<1> USE ReleaseIsNoFamily
<1>1. /\ TypeOK /\ Grouped /\ History /\ Planned
      /\ Len(main) \in Nat \ {0} /\ Len(main) \in 1..MaxCommits
  BY Parts
<1>2. PICK bundles \in Captures(f) :
         IF Wanted(f, bundles) = {}
         THEN End(f) /\ Forget(f)
         ELSE /\ plan' = [plan EXCEPT ![f] = Wanted(f, bundles)]
              /\ phase' = [phase EXCEPT ![f] = "replay"]
              /\ UNCHANGED <<group, replayed>>
  BY DEF Prepare
<1>3. phase[f] = "capture" /\ UNCHANGED <<main, release, lost>>
  BY DEF Prepare
<1>4. UNCHANGED main /\ UNCHANGED <<next_tag, tags, building, published>> /\ UNCHANGED lost
  BY <1>3 DEF release
<1>5. f \in Workflows /\ f # "release"
  BY DEF Workflows
<1>6. CASE Wanted(f, bundles) = {}
  BY <1>1, <1>2, <1>3, <1>4, <1>6, HarvestEnds DEF TypeOK
<1>7. CASE Wanted(f, bundles) # {}
  <2>1. /\ plan' = [plan EXCEPT ![f] = Wanted(f, bundles)]
        /\ phase' = [phase EXCEPT ![f] = "replay"]
        /\ UNCHANGED group /\ UNCHANGED replayed
    BY <1>2, <1>7
  <2>2. Wanted(f, bundles) \subseteq Profile /\ WellPlanned(f, Wanted(f, bundles), Checkout(f))
    BY <1>7, WantedFits
  <2>3. Extends
    BY <1>1, <1>4, NoCommit
  <2>4. Grouped'
    <3>1. "replay" \in IF f = "release" THEN {"tag", "release"}
                       ELSE {"replay", "commit", "dispatch"}
      BY <1>5
    <3>2. phase[f] # "idle" /\ Len(main) <= Len(main')
      BY <1>1, <1>3, <1>4
    <3> QED BY <1>1, <1>4, <1>5, <2>1, <3>1, <3>2, PhaseGrouped
  <2>5. History'
    BY <1>1, <1>4, HistoryKept
  <2>6. plan' \in [Families -> SUBSET Profile]
    BY <1>1, <2>1, <2>2 DEF TypeOK
  <2>7. \A g \in Families : replayed'[g] \subseteq plan'[g]
    <3>1. plan[f] = {}
      BY <1>1, <1>3 DEF Planned, Fits
    <3>2. replayed[f] = {}
      BY <1>1, <3>1 DEF TypeOK
    <3> QED BY <1>1, <2>1, <3>2 DEF TypeOK
  <2>8. Planned'
    <3>1. replayed' \in [Families -> SUBSET Profile]
      BY <1>1, <2>1 DEF Planned
    <3>2. ASSUME NEW g \in Families
          PROVE  Fits(g)'
      <4>1. CASE g = f
        <5>1. phase'[g] = "replay" /\ plan'[g] = Wanted(f, bundles)
          BY <1>1, <1>5, <2>1, <4>1 DEF TypeOK
        <5>2. Checkout(g)' = Checkout(f)
          BY <1>4, <2>1, <4>1 DEF Checkout
        <5>3. WellPlanned(g, plan'[g], Checkout(g)')
          BY <2>2, <4>1, <5>1, <5>2
        <5>4. WellPlanned(g, plan[g], Checkout(g))'
          BY <5>3 DEF WellPlanned, OneEach, Targets
        <5> QED BY <5>1, <5>4 DEF Fits
      <4>2. CASE g # f
        <5>1. Fits(g)
          BY <1>1 DEF Planned
        <5>2. phase'[g] = phase[g] /\ plan'[g] = plan[g]
          BY <1>1, <2>1, <4>2 DEF TypeOK, Workflows
        <5> QED BY <1>1, <2>1, <2>3, <5>1, <5>2, FitsKept DEF Fits
      <4> QED BY <4>1, <4>2
    <3> QED BY <3>1, <3>2 DEF Planned
  <2>9. Tagged' /\ Counted'
    <3>1. group'["release"] = group["release"] /\ phase'["release"] = phase["release"]
      BY <1>1, <1>5, <2>1 DEF TypeOK
    <3> QED BY <1>4, <2>3, <3>1, HarvestOnly
  <2> QED BY <1>1, <1>4, <2>4, <2>5, <2>6, <2>7, <2>8, <2>9, Whole DEF TypeOK
<1> QED BY <1>6, <1>7

LEMMA ReplayKeeps ==
  ASSUME IInv, NEW f \in Families, Replay(f)
  PROVE  IInv'
<1> USE ReleaseIsNoFamily
<1>1. /\ TypeOK /\ Grouped /\ History /\ Planned
      /\ Len(main) \in Nat \ {0} /\ Len(main) \in 1..MaxCommits
  BY Parts
<1>2. /\ phase[f] = "replay" /\ Builds(Built(f))
      /\ replayed' = [replayed EXCEPT ![f] = plan[f]]
      /\ phase' = [phase EXCEPT ![f] = "commit"]
      /\ UNCHANGED <<main, group, plan, lost>>
      /\ UNCHANGED <<next_tag, tags, building, published>>
  BY DEF Replay, Matched, release
<1>3. f \in Workflows /\ f # "release"
  BY DEF Workflows
<1>4. Extends
  BY <1>1, <1>2, NoCommit
<1>5. Grouped'
  <2>1. "commit" \in IF f = "release" THEN {"tag", "release"}
                     ELSE {"replay", "commit", "dispatch"}
    BY <1>3
  <2>2. phase[f] # "idle" /\ Len(main) <= Len(main')
    BY <1>1, <1>2
  <2> QED BY <1>1, <1>2, <1>3, <2>1, <2>2, PhaseGrouped
<1>6. History'
  BY <1>1, <1>2, HistoryKept
<1>7. /\ replayed' \in [Families -> SUBSET Profile]
      /\ \A g \in Families : replayed'[g] \subseteq plan'[g]
  BY <1>1, <1>2 DEF TypeOK, Planned
<1>8. Planned'
  <2>1. ASSUME NEW g \in Families
        PROVE  Fits(g)'
    <3>1. Fits(g)
      BY <1>1 DEF Planned
    <3>2. CASE g = f
      <4>1. phase'[g] = "commit" /\ replayed'[g] = plan[g] /\ plan'[g] = plan[g]
        BY <1>1, <1>2, <1>3, <3>2 DEF TypeOK, Planned
      <4>2. Checkout(g)' = Checkout(g)
        BY <1>2 DEF Checkout
      <4>3. Built(g)' = Built(g)
        BY <1>2, <4>2 DEF Built
      <4>4. WellPlanned(g, plan[g], Checkout(g)) /\ Builds(Built(g))
        BY <1>2, <3>1, <3>2 DEF Fits
      <4>5. WellPlanned(g, plan'[g], Checkout(g)') /\ Builds(Built(g)')
        BY <4>1, <4>2, <4>3, <4>4
      <4>6. WellPlanned(g, plan[g], Checkout(g))' /\ Builds(Built(g))'
        BY <4>5 DEF WellPlanned, OneEach, Targets, Builds
      <4> QED BY <4>1, <4>6 DEF Fits
    <3>3. CASE g # f
      <4>1. phase'[g] = phase[g] /\ replayed'[g] = replayed[g] /\ plan'[g] = plan[g]
        BY <1>1, <1>2, <3>3 DEF TypeOK, Workflows, Planned
      <4> QED BY <1>1, <1>2, <1>4, <3>1, <4>1, FitsKept DEF Fits
    <3> QED BY <3>2, <3>3
  <2> QED BY <1>7, <2>1 DEF Planned
<1>9. Tagged' /\ Counted'
  <2>1. group'["release"] = group["release"] /\ phase'["release"] = phase["release"]
    BY <1>1, <1>2, <1>3 DEF TypeOK
  <2> QED BY <1>2, <1>4, <2>1, HarvestOnly
<1> QED BY <1>1, <1>2, <1>5, <1>6, <1>7, <1>8, <1>9, Whole DEF TypeOK

\* What the push of a harvest makes of main: no profile it adds was there, and all it
\* adds were replayed.
LEMMA PushedProfiles ==
  ASSUME IInv, NEW f \in Families, Push(f)
  PROVE  LET c == [tree |-> Built(f), author |-> f, replayed |-> replayed[f]] IN
         /\ Commits(c) /\ Proper(c)
         /\ c.tree.source = main[Newest].tree.source
         /\ c.tree.profiles = main[Newest].tree.profiles \cup plan[f]
<1> DEFINE c == [tree |-> Built(f), author |-> f, replayed |-> replayed[f]]
           before == main[Newest].tree
<1>1. /\ TypeOK /\ Grouped /\ History /\ Planned
      /\ Len(main) \in Nat \ {0} /\ Len(main) \in 1..MaxCommits
  BY Parts
<1>2. phase[f] = "commit" /\ FastForward(f) /\ Newest < MaxCommits /\ main' = Append(main, c)
  BY DEF Push
<1>3. Newest \in 1..Len(main) /\ Newest \in DOMAIN main /\ main[Newest] \in Commit
  BY <1>1, LenProperties, ElementOfSeq DEF TypeOK, Newest
<1>4. before \in Tree /\ before.source < Len(main) /\ OneEach(before.profiles)
  BY <1>1, <1>3 DEF Commit, History, Numbered, Filed, Newest
<1>5. Checkout(f) = before
  BY <1>2 DEF FastForward, Checkout
<1>6. Fits(f) /\ plan[f] \subseteq Profile
  BY <1>1 DEF Planned, TypeOK
<1>7. WellPlanned(f, plan[f], before) /\ replayed[f] = plan[f] /\ Builds(Built(f))
  BY <1>2, <1>5, <1>6 DEF Fits
<1> HIDE DEF before
<1>8. Built(f) = [before EXCEPT !.profiles = before.profiles \cup plan[f]]
  BY <1>5 DEF Built
<1>9. /\ Built(f) \in Tree /\ Built(f).source = before.source
      /\ Built(f).profiles = before.profiles \cup plan[f]
  BY <1>4, <1>6, <1>8 DEF Tree
<1>10. c \in Commit
  BY <1>6, <1>7, <1>9, FamiliesAssumption DEF Commit
<1>11. OneEach(Built(f).profiles)
  BY <1>4, <1>7, <1>9 DEF OneEach, WellPlanned, Targets
<1>12. Built(f).profiles \ before.profiles = plan[f]
  BY <1>7, <1>9 DEF WellPlanned, Targets
<1>13. Proper(c)
  <2>1. c.tree.source < Len(main) + 1
    BY <1>1, <1>4, <1>9 DEF Tree
  <2>2. LET added == c.tree.profiles \ main[Newest].tree.profiles IN
        /\ added \subseteq c.replayed
        /\ Builds(c.tree)
        /\ \A p \in added : p.bundle.platform = BundleOf[p.target.suffix]
        /\ c.author = "chrome" =>
              \E version \in Versions :
                 Targets(added) = [suffix : Suffixes["chrome"], version : {version}]
    BY <1>7, <1>12 DEF before, WellPlanned
  <2> QED BY <1>11, <2>1, <2>2 DEF Proper
<1> QED BY <1>2, <1>9, <1>10, <1>13 DEF Commits, before

LEMMA PushKeeps ==
  ASSUME IInv, NEW f \in Families, Push(f)
  PROVE  IInv'
<1> USE ReleaseIsNoFamily
<1>1. /\ TypeOK /\ Grouped /\ History /\ Planned /\ Tagged /\ Counted
      /\ Len(main) \in Nat \ {0} /\ Len(main) \in 1..MaxCommits
  BY Parts
<1>2. PICK c : Commits(c) /\ Proper(c)
  BY PushedProfiles
<1>3. /\ phase[f] = "commit" /\ phase' = [phase EXCEPT ![f] = "dispatch"]
      /\ Newest < MaxCommits /\ UNCHANGED <<group, plan, replayed, lost>>
      /\ UNCHANGED <<next_tag, tags, building, published>>
  BY DEF Push, harvest, release
<1>4. f \in Workflows /\ f # "release"
  BY DEF Workflows
<1>5. main' \in Seq(Commit) /\ Len(main') = Len(main) + 1 /\ Extends
  BY <1>1, <1>2, OneCommit
<1>6. Len(main') \in 1..MaxCommits
  BY <1>1, <1>3, <1>5, MaxAssumption DEF Newest
<1>7. Grouped'
  <2>1. "dispatch" \in IF f = "release" THEN {"tag", "release"}
                       ELSE {"replay", "commit", "dispatch"}
    BY <1>4
  <2>2. phase[f] # "idle" /\ Len(main) <= Len(main') /\ Len(main') \in Nat
    BY <1>1, <1>3, <1>5
  <2> QED BY <1>1, <1>3, <1>4, <2>1, <2>2, PhaseGrouped
<1>8. History'
  BY <1>1, <1>2, HistoryGrows
<1>9. \A w \in Workflows \ {f} : phase'[w] = phase[w]
  BY <1>1, <1>3 DEF TypeOK
<1>10. phase'[f] = "dispatch"
  BY <1>1, <1>3, <1>4 DEF TypeOK
<1>11. Planned'
  <2>1. replayed' \in [Families -> SUBSET Profile]
    BY <1>1, <1>3 DEF Planned
  <2>2. \A g \in Families : phase'[g] # "dispatch" => phase'[g] = phase[g]
    BY <1>9, <1>10 DEF Workflows
  <2>3. \A g \in Families : phase'[g] \in {"idle", "capture"} => plan'[g] = {}
    BY <1>1, <1>3, <2>2 DEF Planned, Fits
  <2> QED BY <1>1, <1>3, <1>5, <2>1, <2>2, <2>3, PlannedKept
<1>12. group'["release"] = group["release"] /\ phase'["release"] = phase["release"]
  BY <1>3, <1>4, <1>9
<1>13. Tagged' /\ Counted'
  BY <1>3, <1>5, <1>12, HarvestOnly
<1> QED BY <1>1, <1>3, <1>5, <1>6, <1>7, <1>8, <1>11, <1>13, Whole DEF TypeOK

LEMMA DispatchKeeps ==
  ASSUME IInv, NEW f \in Families, Dispatch(f)
  PROVE  IInv'
<1> USE ReleaseIsNoFamily
<1>1. /\ TypeOK /\ Grouped /\ History /\ Planned /\ Tagged /\ Counted
      /\ Len(main) \in Nat \ {0} /\ Len(main) \in 1..MaxCommits
  BY Parts
<1>2. f \in Workflows /\ f # "release"
  BY DEF Workflows
<1>3. /\ phase[f] = "dispatch" /\ Forget(f)
      /\ UNCHANGED main /\ UNCHANGED <<next_tag, tags, building, published>> /\ UNCHANGED lost
  BY DEF Dispatch, release
<1>4. /\ group'["release"] = Queued(group["release"], Newest)
      /\ phase'["release"] = IF phase["release"] = "idle" THEN "compute" ELSE phase["release"]
      /\ group'[f] = Ended(group[f]) /\ phase'[f] = AfterEnd(f)
      /\ \A w \in Workflows \ {f, "release"} : group'[w] = group[w] /\ phase'[w] = phase[w]
      /\ group' = [w \in Workflows |-> group'[w]] /\ phase' = [w \in Workflows |-> phase'[w]]
  BY <1>1, <1>2 DEF Dispatch, Grouped
<1>5. \A w \in Workflows :
         /\ group[w] \in [running : 0..Len(main), pending : 0..Len(main)]
         /\ phase[w] = "idle" <=> group[w].running = 0
         /\ group[w].pending # 0 => group[w].running \in 1..group[w].pending
  BY <1>1 DEF Grouped, Phased
<1>6. /\ phase["release"] \in {"idle", "compute", "tag", "release"}
      /\ \A g \in Families : phase[g] \in {"idle", "capture", "replay", "commit", "dispatch"}
  BY <1>1 DEF Grouped, Phased
<1>7. Extends
  BY <1>1, <1>3, NoCommit
<1>8. Grouped'
  <2>1. ASSUME NEW w \in Workflows
        PROVE  /\ group'[w] \in [running : 0..Len(main), pending : 0..Len(main)]
               /\ phase'[w] \in IF w = "release" THEN {"idle", "compute", "tag", "release"}
                                ELSE {"idle", "capture", "replay", "commit", "dispatch"}
               /\ phase'[w] = "idle" <=> group'[w].running = 0
               /\ group'[w].pending # 0 => group'[w].running \in 1..group'[w].pending
    <3>1. CASE w = "release"
      BY <1>1, <1>4, <1>5, <1>6, <3>1 DEF Queued, Newest
    <3>2. CASE w = f
      BY <1>1, <1>2, <1>4, <1>5, <3>2 DEF Ended, AfterEnd, FirstPhase
    <3>3. CASE w \notin {f, "release"}
      <4>1. w \in Families
        BY <3>3 DEF Workflows
      <4> QED BY <1>4, <1>5, <1>6, <3>3, <4>1
    <3> QED BY <3>1, <3>2, <3>3
  <2>2. \A w \in Families : w \in Workflows /\ w # "release"
    BY DEF Workflows
  <2>3. group' \in [Workflows -> [running : 0..Len(main), pending : 0..Len(main)]]
    BY <1>4, <2>1
  <2>4. phase' \in [Workflows -> {"idle", "capture", "replay", "commit",
                                "dispatch", "compute", "tag", "release"}]
    <3>1. \A w \in Workflows : phase'[w] \in {"idle", "capture", "replay", "commit",
                                           "dispatch", "compute", "tag", "release"}
      BY <2>1
    <3> QED BY <1>4, <3>1
  <2>5. Phased'
    BY <2>1, <2>2 DEF Phased
  <2> QED BY <1>3, <2>3, <2>4, <2>5 DEF Grouped
<1>9. History'
  BY <1>1, <1>3, HistoryKept
<1>10. /\ plan' \in [Families -> SUBSET Profile] /\ replayed' \in [Families -> SUBSET Profile]
       /\ \A g \in Families : replayed'[g] \subseteq plan'[g]
       /\ \A g \in Families \ {f} : plan'[g] = plan[g] /\ replayed'[g] = replayed[g]
       /\ plan'[f] = {}
  BY <1>1, <1>3 DEF TypeOK, Planned, Forget
<1>11. phase'[f] \in {"idle", "capture"}
  BY <1>2, <1>4 DEF AfterEnd, FirstPhase
<1>12. \A g \in Families \ {f} : phase'[g] = phase[g] /\ group'[g] = group[g]
  BY <1>4 DEF Workflows
<1>13. Planned'
  <2>1. \A g \in Families : phase'[g] \in {"replay", "commit"} => g # f
    BY <1>11
  <2>2. \A g \in Families : phase'[g] \in {"idle", "capture"} => plan'[g] = {}
    BY <1>1, <1>10, <1>12 DEF Planned, Fits
  <2> QED BY <1>1, <1>7, <1>10, <1>12, <2>1, <2>2, PlannedKept
<1>14. Tagged'
  <2>1. \A t \in tags : t.commit <= Newest
    BY <1>1 DEF Tagged
  <2>2. /\ group["release"].running = 0 => group'["release"].running = Newest
        /\ group["release"].running # 0 => group'["release"].running = group["release"].running
    BY <1>4, <1>5 DEF Queued
  <2>3. group'["release"].running # 0 => \A t \in tags : t.commit <= group'["release"].running
    BY <1>1, <2>1, <2>2 DEF Tagged
  <2>4. phase'["release"] \in {"tag", "release"} =>
           /\ phase'["release"] = phase["release"]
           /\ group'["release"].running = group["release"].running
    BY <1>4, <1>5, <2>2
  <2> QED BY <1>1, <1>3, <1>7, <2>3, <2>4, TaggedKept
<1>15. Counted'
  BY <1>1, <1>3 DEF Counted
<1> QED BY <1>1, <1>3, <1>8, <1>9, <1>10, <1>13, <1>14, <1>15, Whole DEF TypeOK

LEMMA FailHarvestKeeps ==
  ASSUME IInv, NEW f \in Families, FailHarvest(f)
  PROVE  IInv'
<1>1. End(f) /\ Forget(f) /\ UNCHANGED main /\ UNCHANGED release /\ lost' \in BOOLEAN
  BY Parts DEF FailHarvest, TypeOK
<1> QED BY <1>1, HarvestEnds

\* A step of the tagging workflow leaves the harvests alone.
LEMMA HarvestsKept ==
  ASSUME IInv, UNCHANGED <<main, harvest>>,
         \A f \in Families : phase'[f] = phase[f] /\ group'[f] = group[f]
  PROVE  /\ Extends /\ History' /\ Planned'
         /\ plan' \in [Families -> SUBSET Profile]
         /\ \A f \in Families : replayed'[f] \subseteq plan'[f]
<1>1. TypeOK /\ Grouped /\ History /\ Planned
  BY Parts
<1>2. UNCHANGED main /\ UNCHANGED plan /\ UNCHANGED replayed
  BY DEF harvest
<1>3. Extends /\ History'
  BY <1>1, <1>2, NoCommit, HistoryKept
<1>4. Planned'
  <2>1. /\ replayed' \in [Families -> SUBSET Profile]
        /\ \A f \in Families : phase'[f] \in {"idle", "capture"} => plan'[f] = {}
    BY <1>1, <1>2 DEF Planned, Fits
  <2> QED BY <1>1, <1>2, <1>3, <2>1, PlannedKept
<1> QED BY <1>1, <1>2, <1>3, <1>4 DEF TypeOK

\* What the tagging workflow sees of the profiles of its checkout.
LEMMA MajorsAreVersions ==
  ASSUME TypeOK, Grouped, phase["release"] # "idle"
  PROVE  /\ group["release"].running \in 1..Len(main)
         /\ ChromeMajors(Checkout("release")) \subseteq 1..MaxVersion
<1>1. group["release"].running \in 1..Len(main)
  BY ReleaseIsNoFamily DEF Grouped, Phased
<1>2. main[group["release"].running] \in Commit
  BY <1>1, ElementOfSeq DEF TypeOK
<1>3. Checkout("release").profiles \subseteq Profile
  BY <1>2 DEF Checkout, Commit, Tree
<1> QED BY <1>1, <1>3 DEF ChromeMajors, Profile, Target, Versions

LEMMA ComputeTagKeeps ==
  ASSUME IInv, ComputeTag
  PROVE  IInv'
<1> DEFINE majors == ChromeMajors(Checkout("release"))
           major  == NewestMajor(majors)
           taken  == {0} \cup Revisions(major)
<1> USE ReleaseIsNoFamily
<1>1. /\ TypeOK /\ Grouped /\ Tagged /\ Counted
      /\ Len(main) \in Nat \ {0} /\ Len(main) \in 1..MaxCommits
  BY Parts
<1>2. /\ phase["release"] = "compute" /\ majors # {}
      /\ next_tag' = [major |-> major, revision |-> Max(taken) + 1,
                      commit |-> group["release"].running]
      /\ phase' = [phase EXCEPT !["release"] = "tag"]
      /\ UNCHANGED <<main, group, harvest, tags, building, published, lost>>
  BY DEF ComputeTag
<1>3. group["release"].running \in 1..Len(main) /\ majors \subseteq 1..MaxVersion
  BY <1>1, <1>2, MajorsAreVersions
<1>4. major \in majors /\ \A v \in majors : v <= major
  <2>1. majors \in SUBSET Nat /\ \A v \in majors : v <= MaxVersion
    BY <1>3, MaxAssumption
  <2> HIDE DEF majors
  <2> QED BY <1>2, <2>1, MaxAssumption, MaxIsGreatest DEF NewestMajor
<1>5. Cardinality(tags) \in Nat /\ \A t \in tags : t.revision \in 1..Cardinality(tags)
  BY <1>1, FS_CardinalityType DEF Counted, TypeOK, Tag
<1>6. Max(taken) \in 0..Cardinality(tags) /\ \A r \in taken : r <= Max(taken)
  <2>1. taken \in SUBSET Nat /\ taken # {} /\ \A r \in taken : r <= Cardinality(tags)
    BY <1>5 DEF Revisions
  <2> HIDE DEF taken
  <2>2. Max(taken) \in taken /\ \A r \in taken : r <= Max(taken)
    BY <1>5, <2>1, MaxIsGreatest
  <2>3. Max(taken) \in Nat /\ Max(taken) <= Cardinality(tags)
    BY <2>1, <2>2
  <2> QED BY <1>5, <2>2, <2>3
<1>7. \A t \in tags : t.major = major => t.revision \in taken
  BY DEF Revisions
<1> HIDE DEF majors, major, taken
<1>9. next_tag' \in Tag
  <2>1. major \in Versions
    BY <1>3, <1>4 DEF Versions
  <2>2. Max(taken) + 1 \in Nat \ {0} /\ group["release"].running \in 1..MaxCommits
    BY <1>1, <1>3, <1>5, <1>6, MaxAssumption
  <2> QED BY <1>2, <2>1, <2>2 DEF Tag
<1>10. /\ \A f \in Families : phase'[f] = phase[f] /\ group'[f] = group[f]
       /\ phase'["release"] = "tag" /\ group'["release"] = group["release"]
  BY <1>1, <1>2 DEF TypeOK, Workflows
<1>11. /\ Extends /\ History' /\ Planned' /\ plan' \in [Families -> SUBSET Profile]
       /\ \A f \in Families : replayed'[f] \subseteq plan'[f]
   BY <1>2, <1>10, HarvestsKept
<1>12. Grouped'
  <2>1. PICK w \in Workflows : w = "release"
    OBVIOUS
  <2>2. "tag" \in IF w = "release" THEN {"tag", "release"} ELSE {"replay", "commit", "dispatch"}
    BY <2>1
  <2>3. phase[w] # "idle" /\ phase' = [phase EXCEPT ![w] = "tag"] /\ Len(main) <= Len(main')
    BY <1>1, <1>2, <2>1
  <2> QED BY <1>1, <1>2, <2>2, <2>3, PhaseGrouped
<1>13. Tagged'
  <2>1. TagsAreOrdered' /\ (\A t \in tags : t.commit <= Newest)'
    BY <1>1, <1>2 DEF Tagged, TagsAreOrdered, ChromeMajors, Newest
  <2>2. \A t \in tags' : t.commit <= group'["release"].running
    BY <1>1, <1>2, <1>3 DEF Tagged
  <2>3. ChromeMajors(Checkout("release"))' = majors
    BY <1>2 DEF majors, ChromeMajors, Checkout
  <2>4. /\ next_tag'.commit = group'["release"].running /\ next_tag'.major = major
        /\ next_tag'.revision = Max(taken) + 1
    BY <1>2
  <2>5. next_tag'.revision <= Cardinality(tags') + 1
    BY <1>2, <1>5, <1>6, <2>4
  <2>6. \A t \in tags' : t.major = next_tag'.major => t.revision < next_tag'.revision
    BY <1>2, <1>5, <1>6, <1>7, <2>4
  <2>7. \A v \in ChromeMajors(Checkout("release"))' : v <= next_tag'.major
    BY <1>4, <2>3, <2>4
  <2> QED BY <1>9, <1>10, <2>1, <2>2, <2>4, <2>5, <2>6, <2>7 DEF Tagged
<1>14. Counted'
  BY <1>1, <1>2 DEF Counted
<1> QED BY <1>1, <1>2, <1>9, <1>11, <1>12, <1>13, <1>14, Whole DEF TypeOK

LEMMA PushTagKeeps ==
  ASSUME IInv, PushTag
  PROVE  IInv'
<1> USE ReleaseIsNoFamily
<1>1. /\ TypeOK /\ Grouped /\ Tagged /\ Counted
      /\ Len(main) \in Nat \ {0} /\ Len(main) \in 1..MaxCommits
  BY Parts
<1>2. /\ phase["release"] = "tag"
      /\ \A t \in tags : <<t.major, t.revision>> # <<next_tag.major, next_tag.revision>>
      /\ tags' = tags \cup {next_tag}
      /\ phase' = [phase EXCEPT !["release"] = "release"]
      /\ UNCHANGED <<main, group, harvest, next_tag, building, published, lost>>
  BY DEF PushTag
<1>3. /\ next_tag \in Tag /\ next_tag.commit = group["release"].running
      /\ \A v \in ChromeMajors(Checkout("release")) : v <= next_tag.major
      /\ next_tag.revision <= Cardinality(tags) + 1
      /\ \A t \in tags : t.major = next_tag.major => t.revision < next_tag.revision
  BY <1>1, <1>2 DEF Tagged
<1>4. group["release"].running \in 1..Len(main)
  BY <1>1, <1>2, MajorsAreVersions
<1>5. \A t \in tags : t.commit <= next_tag.commit
  BY <1>1, <1>3, <1>4 DEF Tagged
<1>6. /\ \A f \in Families : phase'[f] = phase[f] /\ group'[f] = group[f]
      /\ phase'["release"] = "release" /\ group'["release"] = group["release"]
  BY <1>1, <1>2 DEF TypeOK, Workflows
<1>7. /\ Extends /\ History' /\ Planned' /\ plan' \in [Families -> SUBSET Profile]
      /\ \A f \in Families : replayed'[f] \subseteq plan'[f]
  BY <1>2, <1>6, HarvestsKept
<1>8. Grouped'
  <2>1. PICK w \in Workflows : w = "release"
    OBVIOUS
  <2>2. "release" \in IF w = "release" THEN {"tag", "release"}
                      ELSE {"replay", "commit", "dispatch"}
    BY <2>1
  <2>3. phase[w] # "idle" /\ phase' = [phase EXCEPT ![w] = "release"] /\ Len(main) <= Len(main')
    BY <1>1, <1>2, <2>1
  <2> QED BY <1>1, <1>2, <2>2, <2>3, PhaseGrouped
<1>9. \A t \in tags : t \in Tag
  BY <1>1 DEF TypeOK
<1>10. TagsAreOrdered'
  <2> SUFFICES ASSUME NEW t \in tags', NEW u \in tags'
               PROVE  /\ (t.major = u.major /\ t.revision = u.revision) => t = u
                      /\ (t.major = u.major /\ t.revision < u.revision) => t.commit <= u.commit
                      /\ \A v \in ChromeMajors(main[t.commit].tree) : v <= t.major
    BY <1>2 DEF TagsAreOrdered, ChromeMajors
  <2>1. \A v \in ChromeMajors(main[t.commit].tree) : v <= t.major
    <3>1. CASE t \in tags
      BY <1>1, <3>1 DEF Tagged, TagsAreOrdered
    <3>2. CASE t = next_tag
      BY <1>3, <3>2 DEF Checkout
    <3> QED BY <1>2, <3>1, <3>2
  <2>2. CASE t \in tags /\ u \in tags
    BY <1>1, <2>1, <2>2 DEF Tagged, TagsAreOrdered
  <2>3. CASE t \in tags /\ u = next_tag
    BY <1>3, <1>5, <1>9, <2>1, <2>3 DEF Tag
  <2>4. CASE t = next_tag /\ u \in tags
    BY <1>3, <1>9, <2>1, <2>4 DEF Tag
  <2>5. CASE t = next_tag /\ u = next_tag
    BY <1>3, <2>1, <2>5 DEF Tag
  <2> QED BY <1>2, <2>2, <2>3, <2>4, <2>5
<1>11. Tagged'
  <2>1. (\A t \in tags : t.commit <= Newest)'
    BY <1>1, <1>2, <1>3, <1>4 DEF Tagged, Newest
  <2>2. \A t \in tags' : t.commit <= group'["release"].running
    BY <1>2, <1>3, <1>4, <1>5
  <2>3. next_tag' \in tags'
    BY <1>2
  <2> QED BY <1>6, <1>10, <2>1, <2>2, <2>3 DEF Tagged
<1>12. Counted'
  <2>1. next_tag \notin tags
    BY <1>2
  <2>2. /\ IsFiniteSet(tags') /\ Cardinality(tags') = Cardinality(tags) + 1
        /\ Cardinality(tags) \in Nat
    BY <1>1, <1>2, <2>1, FS_AddElement, FS_CardinalityType DEF Counted
  <2>3. \A t \in tags' : t.revision <= Cardinality(tags')
    <3>1. \A t \in tags : t.revision \in Nat /\ t.revision <= Cardinality(tags)
      BY <1>1, <1>9 DEF Counted, Tag
    <3> QED BY <1>2, <1>3, <2>2, <3>1
  <2> QED BY <2>2, <2>3 DEF Counted
<1> QED BY <1>1, <1>2, <1>3, <1>7, <1>8, <1>11, <1>12, Whole DEF TypeOK

\* A run of the tagging workflow ends, and its tag, if it made one, may be built.
LEMMA ReleaseEnds ==
  ASSUME IInv, End("release"), next_tag' = NoTag, UNCHANGED <<main, harvest, tags, published>>,
         building' \subseteq tags, lost' \in BOOLEAN
  PROVE  IInv'
<1> USE ReleaseIsNoFamily
<1>1. /\ TypeOK /\ Grouped /\ Tagged /\ Counted
      /\ Len(main) \in Nat \ {0} /\ Len(main) \in 1..MaxCommits
  BY Parts
<1>2. /\ group'["release"] = Ended(group["release"]) /\ phase'["release"] = AfterEnd("release")
      /\ \A f \in Families : phase'[f] = phase[f] /\ group'[f] = group[f]
  BY <1>1 DEF End, Grouped, Workflows
<1>3. /\ Extends /\ History' /\ Planned' /\ plan' \in [Families -> SUBSET Profile]
      /\ \A f \in Families : replayed'[f] \subseteq plan'[f]
  BY <1>2, HarvestsKept
<1>4. Grouped'
  BY <1>1, EndGrouped
<1>5. Tagged'
  <2>1. ASSUME NEW t \in tags, group'["release"].running # 0
        PROVE  t.commit <= group'["release"].running
    <3>1. /\ group["release"] \in [running : 0..Len(main), pending : 0..Len(main)]
          /\ group["release"].pending # 0 =>
                group["release"].running \in 1..group["release"].pending
      BY <1>1 DEF Grouped, Phased
    <3>2. group'["release"].running = group["release"].pending
      BY <1>2 DEF Ended
    <3>3. group["release"].running # 0 /\ group["release"].running <= group'["release"].running
      BY <2>1, <3>1, <3>2
    <3>4. t.commit <= group["release"].running /\ t.commit \in Nat
      BY <1>1, <3>3 DEF Tagged, TypeOK, Tag
    <3> QED BY <1>1, <3>1, <3>2, <3>3, <3>4
  <2>2. phase'["release"] \notin {"tag", "release"}
    BY <1>2 DEF AfterEnd, FirstPhase
  <2> QED BY <1>1, <1>3, <2>1, <2>2, TaggedKept
<1>6. Counted'
  BY <1>1 DEF Counted
<1> QED BY <1>1, <1>3, <1>4, <1>5, <1>6, Whole DEF TypeOK

LEMMA DispatchReleaseKeeps ==
  ASSUME IInv, DispatchRelease
  PROVE  IInv'
<1>1. TypeOK /\ Tagged
  BY Parts
<1>2. next_tag \in tags
  BY <1>1 DEF DispatchRelease, Tagged
<1>3. /\ End("release") /\ next_tag' = NoTag /\ UNCHANGED <<main, harvest, tags, published>>
      /\ building' \subseteq tags /\ lost' \in BOOLEAN
  BY <1>1, <1>2 DEF DispatchRelease, TypeOK
<1> QED BY <1>3, ReleaseEnds

LEMMA DispatchByHandKeeps ==
  ASSUME IInv, DispatchByHand
  PROVE  IInv'
<1> USE ReleaseIsNoFamily
<1>1. /\ TypeOK /\ Grouped /\ Tagged /\ Counted
      /\ Len(main) \in Nat \ {0} /\ Len(main) \in 1..MaxCommits
  BY Parts
<1>2. /\ Trigger("release", Newest)
      /\ UNCHANGED <<main, harvest, next_tag, tags, building, published, lost>>
  BY DEF DispatchByHand, release
<1>3. \A f \in Families : phase'[f] = phase[f] /\ group'[f] = group[f]
  BY <1>1, <1>2 DEF Trigger, Grouped, Workflows
<1>4. /\ Extends /\ History' /\ Planned' /\ plan' \in [Families -> SUBSET Profile]
      /\ \A f \in Families : replayed'[f] \subseteq plan'[f]
  BY <1>2, <1>3, HarvestsKept
<1>5. Grouped'
  <2>1. Newest \in 1..Len(main') /\ Len(main) <= Newest
    BY <1>1, <1>2 DEF Newest
  <2> QED BY <1>1, <1>2, <2>1, TriggerGrouped
<1>6. Tagged'
  <2>1. group["release"] \in [running : 0..Len(main), pending : 0..Len(main)]
        /\ (phase["release"] = "idle" <=> group["release"].running = 0)
    BY <1>1 DEF Grouped, Phased
  <2>2. /\ group["release"].running = 0 => group'["release"].running = Newest
        /\ group["release"].running # 0 => group'["release"].running = group["release"].running
    BY <1>1, <1>2, <2>1 DEF Trigger, Queued, Grouped
  <2>3. group'["release"].running # 0 => \A t \in tags : t.commit <= group'["release"].running
    BY <1>1, <2>2 DEF Tagged
  <2>4. phase'["release"] \in {"tag", "release"} =>
           /\ phase'["release"] = phase["release"]
           /\ group'["release"].running = group["release"].running
    BY <1>1, <1>2, <2>1, <2>2 DEF Trigger, Grouped, FirstPhase
  <2> QED BY <1>1, <1>2, <1>4, <2>3, <2>4, TaggedKept
<1>7. Counted'
  BY <1>1, <1>2 DEF Counted
<1> QED BY <1>1, <1>2, <1>4, <1>5, <1>6, <1>7, Whole DEF TypeOK

LEMMA FailReleaseKeeps ==
  ASSUME IInv, FailRelease
  PROVE  IInv'
<1>1. /\ End("release") /\ next_tag' = NoTag /\ UNCHANGED <<main, harvest, tags, published>>
      /\ building' \subseteq tags /\ lost' \in BOOLEAN
  BY Parts DEF FailRelease, TypeOK
<1> QED BY <1>1, ReleaseEnds

LEMMA BuildsKeep ==
  ASSUME IInv, NEW t \in tags, PublishRelease(t) \/ FailBuild(t)
  PROVE  IInv'
<1>1. /\ TypeOK /\ Grouped /\ Tagged /\ Counted
      /\ Len(main) \in Nat \ {0} /\ Len(main) \in 1..MaxCommits
  BY Parts
<1>2. UNCHANGED <<main, group, phase, harvest, next_tag, tags>>
  BY DEF PublishRelease, FailBuild
<1>3. building' \subseteq tags /\ published' \subseteq tags /\ lost' \in BOOLEAN
  BY <1>1 DEF PublishRelease, FailBuild, TypeOK
<1>4. /\ Extends /\ History' /\ Planned' /\ plan' \in [Families -> SUBSET Profile]
      /\ \A f \in Families : replayed'[f] \subseteq plan'[f]
  BY <1>2, HarvestsKept
<1>5. Grouped'
  BY <1>1, <1>2, GroupedOnGrowth
<1>6. Tagged' /\ Counted'
  BY <1>2, <1>4, HarvestOnly
<1> QED BY <1>1, <1>2, <1>3, <1>4, <1>5, <1>6, Whole DEF TypeOK

\* What any push finds at the head of main.
LEMMA HeadOfMain ==
  ASSUME IInv
  PROVE  /\ main[Newest] \in Commit /\ main[Newest].tree \in Tree
         /\ main[Newest].tree.source < Len(main)
         /\ OneEach(main[Newest].tree.profiles)
<1>1. TypeOK /\ History /\ Len(main) \in Nat \ {0}
  BY Parts
<1>2. Newest \in 1..Len(main) /\ Newest \in DOMAIN main /\ main[Newest] \in Commit
  BY <1>1, LenProperties, ElementOfSeq DEF TypeOK, Newest
<1> QED BY <1>1, <1>2 DEF Commit, History, Numbered, Filed, Newest

LEMMA PushSourcesKeeps ==
  ASSUME IInv, PushSources
  PROVE  IInv'
<1> DEFINE tree == [main[Newest].tree EXCEPT !.source = main[Newest].tree.source + 1]
           c    == DeveloperCommit(tree)
<1> USE ReleaseIsNoFamily
<1>1. /\ TypeOK /\ Grouped /\ History /\ Planned /\ Tagged /\ Counted
      /\ Len(main) \in Nat \ {0} /\ Len(main) \in 1..MaxCommits
  BY Parts
<1>2. /\ Newest < MaxCommits /\ main' = Append(main, c) /\ UNCHANGED <<group, phase, lost>>
      /\ UNCHANGED <<plan, replayed>> /\ UNCHANGED <<next_tag, tags, building, published>>
  BY DEF PushSources, harvest, release
<1>3. /\ main[Newest].tree \in Tree /\ main[Newest].tree.source < Len(main)
      /\ OneEach(main[Newest].tree.profiles)
  BY HeadOfMain
<1>4. /\ tree \in Tree /\ tree.source < Len(main) + 1
      /\ tree.profiles = main[Newest].tree.profiles
  BY <1>1, <1>2, <1>3, MaxAssumption DEF Tree, Newest
<1> HIDE DEF tree
<1>5. Commits(c) /\ Proper(c)
  BY <1>2, <1>3, <1>4 DEF Commits, Proper, DeveloperCommit, Commit
<1> HIDE DEF c
<1>6. main' \in Seq(Commit) /\ Len(main') = Len(main) + 1 /\ Extends
  BY <1>1, <1>5, OneCommit
<1>7. Len(main') \in 1..MaxCommits /\ Len(main') \in Nat /\ Len(main) <= Len(main')
  BY <1>1, <1>2, <1>6, MaxAssumption DEF Newest
<1>8. History'
  BY <1>1, <1>5, HistoryGrows
<1>9. Grouped'
  BY <1>1, <1>2, <1>7, GroupedOnGrowth
<1>10. Planned'
  BY <1>1, <1>2, <1>6, PlannedKept DEF Planned, Fits
<1>11. Tagged' /\ Counted'
  BY <1>2, <1>6, HarvestOnly
<1> QED BY <1>1, <1>2, <1>6, <1>7, <1>8, <1>9, <1>10, <1>11, Whole DEF TypeOK

LEMMA PushProfileKeeps ==
  ASSUME IInv, NEW target \in DeveloperTargets, PushProfile(target)
  PROVE  IInv'
<1> DEFINE before == main[Newest].tree
           kept   == {p \in before.profiles : p.target # target}
           made   == [target |-> target, bundle |-> Handmade]
           tree   == [before EXCEPT !.profiles = kept \cup {made}]
           c      == DeveloperCommit(tree)
<1> USE ReleaseIsNoFamily
<1>1. /\ TypeOK /\ Grouped /\ History /\ Planned /\ Tagged /\ Counted
      /\ Len(main) \in Nat \ {0} /\ Len(main) \in 1..MaxCommits
  BY Parts
<1>2. /\ Newest < MaxCommits /\ main' = Append(main, c)
      /\ Trigger("release", Newest + 1)
      /\ UNCHANGED <<plan, replayed>> /\ UNCHANGED <<next_tag, tags, building, published>>
      /\ UNCHANGED lost /\ UNCHANGED harvest
  BY DEF PushProfile, harvest, release
<1>3. before \in Tree /\ before.source < Len(main) /\ OneEach(before.profiles)
  BY HeadOfMain
<1>4. made \in Profile
  BY DevelopersAssumption DEF Profile
<1>5. tree \in Tree /\ tree.source < Len(main) + 1 /\ OneEach(tree.profiles)
  <2>1. before.source \in 0..MaxCommits /\ before.profiles \subseteq Profile
    BY <1>3 DEF Tree
  <2> HIDE DEF before, made
  <2>2. /\ tree.source = before.source /\ tree.profiles = kept \cup {made}
        /\ tree \in Tree
    BY <1>3, <1>4, <2>1 DEF Tree
  <2>3. made.target = target
    BY DEF made
  <2>4. OneEach(kept \cup {made})
    BY <1>3, <2>3 DEF OneEach
  <2> QED BY <1>1, <1>3, <2>1, <2>2, <2>4
<1> HIDE DEF tree
<1>6. Commits(c) /\ Proper(c)
  BY <1>2, <1>5 DEF Commits, Proper, DeveloperCommit, Commit
<1> HIDE DEF c
<1>7. main' \in Seq(Commit) /\ Len(main') = Len(main) + 1 /\ Extends
  BY <1>1, <1>6, OneCommit
<1>8. /\ Len(main') \in 1..MaxCommits /\ Len(main') \in Nat /\ Len(main) <= Len(main')
      /\ Newest + 1 \in 1..Len(main') /\ Len(main) <= Newest + 1
  BY <1>1, <1>2, <1>7, MaxAssumption DEF Newest
<1>9. History'
  BY <1>1, <1>6, HistoryGrows
<1>10. Grouped'
  BY <1>1, <1>2, <1>8, TriggerGrouped
<1>11. \A f \in Families : phase'[f] = phase[f] /\ group'[f] = group[f]
  BY <1>1, <1>2 DEF Trigger, Grouped, Workflows
<1>12. Planned'
  BY <1>1, <1>2, <1>7, <1>11, PlannedKept DEF Planned, Fits
<1>13. Tagged'
  <2>1. group["release"] \in [running : 0..Len(main), pending : 0..Len(main)]
        /\ (phase["release"] = "idle" <=> group["release"].running = 0)
    BY <1>1 DEF Grouped, Phased
  <2>2. /\ group["release"].running = 0 => group'["release"].running = Newest + 1
        /\ group["release"].running # 0 => group'["release"].running = group["release"].running
    BY <1>1, <1>2, <2>1 DEF Trigger, Queued, Grouped
  <2>3. ASSUME NEW t \in tags, group'["release"].running # 0
        PROVE  t.commit <= group'["release"].running
    <3>1. t.commit \in Nat /\ t.commit <= Len(main)
      BY <1>1 DEF Tagged, TypeOK, Tag, Newest
    <3>2. CASE group["release"].running = 0
      BY <1>1, <2>2, <3>1, <3>2 DEF Newest
    <3>3. CASE group["release"].running # 0
      BY <1>1, <2>2, <3>3 DEF Tagged
    <3> QED BY <3>2, <3>3
  <2>4. phase'["release"] \in {"tag", "release"} =>
           /\ phase'["release"] = phase["release"]
           /\ group'["release"].running = group["release"].running
    BY <1>1, <1>2, <2>1, <2>2 DEF Trigger, Grouped, FirstPhase
  <2> QED BY <1>1, <1>2, <1>7, <2>3, <2>4, TaggedKept
<1>14. Counted'
  BY <1>1, <1>2 DEF Counted
<1> QED BY <1>1, <1>2, <1>7, <1>8, <1>9, <1>10, <1>12, <1>13, <1>14, Whole DEF TypeOK
-----------------------------------------------------------------------------
(***************************************************************************)
(* Theorems.                                                               *)
(***************************************************************************)

LEMMA Initially == Init => IInv
<1> SUFFICES ASSUME Init PROVE IInv
  OBVIOUS
<1> USE ReleaseIsNoFamily
<1> DEFINE c == [tree |-> [source |-> 0, profiles |-> Legacy], author |-> "developer",
                 replayed |-> {}]
<1>1. c \in Commit
  BY LegacyAssumption, MaxAssumption DEF Commit, Tree
<1>2. main = <<c>> /\ main \in Seq(Commit) /\ Len(main) = 1 /\ DOMAIN main = 1..1 /\ main[1] = c
  BY <1>1 DEF Init
<1> HIDE DEF c
<1>3. TypeOK
  <2>1. /\ group \in [Workflows -> [running : 0..Len(main), pending : 0..Len(main)]]
        /\ phase \in [Workflows -> {"idle", "capture", "replay", "commit",
                                    "dispatch", "compute", "tag", "release"}]
    BY <1>2 DEF Init, Idle
  <2>2. /\ plan \in [Families -> SUBSET Profile]
        /\ \A f \in Families : replayed[f] \subseteq plan[f]
    BY DEF Init
  <2>3. Len(main) \in 1..MaxCommits
    BY <1>2, MaxAssumption
  <2> QED BY <1>2, <2>1, <2>2, <2>3 DEF Init, TypeOK
<1>4. Phased
  BY DEF Init, Phased, Idle, Workflows
<1>5. Numbered /\ Filed
  BY <1>2, LegacyAssumption DEF Numbered, Filed, OneEach, c
<1>6. CommittedAsReplayed /\ ChromeSetsAreWhole
  BY <1>2 DEF CommittedAsReplayed, ChromeSetsAreWhole, ByHarvest
<1>7. Planned
  BY DEF Init, Planned, Fits, Workflows
<1>8. Tagged
  BY DEF Init, Tagged, TagsAreOrdered, Idle
<1>9. Counted
  BY FS_EmptySet DEF Init, Counted
<1> QED BY <1>3, <1>4, <1>5, <1>6, <1>7, <1>8, <1>9 DEF IInv

LEMMA Stuttering ==
  ASSUME IInv, UNCHANGED vars
  PROVE  IInv'
<1>1. /\ TypeOK /\ Grouped /\ Tagged /\ Counted
      /\ Len(main) \in Nat \ {0} /\ Len(main) \in 1..MaxCommits
  BY Parts
<1>2. UNCHANGED <<main, group, phase, harvest, next_tag, tags, building, published, lost>>
  BY DEF vars, release
<1>3. /\ Extends /\ History' /\ Planned' /\ plan' \in [Families -> SUBSET Profile]
      /\ \A f \in Families : replayed'[f] \subseteq plan'[f]
  BY <1>2, HarvestsKept
<1>4. Grouped'
  BY <1>1, <1>2, GroupedOnGrowth
<1>5. Tagged' /\ Counted'
  BY <1>2, <1>3, HarvestOnly
<1> QED BY <1>1, <1>2, <1>3, <1>4, <1>5, Whole DEF TypeOK

\* Every step of a harvest, of the tagging workflow, of a build and of a developer keeps
\* the invariant.
LEMMA Inductive == IInv /\ [Next]_vars => IInv'
<1> SUFFICES ASSUME IInv, [Next]_vars PROVE IInv'
  OBVIOUS
<1>1. ASSUME NEW f \in Families, StartHarvest(f) PROVE IInv'
  BY <1>1, StartHarvestKeeps
<1>2. ASSUME NEW f \in Families, HarvestStep(f) PROVE IInv'
  <2>1. CASE Prepare(f)
    BY <2>1, PrepareKeeps
  <2>2. CASE Replay(f)
    BY <2>2, ReplayKeeps
  <2>3. CASE Push(f)
    BY <2>3, PushKeeps
  <2>4. CASE Dispatch(f)
    BY <2>4, DispatchKeeps
  <2> QED BY <1>2, <2>1, <2>2, <2>3, <2>4 DEF HarvestStep
<1>3. ASSUME NEW f \in Families, FailHarvest(f) PROVE IInv'
  BY <1>3, FailHarvestKeeps
<1>4. CASE ReleaseStep
  BY <1>4, ComputeTagKeeps, PushTagKeeps, DispatchReleaseKeeps DEF ReleaseStep
<1>5. CASE FailRelease
  BY <1>5, FailReleaseKeeps
<1>6. ASSUME NEW t \in tags, PublishRelease(t) \/ FailBuild(t) PROVE IInv'
  BY <1>6, BuildsKeep
<1>7. CASE PushSources
  BY <1>7, PushSourcesKeeps
<1>8. ASSUME NEW target \in DeveloperTargets, PushProfile(target) PROVE IInv'
  BY <1>8, PushProfileKeeps
<1>9. CASE DispatchByHand
  BY <1>9, DispatchByHandKeeps
<1>10. CASE UNCHANGED vars
  BY <1>10, Stuttering
<1> QED BY <1>1, <1>2, <1>3, <1>4, <1>5, <1>6, <1>7, <1>8, <1>9, <1>10 DEF Next

\* No step of the workflows, of a developer or of a failing machine leaves the inductive
\* invariant.
THEOREM Invariance == Spec => []IInv
<1> QED BY Initially, Inductive, PTL DEF Spec

\* The workflows stay in states of their type: in particular no revision of a tag exceeds
\* the number of commits, since each run of the tagging workflow has a commit of its own.
THEOREM TypeCorrect == Spec => []TypeOK
<1>1. IInv => TypeOK
  BY DEF IInv
<1> QED BY <1>1, Invariance, PTL

\* Every profile a harvest's commit adds to main was replayed in a build of the tree that
\* is committed, against its own platform's capture.
THEOREM CommitsAreReplayed == Spec => []CommittedAsReplayed
<1>1. IInv => CommittedAsReplayed
  BY DEF IInv
<1> QED BY <1>1, Invariance, PTL

\* The five Chrome targets of a major are published together, of one run's captures.
THEOREM ChromeSetsStayWhole == Spec => []ChromeSetsAreWhole
<1>1. IInv => ChromeSetsAreWhole
  BY DEF IInv
<1> QED BY <1>1, Invariance, PTL

\* Tags have names of their own, and of one Chrome the later tag holds the later commit.
THEOREM TagsStayOrdered == Spec => []TagsAreOrdered
<1>1. IInv => TagsAreOrdered
  BY DEF IInv, Tagged
<1> QED BY <1>1, Invariance, PTL

\* Whatever developers pushed while a harvest ran, its commit takes nothing back.
LEMMA AddsOnly ==
  ASSUME IInv, Next,
         NEW i \in DOMAIN main' \ DOMAIN main, main'[i].author # "developer"
  PROVE  /\ main'[i].tree.source = main[i - 1].tree.source
         /\ main[i - 1].tree.profiles \subseteq main'[i].tree.profiles
         /\ \A p, q \in main'[i].tree.profiles : p.target = q.target => p = q
<1>1. TypeOK /\ Len(main) \in Nat \ {0}
  BY Parts
<1>2. CASE UNCHANGED main
  BY <1>2
<1>3. ASSUME NEW f \in Families, Push(f)
      PROVE  /\ main'[i].tree.source = main[i - 1].tree.source
             /\ main[i - 1].tree.profiles \subseteq main'[i].tree.profiles
             /\ \A p, q \in main'[i].tree.profiles : p.target = q.target => p = q
  <2>1. PICK c : /\ Commits(c) /\ Proper(c)
                 /\ c.tree.source = main[Newest].tree.source
                 /\ c.tree.profiles = main[Newest].tree.profiles \cup plan[f]
    BY <1>3, PushedProfiles
  <2>2. /\ DOMAIN main = 1..Len(main) /\ DOMAIN main' = 1..(Len(main) + 1)
        /\ main'[Len(main) + 1] = c
    BY <1>1, <2>1, OneCommit
  <2>3. i = Len(main) + 1 /\ i - 1 = Newest
    BY <1>1, <2>2 DEF Newest
  <2>4. OneEach(c.tree.profiles)
    BY <2>1 DEF Proper
  <2> QED BY <2>1, <2>2, <2>3, <2>4 DEF OneEach
<1>4. ASSUME NEW tree, main' = Append(main, DeveloperCommit(tree)) PROVE FALSE
  <2>1. PICK c : c.author = "developer" /\ main' = Append(main, c)
    BY <1>4 DEF DeveloperCommit
  <2>2. main \in Seq(Commit \cup {c}) /\ c \in Commit \cup {c}
    BY <1>1, SeqMonotonic DEF TypeOK
  <2>3. Len(main') = Len(main) + 1 /\ main'[Len(main) + 1] = c
    BY <2>1, <2>2, AppendProperties
  <2>4. main' \in Seq(Commit \cup {c})
    BY <2>1, <2>2, AppendProperties
  <2>5. DOMAIN main = 1..Len(main) /\ DOMAIN main' = 1..Len(main')
    BY <2>2, <2>4, LenProperties
  <2>6. i = Len(main) + 1
    BY <1>1, <2>3, <2>5
  <2> QED BY <2>1, <2>3, <2>6
<1>5. UNCHANGED main \/ (\E f \in Families : Push(f))
      \/ (\E tree : main' = Append(main, DeveloperCommit(tree)))
  BY DEF Next, StartHarvest, HarvestStep, Prepare, Replay, Dispatch, FailHarvest, ReleaseStep,
         ComputeTag, PushTag, DispatchRelease, FailRelease, PublishRelease, FailBuild,
         DispatchByHand, PushSources, PushProfile
<1> QED BY <1>2, <1>3, <1>4, <1>5

\* A harvest adds profiles to the commit it pushes onto and takes nothing back, however
\* long it waited.
THEOREM HarvestsAddOnly == Spec => HarvestsOnlyAdd
<1>1. IInv /\ [Next]_vars =>
        [\A i \in DOMAIN main' \ DOMAIN main : main'[i].author # "developer" =>
            /\ main'[i].tree.source = main[i - 1].tree.source
            /\ main[i - 1].tree.profiles \subseteq main'[i].tree.profiles
            /\ \A p, q \in main'[i].tree.profiles : p.target = q.target => p = q]_main
  <2>1. CASE UNCHANGED vars
    BY <2>1 DEF vars
  <2>2. CASE Next
    BY <2>2, AddsOnly
  <2> QED BY <2>1, <2>2
<1> QED BY <1>1, Invariance, PTL DEF Spec, HarvestsOnlyAdd
=============================================================================
