------------------------------- MODULE Compile -------------------------------
(***************************************************************************)
(* From samples to a native profile and back: a capture is normalised and  *)
(* written with what the gate says of it, the harvester is replaced by     *)
(* another version, a candidate is compiled from the bundle, and curl,     *)
(* built with it, is replayed against the collectors and compared with the *)
(* bundle (candidate_from_bundle of compiler.py, replay.py, the handlers   *)
(* of candidate and replay in cli.py).                                     *)
(*                                                                         *)
(* The browser and curl are not modelled: each sample of theirs is any of  *)
(* Captures and Answers.  How often a command is asked to sample, whether  *)
(* it has a collector of HTTP/3 and what browser it declares are free too. *)
(***************************************************************************)
EXTENDS NativeProfile

CONSTANTS Captures,     \* the samples a browser may yield
          Answers,      \* the samples curl may yield
          Harvesters,   \* what the versions of the harvester declare
          Distributions,
          Counts        \* the numbers of samples a command may be asked for

\* TLS and QUIC allow no extension and no parameter twice; GREASE is drawn, and may repeat.
ExtensionsOnce(items) ==
    \A i, j \in DOMAIN items :
        items[i].id = items[j].id => i = j \/ items[i].id \in GreaseCodepoints
ParametersOnce(items) ==
    \A i, j \in DOMAIN items :
        items[i].id = items[j].id => i = j \/ IsGreaseParameter(items[i].id)

\* The collectors report the parameters of extension 57 apart and call GREASE by its name,
\* and the second one always names the protocol it was asked with.
ASSUME SampleAssumption ==
    /\ Captures \cup Answers \subseteq RawSamples
    /\ \A s \in Captures \cup Answers :
          /\ \A e \in ToSet(s.tcp.extensions) \cup ToSet(s.quic.extensions) :
                e.id = 57 => e.values = <<>>
          /\ \A p \in ToSet(s.tcp.parameters) \cup ToSet(s.quic.parameters) : p.id # GREASE
          /\ ExtensionsOnce(s.tcp.extensions) /\ ExtensionsOnce(s.quic.extensions)
          /\ ParametersOnce(s.tcp.parameters) /\ ParametersOnce(s.quic.parameters)
          /\ GREASE \notin ToSet(s.http3.settings)
          /\ s.protocol # "none"
ASSUME CountAssumption == Counts \subseteq Nat

MinReplays  == 3
MaxAttempts == 3        \* at HTTP/3, in a replay

Outcomes == {"none", "refused", "candidate", "matches", "differs", "error", "escaped"}
NoBundle == None

VARIABLES
    phase,
    harvester,      \* what the installed version declares
    distribution,   \* of the manifest
    asked,          \* how many samples the present command was asked for
    collector,      \* whether the capture has a collector of HTTP/3
    samples,        \* the raw samples of the bundle
    normalized,     \* and what normalize_sample makes of each
    bundle,         \* its profile and persisted readiness, a sequence of at most one
    options,        \* the candidate, likewise
    replays,        \* the raw samples of the replay
    replayed,       \* and what they are normalised to
    attempts,       \* how often the present one has asked for HTTP/3
    outcome         \* of the last command: "error" is exit status 2

capture == <<distribution, collector, samples, normalized>>
replay  == <<replays, replayed, attempts>>
vars == <<phase, harvester, asked, capture, bundle, options, replay, outcome>>

TypeOK ==
    /\ phase \in {"capture", "bundle", "compiled", "tls", "http3", "compare", "done"}
    /\ harvester \in Harvesters /\ distribution \in Distributions
    /\ asked \in Counts /\ collector \in BOOLEAN
    /\ phase = "capture" => Len(samples) <= asked
    /\ Len(bundle) <= 1 /\ Len(options) <= 1
    /\ Len(replays) <= asked
    /\ attempts \in 0..MaxAttempts
    /\ outcome \in Outcomes
-----------------------------------------------------------------------------
Init ==
    /\ phase = "capture" /\ outcome = "none"
    /\ harvester \in Harvesters /\ distribution \in Distributions
    /\ asked \in Counts /\ collector \in BOOLEAN
    /\ samples = <<>> /\ normalized = <<>> /\ bundle = NoBundle /\ options = None
    /\ replays = <<>> /\ replayed = <<>> /\ attempts = 0

End(result) == phase' = "done" /\ outcome' = result

\* What is left of a sample when no collector of HTTP/3 is asked.
NoHello == [ciphers |-> <<>>, extensions |-> <<>>, parameters |-> <<>>]
NoHttp3 == [settings |-> <<>>, pseudo |-> <<>>, headers |-> <<>>, cids |-> ""]
Taken(sample, http3) ==
    IF http3 THEN sample
    ELSE [sample EXCEPT !.protocol = "none", !.quic = NoHello, !.http3 = NoHttp3]

TakeSample ==
    /\ phase = "capture" /\ Len(samples) < asked
    /\ \E s \in Captures :
          /\ samples' = Append(samples, Taken(s, collector))
          /\ normalized' = Append(normalized, normalize_sample(Taken(s, collector)))
    /\ UNCHANGED <<phase, harvester, distribution, asked, collector, bundle, options,
                   replay, outcome>>

\* The bundle is written whole, or the capture fails.
WriteBundle ==
    /\ phase = "capture" /\ Len(samples) = asked
    /\ IF CanBuild(normalized)
       THEN /\ bundle' = LET profile == build_profile(normalized)
                         IN  <<[profile |-> profile,
                                ready   |-> Ready(harvester, profile, distribution)]>>
            /\ phase' = "bundle" /\ UNCHANGED outcome
       ELSE End("error") /\ UNCHANGED bundle
    /\ UNCHANGED <<harvester, asked, capture, options, replay>>

\* The harvester is updated, or an older one is used.
Replace ==
    /\ phase = "bundle"
    /\ harvester' \in Harvesters \ {harvester}
    /\ UNCHANGED <<phase, asked, capture, bundle, options, replay, outcome>>

\* Mutant: what was written with the bundle is believed.
BelievesBundle == bundle[1].ready

\* What was written and what the gate says now must both be true.
CompilationReady ==
    bundle[1].ready /\ Ready(harvester, bundle[1].profile, distribution)

\* A profile that exists already is not overwritten.
Candidate ==
    /\ phase = "bundle"
    /\ \/ /\ CompilationReady /\ CanCompile(bundle[1].profile.fingerprint)
          /\ options' = <<Options(bundle[1].profile.fingerprint)>>
          /\ phase' = "compiled" /\ outcome' = "candidate"
       \/ End("refused") /\ UNCHANGED options
    /\ UNCHANGED <<harvester, asked, capture, bundle, replay>>
-----------------------------------------------------------------------------
\* A curl that is not there, or too few samples, is refused.
StartReplay ==
    /\ phase = "compiled"
    /\ asked' \in Counts
    /\ \/ asked' >= MinReplays /\ phase' = "tls" /\ outcome' = "none"
       \/ End("error")
    /\ UNCHANGED <<harvester, capture, bundle, options, replay>>

IncludeHttp3 == bundle[1].profile.fingerprint.protocol = "http3"

Keep(r) ==
    /\ replays' = Append(replays, r)
    /\ replayed' = Append(replayed, normalize_sample(r))
    /\ attempts' = 0
    /\ phase' = IF Len(replays') = asked THEN "compare" ELSE "tls"
    /\ UNCHANGED outcome

\* The TLS collector is asked once.
AskTls ==
    /\ phase = "tls"
    /\ \/ IncludeHttp3 /\ phase' = "http3" /\ UNCHANGED <<replay, outcome>>
       \/ ~IncludeHttp3 /\ \E r \in Answers : Keep(Taken(r, FALSE))
       \/ End("error") /\ UNCHANGED replay
       \/ End("escaped") /\ UNCHANGED replay
    /\ UNCHANGED <<harvester, asked, capture, bundle, options>>

\* Mutant: the third attempt is no end.
AskHttp3ForEver ==
    /\ phase = "http3"
    /\ \/ \E r \in Answers : Keep(r)
       \/ /\ attempts' = IF attempts = MaxAttempts THEN 0 ELSE attempts + 1
          /\ UNCHANGED <<phase, replays, replayed, outcome>>
       \/ End("escaped") /\ UNCHANGED replay
    /\ UNCHANGED <<harvester, asked, capture, bundle, options>>

\* Mutant: one attempt more than there are.
OneAttemptMore == attempts' <= MaxAttempts

MayAskAgain == attempts' < MaxAttempts

\* The other is asked again when curl fails or its answer cannot be read, twice at
\* most; a curl that does not end in a minute ends the command, without a report.
AskHttp3 ==
    /\ phase = "http3"
    /\ \/ \E r \in Answers : Keep(r)
       \/ /\ attempts' = attempts + 1
          /\ IF MayAskAgain THEN UNCHANGED <<phase, outcome>> ELSE End("error")
          /\ UNCHANGED <<replays, replayed>>
       \/ End("escaped") /\ UNCHANGED replay
    /\ UNCHANGED <<harvester, asked, capture, bundle, options>>

\* Mutant: that the replay has several variants is not looked at.
ComparesSelected ==
    ~diff_profiles(fingerprint_comparison_view(bundle[1].profile.fingerprint),
                   fingerprint_comparison_view(build_profile(replayed).fingerprint))

Matches ==
    /\ ~diff_profiles(fingerprint_comparison_view(bundle[1].profile.fingerprint),
                      fingerprint_comparison_view(build_profile(replayed).fingerprint))
    /\ build_profile(replayed).variant_count = 1

\* The comparison is reported once the replay is written, where --output says so: if
\* that path is taken there is no report.
Compare ==
    /\ phase = "compare"
    /\ \/ CanBuild(replayed) /\ End(IF Matches THEN "matches" ELSE "differs")
       \/ End("error")
    /\ UNCHANGED <<harvester, asked, capture, bundle, options, replay>>
-----------------------------------------------------------------------------
Step == \/ TakeSample \/ WriteBundle \/ Candidate
        \/ StartReplay \/ AskTls \/ AskHttp3 \/ Compare

Next == Step \/ Replace

\* A replay goes on: every request has a timeout.
Fairness == WF_vars(AskTls) /\ WF_vars(AskHttp3)

Spec == Init /\ [][Next]_vars /\ Fairness
-----------------------------------------------------------------------------
(***************************************************************************)
(* When two samples are of one browser, said without normalising: they     *)
(* differ in what a browser draws anew for each connection only.           *)
(***************************************************************************)
SameValue(x, y) == x = y \/ {x, y} \subseteq GreaseCodepoints
SameList(s, t)  == Len(s) = Len(t) /\ \A i \in DOMAIN s : SameValue(s[i], t[i])

\* t is s rearranged, elements being the same when Same says so.
Rearranged(s, t, Same(_, _)) ==
    \A x \in ToSet(s) \cup ToSet(t) :
        Cardinality({i \in DOMAIN s : Same(s[i], x)}) =
        Cardinality({i \in DOMAIN t : Same(t[i], x)})

SameAnchors(s, t)  == Rearranged(s, t, LAMBDA x, y : x = y)
SameVersions(s, t) == Rearranged(s, t, SameValue)

SameExtension(e, f, quic) ==
    \/ {e.id, f.id} \subseteq GreaseCodepoints
    \/ /\ e.id = f.id
       /\ CASE e.id = 51764          -> SameAnchors(e.values, f.values)
            [] e.id = 65037 /\ ~quic -> TRUE
            [] OTHER                 -> SameList(e.values, f.values)

SameParameter(p, q) ==
    \/ (IsGreaseParameter(p.id) /\ IsGreaseParameter(q.id))
    \/ /\ p.id = q.id
       /\ CASE p.id = 15 -> TRUE
            [] p.id = 17 -> SameVersions(p.values, q.values)
            [] OTHER     -> p.values = q.values

SameExtensions(s, t, quic) == Rearranged(s, t, LAMBDA e, f : SameExtension(e, f, quic))
SameParameters(s, t)       == Rearranged(s, t, SameParameter)

Lasting(parameters) == At(parameters, {i \in DOMAIN parameters : parameters[i].id # 12583})

SameHello(h, k, quic) ==
    /\ SameList(h.ciphers, k.ciphers)
    /\ SameExtensions(h.extensions, k.extensions, quic)
    /\ SameParameters(Lasting(h.parameters), Lasting(k.parameters))

\* cache-control tells of a reload, not of the browser.
SameHeaders(s, t) == At(s, {i \in DOMAIN s : s[i] # "cache-control"})
                     = At(t, {i \in DOMAIN t : t[i] # "cache-control"})

SameSetting(x, y) == x = y \/ (IsGreaseSetting(x) /\ IsGreaseSetting(y))

Alike(s, t) ==
    /\ SameHello(s.tcp, t.tcp, FALSE) /\ SameHello(s.quic, t.quic, TRUE)
    /\ s.protocol = t.protocol
    /\ SameHeaders(s.http2.headers, t.http2.headers)
    /\ [s.http2 EXCEPT !.headers = <<>>] = [t.http2 EXCEPT !.headers = <<>>]
    /\ Len(s.http3.settings) = Len(t.http3.settings)
    /\ \A i \in DOMAIN s.http3.settings : SameSetting(s.http3.settings[i], t.http3.settings[i])
    /\ SameHeaders(s.http3.headers, t.http3.headers)
    /\ [s.http3 EXCEPT !.settings = <<>>, !.headers = <<>>]
       = [t.http3 EXCEPT !.settings = <<>>, !.headers = <<>>]

\* What a sample shows of an order, GREASE being one thing.
ExtensionOrder(hello) == [i \in DOMAIN hello.extensions |->
                             normalize_tls_grease(hello.extensions[i].id)]
ParameterOrder(hello) == LET lasting == Lasting(hello.parameters)
                         IN  [i \in DOMAIN lasting |->
                                 IF IsGreaseParameter(lasting[i].id) THEN GREASE ELSE lasting[i].id]

TcpOrders(seq)       == {ExtensionOrder(seq[i].tcp) : i \in DOMAIN seq}
QuicOrders(seq)      == {ExtensionOrder(seq[i].quic) : i \in DOMAIN seq}
ParameterOrders(seq) == {ParameterOrder(seq[i].quic) : i \in DOMAIN seq}
-----------------------------------------------------------------------------
Likeness(i) == {j \in DOMAIN samples : Alike(samples[i], samples[j])}

\* The variants of a profile are the browsers that were seen: drawing GREASE, the order
\* of extensions, anchors, parameters and versions, or initial_rtt anew makes no variant
\* (test_grease_version_order_does_not_create_a_variant), and nothing else is lost.
VariantsAreBrowsers ==
    phase = "bundle" =>
        LET profile == bundle[1].profile
        IN  /\ profile.variant_count = Cardinality({Likeness(i) : i \in DOMAIN samples})
            /\ \E i \in DOMAIN samples :
                   /\ profile.selected_sample_count = Cardinality(Likeness(i))
                   /\ \A j \in DOMAIN samples : Cardinality(Likeness(j)) <= Cardinality(Likeness(i))

\* An order that a candidate fixes is the order of every sample, and it permutes just
\* when samples differ, on TCP, in QUIC's ClientHello and in its parameters
\* (test_fixed_quic_transport_parameter_order_is_preserved).
OrderPolicy ==
    phase = "compiled" =>
        LET tcp  == options[1].tcp
            wire == TcpOrders(samples)
            h3   == QuicOrders(samples)
        IN  /\ IF tcp.tls_permute_extensions THEN Cardinality(wire) > 1
               ELSE \A o \in wire : Native(o) = tcp.tls_extension_order
            /\ IncludeHttp3 =>
                 LET quic == options[1].http3[1]
                     sent == ParameterOrders(samples)
                 IN  /\ IF quic.http3_tls_extension_order = None
                        THEN Cardinality(h3) > 1 /\ tcp.tls_permute_extensions
                        ELSE \A o \in h3 : Native(o) = quic.http3_tls_extension_order
                     /\ IF tcp.tls_permute_extensions THEN Cardinality(sent) > 1
                        ELSE \A o \in sent : o = Ids(quic.quic_transport_parameters)

\* A candidate uses only what both the harvester that wrote the bundle found to be
\* representable and the one that compiles it declares
\* (test_candidate_rechecks_stale_persisted_readiness).
CandidatesAreSupported ==
    phase = "compiled" =>
        /\ bundle[1].ready
        /\ LET f == bundle[1].profile.fingerprint
               used == {e.id : e \in ToSet(f.tcp.extensions) \cup ToSet(f.quic.extensions)}
           IN  used \ {GREASE} \subseteq harvester.extensions
        /\ \A i \in DOMAIN samples : samples[i].mode = "headful"
        /\ \A i, j \in DOMAIN samples : Alike(samples[i], samples[j])

\* The replay shows one order where the bundle does, the same, and several where it does.
SameOrders(seen, played) ==
    IF Cardinality(seen) > 1 THEN Cardinality(played) > 1 ELSE played = seen

\* A replay that matches is the browser: every sample of it is like every sample of the
\* bundle, and orders are fixed alike or permuted alike.
MatchMeansSame ==
    outcome = "matches" =>
        /\ \A i \in DOMAIN samples, j \in DOMAIN replays : Alike(samples[i], replays[j])
        /\ SameOrders(TcpOrders(samples), TcpOrders(replays))
        /\ SameOrders(QuicOrders(samples), QuicOrders(replays))
        /\ SameOrders(ParameterOrders(samples), ParameterOrders(replays))

\* However curl and the collectors behave, a replay stops asking them.
EveryReplayEnds == phase \in {"tls", "http3"} ~> phase \in {"compare", "done"}

\* Two fingerprints that pass the gate and are told apart by a comparison are compiled
\* to different options: every feature the gate calls representable is in the options.
Thrice(s) == LET n == normalize_sample(Taken(s, collector)) IN <<n, n, n>>
RepresentedMeansKept ==
    phase = "compiled" =>
        \A s \in Captures :
            LET profile == build_profile(Thrice(s))
            IN  (/\ CanBuild(Thrice(s))
                 /\ Ready(harvester, profile, distribution)
                 /\ <<Options(profile.fingerprint)>> = options)
                => ~diff_profiles(fingerprint_comparison_view(profile.fingerprint),
                                  fingerprint_comparison_view(bundle[1].profile.fingerprint))
=============================================================================
