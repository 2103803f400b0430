-------------------------- MODULE EasyHandleProofs --------------------------
(***************************************************************************)
(* Proofs about EasyHandle, for every set of profiles, options and header  *)
(* lists.  The inductive invariant adds to the type invariant and to       *)
(* ProfileIsWhole how the flag ssl_version_set follows the application:    *)
(* it is up once the application chose a version, and down on a handle     *)
(* nobody dressed yet.                                                     *)
(***************************************************************************)
EXTENDS EasyHandle, Lemmas

FlagFollows ==
    /\ "ssl_version" \in own => ssl_version_set
    /\ (profile = NoTarget /\ "ssl_version" \notin own) => ~ssl_version_set

IInv == TypeOK /\ ProfileIsWhole /\ FlagFollows

USE DEF Settings, Settled

LEMMA TwoStrings ==
    ASSUME NEW S, NEW a \in S, NEW b \in S
    PROVE  /\ <<a, b>> \in Seq(S) /\ Len(<<a, b>>) = 2 /\ <<a, b>>[1] = a /\ <<a, b>>[2] = b
           /\ <<a>> \in Seq(S) /\ Len(<<a>>) = 1 /\ <<a>>[1] = a
OBVIOUS

\* c is an element of the sequence s.
Holds(s, c) == \E i \in 1..Len(s) : s[i] = c

\* A concatenation holds what either of its parts holds.
LEMMA ConcatHolds ==
    ASSUME NEW s \in Seq(Settings), NEW t \in Seq(Settings), NEW c
    PROVE  Holds(s, c) \/ Holds(t, c) => Holds(s \o t, c)
<1>1. Len(s) \in Nat /\ Len(t) \in Nat
  BY LenProperties
<1>2. CASE Holds(s, c)
  <2> PICK i \in 1..Len(s) : s[i] = c
    BY <1>2 DEF Holds
  <2>1. i \in 1..Len(s \o t) /\ (s \o t)[i] = c
    BY <1>1, ConcatProperties
  <2> QED BY <2>1 DEF Holds
<1>3. CASE Holds(t, c)
  <2> PICK i \in 1..Len(t) : t[i] = c
    BY <1>3 DEF Holds
  <2>1. i + Len(s) \in 1..Len(s \o t) /\ (s \o t)[i + Len(s)] = c
    BY <1>1, ConcatProperties
  <2> QED BY <2>1 DEF Holds
<1> QED BY <1>2, <1>3

\* Once all its calls succeed, _do_impersonate has made a call for every option.
LEMMA AllCalls ==
    \A c \in Settings : Holds(Calls, c)
<1> DEFINE first == <<"http_version", "ssl_version">>
           base  == <<"base_headers">>
<1>1. Before \in Seq(Settings) /\ After \in Seq(Settings)
  BY CallsAssumption
<1> HIDE DEF Settings
<1>s. Settings = Options \cup {"http_version", "ssl_version", "base_headers"}
  BY DEF Settings
<1>2. first \in Seq(Settings) /\ Len(first) = 2 /\ first[1] = "http_version"
      /\ first[2] = "ssl_version"
  BY <1>s, TwoStrings
<1>3. base \in Seq(Settings) /\ Len(base) = 1 /\ base[1] = "base_headers"
  BY <1>s, TwoStrings
<1>4. Holds(first, "http_version") /\ Holds(first, "ssl_version") /\ Holds(base, "base_headers")
  BY <1>2, <1>3 DEF Holds
<1>5. \A c \in Options : Holds(Before, c) \/ Holds(After, c)
  BY <1>1 DEF Options, Holds
<1> HIDE DEF first, base
<1>6. /\ first \o Before \in Seq(Settings)
      /\ first \o Before \o base \in Seq(Settings)
  BY <1>1, <1>2, <1>3, ConcatProperties
<1>7. Calls = first \o Before \o base \o After
  BY DEF Calls, first, base
<1>8. ASSUME NEW c, Holds(first, c) \/ Holds(Before, c) \/ Holds(base, c) \/ Holds(After, c)
      PROVE  Holds(Calls, c)
  <2>1. Holds(first, c) \/ Holds(Before, c) => Holds(first \o Before, c)
    BY <1>1, <1>2, ConcatHolds
  <2>2. Holds(first \o Before, c) \/ Holds(base, c) => Holds(first \o Before \o base, c)
    BY <1>3, <1>6, ConcatHolds
  <2>3. Holds(first \o Before \o base, c) \/ Holds(After, c)
           => Holds(first \o Before \o base \o After, c)
    BY <1>1, <1>6, ConcatHolds
  <2> QED BY <1>7, <1>8, <2>1, <2>2, <2>3
<1> QED BY <1>s, <1>4, <1>5, <1>8

\* What a profile of the array is.
LEMMA ProfileType ==
    ASSUME NEW target \in Targets
    PROVE  Profile[target] \in ProfileRecord
BY ProfileAssumption

\* Impersonation, complete or not, leaves a well-formed handle.
LEMMA ImpersonatedType ==
    ASSUME NEW s \in Settled, NEW p \in ProfileRecord, NEW d \in BOOLEAN, NEW n
    PROVE  Impersonated(s, p, d, n) \in Settled
BY DEF Impersonated, ProfileRecord

\* A complete impersonation of p, field by field.
LEMMA ImpersonatedAll ==
    ASSUME NEW s, NEW p, NEW d
    PROVE  LET r == Impersonated(s, p, d, Len(Calls)) IN
           /\ r.httpwant = IF s.httpwant = Default THEN p.http_version ELSE s.httpwant
           /\ r.ssl_version = IF ~s.ssl_version_set /\ p.ssl_version # Default
                              THEN p.ssl_version ELSE s.ssl_version
           /\ r.ssl_version_set = (s.ssl_version_set \/ (~s.ssl_version_set /\ p.ssl_version # Default))
           /\ r.opt = [o \in Options |-> IF p.opt[o] # Unset THEN p.opt[o] ELSE s.opt[o]]
           /\ r.base_headers = IF d /\ p.headers # <<>> THEN p.headers ELSE s.base_headers
BY AllCalls DEF Impersonated, Holds

LEMMA NewType == New \in Settled
BY DefaultAssumption, OwnAssumption DEF New

LEMMA NowType == TypeOK => Now \in Settled
BY DEF TypeOK, Now
-----------------------------------------------------------------------------
\* A handle that is made, or made anew, holds Fresh(n): well formed and, when every
\* call succeeded, wholly the browser CURL_IMPERSONATE names.
LEMMA FreshHolds ==
    ASSUME NEW n
    PROVE  /\ Fresh(n) \in Settled
           /\ FreshProfile(n) \in Targets \cup {NoTarget, Mixed}
           /\ FreshProfile(n) = NoTarget => Fresh(n) = New
           /\ FreshProfile(n) \in Targets =>
                 /\ FreshProfile(n) = EnvTarget
                 /\ Fresh(n) = Impersonated(New, Profile[EnvTarget], EnvHeaders, Len(Calls))
<1>1. CASE EnvTarget \in Targets
  <2>1. Profile[EnvTarget] \in ProfileRecord
    BY <1>1, ProfileType
  <2>2. Fresh(n) \in Settled
    BY <1>1, <2>1, NewType, ImpersonatedType, EnvAssumption DEF Fresh
  <2> QED BY <1>1, <2>2, TargetAssumption DEF Fresh, FreshProfile
<1>2. CASE EnvTarget \notin Targets
  BY <1>2, NewType, TargetAssumption DEF Fresh, FreshProfile
<1> QED BY <1>1, <1>2

\* What ProfileIsWhole and FlagFollows ask of a handle that holds Fresh(n) and of
\* which the application has set nothing.
LEMMA FreshIsWhole ==
    ASSUME NEW n
    PROVE  LET s == Fresh(n)  t == FreshProfile(n) IN
           /\ t \in Targets =>
                 /\ \A o \in Options : s.opt[o] = FromProfile(Profile[t], o)
                 /\ s.httpwant = Profile[t].http_version
                 /\ s.ssl_version = Profile[t].ssl_version
                 /\ s.base_headers \in {<<>>, Profile[t].headers}
           /\ t = NoTarget =>
                 /\ \A o \in Options : s.opt[o] = Default
                 /\ s.httpwant = Default /\ s.ssl_version = Default
                 /\ ~s.ssl_version_set
                 /\ s.base_headers = <<>>
<1>1. FreshProfile(n) \in Targets =>
         /\ FreshProfile(n) = EnvTarget
         /\ Fresh(n) = Impersonated(New, Profile[EnvTarget], EnvHeaders, Len(Calls))
  BY FreshHolds
<1>2. FreshProfile(n) = NoTarget => Fresh(n) = New
  BY FreshHolds
<1>3. CASE FreshProfile(n) \in Targets
  <2> DEFINE p == Profile[EnvTarget]
             r == Impersonated(New, p, EnvHeaders, Len(Calls))
  <2>1. p \in ProfileRecord
    BY <1>1, <1>3, ProfileType
  <2>2. /\ r.httpwant = IF New.httpwant = Default THEN p.http_version ELSE New.httpwant
        /\ r.ssl_version = IF ~New.ssl_version_set /\ p.ssl_version # Default
                           THEN p.ssl_version ELSE New.ssl_version
        /\ r.opt = [o \in Options |-> IF p.opt[o] # Unset THEN p.opt[o] ELSE New.opt[o]]
        /\ r.base_headers = IF EnvHeaders /\ p.headers # <<>> THEN p.headers ELSE New.base_headers
    BY ImpersonatedAll
  <2> HIDE DEF r
  <2>3. /\ r.httpwant = p.http_version /\ r.ssl_version = p.ssl_version
        /\ r.base_headers \in {<<>>, p.headers}
    BY <2>1, <2>2 DEF New, ProfileRecord
  <2>4. \A o \in Options : r.opt[o] = FromProfile(p, o)
    BY <2>2 DEF New, FromProfile
  <2>5. Fresh(n) = r /\ FreshProfile(n) = EnvTarget /\ FreshProfile(n) # NoTarget
    BY <1>1, <1>3, TargetAssumption DEF r
  <2> QED BY <2>3, <2>4, <2>5
<1>4. CASE FreshProfile(n) = NoTarget
  BY <1>2, <1>4, TargetAssumption DEF New
<1> QED BY <1>3, <1>4

LEMMA InitHolds == Init => IInv
<1> SUFFICES ASSUME Init PROVE IInv
  OBVIOUS
<1> DEFINE n == Len(Calls)
           s == Fresh(n)
<1>1. s \in Settled /\ FreshProfile(n) \in Targets \cup {NoTarget, Mixed}
  BY FreshHolds
<1>2. /\ httpwant = s.httpwant /\ ssl_version = s.ssl_version
      /\ ssl_version_set = s.ssl_version_set /\ opt = s.opt
      /\ base_headers = s.base_headers
      /\ headers = <<>> /\ special = [proto \in {"http3", "ws"} |-> <<>>]
      /\ useragent = NoAgent /\ profile = FreshProfile(n) /\ own = {}
  BY DEF Init
<1> HIDE DEF n, s
<1>3. TypeOK
  BY <1>1, <1>2, OwnAssumption DEF TypeOK
<1>4. ProfileIsWhole /\ FlagFollows
  BY <1>2, FreshIsWhole DEF s, ProfileIsWhole, FlagFollows
<1> QED BY <1>3, <1>4 DEF IInv

LEMMA ResetHolds ==
    ASSUME NEW n, Reset(n)
    PROVE  IInv'
<1> DEFINE s == Fresh(n)
<1>1. s \in Settled /\ FreshProfile(n) \in Targets \cup {NoTarget, Mixed}
  BY FreshHolds
<1>2. /\ httpwant' = s.httpwant /\ ssl_version' = s.ssl_version
      /\ ssl_version_set' = s.ssl_version_set /\ opt' = s.opt
      /\ base_headers' = s.base_headers
      /\ headers' = <<>> /\ special' = [proto \in {"http3", "ws"} |-> <<>>]
      /\ useragent' = NoAgent /\ profile' = FreshProfile(n) /\ own' = {}
  BY DEF Reset, Hold
<1> HIDE DEF s
<1>3. TypeOK'
  BY <1>1, <1>2, OwnAssumption DEF TypeOK
<1>4. ProfileIsWhole' /\ FlagFollows'
  BY <1>2, FreshIsWhole DEF s, ProfileIsWhole, FlagFollows
<1> QED BY <1>3, <1>4 DEF IInv

LEMMA ImpersonateHolds ==
    ASSUME IInv, NEW target \in Targets, NEW d \in BOOLEAN, Impersonate(target, d)
    PROVE  IInv'
<1> DEFINE p == Profile[target]
           r == Impersonated(Now, p, d, Len(Calls))
<1>1. p \in ProfileRecord
  BY ProfileType
<1>2. r \in Settled
  BY <1>1, NowType, ImpersonatedType DEF IInv
<1>3. /\ httpwant' = r.httpwant /\ ssl_version' = r.ssl_version
      /\ ssl_version_set' = r.ssl_version_set /\ opt' = r.opt
      /\ base_headers' = r.base_headers
      /\ profile' = IF profile \in {NoTarget, target} THEN target ELSE Mixed
      /\ own' = own \ Replaced(p, d)
      /\ UNCHANGED <<headers, special, useragent, merged_headers>>
  BY DEF Impersonate, Hold
<1>4. /\ r.httpwant = IF httpwant = Default THEN p.http_version ELSE httpwant
      /\ r.ssl_version = IF ~ssl_version_set /\ p.ssl_version # Default
                         THEN p.ssl_version ELSE ssl_version
      /\ r.ssl_version_set = (ssl_version_set \/ (~ssl_version_set /\ p.ssl_version # Default))
      /\ r.opt = [o \in Options |-> IF p.opt[o] # Unset THEN p.opt[o] ELSE opt[o]]
      /\ r.base_headers = IF d /\ p.headers # <<>> THEN p.headers ELSE base_headers
  BY ImpersonatedAll DEF Now
<1> HIDE DEF r
<1>5. TypeOK'
  BY <1>2, <1>3 DEF IInv, TypeOK
<1>6. Replaced(p, d) \cap {"ssl_version"} = {}
  BY CallsAssumption DEF Replaced
<1>7. CASE profile \notin {NoTarget, target}
  <2>1. profile' = Mixed /\ Mixed # NoTarget /\ Mixed \notin Targets
    BY <1>3, <1>7, TargetAssumption
  <2>2. ProfileIsWhole'
    BY <2>1 DEF ProfileIsWhole
  <2>3. FlagFollows'
    BY <1>3, <1>4, <1>6, <2>1 DEF IInv, FlagFollows
  <2> QED BY <1>5, <2>2, <2>3 DEF IInv
<1>8. CASE profile \in {NoTarget, target}
  <2>0. profile' = target /\ target # NoTarget
    BY <1>3, <1>8, TargetAssumption
  <2>1. ASSUME NEW o \in Options \ own'
        PROVE  opt'[o] = FromProfile(p, o)
    <3>0. opt'[o] = IF p.opt[o] # Unset THEN p.opt[o] ELSE opt[o]
      BY <1>3, <1>4
    <3>1. CASE p.opt[o] # Unset
      BY <3>0, <3>1 DEF FromProfile
    <3>2. CASE p.opt[o] = Unset
      <4>1. o \notin Replaced(p, d)
        BY <3>2, CallsAssumption DEF Replaced
      <4>2. o \notin own /\ opt'[o] = opt[o]
        BY <1>3, <3>0, <3>2, <4>1
      <4>3. opt[o] = Default
        BY <1>8, <3>2, <4>2, <2>0, TargetAssumption DEF IInv, ProfileIsWhole, FromProfile
      <4> QED BY <3>2, <4>2, <4>3 DEF FromProfile
    <3> QED BY <3>1, <3>2
  <2>2. "http_version" \notin own' => httpwant' = p.http_version
    <3>1. "http_version" \in Replaced(p, d) => httpwant = Default
      BY CallsAssumption DEF Replaced
    <3>2. "http_version" \notin own => httpwant \in {Default, p.http_version}
      BY <1>8, TargetAssumption DEF IInv, ProfileIsWhole
    <3> QED BY <1>3, <1>4, <3>1, <3>2
  <2>3. "ssl_version" \notin own' => ssl_version' = p.ssl_version
    <3>1. ASSUME "ssl_version" \notin own
          PROVE  \/ ssl_version = p.ssl_version
                 \/ ssl_version = Default /\ ~ssl_version_set
      BY <1>8, <3>1, TargetAssumption DEF IInv, ProfileIsWhole, FlagFollows
    <3> QED BY <1>3, <1>4, <1>6, <3>1
  <2>4. "base_headers" \notin own' => base_headers' \in {<<>>, p.headers}
    <3>1. "base_headers" \in Replaced(p, d) => d /\ p.headers # <<>>
      BY CallsAssumption DEF Replaced
    <3>2. "base_headers" \notin own => base_headers \in {<<>>, p.headers}
      BY <1>8, TargetAssumption DEF IInv, ProfileIsWhole
    <3> QED BY <1>3, <1>4, <3>1, <3>2
  <2>5. ProfileIsWhole'
    BY <2>0, <2>1, <2>2, <2>3, <2>4 DEF ProfileIsWhole
  <2>6. FlagFollows'
    BY <1>3, <1>4, <1>6, <2>0 DEF IInv, FlagFollows
  <2> QED BY <1>5, <2>5, <2>6 DEF IInv
<1> QED BY <1>7, <1>8

\* Part of a profile: the handle is Mixed, and the flag, once up, stays up.
LEMMA ImpersonateInPartHolds ==
    ASSUME IInv, NEW target \in Targets, NEW d \in BOOLEAN, NEW n \in 0..Len(Calls) - 1,
           ImpersonateInPart(target, d, n)
    PROVE  IInv'
<1> DEFINE r == Impersonated(Now, Profile[target], d, n)
<1>1. r \in Settled
  BY ProfileType, NowType, ImpersonatedType DEF IInv
<1>2. ssl_version_set => r.ssl_version_set
  BY DEF Impersonated, Now
<1> HIDE DEF r
<1>3. /\ httpwant' = r.httpwant /\ ssl_version' = r.ssl_version
      /\ ssl_version_set' = r.ssl_version_set /\ opt' = r.opt
      /\ base_headers' \in {r.base_headers, <<>>}
      /\ profile' = Mixed
      /\ UNCHANGED <<headers, special, useragent, own>>
  BY <1>1 DEF ImpersonateInPart, Hold, r
<1>4. TypeOK'
  BY <1>1, <1>3, OwnAssumption DEF IInv, TypeOK
<1>5. ProfileIsWhole'
  BY <1>3, TargetAssumption DEF ProfileIsWhole
<1>6. FlagFollows'
  BY <1>2, <1>3, TargetAssumption DEF IInv, FlagFollows
<1> QED BY <1>4, <1>5, <1>6 DEF IInv
-----------------------------------------------------------------------------
(***************************************************************************)
(* The application's settings: each adds to own what it no longer leaves   *)
(* to the profile.                                                         *)
(***************************************************************************)

LEMMA SetOptionHolds ==
    ASSUME IInv, NEW o \in Options, NEW v \in Values, SetOption(o, v)
    PROVE  IInv'
<1>1. /\ opt' = [opt EXCEPT ![o] = v] /\ own' = own \cup {o}
      /\ UNCHANGED <<httpwant, ssl_version, ssl_version_set, headers, special, useragent,
                     base_headers, profile>>
  BY DEF SetOption, state
<1>2. TypeOK'
  BY <1>1 DEF IInv, TypeOK
<1>3. \A c \in Options \ own' : c \in Options \ own /\ opt'[c] = opt[c]
  BY <1>1 DEF IInv, TypeOK
<1>4. ProfileIsWhole'
  BY <1>1, <1>3, CallsAssumption DEF IInv, ProfileIsWhole
<1>5. FlagFollows'
  BY <1>1, CallsAssumption DEF IInv, FlagFollows
<1> QED BY <1>2, <1>4, <1>5 DEF IInv

LEMMA SetHttpVersionHolds ==
    ASSUME IInv, NEW v \in OwnHttpVersions, SetHttpVersion(v)
    PROVE  IInv'
<1>1. /\ httpwant' = v /\ own' = own \cup {"http_version"}
      /\ UNCHANGED <<ssl_version, ssl_version_set, opt, headers, special, useragent,
                     base_headers, profile>>
  BY DEF SetHttpVersion, state
<1>2. TypeOK'
  BY <1>1, OwnAssumption DEF IInv, TypeOK
<1>3. ProfileIsWhole'
  BY <1>1 DEF IInv, ProfileIsWhole
<1>4. FlagFollows'
  BY <1>1 DEF IInv, FlagFollows
<1> QED BY <1>2, <1>3, <1>4 DEF IInv

LEMMA SetSslVersionHolds ==
    ASSUME IInv, NEW v \in OwnSslVersions, SetSslVersion(v)
    PROVE  IInv'
<1>1. /\ ssl_version' = v /\ ssl_version_set' = TRUE /\ own' = own \cup {"ssl_version"}
      /\ UNCHANGED <<httpwant, opt, headers, special, useragent, base_headers, profile>>
  BY DEF SetSslVersion, state
<1>2. TypeOK'
  BY <1>1, OwnAssumption DEF IInv, TypeOK
<1>3. ProfileIsWhole'
  BY <1>1 DEF IInv, ProfileIsWhole
<1>4. FlagFollows'
  BY <1>1 DEF IInv, FlagFollows
<1> QED BY <1>2, <1>3, <1>4 DEF IInv

LEMMA SetBaseHeadersHolds ==
    ASSUME IInv, NEW list \in BaseLists, SetBaseHeaders(list)
    PROVE  IInv'
<1>1. /\ base_headers' = list /\ own' = own \cup {"base_headers"}
      /\ UNCHANGED <<httpwant, ssl_version, ssl_version_set, opt, headers, special, useragent,
                     profile>>
  BY DEF SetBaseHeaders, set
<1>2. TypeOK'
  BY <1>1 DEF IInv, TypeOK
<1>3. ProfileIsWhole'
  BY <1>1 DEF IInv, ProfileIsWhole
<1>4. FlagFollows'
  BY <1>1 DEF IInv, FlagFollows
<1> QED BY <1>2, <1>3, <1>4 DEF IInv

\* Lists, User-Agent, transfers and copies change nothing the profile answers for.
LEMMA OthersHold ==
    ASSUME IInv,
           headers' \in HeaderLists, special' \in [{"http3", "ws"} -> SpecialLists],
           useragent' \in UserAgents \cup {NoAgent},
           UNCHANGED <<httpwant, ssl_version, ssl_version_set, opt, base_headers, profile, own>>
    PROVE  IInv'
<1>1. TypeOK'
  BY DEF IInv, TypeOK
<1>2. ProfileIsWhole'
  BY DEF IInv, ProfileIsWhole
<1>3. FlagFollows'
  BY DEF IInv, FlagFollows
<1> QED BY <1>1, <1>2, <1>3 DEF IInv
-----------------------------------------------------------------------------
LEMMA StepHolds == IInv /\ [Next]_vars => IInv'
<1> SUFFICES ASSUME IInv, [Next]_vars PROVE IInv'
  OBVIOUS
<1>t. /\ headers \in HeaderLists /\ special \in [{"http3", "ws"} -> SpecialLists]
      /\ useragent \in UserAgents \cup {NoAgent}
  BY DEF IInv, TypeOK
<1>1. ASSUME NEW target \in Targets, NEW d \in BOOLEAN, Impersonate(target, d) PROVE IInv'
  BY <1>1, ImpersonateHolds
<1>2. ASSUME NEW target \in Targets, NEW d \in BOOLEAN, NEW n \in 0..Len(Calls) - 1,
             ImpersonateInPart(target, d, n)
      PROVE  IInv'
  BY <1>2, ImpersonateInPartHolds
<1>3. ASSUME NEW o \in Options, NEW v \in Values, SetOption(o, v) PROVE IInv'
  BY <1>3, SetOptionHolds
<1>4. ASSUME NEW v \in OwnHttpVersions, SetHttpVersion(v) PROVE IInv'
  BY <1>4, SetHttpVersionHolds
<1>5. ASSUME NEW v \in OwnSslVersions, SetSslVersion(v) PROVE IInv'
  BY <1>5, SetSslVersionHolds
<1>6. ASSUME NEW list \in BaseLists, SetBaseHeaders(list) PROVE IInv'
  BY <1>6, SetBaseHeadersHolds
<1>7. ASSUME NEW list \in HeaderLists, SetHeaders(list) PROVE IInv'
  BY <1>t, <1>7, OthersHold DEF SetHeaders, state
<1>8. ASSUME NEW proto \in {"http3", "ws"}, NEW list \in SpecialLists,
             SetSpecialHeaders(proto, list)
      PROVE  IInv'
  <2>1. special' \in [{"http3", "ws"} -> SpecialLists]
    BY <1>t, <1>8 DEF SetSpecialHeaders
  <2> QED BY <1>t, <1>8, <2>1, OthersHold DEF SetSpecialHeaders, state
<1>9. ASSUME NEW agent \in UserAgents \cup {NoAgent}, SetUserAgent(agent) PROVE IInv'
  BY <1>t, <1>9, OthersHold DEF SetUserAgent, state
<1>10. CASE Perform
  BY <1>t, <1>10, OthersHold DEF Perform, set
<1>11. ASSUME NEW n \in 0..Len(Calls), Reset(n) PROVE IInv'
  BY <1>11, ResetHolds
<1>12. CASE Duplicate
  BY <1>t, <1>12, OthersHold DEF Duplicate, set
<1>13. CASE UNCHANGED vars
  BY <1>t, <1>13, OthersHold DEF vars, set, state
<1> QED BY <1>1, <1>2, <1>3, <1>4, <1>5, <1>6, <1>7, <1>8, <1>9, <1>10, <1>11, <1>12, <1>13
        DEF Next

\* The invariant holds, for every set of profiles.
THEOREM Invariance == Spec => []IInv
<1>1. Init => IInv
  BY InitHolds
<1>2. IInv /\ [Next]_vars => IInv'
  BY StepHolds
<1> QED BY <1>1, <1>2, PTL DEF Spec

\* Every call leaves a well-formed handle, whatever the profiles say.
THEOREM TypeCorrect == Spec => []TypeOK
<1>1. IInv => TypeOK
  BY DEF IInv
<1> QED BY <1>1, Invariance, PTL

\* No sequence of calls, of any length, mixes two browsers in what the application
\* left to the profile, or loses a part of one, on a handle that was given one profile
\* and whose calls succeeded.
THEOREM OneBrowser == Spec => []ProfileIsWhole
<1>1. IInv => ProfileIsWhole
  BY DEF IInv
<1> QED BY <1>1, Invariance, PTL

\* An impersonation, however far it gets, leaves a version that is set alone.
LEMMA ImpersonationKeeps ==
    ASSUME IInv, Impersonation
    PROVE  /\ "ssl_version" \in own => ssl_version' = ssl_version
           /\ ("http_version" \in own /\ httpwant # Default) => httpwant' = httpwant
<1>1. ASSUME NEW p, NEW d, NEW n
      PROVE  LET r == Impersonated(Now, p, d, n) IN
             /\ ssl_version_set => r.ssl_version = ssl_version
             /\ httpwant # Default => r.httpwant = httpwant
  BY DEF Impersonated, Now
<1>2. ASSUME NEW target \in Targets, NEW d \in BOOLEAN, Impersonate(target, d)
      PROVE  /\ ssl_version_set => ssl_version' = ssl_version
             /\ httpwant # Default => httpwant' = httpwant
  BY <1>1, <1>2 DEF Impersonate, Hold
<1>3. ASSUME NEW target \in Targets, NEW d \in BOOLEAN, NEW n \in 0..Len(Calls) - 1,
             ImpersonateInPart(target, d, n)
      PROVE  /\ ssl_version_set => ssl_version' = ssl_version
             /\ httpwant # Default => httpwant' = httpwant
  <2> DEFINE r == Impersonated(Now, Profile[target], d, n)
  <2>1. r \in Settled
    BY ProfileType, NowType, ImpersonatedType DEF IInv
  <2>2. httpwant' = r.httpwant /\ ssl_version' = r.ssl_version
    BY <1>3, <2>1 DEF ImpersonateInPart, Hold
  <2> QED BY <1>1, <2>2
<1>4. "ssl_version" \in own => ssl_version_set
  BY DEF IInv, FlagFollows
<1> QED BY <1>2, <1>3, <1>4 DEF Impersonation

\* No impersonation, complete or failed half way, overrides a version the application
\* chose, though the flag that protects it is the one impersonation itself raises.
THEOREM VersionsStay == Spec => OwnVersionsStay
<1>1. IInv /\ [Next]_vars =>
        [Impersonation =>
            /\ "ssl_version" \in own => ssl_version' = ssl_version
            /\ ("http_version" \in own /\ httpwant # Default) => httpwant' = httpwant]_vars
  BY ImpersonationKeeps
<1> QED BY <1>1, Invariance, PTL DEF Spec, OwnVersionsStay

-----------------------------------------------------------------------------
(***************************************************************************)
(* What is sent: every line comes from the lists a request is made of.     *)
(***************************************************************************)

\* The merged list is made of the headers of both lists and the User-Agent.
LEMMA MergedFrom ==
    ASSUME NEW S, NEW base \in Seq(S), NEW mine \in Seq(S), NEW agent,
           Header("User-Agent", agent) \in S
    PROVE  /\ Dressed(base, mine, agent) \in Seq(S) /\ Extras(base, mine) \in Seq(S)
           /\ At(Dressed(base, mine, agent), Headed(base)) \in Seq(S)
           /\ Merged(base, mine, agent) \in Seq(S)
<1>1. Dressed(base, mine, agent) \in Seq(S)
  <2> DEFINE d == Dressed(base, mine, agent)
  <2>1. ASSUME NEW i \in DOMAIN base PROVE d[i] \in S
    <3>1. CASE \E j \in DOMAIN mine : Overrides(mine, j, base, i)
      <4>1. d[i] = mine[CHOOSE j \in DOMAIN mine : Overrides(mine, j, base, i)]
        BY <3>1 DEF Dressed
      <4>2. (CHOOSE j \in DOMAIN mine : Overrides(mine, j, base, i)) \in DOMAIN mine
        BY <3>1
      <4> QED BY <4>1, <4>2
    <3>2. CASE ~ \E j \in DOMAIN mine : Overrides(mine, j, base, i)
      BY <3>2 DEF Dressed
    <3> QED BY <3>1, <3>2
  <2>2. DOMAIN d = 1..Len(base) /\ Len(base) \in Nat /\ d = [i \in DOMAIN base |-> d[i]]
    BY DEF Dressed
  <2> HIDE DEF d
  <2>3. d \in [1..Len(base) -> S]
    BY <2>1, <2>2
  <2> QED BY <2>2, <2>3 DEF d
<1>2. Extras(base, mine) \in Seq(S)
  <2> DEFINE P == {j \in DOMAIN mine : \A i \in DOMAIN base : ~Overrides(mine, j, base, i)}
  <2>1. P \in SUBSET DOMAIN mine
    OBVIOUS
  <2> HIDE DEF P
  <2>2. At(mine, P) \in Seq(S)
    BY <2>1, SublistIs
  <2> QED BY <2>2 DEF Extras, P
<1>3. At(Dressed(base, mine, agent), Headed(base)) \in Seq(S)
  <2> DEFINE d == Dressed(base, mine, agent)
  <2>1. Headed(base) \in SUBSET DOMAIN d
    BY DEF Headed, Dressed
  <2> HIDE DEF d
  <2>2. d \in Seq(S)
    BY <1>1 DEF d
  <2>3. At(d, Headed(base)) \in Seq(S)
    BY <2>1, <2>2, SublistIs
  <2> QED BY <2>3 DEF d
<1> QED BY <1>1, <1>2, <1>3, ConcatProperties DEF Merged

\* The lines of a list are its headers, and the User-Agent.
LEMMA LinesFrom ==
    ASSUME NEW S, NEW list \in Seq(S), NEW agent, NEW http1,
           Header("User-Agent", agent) \in S
    PROVE  Lines(list, agent, http1) \in Seq(S)
<1> DEFINE first == IF agent # NoAgent /\ Agents(list) = {}
                    THEN <<Header("User-Agent", agent)>> ELSE <<>>
           P == {i \in DOMAIN list :
                   list[i].value # Blank /\ list[i].name \notin Omitted(list, http1)}
<1>1. first \in Seq(S)
  OBVIOUS
<1>2. P \in SUBSET DOMAIN list
  OBVIOUS
<1>3. Lines(list, agent, http1) = first \o At(list, P)
  BY DEF Lines
<1> HIDE DEF first, P
<1>4. At(list, P) \in Seq(S)
  BY <1>2, SublistIs
<1> QED BY <1>1, <1>3, <1>4, ConcatProperties

\* Merged headers that the next transfer will not merge anew are not another browser's.
NothingStale ==
    (profile # Mixed /\ "base_headers" \notin own /\ base_headers = <<>>) => merged_headers = <<>>

LEMMA StaleStep ==
    ASSUME IInv, NothingStale, [Next]_vars
    PROVE  NothingStale'
<1>1. ASSUME NEW target \in Targets, NEW d \in BOOLEAN, Impersonate(target, d)
      PROVE  NothingStale'
  <2> DEFINE p == Profile[target]
             r == Impersonated(Now, p, d, Len(Calls))
  <2>1. /\ base_headers' = r.base_headers
        /\ profile' = IF profile \in {NoTarget, target} THEN target ELSE Mixed
        /\ own' = own \ Replaced(p, d)
        /\ merged_headers' = merged_headers
    BY <1>1 DEF Impersonate, Hold
  <2>2. r.base_headers = IF d /\ p.headers # <<>> THEN p.headers ELSE base_headers
    <3>1. /\ r.httpwant = IF httpwant = Default THEN p.http_version ELSE httpwant
          /\ r.ssl_version = IF ~ssl_version_set /\ p.ssl_version # Default
                             THEN p.ssl_version ELSE ssl_version
          /\ r.ssl_version_set = (ssl_version_set \/ (~ssl_version_set /\ p.ssl_version # Default))
          /\ r.opt = [o \in Options |-> IF p.opt[o] # Unset THEN p.opt[o] ELSE opt[o]]
          /\ r.base_headers = IF d /\ p.headers # <<>> THEN p.headers ELSE base_headers
      BY ImpersonatedAll DEF Now
    <3> QED BY <3>1
  <2> HIDE DEF r
  <2>3. "base_headers" \in Replaced(p, d) => d /\ p.headers # <<>>
    BY CallsAssumption DEF Replaced
  <2>4. profile' # Mixed => profile # Mixed
    BY <2>1, TargetAssumption
  <2> QED BY <2>1, <2>2, <2>3, <2>4 DEF NothingStale
<1>2. ASSUME NEW target \in Targets, NEW d \in BOOLEAN, NEW n \in 0..Len(Calls) - 1,
             ImpersonateInPart(target, d, n)
      PROVE  NothingStale'
  BY <1>2 DEF ImpersonateInPart, NothingStale
<1>3. ASSUME NEW o \in Options, NEW v \in Values, SetOption(o, v) PROVE NothingStale'
  BY <1>3, CallsAssumption DEF SetOption, NothingStale, state
<1>4. ASSUME NEW v \in OwnHttpVersions, SetHttpVersion(v) PROVE NothingStale'
  BY <1>4 DEF SetHttpVersion, NothingStale, state
<1>5. ASSUME NEW v \in OwnSslVersions, SetSslVersion(v) PROVE NothingStale'
  BY <1>5 DEF SetSslVersion, NothingStale, state
<1>6. ASSUME NEW list \in BaseLists, SetBaseHeaders(list) PROVE NothingStale'
  BY <1>6 DEF SetBaseHeaders, NothingStale
<1>7. ASSUME NEW list \in HeaderLists, SetHeaders(list) PROVE NothingStale'
  BY <1>7 DEF SetHeaders, NothingStale, state
<1>8. ASSUME NEW proto \in {"http3", "ws"}, NEW list \in SpecialLists,
             SetSpecialHeaders(proto, list)
      PROVE  NothingStale'
  BY <1>8 DEF SetSpecialHeaders, NothingStale, state
<1>9. ASSUME NEW agent \in UserAgents \cup {NoAgent}, SetUserAgent(agent) PROVE NothingStale'
  BY <1>9 DEF SetUserAgent, NothingStale, state
<1>10. CASE Perform
  BY <1>10 DEF Perform, NextMerged, NothingStale
<1>11. ASSUME NEW n \in 0..Len(Calls), Reset(n) PROVE NothingStale'
  BY <1>11 DEF Reset, NothingStale
<1>12. CASE Duplicate
  BY <1>12 DEF Duplicate, NothingStale
<1>13. CASE UNCHANGED vars
  BY <1>13 DEF vars, state, NothingStale
<1> QED BY <1>1, <1>2, <1>3, <1>4, <1>5, <1>6, <1>7, <1>8, <1>9, <1>10, <1>11, <1>12, <1>13
        DEF Next

\* Every list the application or a profile gives is a list of headers.
LEMMA ListsOfHeaders ==
    \A list \in HeaderLists \cup BaseLists \cup SpecialLists :
        \A T : (\A i \in DOMAIN list : list[i] \in T) => list \in Seq(T)
<1> DEFINE S == UNION {{list[i] : i \in DOMAIN list} :
                           list \in HeaderLists \cup BaseLists \cup SpecialLists}
<1> SUFFICES ASSUME NEW list \in HeaderLists \cup BaseLists \cup SpecialLists,
                    NEW T, \A i \in DOMAIN list : list[i] \in T
             PROVE  list \in Seq(T)
  OBVIOUS
<1>1. list \in Seq(S)
  BY ListAssumption
<1> HIDE DEF S
<1>2. Len(list) \in Nat /\ DOMAIN list = 1..Len(list)
      /\ list = [i \in 1..Len(list) |-> list[i]]
  BY <1>1
<1>3. list \in [1..Len(list) -> T]
  BY <1>2
<1> QED BY <1>2, <1>3

LEMMA OnlyOwnLines == IInv /\ NothingStale => NoForeignHeader
<1> SUFFICES ASSUME IInv, NothingStale, profile # Mixed, "base_headers" \notin own,
                    NEW proto \in Protocols
             PROVE  LET lines == NextLines(proto)
                        lists == {headers, special["http3"], special["ws"]}
                                 \cup {Profile[t].headers : t \in {profile} \cap Targets}
                    IN  \A i \in DOMAIN lines :
                            \/ \E list \in lists : \E j \in DOMAIN list : lines[i] = list[j]
                            \/ lines[i] = Header("User-Agent", useragent)
  BY DEF NoForeignHeader
<1> DEFINE lists == {headers, special["http3"], special["ws"]}
                    \cup {Profile[t].headers : t \in {profile} \cap Targets}
           S == {Header("User-Agent", useragent)}
                \cup UNION {{list[j] : j \in DOMAIN list} : list \in lists}
<1>1. Header("User-Agent", useragent) \in S
  OBVIOUS
<1>2. \A list \in lists : list \in HeaderLists \cup BaseLists \cup SpecialLists
  BY ProfileType DEF IInv, TypeOK, ProfileRecord
<1>3. \A list \in lists : list \in Seq(S)
  <2> SUFFICES ASSUME NEW list \in lists PROVE list \in Seq(S)
    OBVIOUS
  <2>1. \A i \in DOMAIN list : list[i] \in S
    OBVIOUS
  <2> QED BY <1>2, <2>1, ListsOfHeaders
<1>4. \A s : s \in S =>
         \/ \E list \in lists : \E j \in DOMAIN list : s = list[j]
         \/ s = Header("User-Agent", useragent)
  OBVIOUS
<1>5. headers \in Seq(S) /\ special["http3"] \in Seq(S) /\ special["ws"] \in Seq(S)
  BY <1>3
<1>6. base_headers = <<>> \/ base_headers \in lists
  BY TargetAssumption DEF IInv, TypeOK, ProfileIsWhole
<1> HIDE DEF lists, S
<1>7. base_headers \in Seq(S)
  <2>1. <<>> \in Seq(S)
    OBVIOUS
  <2> QED BY <1>3, <1>6, <2>1
<1>8. NextMerged \in Seq(S)
  BY <1>1, <1>5, <1>7, MergedFrom DEF NextMerged, NothingStale
<1> DEFINE list == RequestHeaders(IF proto \in DOMAIN special THEN special[proto] ELSE <<>>,
                                  NextMerged, headers)
<1>9. list \in Seq(S)
  <2>1. DOMAIN special = {"http3", "ws"}
    BY DEF IInv, TypeOK
  <2>2. proto \in DOMAIN special => special[proto] \in Seq(S)
    BY <1>5, <2>1
  <2> QED BY <1>5, <1>8, <2>2 DEF RequestHeaders
<1> HIDE DEF list
<1>10. NextLines(proto) \in Seq(S)
  <2>1. NextLines(proto) = Lines(list, useragent, proto \in {"http1", "ws"})
    BY DEF NextLines, NextHeaders, OverHttp1, list
  <2> QED BY <1>1, <1>9, <2>1, LinesFrom
<1>11. \A i \in DOMAIN NextLines(proto) : NextLines(proto)[i] \in S
  BY <1>10
<1> QED BY <1>4, <1>11 DEF lists

\* However the calls are ordered, no line of another browser, of a profile impersonated
\* before a reset, or of merged headers of an earlier transfer is ever sent, for lists
\* of any length.
THEOREM NothingForeign == Spec => []NoForeignHeader
<1>1. Init => NothingStale
  BY DEF Init, NothingStale
<1>2. IInv /\ NothingStale /\ [Next]_vars => NothingStale'
  BY StaleStep
<1>3. IInv /\ NothingStale => NoForeignHeader
  BY OnlyOwnLines
<1> QED BY <1>1, <1>2, <1>3, Invariance, PTL DEF Spec

\* A copy merges the headers its original would: anew if it has base headers, else none.
LEMMA DuplicateMergesTheSame ==
    ASSUME Duplicate, base_headers # <<>> \/ merged_headers = <<>>
    PROVE  NextMerged' = NextMerged
<1>1. /\ headers' = headers /\ useragent' = useragent /\ base_headers' = base_headers
      /\ merged_headers' = <<>>
  BY DEF Duplicate, set
<1>2. CASE base_headers # <<>>
  BY <1>1, <1>2 DEF NextMerged
<1>3. CASE base_headers = <<>>
  BY <1>1, <1>3 DEF NextMerged
<1> QED BY <1>2, <1>3

LEMMA DuplicateStep ==
    ASSUME Duplicate
    PROVE  /\ (base_headers # <<>> \/ merged_headers = <<>>) =>
                 (\A proto \in Protocols : NextLines(proto)' = NextLines(proto))
           /\ UNCHANGED <<httpwant, ssl_version, opt>>
<1>1. headers' = headers /\ special' = special /\ useragent' = useragent
      /\ UNCHANGED <<httpwant, ssl_version, opt>>
  BY DEF Duplicate, set
<1>2. ASSUME base_headers # <<>> \/ merged_headers = <<>>, NEW proto \in Protocols
      PROVE  NextLines(proto)' = NextLines(proto)
  <2>1. NextMerged' = NextMerged
    BY <1>2, DuplicateMergesTheSame
  <2> QED BY <1>1, <2>1 DEF NextLines, NextHeaders
<1> QED BY <1>1, <1>2

\* A copy of a handle sends what the handle would, though the copy takes the base
\* headers without the list they were merged to.
THEOREM CopiesSendTheSame == Spec => DuplicateSendsTheSame
<1>1. [Next]_vars =>
        [Duplicate =>
            /\ (base_headers # <<>> \/ merged_headers = <<>>) =>
                  (\A proto \in Protocols : NextLines(proto)' = NextLines(proto))
            /\ UNCHANGED <<httpwant, ssl_version, opt>>]_vars
  BY DuplicateStep
<1> QED BY <1>1, PTL DEF Spec, DuplicateSendsTheSame

-----------------------------------------------------------------------------
(***************************************************************************)
(* What the application asked for is what is sent.                         *)
(***************************************************************************)

\* The headers of a name that are not blank: those a request shows.
Shown(list, name) ==
    At(list, {i \in DOMAIN list : list[i].name = name /\ list[i].value # Blank})

\* The headers of S with a name, and those of them that are not blank.
OfName(S, name)  == {h \in S : h.name = name}
ToShow(S, name) == {h \in S : h.name = name /\ h.value # Blank}

LEMMA NamedAreThose ==
    ASSUME NEW S, NEW list \in Seq(S), NEW name
    PROVE  /\ Named(list, name) = Those(list, OfName(S, name))
           /\ Shown(list, name) = Those(list, ToShow(S, name))
<1>1. \A i \in DOMAIN list : list[i] \in S
  OBVIOUS
<1>2. {i \in DOMAIN list : list[i].name = name}
         = {i \in DOMAIN list : list[i] \in OfName(S, name)}
  BY <1>1 DEF OfName
<1>3. {i \in DOMAIN list : list[i].name = name /\ list[i].value # Blank}
         = {i \in DOMAIN list : list[i] \in ToShow(S, name)}
  BY <1>1 DEF ToShow
<1> QED BY <1>2, <1>3 DEF Named, Shown, Those

\* The line of CURLOPT_USERAGENT, if the list needs it and it has the name.
Added(list, agent, name) ==
    IF agent # NoAgent /\ Agents(list) = {} /\ name = "User-Agent"
    THEN <<Header("User-Agent", agent)>> ELSE <<>>

\* The lines of a name that is not left out are the headers of the list with that name,
\* but for the blank ones, after the User-Agent the list lacks.
LEMMA LinesNamed ==
    ASSUME NEW S, NEW list \in Seq(S), NEW agent, NEW http1, NEW name,
           Header("User-Agent", agent) \in S, name \notin Omitted(list, http1)
    PROVE  Named(Lines(list, agent, http1), name)
             = Added(list, agent, name) \o Shown(list, name)
<1> DEFINE put == agent # NoAgent /\ Agents(list) = {}
           first == IF put THEN <<Header("User-Agent", agent)>> ELSE <<>>
           P == {i \in DOMAIN list :
                   list[i].value # Blank /\ list[i].name \notin Omitted(list, http1)}
           H == OfName(S, name)
           Q == {i \in P : list[i] \in H}
<1>1. first \in Seq(S) /\ P \in SUBSET DOMAIN list
  OBVIOUS
<1>2. Lines(list, agent, http1) = first \o At(list, P)
  BY DEF Lines
<1>h. \A h : h \in H <=> h \in S /\ h.name = name
  BY DEF OfName
<1>3. Q = {i \in DOMAIN list : list[i].name = name /\ list[i].value # Blank}
  BY <1>h
<1>4. Those(first, H) = Added(list, agent, name)
  <2>1. CASE ~ put
    <3>1. first = <<>> /\ \A i \in DOMAIN first : first[i] \notin H
      BY <2>1
    <3> HIDE DEF first, H
    <3>2. Those(first, H) = <<>>
      BY <1>1, <3>1, ThoseOfNone
    <3> QED BY <2>1, <3>2 DEF Added
  <2>2. CASE put /\ name # "User-Agent"
    <3>1. \A i \in DOMAIN first : first[i] \notin H
      BY <1>h, <2>2 DEF Header
    <3> HIDE DEF first, H
    <3>2. Those(first, H) = <<>>
      BY <1>1, <3>1, ThoseOfNone
    <3> QED BY <2>2, <3>2 DEF Added
  <2>3. CASE put /\ name = "User-Agent"
    <3>1. \A i \in DOMAIN first : first[i] \in H
      BY <1>h, <2>3 DEF Header
    <3>2. first = <<Header("User-Agent", agent)>>
      BY <2>3
    <3> HIDE DEF first, H
    <3>3. Those(first, H) = first
      BY <1>1, <3>1, ThoseOfAll
    <3> QED BY <2>3, <3>2, <3>3 DEF Added
  <2> QED BY <2>1, <2>2, <2>3
<1> HIDE DEF first, P, H, Q
<1>5. At(list, P) \in Seq(S) /\ first \o At(list, P) \in Seq(S)
  BY <1>1, SublistIs, ConcatProperties
<1>6. Named(first \o At(list, P), name) = Those(first \o At(list, P), H)
  <2> DEFINE u == first \o At(list, P)
  <2>1. u \in Seq(S)
    BY <1>5
  <2> HIDE DEF u
  <2>2. Named(u, name) = Those(u, OfName(S, name))
    BY <2>1, NamedAreThose
  <2> QED BY <2>2 DEF u, H
<1>7. Those(first \o At(list, P), H) = Those(first, H) \o Those(At(list, P), H)
  BY <1>1, <1>5, ThoseOfBoth
<1>8. Those(At(list, P), H) = At(list, Q)
  BY <1>1, ThoseAt DEF Q
<1> QED BY <1>2, <1>3, <1>4, <1>6, <1>7, <1>8 DEF Shown

\* A base list names no header twice, and the User-Agent by its whole name.
NamesOnce(list) ==
    /\ \A i, j \in DOMAIN list :
          list[i].name = list[j].name /\ list[i].name # NoName => i = j
    /\ \A i \in DOMAIN list : list[i].name \in AgentPrefixes => list[i].name = "User-Agent"

\* A header keeps its name when it is dressed.
LEMMA DressedKeepsNames ==
    ASSUME NEW base, NEW mine, NEW agent, NEW i \in DOMAIN base, NamesOnce(base)
    PROVE  Dressed(base, mine, agent)[i].name = base[i].name
<1>1. CASE \E j \in DOMAIN mine : Overrides(mine, j, base, i)
  <2> DEFINE j == CHOOSE j \in DOMAIN mine : Overrides(mine, j, base, i)
  <2>1. Overrides(mine, j, base, i)
    BY <1>1
  <2>2. Dressed(base, mine, agent)[i] = mine[j]
    BY <1>1 DEF Dressed
  <2> QED BY <2>1, <2>2 DEF Overrides
<1>2. CASE ~ \E j \in DOMAIN mine : Overrides(mine, j, base, i)
  BY <1>2 DEF Dressed, Header, NamesOnce
<1> QED BY <1>1, <1>2

\* The headers of a name are those of the headed lines.
LEMMA ThoseOfHeaded ==
    ASSUME NEW S, NEW base, NEW list \in Seq(S), NEW H, DOMAIN list = DOMAIN base,
           \A i \in DOMAIN base : list[i] \in H => base[i].name # NoName
    PROVE  Those(At(list, Headed(base)), H) = Those(list, H)
<1>1. Headed(base) \in SUBSET DOMAIN list
  BY DEF Headed
<1>2. {i \in Headed(base) : list[i] \in H} = {i \in DOMAIN list : list[i] \in H}
  BY DEF Headed
<1>3. Those(At(list, Headed(base)), H) = At(list, {i \in Headed(base) : list[i] \in H})
  BY <1>1, ThoseAt
<1> QED BY <1>2, <1>3 DEF Those

\* The first header of a name has rank one, and no other has.
LEMMA FirstOfItsName ==
    ASSUME NEW S, NEW list \in Seq(S), NEW i \in DOMAIN list
    PROVE  /\ (\A j \in DOMAIN list : list[j].name = list[i].name => i <= j) => Rank(list, i) = 1
           /\ (\E j \in DOMAIN list : list[j].name = list[i].name /\ j < i) => Rank(list, i) # 1
<1> DEFINE A == {j \in 1..i : list[j].name = list[i].name}
<1>1. Len(list) \in Nat /\ DOMAIN list = 1..Len(list) /\ i \in 1..Len(list)
  OBVIOUS
<1>2. A \in SUBSET (1..i) /\ i \in A /\ i \in Nat
  BY <1>1
<1>3. IsFiniteSet(A)
  BY <1>2, InPlace
<1>4. ASSUME \A j \in DOMAIN list : list[j].name = list[i].name => i <= j
      PROVE  A = {i}
  BY <1>1, <1>4
<1>5. ASSUME NEW j \in DOMAIN list, list[j].name = list[i].name, j < i
      PROVE  j \in A /\ j # i
  BY <1>1, <1>5
<1> HIDE DEF A
<1>6. Cardinality(A) = 1 <=> \E x : A = {x}
  BY <1>3, FS_Singleton
<1>7. Rank(list, i) = Cardinality(A)
  BY DEF Rank, A
<1> QED BY <1>2, <1>4, <1>5, <1>6, <1>7

\* If the base names a header once at most, and the application gives it, however
\* often, the merged headers of that name are the application's, in its order.
LEMMA MergedHasOwn ==
    ASSUME NEW S, NEW base \in Seq(S), NEW mine \in Seq(S), NEW agent,
           Header("User-Agent", agent) \in S, NamesOnce(base),
           NEW name, name # NoName, \E j \in DOMAIN mine : mine[j].name = name,
           NEW H, \A h \in H : h.name = name
    PROVE  Those(Merged(base, mine, agent), H) = Those(mine, H)
<1> DEFINE D == Dressed(base, mine, agent)
           T == At(D, Headed(base))
           X == {j \in DOMAIN mine : \A i \in DOMAIN base : ~Overrides(mine, j, base, i)}
           Q == {j \in DOMAIN mine : mine[j] \in H}
           R == {j \in X : mine[j] \in H}
<1>1. /\ D \in Seq(S) /\ T \in Seq(S) /\ Extras(base, mine) \in Seq(S)
      /\ Merged(base, mine, agent) \in Seq(S)
  BY MergedFrom
<1>2. Merged(base, mine, agent) = T \o Extras(base, mine) /\ Extras(base, mine) = At(mine, X)
  BY DEF Merged, Extras
<1>3. DOMAIN D = DOMAIN base /\ \A i \in DOMAIN base : D[i].name = base[i].name
  <2>1. DOMAIN D = DOMAIN base
    BY DEF Dressed
  <2> QED BY <2>1, DressedKeepsNames
<1>4. X \in SUBSET DOMAIN mine /\ Q \in SUBSET DOMAIN mine
  OBVIOUS
<1>5. \A j \in DOMAIN mine : mine[j] \in S
  OBVIOUS
<1>6. \A j \in Q : j \in DOMAIN mine /\ mine[j].name = name /\ mine[j] \in H
  OBVIOUS
<1>7. \A j \in DOMAIN mine : mine[j] \in H => j \in Q
  OBVIOUS
<1>8. Those(mine, H) = At(mine, Q)
  BY DEF Those
<1>d. Those(T, H) = Those(D, H)
  <2>1. \A i \in DOMAIN base : D[i] \in H => base[i].name # NoName
    BY <1>3
  <2> HIDE DEF D
  <2> QED BY <1>1, <1>3, <2>1, ThoseOfHeaded
<1>9. Those(Merged(base, mine, agent), H) = Those(D, H) \o At(mine, R)
  <2> DEFINE M == Merged(base, mine, agent)
  <2>1. M \in Seq(S) /\ M = T \o At(mine, X) /\ At(mine, X) \in Seq(S)
    BY <1>1, <1>2
  <2> HIDE DEF M, T, X
  <2>3. Those(M, H) = Those(T, H) \o Those(At(mine, X), H)
    <3> DEFINE E == At(mine, X)
    <3>1. T \in Seq(S) /\ E \in Seq(S) /\ M = T \o E
      BY <1>1, <2>1
    <3> HIDE DEF E
    <3>2. Those(T \o E, H) = Those(T, H) \o Those(E, H)
      BY <3>1, ThoseOfBoth
    <3> QED BY <3>1, <3>2 DEF E
  <2>4. Those(At(mine, X), H) = At(mine, R)
    BY <1>4, ThoseAt
  <2> QED BY <1>d, <2>3, <2>4 DEF M
<1>10. At(mine, Q) \in Seq(S)
  BY <1>4, SublistIs
<1>11. \A j \in DOMAIN mine, i \in DOMAIN base :
          Overrides(mine, j, base, i) <=>
             mine[j].name = base[i].name /\ Rank(mine, j) = Rank(base, i)
  BY DEF Overrides
<1>12. \A i \in DOMAIN D : D[i] \in H => base[i].name = name
  BY <1>3
<1>13. \A j : j \in X <=> j \in DOMAIN mine
                          /\ \A i \in DOMAIN base : ~Overrides(mine, j, base, i)
  OBVIOUS
<1>14. \A j : j \in R <=> j \in X /\ j \in Q
  BY <1>4
<1> HIDE DEF D, T, X, Q, R
<1>16. CASE \A i \in DOMAIN base : base[i].name # name
  <2>1. Those(D, H) = <<>>
    BY <1>1, <1>3, <1>12, <1>16, ThoseOfNone
  <2>2. \A j : j \in R <=> j \in Q
    BY <1>6, <1>11, <1>13, <1>14, <1>16
  <2>3. R = Q
    BY <2>2
  <2>4. <<>> \o At(mine, Q) = At(mine, Q)
    BY <1>10
  <2> QED BY <1>8, <1>9, <2>1, <2>3, <2>4
<1>17. CASE \E i \in DOMAIN base : base[i].name = name
  <2>1. PICK b \in DOMAIN base : base[b].name = name
    BY <1>17
  <2>2. \A i \in DOMAIN base : base[i].name = name => i = b
    BY <2>1 DEF NamesOnce
  <2>3. PICK o \in DOMAIN mine : mine[o].name = name
                                 /\ \A j \in DOMAIN mine : mine[j].name = name => o <= j
    <3> DEFINE P == {j \in DOMAIN mine : mine[j].name = name}
    <3>1. P \in SUBSET Nat /\ P # {}
      OBVIOUS
    <3>2. \A j : j \in P <=> j \in DOMAIN mine /\ mine[j].name = name
      OBVIOUS
    <3> HIDE DEF P
    <3>3. \E n \in P : \A m \in P : n <= m
      BY <3>1, Least
    <3> QED BY <3>2, <3>3
  <2>4. Rank(base, b) = 1
    <3>1. \A j \in DOMAIN base : base[j].name = base[b].name => b <= j
      BY <2>1, <2>2
    <3> QED BY <3>1, FirstOfItsName
  <2>5. \A j \in DOMAIN mine : mine[j].name = name => (Rank(mine, j) = 1 <=> j = o)
    <3> SUFFICES ASSUME NEW j \in DOMAIN mine, mine[j].name = name
                 PROVE  Rank(mine, j) = 1 <=> j = o
      OBVIOUS
    <3>1. j # o => o < j
      BY <2>3
    <3>2. j # o => Rank(mine, j) # 1
      BY <2>3, <3>1, FirstOfItsName
    <3>3. j = o => Rank(mine, j) = 1
      BY <2>3, FirstOfItsName
    <3> QED BY <3>2, <3>3
  <2>6. \A j \in DOMAIN mine, i \in DOMAIN base :
           mine[j].name = name => (Overrides(mine, j, base, i) <=> j = o /\ i = b)
    BY <1>11, <2>1, <2>2, <2>4, <2>5
  <2>7. \A j \in DOMAIN mine : Overrides(mine, j, base, b) <=> j = o
    BY <1>11, <2>1, <2>3, <2>6
  <2>8. D[b] = mine[o]
    <3>1. (CHOOSE j \in DOMAIN mine : Overrides(mine, j, base, b)) = o
      BY <2>3, <2>7
    <3> QED BY <2>3, <2>7, <3>1 DEF D, Dressed
  <2>9. \A j : j \in R <=> j \in Q /\ j # o
    BY <1>6, <1>13, <1>14, <2>1, <2>6
  <2>10. \A j \in Q : j = o \/ o < j
    BY <1>6, <2>3
  <2>11. R \in SUBSET DOMAIN mine /\ \A j \in R : o < j
    BY <1>6, <2>9, <2>10
  <2>12. CASE o \in Q
    <3>1. D[b] \in H /\ b \in DOMAIN D
      BY <1>3, <1>5, <1>6, <2>8, <2>12
    <3>2. {i \in DOMAIN D : D[i] \in H} = {} \cup {b}
      BY <1>3, <1>12, <2>2, <3>1
    <3>3. At(D, {} \cup {b}) = Append(At(D, {}), D[b]) /\ At(D, {}) = <<>>
      <4>1. {} \in SUBSET DOMAIN D /\ \A i \in {} : i < b
        OBVIOUS
      <4> QED BY <1>1, <3>1, <4>1, OneMore, NoneAndAll
    <3>4. Those(D, H) = <<mine[o]>>
      <4>1. Those(D, H) = At(D, {} \cup {b})
        BY <3>2 DEF Those
      <4>2. Append(<<>>, mine[o]) = <<mine[o]>>
        OBVIOUS
      <4> QED BY <2>8, <3>3, <4>1, <4>2
    <3>5. Q = {o} \cup R
      BY <2>9, <2>12
    <3>6. At(mine, {o} \cup R) = <<mine[o]>> \o At(mine, R)
      BY <2>11, OneBefore
    <3> QED BY <1>8, <1>9, <3>4, <3>5, <3>6
  <2>13. CASE o \notin Q
    <3>1. \A i \in DOMAIN D : D[i] \notin H
      BY <1>3, <1>7, <1>12, <2>2, <2>3, <2>8, <2>13
    <3>2. Those(D, H) = <<>>
      BY <1>1, <3>1, ThoseOfNone
    <3>3. R = Q
      BY <2>9, <2>13
    <3> QED BY <1>8, <1>9, <1>10, <3>2, <3>3
  <2> QED BY <2>12, <2>13
<1> QED BY <1>16, <1>17

\* So a request shows them, and names what the application names.
LEMMA MergedShowsOwn ==
    ASSUME NEW S, NEW base \in Seq(S), NEW mine \in Seq(S), NEW agent,
           Header("User-Agent", agent) \in S, NamesOnce(base),
           NEW name, name # NoName, \E j \in DOMAIN mine : mine[j].name = name
    PROVE  /\ Shown(Merged(base, mine, agent), name) = Shown(mine, name)
           /\ \E j \in DOMAIN Merged(base, mine, agent) :
                 Merged(base, mine, agent)[j].name = name
<1> DEFINE M == Merged(base, mine, agent)
<1>1. M \in Seq(S)
  BY MergedFrom
<1>2. ASSUME NEW H, \A h \in H : h.name = name
      PROVE  Those(M, H) = Those(mine, H)
  <2>1. /\ base \in Seq(S) /\ mine \in Seq(S) /\ Header("User-Agent", agent) \in S
        /\ NamesOnce(base) /\ name # NoName /\ \A h \in H : h.name = name
        /\ \E j \in DOMAIN mine : mine[j].name = name
    BY <1>2
  <2>2. Those(Merged(base, mine, agent), H) = Those(mine, H)
    BY <2>1, MergedHasOwn, SMTT(30)
  <2> QED BY <2>2
<1> HIDE DEF M
<1>3. Shown(M, name) = Shown(mine, name)
  <2>1. \A h \in ToShow(S, name) : h.name = name
    BY DEF ToShow
  <2> QED BY <1>1, <1>2, <2>1, NamedAreThose
<1>4. \E j \in DOMAIN M : M[j].name = name
  <2> DEFINE H == OfName(S, name)
             Q == {j \in DOMAIN mine : mine[j] \in H}
  <2>1. \A h : h \in H <=> h \in S /\ h.name = name
    BY DEF OfName
  <2>2. Q \in SUBSET DOMAIN mine /\ Q # {}
    BY <2>1
  <2> HIDE DEF H
  <2>3. Those(M, H) = At(mine, Q)
    BY <1>2, <2>1 DEF Those
  <2> HIDE DEF Q
  <2>4. Len(At(mine, Q)) # 0
    <3>1. Len(mine) \in Nat /\ Q \in SUBSET (1..Len(mine))
      BY <2>2
    <3>2. IsFiniteSet(Q)
      BY <3>1, InPlace
    <3>3. Cardinality(Q) # 0
      BY <2>2, <3>2, FS_EmptySet
    <3> QED BY <2>2, <3>3, SublistIs
  <2>5. Those(M, H) # <<>>
    BY <2>3, <2>4
  <2>6. \E j \in DOMAIN M : M[j] \in H
    BY <1>1, <2>5, ThoseOfNone
  <2> QED BY <2>1, <2>6
<1> QED BY <1>3, <1>4 DEF M

\* If the application names no User-Agent in its headers but sets one, the base's is
\* replaced by it, and it is added where the base has none.
LEMMA MergedShowsAgent ==
    ASSUME NEW S, NEW base \in Seq(S), NEW mine \in Seq(S), NEW agent, NEW http1,
           Header("User-Agent", agent) \in S, NamesOnce(base),
           Agents(mine) = {}, agent # NoAgent, agent # Blank
    PROVE  Named(Lines(Merged(base, mine, agent), agent, http1), "User-Agent")
             = <<Header("User-Agent", agent)>>
<1> DEFINE ua == Header("User-Agent", agent)
           name == "User-Agent"
           D == Dressed(base, mine, agent)
           T == At(D, Headed(base))
           E == Extras(base, mine)
           M == Merged(base, mine, agent)
           H == ToShow(S, name)
<1>1. D \in Seq(S) /\ T \in Seq(S) /\ E \in Seq(S) /\ M \in Seq(S) /\ M = T \o E
  BY MergedFrom DEF Merged
<1>2. DOMAIN D = DOMAIN base /\ \A i \in DOMAIN base : D[i].name = base[i].name
  <2>1. DOMAIN D = DOMAIN base
    BY DEF Dressed
  <2> QED BY <2>1, DressedKeepsNames
<1>3. \A j \in DOMAIN mine : mine[j].name # name
  BY DEF Agents
<1>4. \A k \in DOMAIN E : E[k].name # name
  <2> DEFINE X == {j \in DOMAIN mine : \A i \in DOMAIN base : ~Overrides(mine, j, base, i)}
  <2>1. E = At(mine, X)
    BY DEF Extras
  <2>2. X \in SUBSET DOMAIN mine
    OBVIOUS
  <2> HIDE DEF X, E
  <2>3. Len(mine) \in Nat /\ X \in SUBSET (1..Len(mine))
    BY <2>2
  <2>4. \A k \in 1..Cardinality(X) : Nth(X, k) \in X
    BY <2>3, InPlace
  <2>5. At(mine, X) = [k \in 1..Cardinality(X) |-> mine[Nth(X, k)]]
    BY <2>2, SublistIs
  <2> QED BY <1>3, <2>1, <2>2, <2>4, <2>5
<1>5. \A i \in DOMAIN base : base[i].name = name => D[i] = ua
  BY <1>3, AgentAssumption DEF Dressed, Overrides
<1>h. \A h : h \in H <=> h \in S /\ h.name = name /\ h.value # Blank
  BY DEF ToShow
<1>u. ua.name = name /\ ua.value = agent /\ ua \in S
  BY DEF Header
<1>t. (\E k \in DOMAIN T : T[k].name = name) <=> (\E i \in DOMAIN base : base[i].name = name)
  <2> DEFINE W == Headed(base)
  <2>1. W \in SUBSET DOMAIN D /\ \A i \in DOMAIN base : base[i].name = name => i \in W
    BY <1>2, AgentAssumption DEF Headed
  <2> HIDE DEF W, D
  <2>2. Len(D) \in Nat /\ DOMAIN D = 1..Len(D) /\ W \in SUBSET (1..Len(D))
    BY <1>1, <2>1
  <2> DEFINE N == Cardinality(W)
  <2>3. DOMAIN At(D, W) = 1..N /\ At(D, W) = [k \in 1..N |-> D[Nth(W, k)]]
    BY <1>1, <2>1, SublistIs
  <2>4. \A k \in 1..N : Nth(W, k) \in W
    BY <2>2, InPlace
  <2>5. \A i \in W : \E k \in 1..N : Nth(W, k) = i
    BY <2>2, InPlace
  <2> HIDE DEF N
  <2>6. \A k \in 1..N : At(D, W)[k] = D[Nth(W, k)]
    BY <2>3
  <2>7. T = At(D, W)
    BY DEF W
  <2>8. \A i \in W : i \in DOMAIN base
    BY DEF W, Headed
  <2> HIDE DEF T
  <2> QED BY <1>2, <2>1, <2>3, <2>4, <2>5, <2>6, <2>7, <2>8
<1>6. Agents(M) = {} <=> \A i \in DOMAIN base : base[i].name # name
  <2>1. /\ Len(T) \in Nat /\ Len(E) \in Nat
        /\ DOMAIN T = 1..Len(T) /\ DOMAIN E = 1..Len(E) /\ DOMAIN M = 1..Len(T) + Len(E)
        /\ \A i \in 1..Len(T) : M[i] = T[i]
        /\ \A i \in 1..Len(E) : M[Len(T) + i] = E[i]
    <3> HIDE DEF T, E, M
    <3> QED BY <1>1
  <2> HIDE DEF T, E, M
  <2>2. \A i \in DOMAIN M : i \in DOMAIN T \/ \E k \in DOMAIN E : i = Len(T) + k
    <3> SUFFICES ASSUME NEW i \in DOMAIN M, i \notin DOMAIN T
                 PROVE  i - Len(T) \in DOMAIN E /\ i = Len(T) + (i - Len(T))
      OBVIOUS
    <3> QED BY <2>1
  <2>3. DOMAIN T \subseteq DOMAIN M
    BY <2>1
  <2>4. \A i \in DOMAIN M : M[i].name = name <=> i \in DOMAIN T /\ T[i].name = name
    BY <1>4, <2>1, <2>2, <2>3
  <2>5. Agents(M) = {} <=> \A i \in DOMAIN M : M[i].name # name
    BY DEF Agents
  <2> QED BY <1>t, <2>3, <2>4, <2>5
<1>d. Those(T, H) = Those(D, H)
  <2>1. \A i \in DOMAIN base : D[i] \in H => base[i].name # NoName
    BY <1>2, <1>h, AgentAssumption
  <2> HIDE DEF D, H
  <2> QED BY <1>1, <1>2, <2>1, ThoseOfHeaded
<1>7. Shown(M, name) = Those(D, H)
  <2> HIDE DEF D, T, E, M, H
  <2>1. Shown(M, name) = Those(M, H)
    BY <1>1, NamedAreThose DEF H
  <2>2. Those(M, H) = Those(D, H) \o Those(E, H)
    <3>1. T \in Seq(S) /\ E \in Seq(S) /\ M = T \o E
      BY <1>1
    <3>2. Those(T \o E, H) = Those(T, H) \o Those(E, H)
      BY <3>1, ThoseOfBoth
    <3> QED BY <1>d, <3>1, <3>2
  <2>3. Those(E, H) = <<>>
    BY <1>1, <1>4, <1>h, ThoseOfNone
  <2>4. Those(D, H) \in Seq(S)
    <3> DEFINE P == {i \in DOMAIN D : D[i] \in H}
    <3>1. P \in SUBSET DOMAIN D
      OBVIOUS
    <3> HIDE DEF P
    <3>2. At(D, P) \in Seq(S)
      BY <1>1, <3>1, SublistIs
    <3> QED BY <3>2 DEF Those, P
  <2> QED BY <2>1, <2>2, <2>3, <2>4
<1>8. Named(Lines(M, agent, http1), name)
         = (IF Agents(M) = {} THEN <<ua>> ELSE <<>>) \o Shown(M, name)
  <2> HIDE DEF M
  <2>1. Named(Lines(M, agent, http1), name) = Added(M, agent, name) \o Shown(M, name)
    <3>1. name \notin Omitted(M, http1) /\ M \in Seq(S)
      BY <1>1 DEF Omitted
    <3> HIDE DEF name
    <3>2. Header("User-Agent", agent) \in S
      OBVIOUS
    <3> QED BY <3>1, <3>2, LinesNamed
  <2>2. Added(M, agent, name) = IF Agents(M) = {} THEN <<ua>> ELSE <<>>
    BY DEF Added
  <2> QED BY <2>1, <2>2
<1> HIDE DEF D, T, E, M, H, ua
<1>9. CASE \A i \in DOMAIN base : base[i].name # name
  <2>1. Those(D, H) = <<>>
    BY <1>1, <1>2, <1>9, <1>h, ThoseOfNone
  <2> QED BY <1>6, <1>7, <1>8, <1>9, <2>1 DEF M, ua
<1>10. CASE \E i \in DOMAIN base : base[i].name = name
  <2>1. PICK b \in DOMAIN base : base[b].name = name
    BY <1>10
  <2>2. \A i \in DOMAIN base : base[i].name = name => i = b
    BY <2>1, AgentAssumption DEF NamesOnce
  <2>3. D[b] = ua /\ D[b] \in H /\ b \in DOMAIN D
    BY <1>2, <1>5, <1>h, <1>u, <2>1
  <2>4. {i \in DOMAIN D : D[i] \in H} = {} \cup {b}
    BY <1>2, <1>h, <2>2, <2>3
  <2>5. At(D, {} \cup {b}) = Append(At(D, {}), D[b]) /\ At(D, {}) = <<>>
    <3>1. {} \in SUBSET DOMAIN D /\ \A i \in {} : i < b
      OBVIOUS
    <3> QED BY <1>1, <2>3, <3>1, OneMore, NoneAndAll
  <2>6. Those(D, H) = <<ua>>
    <3>1. Those(D, H) = At(D, {} \cup {b})
      BY <2>4 DEF Those
    <3>2. Append(<<>>, ua) = <<ua>>
      OBVIOUS
    <3> QED BY <2>3, <2>5, <3>1, <3>2
  <2> QED BY <1>6, <1>7, <1>8, <2>1, <2>6 DEF M, ua
<1> QED BY <1>9, <1>10

\* The same of a list that is sent as it is.
LEMMA PlainShowsOwn ==
    ASSUME NEW S, NEW list \in Seq(S), NEW agent, NEW http1, NEW name,
           Header("User-Agent", agent) \in S, name \notin Omitted(list, http1),
           \E i \in DOMAIN list : list[i].name = name
    PROVE  Named(Lines(list, agent, http1), name) = Shown(list, name)
<1>1. ~ (Agents(list) = {} /\ name = "User-Agent")
  BY DEF Agents
<1>2. Named(Lines(list, agent, http1), name) = <<>> \o Shown(list, name)
  <2>1. Named(Lines(list, agent, http1), name) = Added(list, agent, name) \o Shown(list, name)
    BY LinesNamed
  <2>2. Added(list, agent, name) = <<>>
    BY <1>1 DEF Added
  <2> QED BY <2>1, <2>2
<1>3. Shown(list, name) \in Seq(S)
  <2> DEFINE P == {i \in DOMAIN list : list[i].name = name /\ list[i].value # Blank}
  <2>1. P \in SUBSET DOMAIN list
    OBVIOUS
  <2> HIDE DEF P
  <2>2. At(list, P) \in Seq(S)
    BY <2>1, SublistIs
  <2> QED BY <2>2 DEF Shown, P
<1> QED BY <1>2, <1>3

LEMMA PlainShowsAgent ==
    ASSUME NEW S, NEW list \in Seq(S), NEW agent, NEW http1,
           Header("User-Agent", agent) \in S, Agents(list) = {}, agent # NoAgent
    PROVE  Named(Lines(list, agent, http1), "User-Agent") = <<Header("User-Agent", agent)>>
<1> DEFINE name == "User-Agent"
<1>1. name \notin Omitted(list, http1)
  BY DEF Omitted
<1>2. {i \in DOMAIN list : list[i].name = name /\ list[i].value # Blank} = {}
  BY DEF Agents
<1>3. Shown(list, name) = <<>>
  BY <1>2, NoneAndAll DEF Shown
<1>4. Added(list, agent, name) = <<Header("User-Agent", agent)>>
  BY DEF Added
<1> HIDE DEF name
<1>5. Named(Lines(list, agent, http1), name) = Added(list, agent, name) \o Shown(list, name)
  BY <1>1, LinesNamed
<1>6. <<Header("User-Agent", agent)>> \o <<>> = <<Header("User-Agent", agent)>>
  OBVIOUS
<1> QED BY <1>3, <1>4, <1>5, <1>6 DEF name

LEMMA OwnHeadersSent ==
    ASSUME IInv, \A list \in BaseLists : NamesOnce(list)
    PROVE  ApplicationHeadersWin
<1> DEFINE instead(proto) == proto \in DOMAIN special /\ special[proto] # <<>>
           mine(proto)    == IF instead(proto) THEN special[proto] ELSE headers
           http1(proto)   == OverHttp1(proto)
           omitted(proto) == Omitted(NextHeaders(proto), http1(proto))
<1> SUFFICES ASSUME NEW proto \in Protocols,
                    base_headers # <<>> \/ merged_headers = <<>> \/ instead(proto)
             PROVE  /\ \A i \in DOMAIN mine(proto) :
                          mine(proto)[i].name \notin omitted(proto) =>
                              Named(NextLines(proto), mine(proto)[i].name)
                                  = Shown(mine(proto), mine(proto)[i].name)
                    /\ (useragent # NoAgent /\ Agents(mine(proto)) = {}) =>
                          Named(NextLines(proto), "User-Agent")
                              = <<Header("User-Agent", useragent)>>
  BY DEF ApplicationHeadersWin, Shown
<1> DEFINE lists == {headers, special["http3"], special["ws"], base_headers}
           S == {Header("User-Agent", useragent)}
                \cup UNION {{list[j] : j \in DOMAIN list} : list \in lists}
<1>1. Header("User-Agent", useragent) \in S
  OBVIOUS
<1>2. \A list \in lists : list \in Seq(S)
  <2> SUFFICES ASSUME NEW list \in lists PROVE list \in Seq(S)
    OBVIOUS
  <2>1. list \in HeaderLists \cup BaseLists \cup SpecialLists
    BY DEF IInv, TypeOK
  <2>2. \A i \in DOMAIN list : list[i] \in S
    OBVIOUS
  <2> QED BY <2>1, <2>2, ListsOfHeaders
<1>3. headers \in Seq(S) /\ special["http3"] \in Seq(S) /\ special["ws"] \in Seq(S)
      /\ base_headers \in Seq(S)
  BY <1>2
<1>4. DOMAIN special = {"http3", "ws"}
  BY DEF IInv, TypeOK
<1>5. NamesOnce(base_headers)
  BY DEF IInv, TypeOK
<1>n. \A i \in DOMAIN headers : headers[i].name # NoName
  BY NameAssumption DEF IInv, TypeOK
<1>6. useragent # NoAgent => useragent # Blank
  BY OwnAssumption DEF IInv, TypeOK
<1> HIDE DEF S, lists
<1>7. mine(proto) \in Seq(S)
  BY <1>3, <1>4
<1>8. CASE instead(proto) \/ base_headers = <<>>
  <2>1. /\ NextLines(proto) = Lines(mine(proto), useragent, http1(proto))
        /\ omitted(proto) = Omitted(mine(proto), http1(proto))
    BY <1>8 DEF NextLines, NextHeaders, NextMerged, RequestHeaders
  <2> DEFINE list == mine(proto)  h == http1(proto)
  <2> HIDE DEF list, h
  <2>2. \A i \in DOMAIN list : list[i].name \notin Omitted(list, h) =>
           Named(Lines(list, useragent, h), list[i].name) = Shown(list, list[i].name)
    BY <1>1, <1>7, PlainShowsOwn DEF list
  <2>3. (useragent # NoAgent /\ Agents(list) = {}) =>
           Named(Lines(list, useragent, h), "User-Agent") = <<Header("User-Agent", useragent)>>
    BY <1>1, <1>7, PlainShowsAgent DEF list
  <2> QED BY <2>1, <2>2, <2>3 DEF list, h
<1>9. CASE ~ instead(proto) /\ base_headers # <<>>
  <2> DEFINE M == Merged(base_headers, headers, useragent)  h == http1(proto)
  <2>1. M \in Seq(S) /\ RequestHeaders(<<>>, M, headers) = M
    <3>1. M \in Seq(S)
      BY <1>1, <1>3, MergedFrom
    <3>2. ASSUME M = <<>>, headers # <<>> PROVE FALSE
      <4>1. 1 \in DOMAIN headers
        BY <1>3, <3>2
      <4> DEFINE name == headers[1].name
      <4>2. \E j \in DOMAIN headers : headers[j].name = name
        BY <4>1
      <4>3. name # NoName
        BY <1>n, <4>1
      <4> HIDE DEF name
      <4>4. \E j \in DOMAIN M : M[j].name = name
        BY <1>1, <1>3, <1>5, <4>2, <4>3, MergedShowsOwn
      <4> QED BY <3>2, <4>4
    <3> QED BY <3>1, <3>2 DEF RequestHeaders
  <2>2. /\ mine(proto) = headers /\ NextLines(proto) = Lines(M, useragent, h)
        /\ omitted(proto) = Omitted(M, h)
    <3>1. NextHeaders(proto) = RequestHeaders(<<>>, M, headers)
      BY <1>9 DEF NextHeaders, NextMerged, RequestHeaders
    <3> HIDE DEF M
    <3> QED BY <1>9, <2>1, <3>1 DEF NextLines
  <2> HIDE DEF h
  <2>3. ASSUME NEW i \in DOMAIN headers, headers[i].name \notin Omitted(M, h)
        PROVE  Named(Lines(M, useragent, h), headers[i].name) = Shown(headers, headers[i].name)
    <3> DEFINE name == headers[i].name
    <3>1. \E j \in DOMAIN headers : headers[j].name = name
      OBVIOUS
    <3>2. name \notin Omitted(M, h) /\ name # NoName
      BY <1>n, <2>3
    <3> HIDE DEF name
    <3>3. Shown(M, name) = Shown(headers, name) /\ \E j \in DOMAIN M : M[j].name = name
      BY <1>1, <1>3, <1>5, <3>1, <3>2, MergedShowsOwn
    <3>6. Named(Lines(M, useragent, h), name) = Shown(M, name)
      BY <1>1, <2>1, <3>2, <3>3, PlainShowsOwn
    <3> QED BY <3>3, <3>6 DEF name
  <2>4. (useragent # NoAgent /\ Agents(headers) = {}) =>
           Named(Lines(M, useragent, h), "User-Agent") = <<Header("User-Agent", useragent)>>
    BY <1>1, <1>3, <1>5, <1>6, MergedShowsAgent
  <2> QED BY <2>2, <2>3, <2>4
<1> QED BY <1>8, <1>9

\* What the application asks for is what is sent, after any sequence of calls and for
\* lists of any length, if no list of base headers names a header twice, or one by a
\* beginning of "User-Agent": where one does, the application's one header of that name
\* replaces the first only, and the User-Agent stands in the other's place.
THEOREM OwnHeadersWin ==
    ASSUME \A list \in BaseLists : NamesOnce(list)
    PROVE  Spec => []ApplicationHeadersWin
<1>1. IInv => ApplicationHeadersWin
  BY OwnHeadersSent
<1> QED BY <1>1, Invariance, PTL
=============================================================================
