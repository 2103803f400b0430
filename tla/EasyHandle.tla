----------------------------- MODULE EasyHandle -----------------------------
(***************************************************************************)
(* One libcurl-impersonate easy handle: the options an application sets on *)
(* it, the browser profiles it is made to impersonate, and the request it  *)
(* would send (easy.c, setopt.c, url.c and http.c of patches/curl.patch).  *)
(*                                                                         *)
(* A handle is used by one thread, so every call is one step; what is hard *)
(* is the order of the calls.  Handles share nothing that changes, so one  *)
(* handle is followed: after curl_easy_duphandle, the duplicate.           *)
(***************************************************************************)
EXTENDS HttpHeaders

CONSTANTS
    Targets,         \* the names in the impersonations array
    Profile,         \* the profile of each target
    Before, After,   \* the options _do_impersonate sets before and after the headers
    Values,          \* what an option can be set to
    Unset,           \* a profile says nothing about the option
    Default,         \* an option or a version nobody has set
    Versions,        \* HTTP and TLS versions
    OwnHttpVersions, \* those the application asks for
    OwnSslVersions,
    HeaderLists,     \* the lists it gives CURLOPT_HTTPHEADER
    BaseLists,       \*   and CURLOPT_HTTPBASEHEADER
    SpecialLists,    \*   and CURLOPT_HTTP3_HTTPHEADER, CURLOPT_WS_HTTPHEADER
    UserAgents,      \* what it sets CURLOPT_USERAGENT to
    NoTarget,        \* nothing was impersonated
    Mixed,           \* more than one profile, or part of one, was
    EnvTarget,       \* the target CURL_IMPERSONATE names, or NoTarget
    EnvHeaders       \* CURL_IMPERSONATE_HEADERS is not "no"

Options == {Before[i] : i \in DOMAIN Before} \cup {After[i] : i \in DOMAIN After}

Settings == Options \cup {"http_version", "ssl_version", "base_headers"}

\* The setopt calls of _do_impersonate, in order.
Calls == <<"http_version", "ssl_version">> \o Before \o <<"base_headers">> \o After

Protocols == {"http1", "http2", "http3", "ws"}

ProfileRecord == [http_version : Versions,
                  ssl_version  : Versions \cup {Default},
                  opt          : [Options -> Values \cup {Unset}],
                  headers      : BaseLists]

ASSUME CallsAssumption ==
    /\ Before \in Seq(Settings) /\ After \in Seq(Settings)
    /\ {"http_version", "ssl_version", "base_headers"} \cap Options = {}
ASSUME ListAssumption ==
    LET lists == HeaderLists \cup BaseLists \cup SpecialLists
    IN  lists \subseteq Seq(UNION {{list[i] : i \in DOMAIN list} : list \in lists})
ASSUME NameAssumption ==
    \A list \in HeaderLists \cup SpecialLists : \A i \in DOMAIN list : list[i].name # NoName
ASSUME ProfileAssumption == Profile \in [Targets -> ProfileRecord]
ASSUME TargetAssumption ==
    /\ NoTarget # Mixed /\ {NoTarget, Mixed} \cap Targets = {}
    /\ EnvTarget \in Targets \cup {NoTarget}
ASSUME EnvAssumption == EnvHeaders \in BOOLEAN
ASSUME DefaultAssumption == Default \in Values /\ Default \notin Versions /\ Unset \notin Values
ASSUME OwnAssumption ==
    /\ OwnHttpVersions \subseteq Versions \cup {Default}
    /\ OwnSslVersions \subseteq Versions \cup {Default}
    /\ Blank \notin UserAgents
    /\ <<>> \in HeaderLists \cap BaseLists \cap SpecialLists

VARIABLES
    httpwant, ssl_version, ssl_version_set,    \* data->set
    opt,                                       \* the other options of a profile
    headers, special, useragent,               \* lists and User-Agent of the application
    base_headers, merged_headers,              \* data->state
    profile,       \* history: the one profile impersonated since the handle was new
    own            \* history: what the application set since, and no profile replaced

set   == <<httpwant, ssl_version, ssl_version_set, opt, headers, special, useragent>>
state == <<base_headers, merged_headers>>
vars  == <<set, state, profile, own>>

TypeOK ==
    /\ httpwant \in Versions \cup {Default}
    /\ ssl_version \in Versions \cup {Default} /\ ssl_version_set \in BOOLEAN
    /\ opt \in [Options -> Values]
    /\ headers \in HeaderLists
    /\ special \in [{"http3", "ws"} -> SpecialLists]
    /\ useragent \in UserAgents \cup {NoAgent}
    /\ base_headers \in BaseLists
    /\ profile \in Targets \cup {NoTarget, Mixed}
    /\ own \subseteq Settings
-----------------------------------------------------------------------------
(***************************************************************************)
(* The steps a call is made of, each from a record of what they change.    *)
(***************************************************************************)

Settled == [httpwant        : Versions \cup {Default},
            ssl_version     : Versions \cup {Default},
            ssl_version_set : BOOLEAN,
            opt             : [Options -> Values],
            base_headers    : BaseLists]

Now == [httpwant |-> httpwant, ssl_version |-> ssl_version,
        ssl_version_set |-> ssl_version_set, opt |-> opt, base_headers |-> base_headers]

\* Curl_freeset and Curl_init_userdefined: as a handle is made.
New == [httpwant |-> Default, ssl_version |-> Default, ssl_version_set |-> FALSE,
        opt |-> [o \in Options |-> Default], base_headers |-> <<>>]

\* Mutant: what the profile says nothing about is set too.
ImpersonatedInAll(s, p, default_headers, n) ==
    [s EXCEPT !.opt = [o \in Options |-> IF \E i \in 1..n : Calls[i] = o
                                         THEN p.opt[o] ELSE s.opt[o]]]

\* Mutant: the profile's versions replace those that are set.
ImpersonatedAnew(s, p, default_headers, n) ==
    LET done(call) == \E i \in 1..n : Calls[i] = call
        tls == done("ssl_version") /\ p.ssl_version # Default
    IN  [httpwant        |-> IF done("http_version") THEN p.http_version ELSE s.httpwant,
         ssl_version     |-> IF tls THEN p.ssl_version ELSE s.ssl_version,
         ssl_version_set |-> s.ssl_version_set \/ tls,
         opt             |-> [o \in Options |-> IF done(o) /\ p.opt[o] # Unset
                                                THEN p.opt[o] ELSE s.opt[o]],
         base_headers    |-> IF done("base_headers") /\ default_headers /\ p.headers # <<>>
                             THEN p.headers ELSE s.base_headers]

\* The first n calls of _do_impersonate have succeeded: versions that are set already
\* stay, an option the profile says nothing about keeps its value.
Impersonated(s, p, default_headers, n) ==
    LET done(call) == \E i \in 1..n : Calls[i] = call
        tls == done("ssl_version") /\ ~s.ssl_version_set /\ p.ssl_version # Default
    IN  [httpwant        |-> IF done("http_version") /\ s.httpwant = Default
                             THEN p.http_version ELSE s.httpwant,
         ssl_version     |-> IF tls THEN p.ssl_version ELSE s.ssl_version,
         ssl_version_set |-> s.ssl_version_set \/ tls,
         opt             |-> [o \in Options |-> IF done(o) /\ p.opt[o] # Unset
                                                THEN p.opt[o] ELSE s.opt[o]],
         base_headers    |-> IF done("base_headers") /\ default_headers /\ p.headers # <<>>
                             THEN p.headers ELSE s.base_headers]

\* The handle holds s.
Hold(s) ==
    /\ httpwant' = s.httpwant
    /\ ssl_version' = s.ssl_version
    /\ ssl_version_set' = s.ssl_version_set
    /\ opt' = s.opt
    /\ base_headers' = s.base_headers

\* What of the application's the profile replaces.  Its versions stay, unless the
\* HTTP version it asked for is the default.
Replaced(p, default_headers) ==
    {o \in Options : p.opt[o] # Unset}
    \cup {c \in {"base_headers"} : default_headers /\ p.headers # <<>>}
    \cup {c \in {"http_version"} : httpwant = Default}

\* A new handle, impersonating the target CURL_IMPERSONATE names, if any; n of the
\* calls of _do_impersonate succeed.
Fresh(n) == IF EnvTarget \in Targets THEN Impersonated(New, Profile[EnvTarget], EnvHeaders, n)
            ELSE New

FreshProfile(n) == IF EnvTarget \notin Targets THEN NoTarget
                   ELSE IF n = Len(Calls) THEN EnvTarget ELSE Mixed
-----------------------------------------------------------------------------
(***************************************************************************)
(* The calls.                                                              *)
(***************************************************************************)

\* curl_easy_init gives no handle at all if it cannot impersonate CURL_IMPERSONATE.
Init ==
    /\ LET s == Fresh(Len(Calls)) IN
       /\ httpwant = s.httpwant
       /\ ssl_version = s.ssl_version
       /\ ssl_version_set = s.ssl_version_set
       /\ opt = s.opt
       /\ base_headers = s.base_headers
    /\ headers = <<>> /\ special = [proto \in {"http3", "ws"} |-> <<>>]
    /\ useragent = NoAgent
    /\ merged_headers = <<>>
    /\ profile = FreshProfile(Len(Calls))
    /\ own = {}

\* CURLOPT_IMPERSONATE and curl_easy_impersonate, with and without default headers.
Impersonate(target, default_headers) ==
    /\ Hold(Impersonated(Now, Profile[target], default_headers, Len(Calls)))
    /\ profile' = IF profile \in {NoTarget, target} THEN target ELSE Mixed
    /\ own' = own \ Replaced(Profile[target], default_headers)
    /\ UNCHANGED <<headers, special, useragent, merged_headers>>

\* A setopt call may fail, for want of memory or of a feature of the build: the calls
\* before it have had their effect.  The base headers are freed before they are copied.
ImpersonateInPart(target, default_headers, n) ==
    LET s == Impersonated(Now, Profile[target], default_headers, n) IN
    /\ \/ Hold(s)
       \/ /\ Calls[n + 1] = "base_headers" /\ default_headers
          /\ Profile[target].headers # <<>>
          /\ Hold([s EXCEPT !.base_headers = <<>>])
    /\ profile' = Mixed
    /\ UNCHANGED <<headers, special, useragent, merged_headers, own>>

\* The application's own settings.
SetOption(o, v) ==
    /\ opt' = [opt EXCEPT ![o] = v]
    /\ own' = own \cup {o}
    /\ UNCHANGED <<httpwant, ssl_version, ssl_version_set, headers, special, useragent, state, profile>>

SetHttpVersion(v) ==
    /\ httpwant' = v
    /\ own' = own \cup {"http_version"}
    /\ UNCHANGED <<ssl_version, ssl_version_set, opt, headers, special, useragent, state, profile>>

SetSslVersion(v) ==
    /\ ssl_version' = v /\ ssl_version_set' = TRUE
    /\ own' = own \cup {"ssl_version"}
    /\ UNCHANGED <<httpwant, opt, headers, special, useragent, state, profile>>

SetBaseHeaders(list) ==
    /\ base_headers' = list
    /\ own' = own \cup {"base_headers"}
    /\ UNCHANGED <<set, merged_headers, profile>>

SetHeaders(list) ==
    /\ headers' = list
    /\ UNCHANGED <<httpwant, ssl_version, ssl_version_set, opt, special, useragent, state, profile, own>>

SetSpecialHeaders(proto, list) ==
    /\ special' = [special EXCEPT ![proto] = list]
    /\ UNCHANGED <<httpwant, ssl_version, ssl_version_set, opt, headers, useragent, state, profile, own>>

SetUserAgent(agent) ==
    /\ useragent' = agent
    /\ UNCHANGED <<httpwant, ssl_version, ssl_version_set, opt, headers, special, state, profile, own>>

\* Mutant: the merge is done once.
MergedOnce == IF base_headers = <<>> \/ merged_headers # <<>> THEN merged_headers
              ELSE Merged(base_headers, headers, useragent)

\* What Curl_http_merge_headers leaves in merged_headers: without base headers,
\* what was there.
NextMerged == IF base_headers = <<>> THEN merged_headers
              ELSE Merged(base_headers, headers, useragent)

\* A transfer: Curl_http merges the headers, and sends them.
Perform ==
    /\ merged_headers' = NextMerged
    /\ UNCHANGED <<set, base_headers, profile, own>>

\* Mutant: CURL_IMPERSONATE is applied to what was set before.
ResetWithoutClearing(n) ==
    /\ Hold(Impersonated(Now, Profile[EnvTarget], EnvHeaders, n))
    /\ headers' = <<>> /\ special' = [proto \in {"http3", "ws"} |-> <<>>]
    /\ useragent' = NoAgent
    /\ merged_headers' = <<>>
    /\ profile' = FreshProfile(n)
    /\ own' = {}

\* Mutant: a reset keeps the headers of the last transfer.
ResetButMerged(n) ==
    /\ Hold(Fresh(n))
    /\ headers' = <<>> /\ special' = [proto \in {"http3", "ws"} |-> <<>>]
    /\ useragent' = NoAgent
    /\ merged_headers' = merged_headers
    /\ profile' = FreshProfile(n)
    /\ own' = {}

\* curl_easy_reset ignores a failure of the impersonation CURL_IMPERSONATE asks for.
Reset(n) ==
    /\ Hold(Fresh(n))
    /\ headers' = <<>> /\ special' = [proto \in {"http3", "ws"} |-> <<>>]
    /\ useragent' = NoAgent
    /\ merged_headers' = <<>>
    /\ profile' = FreshProfile(n)
    /\ own' = {}

\* Mutant: only what was set is copied.
DuplicateWithoutBase ==
    /\ base_headers' = <<>> /\ merged_headers' = <<>>
    /\ UNCHANGED <<set, profile, own>>

\* curl_easy_duphandle copies what was set and the base headers, not the merged ones.
Duplicate ==
    /\ merged_headers' = <<>>
    /\ UNCHANGED <<set, base_headers, profile, own>>

Next ==
    \/ \E target \in Targets, default_headers \in BOOLEAN :
          \/ Impersonate(target, default_headers)
          \/ \E n \in 0..Len(Calls) - 1 : ImpersonateInPart(target, default_headers, n)
    \/ \E o \in Options, v \in Values : SetOption(o, v)
    \/ \E v \in OwnHttpVersions : SetHttpVersion(v)
    \/ \E v \in OwnSslVersions : SetSslVersion(v)
    \/ \E list \in BaseLists : SetBaseHeaders(list)
    \/ \E list \in HeaderLists : SetHeaders(list)
    \/ \E proto \in {"http3", "ws"}, list \in SpecialLists : SetSpecialHeaders(proto, list)
    \/ \E agent \in UserAgents \cup {NoAgent} : SetUserAgent(agent)
    \/ Perform
    \/ \E n \in 0..Len(Calls) : Reset(n)
    \/ Duplicate

Spec == Init /\ [][Next]_vars
-----------------------------------------------------------------------------
(***************************************************************************)
(* Properties.                                                             *)
(***************************************************************************)

\* The list the next transfer takes over a protocol, and the lines it sends of it.
NextHeaders(proto) ==
    RequestHeaders(IF proto \in DOMAIN special THEN special[proto] ELSE <<>>,
                   NextMerged, headers)

OverHttp1(proto) == proto \in {"http1", "ws"}

NextLines(proto) == Lines(NextHeaders(proto), useragent, OverHttp1(proto))

\* The value an option has that only profile p has set.
FromProfile(p, o) == IF p.opt[o] = Unset THEN Default ELSE p.opt[o]

\* A handle that was made to impersonate one browser, since it was new or reset,
\* however often and in whatever order with the application's own calls, is that
\* browser in everything the application did not set: no option, version or base
\* header is another browser's or is missing (_do_impersonate, curl_easy_reset).
ProfileIsWhole ==
    /\ profile \in Targets =>
          LET p == Profile[profile] IN
          /\ \A o \in Options \ own : opt[o] = FromProfile(p, o)
          /\ "http_version" \notin own => httpwant = p.http_version
          /\ "ssl_version" \notin own => ssl_version = p.ssl_version
          /\ "base_headers" \notin own => base_headers \in {<<>>, p.headers}
    /\ profile = NoTarget =>
          /\ \A o \in Options \ own : opt[o] = Default
          /\ "http_version" \notin own => httpwant = Default
          /\ "ssl_version" \notin own => ssl_version = Default
          /\ "base_headers" \notin own => base_headers = <<>>

\* What the application did ask for is what is sent, whatever profile, transfer or
\* copy came before or after: its headers, each as often as it listed it, and its
\* User-Agent in place of the browser's; the headers a protocol rules out (Omitted) are
\* no lines of this list.  Only merged headers that were not merged anew, for want of
\* base headers, are in the way (Curl_http_merge_headers).
ApplicationHeadersWin ==
    \A proto \in Protocols :
        LET lines       == NextLines(proto)
            omitted     == Omitted(NextHeaders(proto), OverHttp1(proto))
            instead     == proto \in DOMAIN special /\ special[proto] # <<>>
            list        == IF instead THEN special[proto] ELSE headers
            shown(name) == {i \in DOMAIN list : list[i].name = name /\ list[i].value # Blank}
        IN  (base_headers # <<>> \/ merged_headers = <<>> \/ instead) =>
            /\ \A i \in DOMAIN list :
                  list[i].name \notin omitted =>
                    Named(lines, list[i].name) = At(list, shown(list[i].name))
            /\ (useragent # NoAgent /\ Agents(list) = {}) =>
                  Named(lines, "User-Agent") = <<Header("User-Agent", useragent)>>

\* Nothing of a profile impersonated before a reset, or of another handle, is ever
\* sent: while one profile at most was impersonated and the base headers are its own,
\* every line is that profile's or the application's.
NoForeignHeader ==
    (profile # Mixed /\ "base_headers" \notin own) =>
        \A proto \in Protocols :
            LET lines == NextLines(proto)
                lists == {headers, special["http3"], special["ws"]}
                         \cup {Profile[t].headers : t \in {profile} \cap Targets}
            IN  \A i \in DOMAIN lines :
                    \/ \E list \in lists : \E j \in DOMAIN list : lines[i] = list[j]
                    \/ lines[i] = Header("User-Agent", useragent)

Impersonation ==
    \E target \in Targets, default_headers \in BOOLEAN :
        \/ Impersonate(target, default_headers)
        \/ \E n \in 0..Len(Calls) - 1 : ImpersonateInPart(target, default_headers, n)

\* "Prefer user set versions": a version the application chose outlives every
\* impersonation, complete or failed; only the default HTTP version is no choice.
OwnVersionsStay ==
    [][Impersonation =>
          /\ "ssl_version" \in own => ssl_version' = ssl_version
          /\ ("http_version" \in own /\ httpwant # Default) => httpwant' = httpwant]_vars

\* A duplicate sends what its original would, over every protocol, though the merged
\* headers are not copied (curl_easy_duphandle); stale ones, without base headers,
\* are the exception.
DuplicateSendsTheSame ==
    [][Duplicate =>
          /\ (base_headers # <<>> \/ merged_headers = <<>>) =>
                (\A proto \in Protocols : NextLines(proto)' = NextLines(proto))
          /\ UNCHANGED <<httpwant, ssl_version, opt>>]_vars

\* easy.c: "Use impersonate ssl_version if user didn't set it".
SslVersionOfProfile ==
    [][\A target \in Targets, default_headers \in BOOLEAN :
          (Impersonate(target, default_headers) /\ "ssl_version" \notin own) =>
              ssl_version' = Profile[target].ssl_version]_vars

\* docs/quick_start.rst: a later curl_easy_setopt() with one of the options above, and
\* docs/api.rst lists CURLOPT_HTTPBASEHEADER, "overrides the value previously set by
\* curl_easy_impersonate()": with no base headers, no browser header is sent.
LaterSettingsOverride ==
    (base_headers = <<>> /\ "base_headers" \in own) =>
        NextLines("http2") = Lines(headers, useragent, FALSE)
=============================================================================
