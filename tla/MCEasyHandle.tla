---------------------------- MODULE MCEasyHandle ----------------------------
(***************************************************************************)
(* Two browsers as the impersonations array describes them, and an         *)
(* application with a few headers of its own.                              *)
(***************************************************************************)
EXTENDS EasyHandle

\* A Chrome permutes its TLS extensions and sends ALPS; a Safari has an older lowest
\* TLS version, no ALPS, and leaves the permutation alone.
ChromeHeaders == <<Header("User-Agent", "Chrome"), Header("Accept", "html")>>
SafariHeaders == <<Header("Accept", "any"), Header("Priority", "u=0")>>

Browsers ==
    [target \in Targets |->
        IF target = "chrome"
        THEN [http_version |-> "2", ssl_version |-> "TLSv1.2",
              opt |-> [o \in Options |-> "on"], headers |-> ChromeHeaders]
        ELSE [http_version |-> "2", ssl_version |-> "TLSv1.0",
              opt |-> [o \in Options |-> IF o = "alps" THEN "off" ELSE "unset"],
              headers |-> SafariHeaders]]

SetBefore == <<"alps">>
SetAfter  == <<"permute_extensions">>
None      == <<>>
NoLists   == {<<>>}

OwnHeaders  == {<<>>, <<Header("Accept", "json"), Header("Accept", "xml")>>,
                <<Header("User-Agent", Blank), Header("X-Own", "1")>>}
\* The same in one list, where the options and versions vary as well.
OwnHeadersAtOnce ==
    {<<>>, <<Header("Accept", "json"), Header("Accept", "xml"),
             Header("User-Agent", Blank), Header("Transfer-Encoding", "chunked")>>}
OwnBase     == {<<>>, ChromeHeaders, SafariHeaders}
AgentNames  == {"User-Agent", "User"}
OwnSpecial  == {<<>>, <<Header("User-Agent", "Firefox"), Header("Priority", "u=1"),
                       Header("Connection", "Upgrade")>>}
Firefoxes   == {"Firefox"}
=============================================================================
