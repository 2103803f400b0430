----------------------------- MODULE HttpHeaders -----------------------------
(***************************************************************************)
(* What the header list of a request is made of: the browser's "base"      *)
(* headers, the application's own, and the User-Agent option (http.c and   *)
(* transfer.c of patches/curl.patch).                                      *)
(*                                                                         *)
(* A header is a name and a value; names are compared without case, so two *)
(* spellings of a name are one name here.  The value Blank stands for      *)
(* "Name:", which asks libcurl to leave the header out.  The name NoName   *)
(* stands for a line without a colon.  A list the C code keeps as NULL is  *)
(* the empty sequence.                                                     *)
(***************************************************************************)
EXTENDS Sublists

CONSTANTS
    Blank,            \* the value of "Name:"
    FirefoxAgents,    \* the User-Agent values that contain "Firefox/"
    NoAgent,          \* CURLOPT_USERAGENT is not set, or is ""
    NoName,           \* the name of a line without a colon
    AgentPrefixes     \* the names that "User-Agent" begins with, itself among them

ASSUME AgentAssumption == "User-Agent" \in AgentPrefixes /\ NoName \notin AgentPrefixes

Header(name, value) == [name |-> name, value |-> value]

\* How many headers named as the one at i the list has up to it.
Rank(list, i) == Cardinality({j \in 1..i : list[j].name = list[i].name})

\* The application's header at j takes the place of the base header at i: the first
\* one of a name replaces the first one, the second the second.
Overrides(own, j, base, i) ==
    own[j].name = base[i].name /\ Rank(own, j) = Rank(base, i)

\* The base headers in their order, each in the application's words if it has any,
\* with the User-Agent of CURLOPT_USERAGENT as the next best: that takes the place of any
\* header whose name "User-Agent" begins with.
Dressed(base, own, agent) ==
    [i \in DOMAIN base |->
        IF \E j \in DOMAIN own : Overrides(own, j, base, i)
        THEN own[CHOOSE j \in DOMAIN own : Overrides(own, j, base, i)]
        ELSE IF base[i].name \in AgentPrefixes /\ agent # NoAgent
        THEN Header("User-Agent", agent)
        ELSE base[i]]

\* The application's headers that replaced none, in their order.
Extras(base, own) ==
    At(own, {j \in DOMAIN own : \A i \in DOMAIN base : ~Overrides(own, j, base, i)})

\* The places of a base list's headers; lines without a colon are passed over.
Headed(base) == {i \in DOMAIN base : base[i].name # NoName}

\* Curl_http_merge_headers.
Merged(base, own, agent) == At(Dressed(base, own, agent), Headed(base)) \o Extras(base, own)

\* Curl_http_request_headers: a list of the application's for this protocol comes
\* before the merged one, and that before the plain list.
RequestHeaders(special, merged, own) ==
    IF special # <<>> THEN special ELSE IF merged # <<>> THEN merged ELSE own

Agents(list) == {i \in DOMAIN list : list[i].name = "User-Agent"}

\* http_merged_user_agent_is_firefox looks at the first User-Agent of the list.
IsFirefox(list) ==
    \E i \in Agents(list) : list[i].value \in FirefoxAgents /\ \A j \in Agents(list) : i <= j

\* What Curl_add_custom_headers leaves out of a list: Connection, which is written
\* elsewhere; Priority on HTTP/1, unless the browser is Firefox; and Transfer-Encoding
\* from HTTP/2 on.
Omitted(list, http1) ==
    {"Connection"} \cup IF ~http1 THEN {"Transfer-Encoding"}
                        ELSE IF IsFirefox(list) THEN {} ELSE {"Priority"}

\* The custom lines of a request: a User-Agent of CURLOPT_USERAGENT that the list does
\* not name, then the list, without its blanks and what is left out.
Lines(list, agent, http1) ==
    LET omitted == Omitted(list, http1)
        sent(h) == h.value # Blank /\ h.name \notin omitted
    IN  (IF agent # NoAgent /\ Agents(list) = {} THEN <<Header("User-Agent", agent)>> ELSE <<>>)
        \o At(list, {i \in DOMAIN list : sent(list[i])})

Named(list, name) == At(list, {i \in DOMAIN list : list[i].name = name})
=============================================================================
