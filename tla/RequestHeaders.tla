--------------------------- MODULE RequestHeaders ---------------------------
(***************************************************************************)
(* How Curl_http makes the header lines of one request, loop by loop:      *)
(* Curl_http_merge_headers walks the base headers and takes the            *)
(* application's off a temporary copy of its list, and                     *)
(* http_req_apply_header_order rebuilds the finished lines in the order    *)
(* that CURLOPT_HTTPHEADER_ORDER gives (http.c in patches/curl.patch).     *)
(* The list a request has in the end is what HttpHeaders says of it.       *)
(***************************************************************************)
EXTENDS HttpHeaders, SequencesExt

CONSTANTS
    Bases,      \* the base headers
    Owns,       \* the application's lists
    UserAgents, \* CURLOPT_USERAGENT, with NoAgent
    Orders,     \* the strings given to CURLOPT_HTTPHEADER_ORDER, as lists of their
                \*   comma-separated names
    NoOrder,    \* the option is not set
    Malformed,  \* a name that is empty, starts with ":" or holds another character
    Freed       \* an entry of the temporary copy whose header was taken

\* What the lists of a set hold.
EntriesOf(lists) == UNION {ToSet(list) : list \in lists}

ASSUME HeaderAssumption ==
    LET lists == Bases \cup Owns
    IN  lists \subseteq Seq(EntriesOf(lists)) /\ Freed \notin EntriesOf(lists)
ASSUME NameAssumption == \A list \in Owns : \A i \in DOMAIN list : list[i].name # NoName
ASSUME OrderAssumption == Orders \subseteq Seq(EntriesOf(Orders)) /\ NoOrder \notin Orders

VARIABLES
    base, headers, agent, http1, order,    \* what the request is made from
    pc,
    head,       \* the base header, the entry of the copy or the name that is next
    dup,        \* the temporary copy of the application's list
    new_list,   \* the merged list
    lines,      \* the lines of the request, in the order they were added
    used,       \* the places of those that are in out already
    out         \* the reordered lines

input == <<base, headers, agent, http1, order>>
merge == <<dup, new_list>>
sort  == <<lines, used, out>>
vars  == <<input, pc, head, merge, sort>>

TypeOK ==
    /\ base \in Bases /\ headers \in Owns /\ agent \in UserAgents
    /\ http1 \in BOOLEAN /\ order \in Orders \cup {NoOrder}
    /\ pc \in {"base", "more", "add", "order", "rest", "done"}
    /\ head \in CASE pc = "base"  -> 1..Len(base)
                 [] pc = "more"  -> 1..Len(headers)
                 [] pc = "order" -> 1..Len(order)
                 [] OTHER        -> {1}
    /\ DOMAIN dup = DOMAIN headers
    /\ used \subseteq DOMAIN lines
-----------------------------------------------------------------------------
\* setopt_valid_http_header_order: what the option refuses, besides the malformed.
valid_header_order(names) ==
    /\ names # <<>>
    /\ \A i \in DOMAIN names : names[i] # Malformed
    /\ \A i, j \in DOMAIN names : names[i] = names[j] => i = j

Init ==
    /\ base \in Bases /\ headers \in Owns /\ agent \in UserAgents /\ http1 \in BOOLEAN
    /\ order \in {o \in Orders : valid_header_order(o)} \cup {NoOrder}
    /\ dup = headers
    /\ new_list = <<>>
    /\ pc = IF base = <<>> THEN "add" ELSE "base"
    /\ head = 1
    /\ lines = <<>> /\ used = {} /\ out = <<>>

GoOn(last, label) ==
    IF head = last THEN pc' = label /\ head' = 1 ELSE pc' = pc /\ head' = head + 1

\* The entries of the copy that hold a header named as the next base header.
Candidates == {j \in DOMAIN dup : dup[j] # Freed /\ dup[j].name = base[head].name}

\* Mutant: the entry stays in the copy.
TakeAndKeep(j) == dup

\* Mutant: the entry is unlinked from the copy.
TakeOut(j) == RemoveAt(dup, j)

\* The header taken is freed, so that it is not taken again.
Take(j) == [dup EXCEPT ![j] = Freed]

\* A line of the base list without a colon is passed over.
PassLine ==
    /\ base[head].name = NoName
    /\ UNCHANGED merge

TakeOwn ==
    /\ base[head].name # NoName /\ Candidates # {}
    /\ LET j == Min(Candidates) IN
       /\ new_list' = Append(new_list, dup[j])
       /\ dup' = Take(j)

KeepBase ==
    /\ base[head].name # NoName /\ Candidates = {}
    /\ new_list' = Append(new_list,
           IF base[head].name \in AgentPrefixes /\ agent # NoAgent
           THEN Header("User-Agent", agent) ELSE base[head])
    /\ UNCHANGED dup

MergeBase ==
    /\ pc = "base"
    /\ PassLine \/ TakeOwn \/ KeepBase
    /\ GoOn(Len(base), IF headers = <<>> THEN "add" ELSE "more")
    /\ UNCHANGED <<input, sort>>

MergeMore ==
    /\ pc = "more"
    /\ new_list' = IF dup[head] = Freed THEN new_list ELSE Append(new_list, dup[head])
    /\ GoOn(Len(dup), "add")
    /\ UNCHANGED <<input, dup, sort>>

\* Curl_add_custom_headers writes the lines; without an order that is all.
AddLines ==
    /\ pc = "add"
    /\ lines' = Lines(RequestHeaders(<<>>, new_list, headers), agent, http1)
    /\ IF order = NoOrder \/ lines' = <<>>
       THEN out' = lines' /\ pc' = "done"
       ELSE out' = <<>> /\ pc' = "order"
    /\ UNCHANGED <<input, head, merge, used>>

\* Mutant: one line of a name is enough.
UnusedFirst(names) ==
    {i \in DOMAIN lines \ used :
        lines[i].name \in names /\ \A j \in 1..i - 1 : j \in used \/ lines[j].name # lines[i].name}

\* The places of the unused lines of a name, or of the unused lines.
Unused(names) == {i \in DOMAIN lines \ used : lines[i].name \in names}

AppendPlaces(places) ==
    /\ out' = out \o At(lines, places)
    /\ used' = used \cup places

\* Mutant: the comma after a name is not skipped.
OrderNameAgain ==
    /\ pc = "order"
    /\ AppendPlaces(Unused({order[head]}))
    /\ UNCHANGED <<input, pc, head, merge, lines>>

OrderName ==
    /\ pc = "order"
    /\ AppendPlaces(Unused({order[head]}))
    /\ GoOn(Len(order), "rest")
    /\ UNCHANGED <<input, merge, lines>>

AddRest ==
    /\ pc = "rest"
    /\ AppendPlaces(DOMAIN lines \ used)
    /\ pc' = "done"
    /\ UNCHANGED <<input, head, merge, lines>>

Next == MergeBase \/ MergeMore \/ AddLines \/ OrderName \/ AddRest

Spec == Init /\ [][Next]_vars /\ WF_vars(Next)
-----------------------------------------------------------------------------
(***************************************************************************)
(* Properties.                                                             *)
(***************************************************************************)

\* The loops of Curl_http_merge_headers, with their freed entries, build the merged
\* list HttpHeaders defines, for names that either list has several times too.
MergeIsAsDefined ==
    (base # <<>> /\ pc \notin {"base", "more"}) => new_list = Merged(base, headers, agent)

\* The reordered lines are a stable sort of the lines: those of the names asked for
\* come first, in the order asked for, all others after them; lines of one name, and
\* all the others among themselves, stay in their order; and none is lost or doubled.
OrderIsStableSort ==
    LET place(h)   == IF h.name \in ToSet(order) THEN CHOOSE i \in DOMAIN order : order[i] = h.name
                      ELSE Len(order) + 1
        at(list, k) == At(list, {i \in DOMAIN list : place(list[i]) = k})
    IN  (pc = "done" /\ order # NoOrder) =>
            /\ \A i, j \in DOMAIN out : i < j => place(out[i]) <= place(out[j])
            /\ \A k \in 1..Len(order) + 1 : at(out, k) = at(lines, k)

\* Every request gets its lines: no loop runs on for ever.
EveryRequestIsBuilt == <>(pc = "done")
=============================================================================
