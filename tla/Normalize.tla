------------------------------ MODULE Normalize ------------------------------
(***************************************************************************)
(* normalize.py of tools/fingerprint-harvester: what is kept of one raw    *)
(* capture sample, and the profile that build_profile makes of several.    *)
(*                                                                         *)
(* A ClientHello, as a collector reports it, is a record of                *)
(*   ciphers     a sequence of code points,                                *)
(*   extensions  a sequence of [id, values], the values being the groups,  *)
(*               algorithms, versions or trust anchors the extension lists *)
(*               and, of encrypted_client_hello, type and suite in QUIC,   *)
(*   parameters  the QUIC transport parameters inside extension 57, again  *)
(*               [id, values].                                             *)
(* Names are code points here: the collectors' two spellings of one value, *)
(* its text and its hexadecimal form, are not told apart.  The bytes of an *)
(* extension that no collector takes apart are left out.  The ciphers of a *)
(* ClientHello in QUIC are known by its ja3n text only.                    *)
(*                                                                         *)
(* A sample is a record of mode, tcp (a ClientHello), http2, protocol,     *)
(* quic (a ClientHello) and http3; protocol is what the second collector   *)
(* saw, "none" when none was asked.  What the views keep untouched (user   *)
(* agent, header values, windows, and the hashes, which are functions of   *)
(* the rest) is one field, other, of http2.                                *)
(***************************************************************************)
EXTENDS Sublists, SequencesExt

RawItems   == [id : Nat, values : Seq(Nat)]
RawHellos  == [ciphers : Seq(Nat), extensions : Seq(RawItems), parameters : Seq(RawItems)]
RawSamples ==
    [mode : STRING, tcp : RawHellos,
     http2 : [settings : Seq(Nat), pseudo : Seq(STRING), headers : Seq(STRING),
              priority : Seq(Nat), other : Nat],
     protocol : STRING, quic : RawHellos,
     http3 : [settings : Seq(Nat), pseudo : Seq(STRING), headers : Seq(STRING), cids : STRING]]

GREASE == 2570
GreaseCodepoints == {2570 + 4112 * k : k \in 0..15}

\* The collectors name these GREASE, so that they are known by name.
IsGreaseParameter(id) == id % 31 = 27
IsGreaseSetting(id)   == id % 31 = 2

VOLATILE_QUIC_TRANSPORT_PARAMETER_IDS == {12583}

normalize_tls_grease(value) == IF value \in GreaseCodepoints THEN GREASE ELSE value
NormalizeAll(values) == [i \in DOMAIN values |-> normalize_tls_grease(values[i])]

\* GREASE is sorted behind everything else.
Before(x, y) == x # GREASE /\ (y = GREASE \/ x < y)

\* Python sorts stably: the keys that come no later than the i-th, and the order so made.
NoLater(keys, i) ==
    {j \in DOMAIN keys : Before(keys[j], keys[i]) \/ (~Before(keys[i], keys[j]) /\ j <= i)}
SortOrder(keys) ==
    [k \in DOMAIN keys |-> CHOOSE i \in DOMAIN keys : Cardinality(NoLater(keys, i)) = k]

Arranged(list, keys) == LET order == SortOrder(keys) IN [k \in DOMAIN list |-> list[order[k]]]
Ids(items) == [i \in DOMAIN items |-> items[i].id]
Sorted(values) == Arranged(values, values)
SortedById(items) == Arranged(items, Ids(items))

Find(items, id) == CHOOSE item \in ToSet(items) : item.id = id
Present(items, id) == \E item \in ToSet(items) : item.id = id

\* Trust anchors are sorted, and their order is kept apart.
normalize_trust_anchors(values) == Sorted(values)

\* Of encrypted_client_hello on TCP, only that it is there is kept.
normalize_extension(e, quic) ==
    LET id == normalize_tls_grease(e.id)
    IN  [id     |-> id,
         values |-> IF id = 51764 THEN normalize_trust_anchors(e.values)
                    ELSE IF id \in {GREASE, 57} \/ (id = 65037 /\ ~quic) THEN <<>>
                    ELSE NormalizeAll(e.values)]

\* initial_source_connection_id is drawn for each connection; version_information
\* lists a reserved version among those available, at a place drawn anew.
normalize_parameter(p) ==
    IF IsGreaseParameter(p.id)
    THEN [id |-> GREASE, values |-> <<>>]
    ELSE [id     |-> p.id,
          values |-> CASE p.id = 15 -> <<>>
                       [] p.id = 17 -> Sorted(NormalizeAll(p.values))
                       [] OTHER     -> p.values]

\* The parameters that are no evidence of the moment.
Stable(items) ==
    At(items, {i \in DOMAIN items : items[i].id \notin VOLATILE_QUIC_TRANSPORT_PARAMETER_IDS})

\* Mutant: the available versions stay in the order in which they were sent.
ParametersAsSent(items) ==
    LET kept == Stable(items)
    IN  [i \in DOMAIN kept |->
            IF kept[i].id = 17 THEN [id |-> 17, values |-> NormalizeAll(kept[i].values)]
                               ELSE normalize_parameter(kept[i])]

normalize_transport_parameters(items) ==
    LET kept == Stable(items) IN [i \in DOMAIN kept |-> normalize_parameter(kept[i])]

\* The order of the trust anchors an extension lists, if it is there.
AnchorOrder(hello) ==
    IF Present(hello.extensions, 51764) THEN Find(hello.extensions, 51764).values ELSE <<>>

NormalizeHello(hello, quic) ==
    LET extensions == [i \in DOMAIN hello.extensions |->
                          normalize_extension(hello.extensions[i], quic)]
        parameters == normalize_transport_parameters(hello.parameters)
    IN  [ciphers         |-> NormalizeAll(hello.ciphers),
         extension_order |-> Ids(extensions),
         extensions      |-> SortedById(extensions),
         id_order        |-> AnchorOrder(hello),
         parameter_order |-> Ids(parameters),
         parameters      |-> SortedById(parameters)]

\* cache-control is what a reload adds.
normalize_headers(order) == At(order, {i \in DOMAIN order : order[i] # "cache-control"})

normalize_http2(http2) == [http2 EXCEPT !.headers = normalize_headers(@)]

normalize_http3(http3) ==
    [http3 EXCEPT !.headers  = normalize_headers(@),
                  !.settings = [i \in DOMAIN @ |->
                                   IF IsGreaseSetting(@[i]) THEN GREASE ELSE @[i]]]

normalize_sample(sample) ==
    [mode |-> sample.mode,
     tcp |-> NormalizeHello(sample.tcp, FALSE), http2 |-> normalize_http2(sample.http2),
     protocol |-> sample.protocol,
     quic |-> NormalizeHello(sample.quic, TRUE), http3 |-> normalize_http3(sample.http3)]
-----------------------------------------------------------------------------
\* What is the same in every sample of one browser: all but mode and orders.
WithoutOrders(tls) ==
    [tls EXCEPT !.extension_order = <<>>, !.id_order = <<>>, !.parameter_order = <<>>]

stable_view(normalized) ==
    [normalized EXCEPT !.mode = "any",
                       !.tcp  = WithoutOrders(@), !.quic = WithoutOrders(@)]

\* Whether an order is fixed: known only of several samples.
order_observation(orders) ==
    [mode |-> IF Len(orders) = 1 THEN "unknown"
              ELSE IF Cardinality(ToSet(orders)) = 1 THEN "fixed" ELSE "permuted",
     observed |-> orders]

Observed(hellos) ==
    LET Orders(field) == order_observation([i \in DOMAIN hellos |-> hellos[i][field]])
    IN  [hellos[1] EXCEPT !.extension_order = Orders("extension_order"),
                          !.id_order        = Orders("id_order"),
                          !.parameter_order = Orders("parameter_order")]

\* The commonest variant, the first of them to be met, and its samples in order.
Selected(stable) ==
    LET Count(i)  == Cardinality({j \in DOMAIN stable : stable[j] = stable[i]})
        most      == {i \in DOMAIN stable : \A j \in DOMAIN stable : Count(j) <= Count(i)}
        first     == CHOOSE i \in most : \A j \in most : i <= j
    IN  {i \in DOMAIN stable : stable[i] = stable[first]}

Chosen(normalized) ==
    LET selected == Selected([i \in DOMAIN normalized |-> stable_view(normalized[i])])
    IN  [k \in 1..Cardinality(selected) |-> Nth(selected, k)]

\* An answer of the second collector that is not HTTP/3 is refused, and HTTP/3 without
\* transport parameters.
CanBuild(normalized) ==
    /\ normalized # <<>>
    /\ \A i \in DOMAIN normalized : normalized[i].protocol \in {"none", "http3"}
    /\ LET selected == normalized[Chosen(normalized)[1]]
       IN  selected.protocol = "http3" => Present(selected.quic.extensions, 57)

\* Of samples that are normalised already.
build_profile(normalized) ==
    LET chosen    == Chosen(normalized)
        Of(field) == [i \in DOMAIN chosen |-> normalized[chosen[i]][field]]
    IN  [modes                 |-> {normalized[i].mode : i \in DOMAIN normalized},
         sample_count          |-> Len(normalized),
         selected_sample_count |-> Len(chosen),
         variant_count         |-> Cardinality({stable_view(normalized[i]) : i \in DOMAIN normalized}),
         fingerprint           |-> [normalized[chosen[1]] EXCEPT
                                       !.mode = "any",
                                       !.tcp  = Observed(Of("tcp")),
                                       !.quic = Observed(Of("quic"))]]
-----------------------------------------------------------------------------
\* Two permuted orders are the same, whatever was observed; a fixed one is what it is.
comparison_order(order) ==
    [mode |-> order.mode, observed |-> IF order.mode = "permuted" THEN {} ELSE ToSet(order.observed)]

ComparableTls(tls) ==
    [tls EXCEPT !.extension_order = comparison_order(@), !.id_order = comparison_order(@),
                !.parameter_order = comparison_order(@)]

fingerprint_comparison_view(fingerprint) ==
    [fingerprint EXCEPT !.tcp = ComparableTls(@), !.quic = ComparableTls(@)]

\* diff_profiles compares key by key and place by place.
diff_profiles(before, after) == before # after
=============================================================================
