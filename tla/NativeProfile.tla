---------------------------- MODULE NativeProfile ----------------------------
(***************************************************************************)
(* compiler.py of tools/fingerprint-harvester: the options of a native     *)
(* profile that candidate_from_bundle derives from a fingerprint.  Options *)
(* that are the same for every profile, header values and the spelling of  *)
(* names are left out.  None is an option that is not set.                 *)
(***************************************************************************)
EXTENDS Gate

None == <<>>

HTTP2_SETTING_IDS == {1, 2, 3, 4, 5, 6, 8, 9}

WithoutGrease(values) == At(values, {i \in DOMAIN values : values[i] # GREASE})
extension_values(extensions, id) == WithoutGrease(ValuesOf(extensions, id))

\* TLS 1.0 is 769, TLS 1.3 is 772; without known versions it is TLS 1.2.
minimum_tls_version(extensions) ==
    LET available == ToSet(extension_values(extensions, 43)) \cap 769..772
    IN  IF available = {} THEN 771
        ELSE CHOOSE v \in available : \A w \in available : v <= w

\* The first order that was observed.
fixed_order(order) == order.observed[1]

\* BoringSSL adds padding itself and refuses to be told its place.
Native(ids) == At(ids, {i \in DOMAIN ids : ids[i] \notin {GREASE, 21}})
native_extension_order(order) == Native(fixed_order(order))

\* In the order observed if that is fixed, else sorted.
transport_parameters(quic) ==
    IF quic.parameter_order.mode = "fixed"
    THEN LET all   == fixed_order(quic.parameter_order)
             order == At(all, {i \in DOMAIN all : Present(quic.parameters, all[i])})
         IN  [i \in DOMAIN order |-> Find(quic.parameters, order[i])]
    ELSE quic.parameters

\* "none" also when the option is not set: either way the extension is not sent.
native_trust_anchors(tls) ==
    LET ids   == ValuesOf(tls.extensions, 51764)
        fixed == tls.id_order.mode = "fixed" /\ ids # <<>>
    IN  IF ~Present(tls.extensions, 51764)
        THEN [mode |-> "none", ids |-> <<>>]
        ELSE [mode |-> IF fixed THEN "fixed" ELSE "any",
              ids  |-> IF fixed THEN fixed_order(tls.id_order) ELSE ids]

\* An explicit order, or None when the extensions are permuted.
ExplicitOrder(order) ==
    IF order.mode = "permuted" THEN None ELSE native_extension_order(order)

\* A setting without an identifier is an error.
CanCompile(fingerprint) == ToSet(fingerprint.http2.settings) \subseteq HTTP2_SETTING_IDS

TcpOptions(tcp, http2) ==
    [ssl_version_min            |-> minimum_tls_version(tcp.extensions),
     ciphers                    |-> WithoutGrease(tcp.ciphers),
     curves                     |-> extension_values(tcp.extensions, 10),
     signature_algorithms       |-> ValuesOf(tcp.extensions, 13),
     alpn                       |-> Present(tcp.extensions, 16),
     alps                       |-> \E id \in {17513, 17613} : Present(tcp.extensions, id),
     tls_permute_extensions     |-> tcp.extension_order.mode = "permuted",
     tls_session_ticket         |-> Present(tcp.extensions, 35),
     cert_compression           |-> LET algorithms == extension_values(tcp.extensions, 27)
                                    IN  IF algorithms = <<>> THEN None ELSE <<algorithms[1]>>,
     http_headers               |-> http2.headers,
     http2_pseudo_headers_order |-> http2.pseudo,
     http2_settings             |-> http2.settings,
     http2_no_priority          |-> http2.priority = <<>>,
     http2_stream_priority      |-> http2.priority,
     http2_other                |-> http2.other,
     ech                        |-> Present(tcp.extensions, 65037),
     tls_extension_order        |-> ExplicitOrder(tcp.extension_order),
     tls_use_new_alps_codepoint |-> Present(tcp.extensions, 17613),
     tls_signed_cert_timestamps |-> Present(tcp.extensions, 18),
     tls_grease                 |-> GREASE \in ToSet(fixed_order(tcp.extension_order)),
     tls_trust_anchors          |-> native_trust_anchors(tcp)]

\* What is set only for a browser that answered over HTTP/3.
Http3Options(quic, http3) ==
    [quic_cid_length                          |-> http3.cids,
     http3_signature_algorithms               |-> ValuesOf(quic.extensions, 13),
     http3_settings                           |-> http3.settings,
     http3_pseudo_headers_order               |-> http3.pseudo,
     quic_transport_parameters                |-> transport_parameters(quic),
     http3_tls_extension_order                |-> ExplicitOrder(quic.extension_order),
     http3_disable_tls_signed_cert_timestamps |-> ~Present(quic.extensions, 18),
     http3_disable_tls_status_request         |-> ~Present(quic.extensions, 5),
     http3_tls_trust_anchors                  |-> native_trust_anchors(quic)]

\* candidate_from_bundle.
Options(fingerprint) ==
    [tcp  |-> TcpOptions(fingerprint.tcp, fingerprint.http2),
     http3 |-> IF fingerprint.protocol = "http3"
               THEN <<Http3Options(fingerprint.quic, fingerprint.http3)>> ELSE None]
=============================================================================
