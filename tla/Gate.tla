-------------------------------- MODULE Gate --------------------------------
(***************************************************************************)
(* capabilities.py and readiness.py of tools/fingerprint-harvester: may a  *)
(* profile be compiled?  Every reported gap is a conjunct here.  What a    *)
(* harvester declares it can emit is a record, a harvester of another      *)
(* version being another record.                                           *)
(***************************************************************************)
EXTENDS Normalize

SUPPORTED_TLS_EXTENSIONS ==
    {0, 5, 10, 11, 13, 16, 18, 21, 23, 27, 28, 34, 35, 43, 45, 51, 57,
     17513, 17613, 51764, 65037, 65281}

\* ECDSA, RSA-PSS and RSA-PKCS1 with SHA-2, RSA with SHA-1, EdDSA and ML-DSA.
SUPPORTED_SIGNATURE_ALGORITHMS ==
    {GREASE, 513, 1025, 1027, 1281, 1283, 1537, 1539} \cup 2052..2059 \cup 2308..2310

SUPPORTED_GROUPS == {GREASE, 23, 24, 25, 29, 4588}
SUPPORTED_CERT_COMPRESSION == {1, 2}         \* zlib, brotli

SUPPORTED_CIPHERS ==
    {10, 47, 53, 156, 157} \cup 4865..4867 \cup {49160, 49161, 49162, 49170, 49171, 49172}
        \cup {49195, 49196, 49199, 49200, 52392, 52393}

SUPPORTED_HTTP2_SETTINGS == {1, 2, 3, 4, 5, 6, 8, 9}
SUPPORTED_QUIC_TRANSPORT_PARAMETERS == 0..17 \cup {32, 12583, 12584, 18258}

Declared == [extensions |-> SUPPORTED_TLS_EXTENSIONS,
             algorithms |-> SUPPORTED_SIGNATURE_ALGORITHMS,
             groups     |-> SUPPORTED_GROUPS,
             parameters |-> SUPPORTED_QUIC_TRANSPORT_PARAMETERS]

CANONICAL_DISTRIBUTIONS == {"consumer-chrome", "consumer-chrome-android",
                            "consumer-safari", "consumer-safari-ios"}
-----------------------------------------------------------------------------
Known(order) == order.mode \in {"fixed", "permuted"}

ValuesOf(extensions, id) == IF Present(extensions, id) THEN Find(extensions, id).values ELSE <<>>

\* BoringSSL sends one GREASE algorithm, before the real ones.
GreaseInPlace(algorithms) ==
    GREASE \in ToSet(algorithms) =>
        /\ algorithms[1] = GREASE /\ Len(algorithms) >= 2
        /\ Cardinality({i \in DOMAIN algorithms : algorithms[i] = GREASE}) = 1

NoExtensionGaps(h, tls) ==
    /\ \A e \in ToSet(tls.extensions) : e.id = GREASE \/ e.id \in h.extensions
    /\ GreaseInPlace(ValuesOf(tls.extensions, 13))
    /\ ToSet(ValuesOf(tls.extensions, 13)) \subseteq h.algorithms
    /\ Present(tls.extensions, 51764) => Known(tls.id_order)
    /\ ToSet(ValuesOf(tls.extensions, 10)) \subseteq h.groups
    /\ ToSet(ValuesOf(tls.extensions, 27)) \subseteq SUPPORTED_CERT_COMPRESSION

\* Every pseudo-header is there: the order is compared as a set.
PseudoHeadersThere(order) == ToSet(order) = {"m", "a", "s", "p"}

NoHttp2Gaps(http2) ==
    /\ http2.settings # <<>> /\ ToSet(http2.settings) \subseteq SUPPORTED_HTTP2_SETTINGS
    /\ PseudoHeadersThere(http2.pseudo)

NoHttp3Gaps(h, http3, quic) ==
    /\ http3.cids \in {"", "0,8"}
    /\ http3.settings # <<>>
    /\ PseudoHeadersThere(http3.pseudo)
    /\ Present(quic.extensions, 57)
    /\ Known(quic.parameter_order)
    /\ \A p \in ToSet(quic.parameters) : p.id = GREASE \/ p.id \in h.parameters

\* On TCP, status_request is always sent.
NoNativeProtocolGaps(tcp) == Present(tcp.extensions, 5)

\* Mutant: each protocol is thought to have a permutation switch of its own.
NoSharedSwitch(tcp, quic) == TRUE

\* One switch permutes the extensions of both protocols and the parameters.
NoProtocolOrderGaps(tcp, quic) ==
    /\ quic.extension_order.mode = "permuted" => tcp.extension_order.mode = "permuted"
    /\ Present(quic.extensions, 57) /\ Known(quic.parameter_order) =>
           quic.parameter_order.mode = tcp.extension_order.mode

NoCipherGaps(ciphers) ==
    ciphers # <<>> /\ ToSet(ciphers) \subseteq SUPPORTED_CIPHERS \cup {GREASE}

Representable(h, fingerprint) ==
    /\ NoExtensionGaps(h, fingerprint.tcp)
    /\ Known(fingerprint.tcp.extension_order)
    /\ NoNativeProtocolGaps(fingerprint.tcp)
    /\ NoCipherGaps(fingerprint.tcp.ciphers)
    /\ NoHttp2Gaps(fingerprint.http2)
    /\ fingerprint.protocol = "http3" =>
          /\ NoExtensionGaps(h, fingerprint.quic)
          /\ NoProtocolOrderGaps(fingerprint.tcp, fingerprint.quic)
          /\ Known(fingerprint.quic.extension_order)
          /\ NoHttp3Gaps(h, fingerprint.http3, fingerprint.quic)

Ready(h, profile, distribution) ==
    /\ distribution \in CANONICAL_DISTRIBUTIONS
    /\ profile.sample_count >= 3
    /\ profile.variant_count = 1
    /\ profile.selected_sample_count = profile.sample_count
    /\ profile.modes = {"headful"}
    /\ Representable(h, profile.fingerprint)
=============================================================================
