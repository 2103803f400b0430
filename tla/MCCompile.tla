------------------------------ MODULE MCCompile ------------------------------
(***************************************************************************)
(* Samples small enough for TLC: a Chrome that permutes, drawn three times,*)
(* a Safari that does not, and samples that differ from them in one thing. *)
(***************************************************************************)
EXTENDS Compile

Item(id, values) == [id |-> id, values |-> values]
Bare(id) == Item(id, <<>>)

Http2(settings, priority) ==
    [settings |-> settings, pseudo |-> <<"m", "a", "s", "p">>,
     headers |-> <<"user-agent", "cache-control", "accept">>, priority |-> priority,
     other |-> 0]

Http3(settings, cids) ==
    [settings |-> settings, pseudo |-> <<"m", "a", "s", "p">>,
     headers |-> <<"user-agent", "accept">>, cids |-> cids]

\* One connection of Chrome: g is the GREASE drawn, swapped permutes, rtt is whether
\* initial_rtt is sent.
Chrome(g, swapped, rtt) ==
    LET first  == <<Item(10, <<g, 4588, 29>>), Item(51764, IF swapped THEN <<9, 7>> ELSE <<7, 9>>)>>
        mixed  == IF swapped THEN Reverse(first) ELSE first
        params == <<Item(17, IF swapped THEN <<g, 1>> ELSE <<1, g>>), Bare(15),
                    Item(27 + 31 * g, <<g>>)>>
    IN  [mode     |-> "headful",
         tcp      |-> [ciphers    |-> <<g, 4865>>,
                       extensions |-> <<Bare(g), Bare(5)>> \o mixed
                                      \o <<Item(27, <<2>>), Item(65037, <<g>>), Bare(g)>>,
                       parameters |-> <<>>],
         http2    |-> Http2(<<1, 4>>, <<256>>),
         protocol |-> "http3",
         quic     |-> [ciphers    |-> <<4865>>,
                       extensions |-> mixed \o <<Item(65037, <<0>>), Bare(57)>>,
                       parameters |-> (IF swapped THEN Reverse(params) ELSE params)
                                      \o (IF rtt THEN <<Item(12583, <<g>>)>> ELSE <<>>)],
         http3    |-> Http3(<<1, 33 + 31 * g>>, "")]

ChromeA == Chrome(2570, FALSE, FALSE)
ChromeB == [Chrome(6682, TRUE, TRUE) EXCEPT !.http2.headers = <<"user-agent", "accept">>]
ChromeC == Chrome(10794, FALSE, TRUE)

\* The two collectors are two connections.
Crossed == [ChromeA EXCEPT !.quic = ChromeB.quic, !.http3 = ChromeB.http3]

\* Padding and fixed orders; QuicSwapped draws the order of QUIC's extensions alone.
Safari ==
    [mode     |-> "headful",
     tcp      |-> [ciphers    |-> <<4866>>,
                   extensions |-> <<Bare(5), Item(27, <<1>>), Bare(21)>>,
                   parameters |-> <<>>],
     http2    |-> Http2(<<2, 3>>, <<>>),
     protocol |-> "http3",
     quic     |-> [ciphers    |-> <<4866>>,
                   extensions |-> <<Item(13, <<2570, 1027>>), Bare(57)>>,
                   parameters |-> <<Item(4, <<1>>), Item(1, <<2>>)>>],
     http3    |-> Http3(<<1>>, "0,8")]
QuicSwapped == [Safari EXCEPT !.quic.extensions = Reverse(@)]

\* A field trial; an answer that is not HTTP/3; a window of no user.
Trial    == [ChromeA EXCEPT !.tcp.extensions = @ \o <<Bare(4832)>>]
Fallback == [ChromeA EXCEPT !.protocol = "h2"]
Headless == [ChromeA EXCEPT !.mode = "headless"]

AllCaptures == {ChromeA, ChromeB, ChromeC, Crossed, Safari,
                QuicSwapped, Trial, Fallback, Headless}
AllAnswers  == {ChromeA, ChromeB, Crossed, Safari, QuicSwapped, Fallback}

\* A harvester to come, or of the past, that can emit extension 4832.
AllHarvesters == {Declared, [Declared EXCEPT !.extensions = @ \cup {4832}]}

\* A Safari that offers brotli as well as zlib.
TwoCompressions ==
    [Safari EXCEPT !.tcp.extensions = <<Bare(5), Item(27, <<1, 2>>), Bare(21)>>]
GateCaptures == {Safari, TwoCompressions}
=============================================================================
