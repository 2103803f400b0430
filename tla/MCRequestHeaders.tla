-------------------------- MODULE MCRequestHeaders --------------------------
(***************************************************************************)
(* Short lists with repeated names, and orders of two or three names.      *)
(***************************************************************************)
EXTENDS RequestHeaders

Agent(v)    == Header("User-Agent", v)
Accept(v)   == Header("Accept", v)
Priority(v) == Header("Priority", v)

\* The last three, which only an application can give, have a name twice, a line without
\* a colon and a name "User-Agent" begins with, and headers a protocol rules out.
BaseLists ==
    {<<>>, <<Agent("Firefox"), Accept("a"), Priority("p")>>, <<Accept("a"), Priority("p")>>,
     <<Accept("a"), Agent("Chrome"), Accept("b")>>,
     <<Header("User", "u"), Header(NoName, "n"), Accept("a")>>,
     <<Header("Connection", "close"), Accept("a"), Header("Transfer-Encoding", "chunked")>>}

\* Every list of at most three of these headers.
OwnLists ==
    BoundedSeq({Agent("Own"), Agent(Blank), Accept("x"), Accept("y"), Header("X-Own", "1")}, 3)

NameOrders ==
    BoundedSeq({"Accept", "User-Agent", "X-Own", Malformed}, 3)

Firefoxes == {"Firefox"}
AgentNames == {"User-Agent", "User"}
=============================================================================
