------------------------------- MODULE MCEdge -------------------------------
(* What meets the traffic at the edge: the banner (three addresses of one   *)
(* /24, one of them exempt), the framing of the L2 data stream (two         *)
(* writers) and the functions that match and parse what a visitor or a      *)
(* configuration names.  The three share no state, so each is explored with *)
(* the others at rest.                                                      *)
EXTENDS Banner, FrameStream, Inputs, TLC

CONSTANTS a1, a2, a3, net, w1, w2, URLHosts

VARIABLE part  \* the part that is explored

MCSubnet == (a1 :> net) @@ (a2 :> net) @@ (a3 :> net)

MCRequests ==
  {[method |-> "POST", path |-> "/login", status |-> 401],
   [method |-> "GET", path |-> "/login", status |-> 401]}

(* An empty frame, two that fit and one that is too long.                  *)
MCFrames == {<<>>, <<7>>, <<8, 9>>, <<1, 1, 1>>}

MCRoutePaths == {<<"/">>, <<"/", "a">>, <<"/", "a", "/">>, <<"/", "a", "b">>, <<"/", "a", "/", "b">>}

MCRoutes == [path : MCRoutePaths, strip : BOOLEAN, add : {<<>>, <<"/", "x", "/">>}]

MCPaths == {<<"/">>, <<"/", "a">>, <<"/", "a", "/">>, <<"/", "a", "b", "/">>, <<"/", "a", "/", "b", "c">>,
            <<"/", "a", "/", "b", "/", "a">>, <<"/", "a", "/", "/", "b">>}

MCNames == {<<"A", ".", "b">>, <<"*", ".", "b">>, <<"*", ".", "a", ".", "B">>, <<"*">>}

MCCerts ==
  [dns : {<<>>} \cup {<<n>> : n \in MCNames} \cup {<<<<"c">>, <<"*", ".", "b">>>>},
   cn : {<<>>, <<"a", ".", "b">>}, readable : BOOLEAN]

MCSNIs == {<<"a", ".", "b">>, <<" ", "C", ".", "b">>, <<"c", ".", "a", ".", "b">>, <<"b">>, <<".", "b">>, <<"c">>}

MCURLs ==
  [scheme : {"https", "http", "wss", "tcp", "tls", "socks", "ftp"}, host : URLHosts,
   path : {<<>>, <<"/">>, <<"/", "a">>, <<"/", "a", "/">>}]

LowerHosts == {<<"a">>, <<"b", ".", "a">>}

MixedHosts == {<<"a">>, <<"B", ".", "a">>}

MCAddrs == (<<"1", ".", "1">> :> "four") @@ (<<":", ":", "1">> :> "six") @@ (<<":", ":", "f">> :> "four")

MCCIDRs == (<<"1", "/", "8">> :> {"four"}) @@ (<<":", ":", "/", "0">> :> {"six"})

Entry(kind, host, port, n) == [kind |-> kind, host |-> host, port |-> port, n |-> n]

MCEntries ==
  LET On(kind, host) ==
        {Entry(kind, host, <<>>, 0), Entry(kind, host, <<"4", "4", "3">>, 443)}
  IN On("any", <<>>) \cup On("host", <<"A", ".", "b">>) \cup On("under", <<"a", ".", "B">>)
     \cup On("under", <<"b">>) \cup On("host", <<":", ":", "1">>) \cup On("host", <<"1", ".", "1">>)
     \cup {Entry("cidr", c, <<>>, 0) : c \in DOMAIN MCCIDRs}
     \cup {Entry("host", <<"c">>, <<"0">>, 0), Entry("host", <<"c">>, <<"6", "5", "5", "3", "6">>, 65536),
           Entry("host", <<"c">>, <<"6", "5", "5", "3", "5">>, 65535)}

Domain(text) == [type |-> 3, bytes |-> text, text |-> text]

MCDests ==
  {Domain(t) : t \in {<<"a", ".", "b">>, <<"A", ".", "B", ".">>, <<"c", ".", "a", ".", "b">>,
                      <<"a", "b">>, <<"c">>, <<"1", ".", "1">>, <<":", ":", "f">>}}
  \cup {[type |-> 1, bytes |-> <<1, 0, 0, 1>>, text |-> <<"1", ".", "1">>],
        [type |-> 4, bytes |-> Append(Zeros(15), 1), text |-> <<":", ":", "1">>]}

LongName == [i \in 1..259 |-> 97]

Host(name) == [type |-> 0, name |-> name]

MCHellos ==
  [sid : {0, 2}, before : {<<>>, <<10>>, <<513, 16>>},
   names : {<<>>, <<Host(<<97, 46, 98>>)>>, <<[type |-> 1, name |-> <<98>>], Host(<<97>>)>>, <<Host(LongName)>>}]

-----------------------------------------------------------------------------
EdgeInit ==
  /\ part \in {"banner", "stream", "input"}
  /\ BannerInit /\ StreamInit /\ InputsInit
  /\ part = "stream" \/ (hub /\ opened)

BannerPart == part = "banner" /\ BannerNext /\ UNCHANGED <<streamVars, input>>

StreamPart == part = "stream" /\ StreamNext /\ UNCHANGED <<bannerVars, input>>

InputPart == part = "input" /\ InputsNext /\ UNCHANGED <<bannerVars, streamVars>>

EdgeNext == (BannerPart \/ StreamPart \/ InputPart) /\ UNCHANGED part

edgeVars == <<part, bannerVars, streamVars, input>>

EdgeFairness == part = "stream" => StreamFairness

EdgeSpec == EdgeInit /\ [][EdgeNext]_edgeVars /\ EdgeFairness
=============================================================================
