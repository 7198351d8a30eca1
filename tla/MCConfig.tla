------------------------------ MODULE MCConfig ------------------------------
(***************************************************************************)
(* Config and Router for TLC: two saves at a time, two secrets, two price  *)
(* tables; three configurations and two requests to route.                *)
(***************************************************************************)
EXTENDS Router, TLC

CONSTANTS h1, h2, k1, k2, p1, p2

\* Only the start tells the price tables apart (FirstPrices).
SaveSymmetry == Permutations(Handlers) \cup Permutations(Prices)

MCUpper == [A |-> "a", B |-> "b"]

MCRule(part, name, operator, value, language, case, enabled) ==
    [part |-> part, name |-> name, operator |-> operator, value |-> value,
     language |-> language, case |-> case, enabled |-> enabled]

MCRewrite(field, value, enabled) ==
    [field |-> field, value |-> value, enabled |-> enabled]

MCSelector(name, methods, rules, rewrite) ==
    [name |-> name, methods |-> methods, rules |-> rules, rewrite |-> rewrite]

MCUpstream(serves, key) == [serves |-> serves, key |-> key]

\* By the user agent in any case, and by the model in the body; a field is
\* put beside another, b is written over and then has something below it, and
\* the way to a field with an empty part is made but not the field.
MCAgents == MCSelector("agents", {},
    {MCRule("headers", "agent", "regex", <<>>, {<<"a">>, <<"a", "b">>}, FALSE, TRUE),
     MCRule("body", <<"b">>, "prefix", <<"b">>, {}, FALSE, TRUE),
     MCRule("path", "", "exact", <<"b">>, {}, TRUE, FALSE)},
    <<MCRewrite(<<"a", "c">>, <<"a">>, TRUE), MCRewrite(<<"b">>, Null, TRUE),
      MCRewrite(<<"b", "d">>, <<"a">>, TRUE), MCRewrite(<<"a">>, Null, FALSE),
      MCRewrite(<<"a", "d", "", "b">>, Null, TRUE)>>)

\* By the method, the path and a parameter.
MCPaths == MCSelector("paths", {"POST"},
    {MCRule("path", "", "contains", <<"B">>, {}, TRUE, TRUE),
     MCRule("query", "key", "present", <<>>, {}, FALSE, TRUE)},
    <<MCRewrite(<<"a">>, Null, TRUE)>>)

MCTable ==
    [l \in Lists |->
        CASE l = NoKey -> [selectors |-> <<>>,
                           upstreams |-> <<MCUpstream({}, NoKey)>>]
          [] l = k1 -> [selectors |-> <<MCAgents, MCPaths>>,
                        upstreams |-> <<MCUpstream({"agents"}, k1),
                                        MCUpstream({"agents", "paths"},
                                                   NoKey)>>]
          [] l = k2 -> [selectors |-> <<MCPaths, MCAgents>>,
                        upstreams |-> <<MCUpstream({"agents"}, k2)>>]]

MCRequest(path, query, agents, body) ==
    [method |-> "POST", path |-> path, query |-> [key |-> query],
     headers |-> [agent |-> agents], body |-> body]

MCDeep == (<<"a">> :> Object) @@ (<<"a", "c">> :> <<"b">>)
              @@ (<<"a", "d">> :> Null) @@ (<<"b">> :> <<"B", "a">>)

MCRequests ==
    {MCRequest(<<"a">>, {}, {<<"b">>, <<"A", "b">>}, MCDeep),
     MCRequest(<<"a", "B">>, {<<>>}, {}, Opaque)}
=============================================================================
