------------------------------- MODULE MCMcp --------------------------------
EXTENDS McpRefinement

CONSTANTS p1, p2, s1, s2, a1, a2, srv, tool, old

Auths(profiles, actions, mcps) ==
    [profiles |-> Present(profiles), actions |-> Present(actions), mcps |-> Present(mcps)]

Both == [p \in Profiles |-> IF p = p1 THEN s1 ELSE s2]
Swapped == [p \in Profiles |-> IF p = p1 THEN s2 ELSE s1]
Demands(one, two) == [a \in Actions |-> IF a = a1 THEN one ELSE two]
Serves(a) == [s \in Servers |-> [t \in Tools |-> IF t = tool THEN a ELSE Unlisted]]
Lists(p) == [s \in Servers |-> p]

StoreOf(a, demanding, auth) == [servers |-> Serves(a), demanding |-> demanding, auth |-> auth]

\* The tool is remapped, an old one is gone, the actions change their profile and the profiles
\* their secrets, the server goes, and the profiles cannot be read.
StoresOne == {StoreOf(a1, {tool}, Auths(Both, Demands(p1, p2), Lists(p2))),
              StoreOf(a2, {}, Auths(Swapped, Demands(p2, p1), Lists(Public))),
              StoreOf(a1, {}, Auths(Both, Demands(Public, p1), Lists(p1))),
              StoreOf(Unlisted, {}, [Auths(Both, Demands(p1, Unlisted), Lists(Unlisted))
                                        EXCEPT !.profiles.readable = FALSE])}

Token(p, s, exp) == [well_formed |-> TRUE, profile |-> p, key |-> Key(s), alg |-> "HS256",
                     aud |-> FALSE, exp |-> exp, nbf |-> 0]
NoToken == [Token(p1, s1, 9) EXCEPT !.well_formed = FALSE]

Asks(method, arguments, token) ==
    [http |-> "ok", body |-> "ok", method |-> method, server |-> srv, tool |-> tool,
     arguments |-> arguments, token |-> token]

RequestsOne ==
    {[Asks("tools/call", "good", Token(p1, s1, 9)) EXCEPT !.http = "refused"],
     [Asks("tools/call", "good", Token(p1, s1, 9)) EXCEPT !.token.aud = TRUE],
     [Asks("tools/call", "good", Token(p1, s1, 9)) EXCEPT !.token.nbf = 2],
     Asks("notification", "absent", NoToken), Asks("other", "absent", NoToken),
     Asks("tools/list", "absent", Token(p2, s2, 9)), Asks("initialize", "absent", NoToken),
     Asks("tools/call", "good", Token(p1, s1, 0)), Asks("tools/call", "long", Token(p2, s2, 9)),
     Asks("tools/call", "good", Token(p2, s1, 9)), Asks("tools/call", "good", Token(p1, s2, 9)),
     Asks("tools/call", "absent", Token(p1, s1, 9)),
     Asks("tools/call", "bad", Token(p1, s1, 9)), Asks("tools/call", "empty", NoToken),
     Asks("tools/call", "garbled", Token(p1, s1, 9)),
     [Asks("tools/call", "good", Token(p1, s1, 9)) EXCEPT !.tool = old]}
    \union {[Asks("tools/call", "good", Token(p2, s2, 9)) EXCEPT !.body = b] :
               b \in {"ok", "large", "unreadable", "not rpc"}}
=============================================================================
