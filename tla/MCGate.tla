------------------------------- MODULE MCGate -------------------------------
(***************************************************************************)
(* Gate for TLC.  The calls: a client with a wrong key, and a valid login  *)
(* for the same client, directly and through a trusted proxy; an admin     *)
(* request with a key that is only good for the API.                       *)
(***************************************************************************)
EXTENDS Gate

CONSTANTS client, proxy

Direct(route, key) ==
    [peer |-> client, forwarded |-> None, route |-> route, key |-> key,
     oversize |-> FALSE]

Forwarded(route, key) ==
    [Direct(route, key) EXCEPT !.peer = proxy, !.forwarded = client]

MCIPs == {client, proxy}
MCProxies == {proxy}

\* Two ways to fail and one to succeed, all for the same client, and a
\* request that is refused before any await.
MCCalls ==
    {Direct("admin", "user"), Forwarded("api", "wrong"),
     Forwarded("admin", "admin"),
     [Direct("api", "admin") EXCEPT !.oversize = TRUE]}

\* With and without admin keys, and without any.
MCDeployments == {{"user", "admin"}, {"user"}, {}}

=============================================================================
