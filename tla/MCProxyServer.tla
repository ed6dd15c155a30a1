--------------------------- MODULE MCProxyServer ---------------------------
(***************************************************************************)
(* Instances of ProxyServer for TLC: a tick is five seconds, of which all  *)
(* default timeouts are multiples.                                         *)
(***************************************************************************)
EXTENDS ProxyServer, TLC

\* One request in ten seconds (0.1 a second), one at once: a tick fills half a token.
Throttled ==
    [NothingSet EXCEPT !.rateLimitEnabled = "yes", !.rateLimitRPS = 100,
                       !.rateLimitBurst = 1]

Untimed == [NothingSet EXCEPT !.readTimeout = 0, !.readHeaderTimeout = 0]

MCEnvironments ==
    {NothingSet,
     Throttled,
     [Throttled EXCEPT !.rateLimitBurst = 2],
     [Throttled EXCEPT !.rateLimitBurst = 0],
     [NothingSet EXCEPT !.proxyPort = 9091],
     [NothingSet EXCEPT !.targetHost = Garbage],
     [NothingSet EXCEPT !.readHeaderTimeout = 40],
     [NothingSet EXCEPT !.readTimeout = 40, !.writeTimeout = 40],
     Untimed}
LiveEnvironments == {NothingSet, Untimed, [NothingSet EXCEPT !.writeTimeout = 0]}

Symmetry == Permutations(Requests)
============================================================================
