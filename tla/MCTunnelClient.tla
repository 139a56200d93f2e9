--------------------------- MODULE MCTunnelClient ---------------------------
(* Small instances of TunnelClient for TLC.                                *)
EXTENDS TunnelClient

\* The command of the README's first case, and the same over the socket.
MCMTLS == [key |-> "file", cert |-> "file", ca |-> "file", requestProto |-> "http",
           mode |-> "http-connect", requestPort |-> 8000, proxyHost |-> "given",
           proxyPort |-> 31503, uds |-> FALSE, testRequests |-> 1, testDelaySec |-> 0,
           kubeConfig |-> FALSE]
MCUDS == [MCMTLS EXCEPT !.uds = TRUE, !.proxyHost = "none", !.proxyPort = 0,
                        !.key = "none", !.cert = "none", !.ca = "none"]

MCLoops == {[base EXCEPT !.testRequests = n, !.testDelaySec = delay, !.kubeConfig = kube,
                         !.mode = mode] :
              base \in {MCMTLS, MCUDS}, n \in {1, 2, 3}, delay \in {0, 90, 91},
              kube \in BOOLEAN, mode \in {"grpc", "http-connect"}}

\* At and past the boundaries of validate.
MCEdges == {[MCMTLS EXCEPT !.proxyPort = p] : p \in {1023, 1024, 49151, 49152}}
      \cup {[MCMTLS EXCEPT !.requestPort = p] : p \in {-1, 0, 49151, 49152}}
      \cup {[MCUDS EXCEPT !.proxyPort = 8090], [MCUDS EXCEPT !.proxyHost = "given"],
            [MCUDS EXCEPT !.ca = "file"], [MCMTLS EXCEPT !.testRequests = 0],
            [MCMTLS EXCEPT !.testDelaySec = -1], [MCMTLS EXCEPT !.requestProto = "ftp"],
            [MCMTLS EXCEPT !.cert = "none"], [MCMTLS EXCEPT !.cert = "none", !.key = "none"],
            [MCMTLS EXCEPT !.ca = "absent"], [MCMTLS EXCEPT !.requestProto = "https"]}

MCPlain == {MCMTLS, MCUDS}

MCCommandLines == MCLoops \cup MCEdges
MCHosts == {"origin", "other"}
MCProxyKinds == {{"http-connect"}, {"grpc"}}
=============================================================================
