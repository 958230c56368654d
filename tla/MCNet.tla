-------------------------------- MODULE MCNet --------------------------------
(* The constants of the run of Net: two hosts, the second reached with a     *)
(* delay; a run starts one of a few groups of processes, each with its part  *)
(* to play.                                                                  *)
EXTENDS Net

MCHost    == {"h1", "h2"}
MCHostOf  == [p \in Proc |-> IF p \in {2, 4, 6, 16} THEN "h2" ELSE "h1"]
MCPort    == {"web", "path", "e1", "e2", "0"}
MCEphemeral == [h \in Host |-> IF h = "h1" THEN <<"e1", "e2">> ELSE <<"e1">>]

At(ip, port) == [ip |-> ip, port |-> port]
Web    == At("h1", "web")
Path   == At(NoIp, "path")
Inet(kind) == {<<"inet", kind>>}
Unix(kind) == {<<"unix", kind>>}
Does(calls, makes, names, dests) ==
    [calls |-> calls, makes |-> makes, names |-> names, dests |-> dests]

MCStarts  == {{1, 2}, {3, 4}, {3, 16}, {5, 6, 7}, {8, 9}, {10, 12}, {13}, {14, 15}, {17, 18}}
MCProgram == [p \in Proc |->
    \* a server and a client that sends
    CASE p = 1 -> Does({"bind", "listen", "accept", "recv", "close"}, Inet("stream"), {Web}, {})
      [] p = 2 -> Does({"connect", "send", "close", "outside"}, Inet("stream"), {}, {Web})
    \* a server that sends, and clients that wait for edges or shut down
      [] p = 3 -> Does({"bind", "listen", "accept", "send"}, Inet("stream"), {Web}, {})
      [] p = 4 -> Does({"connect", "recv", "kevent", "close"}, Inet("stream"), {}, {Web})
      [] p = 16 -> Does({"connect", "recv", "shutdown", "close"}, Inet("stream"), {}, {Web})
    \* two senders of datagrams, one of them on the host of the receiver
      [] p = 5 -> Does({"bind", "recvfrom", "connect"}, Inet("dgram"), {Web}, {At("h2", "e1")})
      [] p = 6 -> Does({"sendto"}, Inet("dgram"), {}, {Web})
      [] p = 7 -> Does({"bind", "sendto"}, Inet("dgram"), {At(AnyIp, "0")}, {Web})
    \* UNIX-domain sockets, one end of which moves to the real system
      [] p = 8 -> Does({"bind", "recvfrom", "kevent", "die"}, Unix("dgram"), {Path}, {})
      [] p = 9 -> Does({"connect", "sendto", "timeout", "outside"}, Unix("dgram"), {}, {Path})
    \* a server that forks
      [] p = 10 -> Does({"bind", "listen", "accept", "fork", "exec", "close"}, Unix("stream"), {Path}, {})
      [] p = 11 -> Does({"accept", "dup", "exec", "close", "die"}, {}, {}, {})
      [] p = 12 -> Does({"connect", "recv"}, Unix("stream"), {}, {Path})
    \* a sender and a receiver on one host, with kevent
      [] p = 14 -> Does({"bind", "listen", "accept", "recv"}, Unix("stream"), {Path}, {})
      [] p = 15 -> Does({"connect", "send", "kevent", "outside"}, Unix("stream"), {}, {Path})
    \* a sender on one host with a receiver that waits for edges
      [] p = 17 -> Does({"bind", "listen", "accept", "recv", "kevent"}, Unix("stream"), {Path}, {})
      [] p = 18 -> Does({"connect", "send"}, Unix("stream"), {}, {Path})
    \* a process that lets ports be chosen
      [] p = 13 -> Does({"bind", "listen", "listenany", "close"}, Inet("stream"),
                        {Web, At(LoopIp, "0")}, {})]
=============================================================================
