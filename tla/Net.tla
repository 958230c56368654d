--------------------------------- MODULE Net ---------------------------------
(***************************************************************************)
(* The virtual network between the processes of a run: the sockets in the  *)
(* shared state (supervisor/src/netstate.rs, struct Net) and the socket    *)
(* calls over them (supervisor/src/net.rs), with the waits for readiness   *)
(* (io.rs, kq.rs) and the clock that makes traffic arrive (shared.rs).     *)
(*                                                                         *)
(* `net' is the struct Net; an operator on it takes the struct and returns *)
(* the new one, as a method on &mut self does.  Every call is one critical *)
(* section by the holder of the baton, and whichever process is awake may  *)
(* be the holder.  Each process has one thread and one wait.               *)
(*                                                                         *)
(* Sizes count units: a byte of a stream, a flight header, a datagram with *)
(* its header.  Due times are kept as the time LEFT until them, 0 is due.  *)
(* The event counters of a socket are kept as `has moved since an edge-    *)
(* triggered registration last reported it'.                               *)
(***************************************************************************)
EXTENDS Integers, Sequences, SequencesExt, FiniteSets

CONSTANTS
    MaxSockets,    \* MAX_SOCKETS, records in the table
    Host,          \* hosts of the run; a host stands for its address too
    Proc,          \* processes
    HostOf,        \* HostOf[p]: the host of process p
    Starts,        \* the sets of processes a run may start
    Children,      \* the processes that may be forked
    Ring,          \* RING, capacity of a receive ring and of a flight ring
    FlightHeader,  \* FLIGHT_HEADER, what a record in flight takes besides its payload
    DgramLen,      \* what a datagram takes, its header included
    Latency,       \* latency_ns, delay between different hosts
    Port,          \* ports and paths of the run
    Ephemeral,     \* Ephemeral[h]: the ephemeral ports of host h, in order
    Program,       \* Program[p]: the calls process p makes, the <<family, kind>> of its
                   \* sockets, the names it binds, those it connects or sends to
    Backlogs,      \* backlogs guests ask for
    Sizes,         \* lengths of the guests' sends and receives
    Ticks,         \* by how much the clock moves at once
    MaxRefs,       \* bound on the descriptors one process has of one socket
    Modulus        \* stream bytes are numbered modulo this

NoSock == 0        \* NO_SOCK
NoTime == -1       \* u64::MAX, later than every due time
Sock == 1..MaxSockets

AnyIp  == "any"     \* 0.0.0.0
LoopIp == "loop"    \* 127.0.0.1
NoIp   == "none"
NoPort == "none"
NoName == [ip |-> NoIp, port |-> NoPort]   \* Addr::NONE

\* A UNIX-domain name is its path, kept as the port, with no address.
Name == [ip: Host \cup {AnyIp, LoopIp, NoIp}, port: Port \cup {NoPort}]

AllCalls == {"bind", "listen", "listenany", "connect", "accept", "send", "recv", "shutdown",
             "sendto", "recvfrom", "kevent", "close", "dup", "fork", "exec", "outside",
             "die", "timeout"}

ASSUME SizesAssumption ==
    /\ MaxSockets \in Nat /\ Latency \in Nat
    /\ FlightHeader \in Nat \ {0} /\ DgramLen \in Nat \ {0}
    /\ Ring \in Nat /\ DgramLen + 2 * FlightHeader <= Ring
    /\ MaxRefs \in Nat /\ Modulus \in Nat /\ Modulus > 1

ASSUME InputsAssumption ==
    /\ IsFiniteSet(Proc) /\ Host # {} /\ HostOf \in [Proc -> Host] /\ Starts \subseteq SUBSET Proc /\ Children \subseteq Proc
    /\ Host \cap {AnyIp, LoopIp, NoIp} = {}
    /\ \A h \in Host : Ephemeral[h] \in Seq(Port) /\ Ephemeral[h] # <<>>
    /\ \A p \in Proc : /\ Program[p].calls \subseteq AllCalls
                       /\ Program[p].makes \subseteq {"inet", "unix"} \X {"stream", "dgram"}
                       /\ Program[p].names \cup Program[p].dests \subseteq Name
    /\ Backlogs \subseteq Nat \ {0} /\ Sizes \subseteq Nat \ {0} /\ Ticks \subseteq Nat \ {0}

----------------------------------------------------------------------------
(***************************************************************************)
(* State.                                                                  *)
(*                                                                         *)
(*   net      the struct Net                                               *)
(*   proc     whether a process is yet to be forked, up or dead            *)
(*   wait     the call a process has under way when it found it not ready, *)
(*            and whether the thread is parked for I/O                     *)
(*   hist     history: how many bytes each socket sent and got on its      *)
(*            connection, and whether records were released or an event    *)
(*            counted since wake_io last ran without it being run          *)
(***************************************************************************)
VARIABLES net, proc, wait, hist
vars == <<net, proc, wait, hist>>

Number == 0..(Modulus - 1)
Byte   == [no: Number]

Payload == [kind: {"bytes"}, data: Seq(Byte)] \cup [kind: {"dgram"}, data: {d \in Seq(Name) : Len(d) = 1}]
           \cup [kind: {"fin"}, data: {<<>>}]

SockRec ==
    [ state: {"free", "new", "bound", "listening", "connected", "closed"},
      family: {"inet", "unix"}, kind: {"stream", "dgram"}, host: Host,
      refs: Nat, far: Sock \cup {NoSock},
      local: Name, peer: Name, hasPeer: BOOLEAN,
      backlog: Seq(Sock), backlogMax: Nat,
      fin: BOOLEAN, shutWr: BOOLEAN, shutRd: BOOLEAN,
      rx: Seq(Byte \cup Name),     \* the receive ring
      flight: Seq([left: Nat, pay: Payload]),
      flStream: Nat,
      rdNew: BOOLEAN, wrNew: BOOLEAN ]    \* rd_events, wr_events

Ops == {"accept", "recv", "send", "recvfrom", "sendto", "edgeread", "edgewrite"}
NoWait == [op |-> "none", sock |-> NoSock, asleep |-> FALSE]

TypeOK ==
    /\ DOMAIN net = {"socks", "refs", "inFlight", "nextDue", "port"}
    /\ net.socks \in [Sock -> SockRec]
    /\ net.refs \in [Proc -> [Sock -> Nat]]
    /\ net.inFlight \in Nat
    /\ net.nextDue \in Nat \cup {NoTime}
    /\ DOMAIN net.port = Host
    /\ \A h \in Host : net.port[h] \in DOMAIN Ephemeral[h]
    /\ proc \in [Proc -> {"unborn", "up", "dead"}]
    /\ wait \in [Proc -> [op: Ops, sock: Sock, asleep: BOOLEAN] \cup {NoWait}]
    /\ hist \in [sent: [Sock -> Number], got: [Sock -> Number], silent: BOOLEAN]

----------------------------------------------------------------------------
(***************************************************************************)
(* The table of sockets.                                                   *)
(***************************************************************************)
\* A zeroed record.  Of a free or closed one nobody reads more than the
\* state, the far end and what is in flight to it, so the rest is blank.
Blank(h) ==
    [ state |-> "free", family |-> "inet", kind |-> "stream", host |-> h, refs |-> 0,
      far |-> NoSock, local |-> NoName, peer |-> NoName, hasPeer |-> FALSE,
      backlog |-> <<>>, backlogMax |-> 0, fin |-> FALSE, shutWr |-> FALSE, shutRd |-> FALSE,
      rx |-> <<>>, flight |-> <<>>, flStream |-> 0, rdNew |-> TRUE, wrNew |-> TRUE ]

AnyHost == CHOOSE h \in Host : TRUE
IsGone(sk) == sk.state \in {"free", "closed"}
Freed(sk)  == [Blank(AnyHost) EXCEPT !.flight = sk.flight, !.flStream = sk.flStream]
Closed(sk) == [Freed(sk) EXCEPT !.state = "closed", !.far = sk.far]

RxLen(sk) == IF sk.kind = "dgram" THEN DgramLen * Len(sk.rx) ELSE Len(sk.rx)

\* x after Step with each element of s in turn, and the sum of a sequence
Folded(Step(_, _), x, s) ==
    LET after[i \in 0..Len(s)] == IF i = 0 THEN x ELSE Step(after[i - 1], s[i])
    IN  after[Len(s)]
Plus(sum, k) == sum + k
Total(s) == Folded(Plus, 0, s)

\* What a payload takes in a ring
Size(pay) == IF pay.kind = "dgram" THEN DgramLen ELSE Len(pay.data)
FlLen(sk) == Total([i \in DOMAIN sk.flight |-> FlightHeader + Size(sk.flight[i].pay)])
StreamLen(flight) ==
    Total([i \in DOMAIN flight |-> IF flight[i].pay.kind = "bytes" THEN Len(flight[i].pay.data) ELSE 0])

FreeSlots(n) == {i \in Sock : n.socks[i].state = "free"}
First(S) == CHOOSE i \in S : \A j \in S : i <= j

\* Net::discard_flight
DiscardFlight(n, s) ==
    [n EXCEPT !.inFlight = IF @ < Len(n.socks[s].flight) THEN 0 ELSE @ - Len(n.socks[s].flight),
              !.socks[s].flight = <<>>, !.socks[s].flStream = 0]

\* Net::socket, into the free slot s
NewSock(n, s, h, family, kind) ==
    [DiscardFlight(n, s) EXCEPT
        !.socks[s] = [Blank(h) EXCEPT !.state = "new", !.family = family, !.kind = kind]]

\* Net::host_for_ip; NoIp is nobody's
HostForIp(h, ip) == IF ip = LoopIp THEN h ELSE IF ip \in Host THEN ip ELSE NoIp

\* Addr::same_name: a nameless socket has no name to share
SameName(a, b) == a.port = b.port /\ a.port # NoPort /\ (a.ip = NoIp <=> b.ip = NoIp)

\* Net::name_taken
NameTaken(n, h, kind, name) ==
    \E t \in Sock : /\ n.socks[t].state \in {"bound", "listening"}
                    /\ n.socks[t].host = h /\ n.socks[t].kind = kind
                    /\ SameName(n.socks[t].local, name)

\* Net::ephemeral_port: the first port from next_port on that no name takes.
Rotation(n, h, k) == 1 + ((n.port[h] - 1 + k) % Len(Ephemeral[h]))
UsablePorts(n, h, kind) ==
    {k \in 0..(Len(Ephemeral[h]) - 1) :
        ~NameTaken(n, h, kind, [ip |-> AnyIp, port |-> Ephemeral[h][Rotation(n, h, k)]])}
EphemeralPort(n, h, kind) == Rotation(n, h, First(UsablePorts(n, h, kind)))
PortTaken(n, h, i) == [n EXCEPT !.port[h] = 1 + (i % Len(Ephemeral[h]))]

\* Whether a socket bound to t.local hears what is sent to `dest'
Hears(t, family, dest) ==
    /\ SameName(t.local, dest)
    /\ \/ family # "inet"
       \/ t.local.ip = AnyIp
       \/ t.local.ip = dest.ip

Listeners(n, s, h, dest) ==
    {l \in Sock : /\ n.socks[l].state = "listening"
                  /\ n.socks[l].host = h /\ n.socks[l].kind = n.socks[s].kind
                  /\ Hears(n.socks[l], n.socks[s].family, dest)}

OwnAddress(h, dest) == IF dest.ip = LoopIp THEN LoopIp ELSE h

----------------------------------------------------------------------------
(***************************************************************************)
(* Delivery: Net::deliver and what it calls.                               *)
(***************************************************************************)
Bytes(data) == [kind |-> "bytes", data |-> data]
Dgram(from) == [kind |-> "dgram", data |-> <<from>>]
Fin         == [kind |-> "fin", data |-> <<>>]

\* What is left in the flight ring while room for a FIN is kept
FlightRoom(sk) == IF FlLen(sk) + 2 * FlightHeader > Ring
                  THEN 0 ELSE Ring - FlLen(sk) - 2 * FlightHeader

\* Net::window
Window(sk) ==
    LET left == Ring - RxLen(sk) - sk.flStream
    IN  IF sk.flight = <<>> THEN left ELSE Min({left, FlightRoom(sk)})

Delay(from, sk) == IF sk.host = from THEN 0 ELSE Latency

\* Mutant: what needs no time goes ahead of what is under way
UndelayedArrive(from, sk) == Delay(from, sk) = 0
\* Whether deliver lets the payload arrive at once
ArrivesNow(from, sk) == Delay(from, sk) = 0 /\ sk.flight = <<>>

\* How many of k stream bytes sk takes now (arrive, launch)
Fits(from, sk, k) ==
    IF ArrivesNow(from, sk) THEN Min({k, Ring - RxLen(sk)})
    ELSE Min({k, Window(sk), FlightRoom(sk)})

\* Whether a datagram to sk is taken; only one without delay can fail on the
\* receive ring now, the others when they land
TakesDgram(from, sk) ==
    IF ArrivesNow(from, sk) THEN DgramLen <= Ring - RxLen(sk) ELSE DgramLen <= FlightRoom(sk)

\* What an arriving payload does to its receiver (arrive, advance): an event,
\* and a datagram that does not fit is dropped.
Land(sk, pay) ==
    IF IsGone(sk) THEN sk
    ELSE CASE pay.kind = "fin"   -> [sk EXCEPT !.fin = TRUE, !.rdNew = TRUE]
           [] pay.kind = "bytes" -> [sk EXCEPT !.rx = @ \o pay.data, !.rdNew = TRUE]
           [] OTHER              -> IF DgramLen <= Ring - RxLen(sk)
                                    THEN [sk EXCEPT !.rx = @ \o pay.data, !.rdNew = TRUE]
                                    ELSE [sk EXCEPT !.rdNew = TRUE]

\* Net::launch of a payload that fits
Launch(n, d, left, pay) ==
    [n EXCEPT !.socks[d].flight = Append(@, [left |-> left, pay |-> pay]),
              !.socks[d].flStream = @ + (IF pay.kind = "bytes" THEN Len(pay.data) ELSE 0),
              !.inFlight = @ + 1,
              !.nextDue = IF n.inFlight = 0 \/ @ = NoTime \/ left < @ THEN left ELSE @]

\* Net::deliver of a payload that fits, to d from a socket of host `from'
Deliver(n, from, d, pay) ==
    IF ArrivesNow(from, n.socks[d])
    THEN [n EXCEPT !.socks[d] = Land(@, pay)]
    ELSE Launch(n, d, Delay(from, n.socks[d]), pay)

\* A bump of wr_events
Writable(n, s) == IF IsGone(n.socks[s]) THEN n ELSE [n EXCEPT !.socks[s].wrNew = TRUE]

----------------------------------------------------------------------------
(***************************************************************************)
(* The clock: Net::advance, by State::clock_moved.                         *)
(***************************************************************************)
Later(left, d) == IF left > d THEN left - d ELSE 0

\* How many records at the head of a flight ring are due
DueLen(sk) ==
    LET late == {i \in DOMAIN sk.flight : sk.flight[i].left # 0}
    IN  IF late = {} THEN Len(sk.flight) ELSE First(late) - 1
Due(sk) == SubSeq(sk.flight, 1, DueLen(sk))
LandRecord(sk, r) == Land(sk, r.pay)

\* Mutant: what lands gives back its header of the window too
LandDueWithHeaders(sk) ==
    [Folded(LandRecord, sk, Due(sk))
        EXCEPT !.flight = SubSeq(@, DueLen(sk) + 1, Len(@)),
               !.flStream = @ - StreamLen(Due(sk)) - FlightHeader * DueLen(sk)]
\* Everything due to one socket lands.
LandDue(sk) ==
    [Folded(LandRecord, sk, Due(sk))
        EXCEPT !.flight = SubSeq(@, DueLen(sk) + 1, Len(@)), !.flStream = @ - StreamLen(Due(sk))]

LandsBytes(sk) == \E i \in 1..DueLen(sk) : sk.flight[i].pay.kind = "bytes"

\* d of virtual time has passed
Aged(n, d) ==
    [n EXCEPT !.socks = [s \in Sock |-> [n.socks[s] EXCEPT
                  !.flight = [i \in DOMAIN @ |-> [left |-> Later(@[i].left, d), pay |-> @[i].pay]]]],
              !.nextDue = IF @ = NoTime THEN @ ELSE Later(@, d)]

\* What advance returns: whether I/O waiters should look again
AnythingDue(n) == n.inFlight # 0 /\ n.nextDue = 0

Advance(n) ==
    LET heads == {n.socks[s].flight[DueLen(n.socks[s]) + 1].left :
                    s \in {t \in Sock : DueLen(n.socks[t]) < Len(n.socks[t].flight)}}
        landed == Total([s \in Sock |-> DueLen(n.socks[s])])
        opened == {n.socks[d].far : d \in {t \in Sock : /\ n.socks[t].state = "connected"
                                                        /\ LandsBytes(n.socks[t])}}
    IN  IF ~AnythingDue(n) THEN n
        ELSE [n EXCEPT
                !.socks = [s \in Sock |-> [LandDue(n.socks[s]) EXCEPT
                              !.wrNew = @ \/ (s \in opened /\ ~IsGone(n.socks[s]))]],
                !.inFlight = @ - landed,
                !.nextDue = IF heads = {} THEN NoTime ELSE Min(heads)]

----------------------------------------------------------------------------
(***************************************************************************)
(* References and release.                                                 *)
(***************************************************************************)
\* A connection still queued on a listener that goes is reset.
Reset(n, far) ==
    LET near == n.socks[far].far
    IN  IF n.socks[near].state = "closed"
        THEN [n EXCEPT !.socks[near] = Freed(@), !.socks[far] = Freed(@)]
        ELSE LET told == Writable(Deliver(n, n.socks[far].host, near, Fin), near)
             IN  [told EXCEPT !.socks[far] = Closed(@)]

\* Mutant: a close says FIN although a shutdown already did
HangUpAgain(n, s) ==
    LET told == Writable(Deliver(n, n.socks[s].host, n.socks[s].far, Fin), n.socks[s].far)
    IN  [told EXCEPT !.socks[s] = Closed(@)]
\* The last descriptor of s goes while its peer has descriptors
HangUp(n, s) ==
    LET peer == n.socks[s].far
        told == IF n.socks[s].shutWr THEN n ELSE Deliver(n, n.socks[s].host, peer, Fin)
    IN  [Writable(told, peer) EXCEPT !.socks[s] = Closed(@)]

\* Net::release
Release(n, s) ==
    CASE n.socks[s].state = "listening" ->
            [Folded(Reset, n, n.socks[s].backlog) EXCEPT !.socks[s] = Freed(@)]
      [] n.socks[s].state = "connected" ->
            IF n.socks[n.socks[s].far].state = "closed"
            THEN [n EXCEPT !.socks[n.socks[s].far] = Freed(@), !.socks[s] = Freed(@)]
            ELSE HangUp(n, s)
      [] OTHER -> [n EXCEPT !.socks[s] = Freed(@)]

\* Net::add_ref, k times
AddRefs(n, p, s, k) == [n EXCEPT !.refs[p][s] = @ + k, !.socks[s].refs = @ + k]

\* Net::drop_ref, k times; the last reference releases the record
DropRefs(n, p, s, k) ==
    LET rest == [n EXCEPT !.refs[p][s] = @ - k, !.socks[s].refs = @ - k]
    IN  IF k > 0 /\ rest.socks[s].refs = 0 THEN Release(rest, s) ELSE rest

\* The two rounds of set_refs over the sockets: counts are added all at
\* once, being apart, and dropped one socket after the other, since what a
\* release does depends on what was released before.
AddAll(n, p, held) ==
    [n EXCEPT !.refs[p] = [s \in Sock |-> @[s] + held[s]],
              !.socks = [s \in Sock |-> [n.socks[s] EXCEPT !.refs = @ + held[s]]]]
DropAll(n, p, held) == Folded(LAMBDA x, s : DropRefs(x, p, s, held[s]), n, [s \in Sock |-> s])

\* Mutant: what was held goes first, then what is held is counted
SetRefsAfresh(n, p, held) == AddAll(DropAll(n, p, n.refs[p]), p, held)
\* Net::set_refs: what is held now is counted first, so that a socket that
\* stays open is never released in between.
SetRefs(n, p, held) == DropAll(AddAll(n, p, held), p, n.refs[p])

Nothing == [s \in Sock |-> 0]

----------------------------------------------------------------------------
(***************************************************************************)
(* The calls of the guests.  Success wakes whoever is parked for I/O       *)
(* (State::wake_io); a call that is not ready parks, unless the descriptor *)
(* is non-blocking, and is made again when the thread is woken.            *)
(***************************************************************************)
Awake(p) == proc[p] = "up" /\ ~wait[p].asleep
Holds(p, s) == net.refs[p][s] > 0

\* p may call on s now: it has no other call to finish
May(p, op, s) ==
    /\ Awake(p) /\ Holds(p, s)
    /\ wait[p] = NoWait \/ (wait[p].op = op /\ wait[p].sock = s)

WakeIo(w) == [q \in Proc |-> [w[q] EXCEPT !.asleep = FALSE]]
Unwaiting(p) == [wait EXCEPT ![p] = NoWait]

Sleeps(p, op, s) ==
    /\ wait' = [wait EXCEPT ![p] = [op |-> op, sock |-> s, asleep |-> TRUE]]
    /\ UNCHANGED <<net, proc, hist>>

\* What s sends to t does not fit, and the call waits.  Net::arrive has counted
\* an event before it finds the ring too full, and `blocking' wakes nobody for
\* it.
WaitsForRoom(p, op, s, t) ==
    IF ~net.socks[t].rdNew /\ ArrivesNow(net.socks[s].host, net.socks[t])
    THEN /\ net' = [net EXCEPT !.socks[t].rdNew = TRUE]
         /\ wait' = [wait EXCEPT ![p] = [op |-> op, sock |-> s, asleep |-> TRUE]]
         /\ hist' = [hist EXCEPT !.silent = TRUE]
         /\ UNCHANGED proc
    ELSE Sleeps(p, op, s)

\* The call ends with an error: nobody is woken.
Fails(p) ==
    /\ wait[p] # NoWait /\ wait' = Unwaiting(p)
    /\ UNCHANGED <<net, proc, hist>>

\* Net::readable, Net::writable
IsReadable(n, s) ==
    LET sk == n.socks[s]
    IN  IF sk.kind = "dgram" THEN sk.rx # <<>>
        ELSE CASE sk.state = "listening" -> sk.backlog # <<>>
               [] sk.state = "connected" -> sk.rx # <<>> \/ sk.fin \/ sk.shutRd
               [] OTHER                  -> TRUE
IsWritable(n, s) ==
    LET sk == n.socks[s]  peer == n.socks[sk.far]
    IN  IF sk.state # "connected" \/ sk.shutWr THEN TRUE
        ELSE peer.state # "connected" \/ peer.shutRd \/ Window(peer) > 0

\* my_socket: the first free slot
MakeSocket(p, family, kind) ==
    /\ Awake(p) /\ wait[p] = NoWait
    /\ \A s \in Sock : Holds(p, s) => net.socks[s].state # "new"   \* bound: one unused socket
    /\ FreeSlots(net) # {}
    /\ LET s == First(FreeSlots(net))
       IN  net' = AddRefs(NewSock(net, s, HostOf[p], family, kind), p, s, 1)
    /\ UNCHANGED <<proc, wait, hist>>

\* Net::bind of a new socket to a name of its family, a port of 0 being
\* chosen for it
CanBind(n, s, name) ==
    /\ n.socks[s].state = "new"
    /\ (n.socks[s].family = "unix") <=> (name.ip = NoIp)
    /\ name.ip \in {AnyIp, LoopIp, NoIp, n.socks[s].host}
    /\ ~NameTaken(n, n.socks[s].host, n.socks[s].kind, name)
Bound(n, s, name) == [n EXCEPT !.socks[s].local = name, !.socks[s].state = "bound"]

CanBindAny(n, s) == UsablePorts(n, n.socks[s].host, n.socks[s].kind) # {}
BoundToAny(n, s, ip) ==
    LET i == EphemeralPort(n, n.socks[s].host, n.socks[s].kind)
    IN  Bound(PortTaken(n, n.socks[s].host, i), s, [ip |-> ip, port |-> Ephemeral[n.socks[s].host][i]])

\* The history of the sockets that are left
Counts(n, count) == [s \in Sock |-> IF n.socks[s].state = "free" THEN 0 ELSE count[s]]
History(n, silent) ==
    hist' = [sent |-> Counts(n, hist.sent), got |-> Counts(n, hist.got), silent |-> silent]

\* A call succeeds with the network as n.
Succeeds(p, n) ==
    /\ net' = n
    /\ wait' = WakeIo(Unwaiting(p))
    /\ History(n, FALSE)
    /\ UNCHANGED proc

Bind(p, s) ==
    /\ "bind" \in Program[p].calls
    /\ May(p, "none", s)
    /\ \E name \in Program[p].names :
          \/ name.port # "0" /\ CanBind(net, s, name) /\ Succeeds(p, Bound(net, s, name))
          \/ /\ name.port = "0" /\ CanBind(net, s, name) /\ CanBindAny(net, s)
             /\ Succeeds(p, BoundToAny(net, s, name.ip))

\* Net::listen; a new inet socket is bound first
Listen(p, s, max) ==
    /\ "listen" \in Program[p].calls
    /\ May(p, "none", s)
    /\ net.socks[s].kind = "stream"
    /\ LET start(n) == [n EXCEPT !.socks[s].state = "listening", !.socks[s].backlogMax = max]
       IN  \/ /\ net.socks[s].state \in {"bound", "listening"}
              /\ Succeeds(p, start(net))
           \/ /\ "listenany" \in Program[p].calls
              /\ net.socks[s].state = "new" /\ net.socks[s].family = "inet"
              /\ CanBindAny(net, s)
              /\ Succeeds(p, start(BoundToAny(net, s, AnyIp)))

\* A new inet socket takes a port when it connects.  Which names the two ends
\* of a connection have is only reported to guests, and left out.
Ported(n, s) ==
    IF n.socks[s].state = "new" /\ n.socks[s].family = "inet"
    THEN PortTaken(n, n.socks[s].host, EphemeralPort(n, n.socks[s].host, "stream"))
    ELSE n

\* An end of a connection, and a listener with one more to accept
End(sk, far)      == [sk EXCEPT !.state = "connected", !.far = far, !.local = NoName]
Queueing(sk, far) == [sk EXCEPT !.backlog = Append(@, far), !.rdNew = TRUE]

\* Both ends of a connection from s to listener l, queued there as slot far
Joined(n, s, l, far) ==
    [NewSock(n, far, n.socks[l].host, n.socks[s].family, "stream") EXCEPT
        !.socks[far] = End(@, s), !.socks[s] = End(@, far), !.socks[l] = Queueing(@, far)]

\* The client's end of a stream: my_connect, Net::connect
Connect(p, s, dest) ==
    /\ "connect" \in Program[p].calls
    /\ May(p, "none", s)
    /\ net.socks[s].kind = "stream" /\ net.socks[s].state \in {"new", "bound"}
    /\ LET h    == IF dest.ip = NoIp THEN HostOf[p] ELSE HostForIp(HostOf[p], dest.ip)
           open == Listeners(net, s, h, dest)
           l    == First(open)
           n    == Ported(net, s)
       IN  /\ open # {} /\ Len(net.socks[l].backlog) < net.socks[l].backlogMax
           /\ (net.socks[s].state = "new" /\ net.socks[s].family = "inet") => CanBindAny(net, s)
           /\ IF FreeSlots(n) = {}
              THEN net' = n /\ UNCHANGED <<proc, wait, hist>>      \* ENFILE
              ELSE LET far == First(FreeSlots(n))
                   IN  /\ net' = Joined(n, s, l, far)
                       /\ wait' = WakeIo(wait)
                       /\ hist' = [hist EXCEPT !.silent = FALSE]
                       /\ UNCHANGED proc

\* my_accept: the oldest queued connection
Accept(p, l) ==
    /\ "accept" \in Program[p].calls
    /\ May(p, "accept", l)
    /\ net.socks[l].state = "listening"
    /\ LET queue == net.socks[l].backlog
       IN  IF queue = <<>> THEN Sleeps(p, "accept", l)
           ELSE Succeeds(p, AddRefs([net EXCEPT !.socks[l].backlog = Tail(@)],
                                    p, Head(queue), 1))

Numbered(from, k) == [i \in 1..k |-> [no |-> (from + i - 1) % Modulus]]

\* One round of send_to: Net::send of k bytes, of which some are taken
Send(p, s, k) ==
    /\ "send" \in Program[p].calls
    /\ May(p, "send", s)
    /\ net.socks[s].kind = "stream" /\ net.socks[s].state = "connected"
    /\ LET sk    == net.socks[s]
           peer  == net.socks[sk.far]
           taken == Fits(sk.host, peer, k)
       IN  IF sk.shutWr \/ peer.state # "connected" \/ peer.shutRd THEN Fails(p)   \* EPIPE
           ELSE IF taken = 0 THEN WaitsForRoom(p, "send", s, sk.far)
           ELSE /\ net' = Deliver(net, sk.host, sk.far, Bytes(Numbered(hist.sent[s], taken)))
                /\ wait' = WakeIo(Unwaiting(p))
                /\ hist' = [hist EXCEPT !.silent = FALSE, !.sent[s] = (@ + taken) % Modulus]
                /\ UNCHANGED proc

\* Mutant: the sender is not told that its window opened
RecvQuietly(n, s, k) == [n EXCEPT !.socks[s].rx = SubSeq(@, k + 1, Len(@))]
\* k bytes leave the ring of s, which may open its sender's window
Received(n, s, k) ==
    Writable([n EXCEPT !.socks[s].rx = SubSeq(@, k + 1, Len(@))], n.socks[s].far)

\* recv_from on a stream: up to k bytes, or the end of the stream
Recv(p, s, k) ==
    /\ "recv" \in Program[p].calls
    /\ May(p, "recv", s)
    /\ net.socks[s].kind = "stream" /\ net.socks[s].state = "connected"
    /\ LET sk == net.socks[s]
           m  == Min({k, Len(sk.rx)})
       IN  IF sk.rx = <<>> /\ ~sk.fin /\ ~sk.shutRd THEN Sleeps(p, "recv", s)
           ELSE /\ net' = IF m = 0 THEN net ELSE Received(net, s, m)
                /\ wait' = WakeIo(Unwaiting(p))
                /\ hist' = [hist EXCEPT !.silent = FALSE, !.got[s] = (@ + m) % Modulus]
                /\ UNCHANGED proc

\* my_shutdown, Net::shutdown
NoLongerReads(n, s) ==
    Writable([n EXCEPT !.socks[s].shutRd = TRUE, !.socks[s].rx = <<>>], n.socks[s].far)
NoLongerWrites(n, s) ==
    IF n.socks[s].shutWr THEN n
    ELSE Deliver([n EXCEPT !.socks[s].shutWr = TRUE], n.socks[s].host, n.socks[s].far, Fin)
Shutdown(p, s, read, write) ==
    /\ "shutdown" \in Program[p].calls
    /\ May(p, "none", s)
    /\ net.socks[s].state = "connected"
    /\ LET n == IF read THEN NoLongerReads(net, s) ELSE net
       IN  net' = IF write THEN NoLongerWrites(n, s) ELSE n
    /\ wait' = WakeIo(wait)
    /\ hist' = [hist EXCEPT !.silent = FALSE,
                            !.got[s] = IF read THEN (@ + Len(net.socks[s].rx)) % Modulus ELSE @]
    /\ UNCHANGED proc

\* Net::bind_if_new
NeedsPort(n, s) == n.socks[s].state = "new" /\ n.socks[s].family = "inet"
BoundIfNew(n, s) == IF NeedsPort(n, s) THEN BoundToAny(n, s, AnyIp) ELSE n

\* my_connect on a datagram socket: Net::connect_dgram
ConnectDgram(p, s, dest) ==
    /\ "connect" \in Program[p].calls
    /\ May(p, "none", s)
    /\ net.socks[s].kind = "dgram"
    /\ NeedsPort(net, s) => CanBindAny(net, s)
    /\ IF dest.ip = NoIp
       THEN \E t \in Sock : /\ net.socks[t].kind = "dgram" /\ net.socks[t].state = "bound"
                            /\ net.socks[t].host = HostOf[p]
                            /\ SameName(net.socks[t].local, dest)
       ELSE HostForIp(HostOf[p], dest.ip) # NoIp
    /\ Succeeds(p, [BoundIfNew(net, s) EXCEPT !.socks[s].peer = dest, !.socks[s].hasPeer = TRUE])

\* The name a receiver sees as the source
SourceName(n, s, dest) ==
    IF n.socks[s].family = "inet"
    THEN [n.socks[s].local EXCEPT !.ip = OwnAddress(n.socks[s].host, dest)]
    ELSE n.socks[s].local

\* The datagram sockets bound to `dest' that accept what s sends
Hearers(n, s, h, dest) ==
    {t \in Sock : /\ n.socks[t].kind = "dgram" /\ n.socks[t].state = "bound"
                  /\ n.socks[t].host = h
                  /\ Hears(n.socks[t], n.socks[s].family, dest)
                  /\ n.socks[t].hasPeer =>
                        /\ SameName(n.socks[t].peer, SourceName(n, s, dest))
                        /\ n.socks[t].peer.ip = SourceName(n, s, dest).ip}

\* Net::send_dgram to `dest', with the sender bound as in n: an inet datagram
\* that nobody takes is lost, a UNIX-domain one is refused or waits.
SendDgramFrom(p, s, n, dest) ==
    LET h       == IF dest.ip = NoIp THEN HostOf[p] ELSE HostForIp(HostOf[p], dest.ip)
        hearers == Hearers(n, s, h, dest)
        t       == First(hearers)
        sk      == n.socks[s]
    IN  IF hearers # {} /\ TakesDgram(sk.host, n.socks[t])
        THEN Succeeds(p, Deliver(n, sk.host, t, Dgram(SourceName(n, s, dest))))
        ELSE IF sk.family = "inet"
        THEN Succeeds(p, IF hearers = {} \/ ~ArrivesNow(sk.host, n.socks[t]) THEN n
                         ELSE [n EXCEPT !.socks[t].rdNew = TRUE])
        ELSE IF hearers = {} THEN Fails(p)                                  \* ECONNREFUSED
        ELSE WaitsForRoom(p, "sendto", s, t)                                \* n = net

SendDgram(p, s, dest) ==
    /\ "sendto" \in Program[p].calls
    /\ May(p, "sendto", s)
    /\ net.socks[s].kind = "dgram"
    /\ NeedsPort(net, s) => CanBindAny(net, s)
    /\ \/ /\ (dest.ip = NoIp) <=> (net.socks[s].family = "unix")
          /\ dest.ip # NoIp => HostForIp(HostOf[p], dest.ip) # NoIp
       \/ net.socks[s].hasPeer /\ dest = net.socks[s].peer                  \* no destination given
    /\ SendDgramFrom(p, s, BoundIfNew(net, s), dest)

\* Net::recv_dgram
RecvDgram(p, s) ==
    /\ "recvfrom" \in Program[p].calls
    /\ May(p, "recvfrom", s)
    /\ net.socks[s].kind = "dgram"
    /\ IF net.socks[s].rx = <<>> THEN Sleeps(p, "recvfrom", s)
       ELSE Succeeds(p, [net EXCEPT !.socks[s].rx = Tail(@)])

\* An edge-triggered registration reports s if it is ready and something has
\* happened since it last did (collect in kq.rs); otherwise the thread parks.
KeventRead(p, s) ==
    /\ "kevent" \in Program[p].calls /\ May(p, "edgeread", s)
    /\ IF IsReadable(net, s) /\ net.socks[s].rdNew
       THEN /\ net' = [net EXCEPT !.socks[s].rdNew = FALSE]
            /\ wait' = Unwaiting(p) /\ UNCHANGED <<proc, hist>>
       ELSE Sleeps(p, "edgeread", s)
KeventWrite(p, s) ==
    /\ "kevent" \in Program[p].calls /\ May(p, "edgewrite", s)
    /\ IF IsWritable(net, s) /\ net.socks[s].wrNew
       THEN /\ net' = [net EXCEPT !.socks[s].wrNew = FALSE]
            /\ wait' = Unwaiting(p) /\ UNCHANGED <<proc, hist>>
       ELSE Sleeps(p, "edgewrite", s)

\* The deadline of a wait ends it (SO_RCVTIMEO, SO_SNDTIMEO, kevent).
TimeOut(p) ==
    /\ "timeout" \in Program[p].calls
    /\ proc[p] = "up" /\ wait[p].asleep
    /\ wait' = Unwaiting(p)
    /\ UNCHANGED <<net, proc, hist>>

----------------------------------------------------------------------------
(***************************************************************************)
(* Descriptors and processes.                                              *)
(***************************************************************************)
\* Mutant: nobody is woken for a close
CloseQuietly(p, s) ==
    /\ May(p, "none", s)
    /\ net' = DropRefs(net, p, s, 1)
    /\ UNCHANGED <<proc, wait, hist>>
\* `closed' in net.rs
Close(p, s) == "close" \in Program[p].calls /\ May(p, "none", s) /\ Succeeds(p, DropRefs(net, p, s, 1))

\* my_dup: `duplicated' in net.rs
Dup(p, s) ==
    /\ "dup" \in Program[p].calls
    /\ May(p, "none", s)
    /\ net.refs[p][s] < MaxRefs
    /\ net' = AddRefs(net, p, s, 1)
    /\ UNCHANGED <<proc, wait, hist>>

\* A fork: the child counts what it inherited (adopt_inherited) before the
\* parent goes on.
Fork(p, child) ==
    /\ "fork" \in Program[p].calls
    /\ Awake(p) /\ wait[p] = NoWait
    /\ child \in Children /\ proc[child] = "unborn" /\ HostOf[child] = HostOf[p]
    /\ proc' = [proc EXCEPT ![child] = "up"]
    /\ net' = SetRefs(net, child, net.refs[p])
    /\ UNCHANGED <<wait, hist>>

\* Records went without wake_io.
Silently(n) ==
    History(n, hist.silent \/ \E s \in Sock : n.socks[s].state # net.socks[s].state)

\* An execve: the new image counts what was not close-on-exec.
Exec(p, s) ==
    /\ "exec" \in Program[p].calls
    /\ Awake(p) /\ wait[p] = NoWait
    /\ Holds(p, s)
    /\ LET n == SetRefs(net, p, [net.refs[p] EXCEPT ![s] = 0])
       IN  net' = n /\ Silently(n)
    /\ UNCHANGED <<proc, wait>>

\* leave_virtual_network: a connect to the world outside takes the
\* descriptor away.
Outside(p, s) ==
    /\ "outside" \in Program[p].calls
    /\ May(p, "none", s)
    /\ LET n == DropRefs(net, p, s, 1)
       IN  net' = n /\ Silently(n)
    /\ UNCHANGED <<proc, wait>>

\* Net::process_died, at an exit as at a crash
Die(p) ==
    /\ "die" \in Program[p].calls
    /\ proc[p] = "up"
    /\ proc' = [proc EXCEPT ![p] = "dead"]
    /\ LET n == SetRefs(net, p, Nothing)
       IN  net' = n /\ History(n, FALSE)
    /\ wait' = WakeIo(Unwaiting(p))

\* State::clock_moved: what has become due arrives, and I/O waiters look
\* again if anything did.
ClockMoves(d) ==
    /\ net.inFlight > 0
    /\ LET aged == Aged(net, d)
       IN  /\ net' = Advance(aged)
           /\ IF AnythingDue(aged)
              THEN wait' = WakeIo(wait) /\ hist' = [hist EXCEPT !.silent = FALSE]
              ELSE UNCHANGED <<wait, hist>>
    /\ UNCHANGED proc

\* Nobody can run: the clock jumps to what is due next (State::pick).
Idle == \A p \in Proc : ~Awake(p)
Jump == Idle /\ net.inFlight > 0 /\ ClockMoves(IF net.nextDue > 0 THEN net.nextDue ELSE 0)

----------------------------------------------------------------------------
Init ==
    /\ net = [ socks    |-> [s \in Sock |-> Blank(AnyHost)],
               refs     |-> [p \in Proc |-> Nothing],
               inFlight |-> 0, nextDue |-> 0,
               port     |-> [h \in Host |-> 1] ]
    /\ \E started \in Starts : proc = [p \in Proc |-> IF p \in started THEN "up" ELSE "unborn"]
    /\ wait = [p \in Proc |-> NoWait]
    /\ hist = [sent |-> [s \in Sock |-> 0], got |-> [s \in Sock |-> 0], silent |-> FALSE]

Streams == \E p \in Proc, s \in Sock :
    \/ \E max \in Backlogs : Listen(p, s, max)
    \/ \E dest \in Program[p].dests : Connect(p, s, dest)
    \/ Accept(p, s)
    \/ \E k \in Sizes : Send(p, s, k)
    \/ \E k \in Sizes : Recv(p, s, k)
    \/ \E read, write \in BOOLEAN : (read \/ write) /\ Shutdown(p, s, read, write)

Dgrams == \E p \in Proc, s \in Sock :
    \/ \E dest \in Program[p].dests : ConnectDgram(p, s, dest)
    \/ \E dest \in Program[p].dests : SendDgram(p, s, dest)
    \/ RecvDgram(p, s)

Handles == \E p \in Proc :
    \/ \E make \in Program[p].makes : MakeSocket(p, make[1], make[2])
    \/ \E s \in Sock : \/ Bind(p, s)  \/ Close(p, s) \/ Dup(p, s)
                       \/ Exec(p, s)  \/ Outside(p, s)
    \/ \E child \in Proc : Fork(p, child)
    \/ Die(p)

Waits == \E p \in Proc :
    \/ \E s \in Sock : KeventRead(p, s) \/ KeventWrite(p, s)
    \/ TimeOut(p)

Clock == Jump \/ \E d \in Ticks : ClockMoves(d)

\* A process computes, or makes a call that fails and changes nothing; or
\* nothing can happen here any more.
Elsewhere ==
    /\ \/ \E p \in Proc : Awake(p) /\ wait[p] = NoWait
       \/ Idle /\ net.inFlight = 0
    /\ UNCHANGED vars

Next == Streams \/ Dgrams \/ Handles \/ Waits \/ Clock \/ Elsewhere

Spec == Init /\ [][Next]_vars

----------------------------------------------------------------------------
(***************************************************************************)
(* Properties.                                                             *)
(***************************************************************************)
Socks == net.socks
Connected(s) == Socks[s].state = "connected"
Queued(s) == \E l \in Sock : Socks[l].state = "listening" /\ Contains(Socks[l].backlog, s)

\* The descriptors of all processes that name a socket, numbered by process
Descriptors(s) == UNION {{p} \X (1..net.refs[p][s]) : p \in Proc}

\* A record is free when nobody can name it any more, and not before.  A
\* descriptor some process still has names an open socket, whatever else was
\* closed, inherited, dropped by execve or lost with a process; refs is the
\* count over all processes; every open record has somebody who will release
\* it, a descriptor or the listener it is queued on; and the two records of a
\* connection point at each other as long as either end is open (add_ref,
\* drop_ref, set_refs, release, socket).
HeldExactly ==
    \A s \in Sock :
        /\ \A p \in Proc : Holds(p, s) => ~IsGone(Socks[s])
        /\ Socks[s].refs = Cardinality(Descriptors(s))
        /\ IsGone(Socks[s]) \/ Socks[s].refs > 0 \/ (Connected(s) /\ Queued(s))
        /\ Socks[s].state \in {"connected", "closed"} =>
              /\ Socks[s].far # NoSock
              /\ Socks[Socks[s].far].far = s
              /\ Socks[Socks[s].far].state \in {"connected", "closed"}
              /\ Connected(s) \/ Connected(Socks[s].far)

\* The bytes in the ring of s and in flight to it are, in order and without
\* gap, those its peer sent and it has not got; and an open end is told once,
\* after all of them, that its peer sends no more: exactly when the peer is
\* gone or shut down.
StreamBytes(sk) == Folded(LAMBDA all, r : all \o r.pay.data, sk.rx, sk.flight)
BytesIntact(s) ==
    LET pending == StreamBytes(Socks[s])
    IN  /\ pending = Numbered(hist.got[s], Len(pending))
        /\ (hist.got[s] + Len(pending)) % Modulus = hist.sent[Socks[s].far]
FinsOf(sk) == {i \in DOMAIN sk.flight : sk.flight[i].pay.kind = "fin"}
EndsOnce(s) ==
    LET sk == Socks[s]  peer == Socks[sk.far]
        fins == Cardinality(FinsOf(sk)) + (IF sk.fin THEN 1 ELSE 0)
    IN  /\ fins = IF peer.shutWr \/ peer.state = "closed" THEN 1 ELSE 0
        /\ FinsOf(sk) \subseteq {Len(sk.flight)}
        /\ sk.fin => sk.flight = <<>>
StreamIntact == \A s \in Sock : Connected(s) => BytesIntact(s) /\ EndsOnce(s)

\* What is in flight is what the counters say and what the rings have room
\* for.  in_flight is the number of payloads, fl_stream the stream bytes among
\* them, and next_due is not later than the first payload that can land: an
\* idle run would sleep past it.  A receive ring holds everything in flight
\* when it lands, and a peer that has not said FIN yet always can (deliver,
\* launch, land_due, release).
FlightAccounted ==
    /\ net.inFlight = Total([s \in Sock |-> Len(Socks[s].flight)])
    /\ \A s \in Sock : LET sk == Socks[s] IN
        /\ sk.flStream = StreamLen(sk.flight)
        /\ sk.flight # <<>> => (net.nextDue # NoTime /\ net.nextDue <= sk.flight[1].left)
        /\ RxLen(sk) + sk.flStream <= Ring
        /\ FlLen(sk) <= Ring
        /\ (Connected(s) /\ ~Socks[sk.far].shutWr /\ Connected(sk.far) /\ sk.flight # <<>>)
              => FlLen(sk) + FlightHeader <= Ring

\* A bound datagram socket that takes none from host h
IsFull(sk, h) == sk.kind = "dgram" /\ sk.state = "bound" /\ ~TakesDgram(h, sk)

\* Whether the call p waits to make would not have to wait any more.  A wait
\* to send a datagram does not say to whom: it is surely over when every bound
\* datagram socket takes one.
Ready(p) ==
    LET s == wait[p].sock  sk == Socks[s]
    IN  CASE wait[p].op = "accept"    -> sk.backlog # <<>>
          [] wait[p].op \in {"recv", "recvfrom"} -> IsReadable(net, s)
          [] wait[p].op = "send"      -> IsWritable(net, s)
          [] wait[p].op = "sendto"    -> ~\E t \in Sock : IsFull(Socks[t], sk.host)
          [] wait[p].op = "edgeread"  -> IsReadable(net, s) /\ sk.rdNew
          [] wait[p].op = "edgewrite" -> IsWritable(net, s) /\ sk.wrNew
          [] OTHER                    -> FALSE

\* No thread sleeps in a socket call that could go on: every change that makes
\* one ready wakes the I/O waiters.  Three changes wake nobody, and excuse
\* whoever sleeps until the next that does (hist.silent): records released by
\* execve or by leaving the virtual network, and an event counted for a
\* payload that did not fit (WaitsForRoom), of which an edge-triggered waiter
\* is not told.
WaitersLookAgain == \A p \in Proc : wait[p].asleep /\ ~hist.silent => ~Ready(p)

\* What arrives, and a window that opens, is an event to an edge-triggered
\* waiter, unless its own process shut the socket down.
Arrived(s) == \/ Len(Socks'[s].rx) > Len(Socks[s].rx)
              \/ Socks'[s].fin /\ ~Socks[s].fin
              \/ Len(Socks'[s].backlog) > Len(Socks[s].backlog)
Opened(s) == /\ ~IsWritable(net, s) /\ IsWritable(net', s)
             /\ Socks'[s].shutWr = Socks[s].shutWr
SameLife(s) == ~IsGone(Socks[s]) /\ Socks'[s].state = Socks[s].state
EdgesNotLost ==
    [][\A s \in Sock : SameLife(s) =>
          ((Arrived(s) => Socks'[s].rdNew) /\ (Opened(s) => Socks'[s].wrNew))]_vars

\* What enters a receive ring while traffic to it is in flight is the oldest
\* of that traffic: nothing overtakes (deliver).
NothingOvertakes ==
    [][\A s \in Sock : (SameLife(s) /\ Len(Socks'[s].rx) > Len(Socks[s].rx) /\ Socks[s].flight # <<>>)
                        => Len(Socks'[s].flight) < Len(Socks[s].flight)]_vars

=============================================================================
