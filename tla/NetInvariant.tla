----------------------------- MODULE NetInvariant -----------------------------
(***************************************************************************)
(* What the proofs about the virtual network say of it: the invariant that *)
(* every step keeps, Inv and Minds, part by part, and what a step does to  *)
(* one socket record (r against sk) or to the whole network (m against n). *)
(* The invariants are Hangs (how sockets hang together), Traffic (what is  *)
(* in flight) and Minds (who waits).                                       *)
(***************************************************************************)
EXTENDS Net

----------------------------------------------------------------------------
(***************************************************************************)
(* Records.  NetRec is what struct Net is; Alike compares the fields of a  *)
(* record that say how sockets hang together, leaving out traffic and      *)
(* events.                                                                 *)
(***************************************************************************)
NetRec == [ socks: [Sock -> SockRec], refs: [Proc -> [Sock -> Nat]], inFlight: Nat,
            nextDue: Nat \cup {NoTime}, port: [Host -> Nat] ]
Named(r, sk) ==
    /\ r.family = sk.family /\ r.kind = sk.kind /\ r.host = sk.host
    /\ r.local = sk.local /\ r.peer = sk.peer /\ r.hasPeer = sk.hasPeer
Alike(r, sk) ==
    /\ r.state = sk.state /\ r.far = sk.far /\ r.kind = sk.kind /\ r.host = sk.host
    /\ r.backlog = sk.backlog /\ r.shutWr = sk.shutWr /\ r.shutRd = sk.shutRd

----------------------------------------------------------------------------
(***************************************************************************)
(* What one operation does to the network.                                 *)
(***************************************************************************)
\* m is n with record r for socket s, its other parts but the clock's as before.
Puts(n, m, s, r) ==
    /\ m \in NetRec /\ r \in SockRec
    /\ m.socks = [n.socks EXCEPT ![s] = r]
    /\ m.refs = n.refs /\ m.port = n.port
\* A payload added to what is in flight to sk
Flying(sk, left, pay) ==
    [sk EXCEPT !.flight = Append(@, [left |-> left, pay |-> pay]),
               !.flStream = @ + (IF pay.kind = "bytes" THEN Len(pay.data) ELSE 0)]
\* A record that only had traffic or events
Lively(r, sk) ==
    /\ r \in SockRec /\ Alike(r, sk) /\ Named(r, sk)
    /\ r.refs = sk.refs /\ r.backlogMax = sk.backlogMax
\* An event for a writer
Told(sk) == IF IsGone(sk) THEN sk ELSE [sk EXCEPT !.wrNew = TRUE]

----------------------------------------------------------------------------
(***************************************************************************)
(* How sockets hang together.  Every conjunct is about what Alike compares *)
(* and the counts; `but' is a socket whose last reference just went, which *)
(* nobody holds until it is released, or NoSock.                           *)
(***************************************************************************)
\* The descriptors that name s, numbered by process
DescriptorsIn(refs, s) == UNION {{p} \X (1..refs[p][s]) : p \in Proc}
Linked(sk) == sk.state \in {"connected", "closed"}
InQueue(n, l, t) == n.socks[l].state = "listening" /\ \E i \in 1..Len(n.socks[l].backlog) : n.socks[l].backlog[i] = t
IsQueued(n, t) == \E l \in Sock : InQueue(n, l, t)
\* refs counts the descriptors, and nobody names a record that is gone
Counted(n) ==
    \A s \in Sock : /\ n.socks[s].refs = Cardinality(DescriptorsIn(n.refs, s))
                    /\ IsGone(n.socks[s]) => n.socks[s].refs = 0
\* Every open record has somebody who will release it
Kept(n, but) ==
    \A s \in Sock : s # but => \/ IsGone(n.socks[s]) \/ n.socks[s].refs > 0
                               \/ n.socks[s].state = "connected" /\ IsQueued(n, s)
\* The two records of a connection point at each other
Paired(n) ==
    \A s \in Sock : Linked(n.socks[s]) =>
        /\ n.socks[s].far \in Sock /\ n.socks[s].far # s
        /\ n.socks[n.socks[s].far].far = s /\ Linked(n.socks[n.socks[s].far])
        /\ n.socks[s].state = "connected" \/ n.socks[n.socks[s].far].state = "connected"
\* A connection is in at most one place of one queue, held and shut by nobody,
\* and the other end of it is not queued too
OnlyListenersQueue(n) == \A l \in Sock : n.socks[l].state # "listening" => n.socks[l].backlog = <<>>
QueuedOnce(n) ==
    \A l, m \in Sock : \A i \in 1..Len(n.socks[l].backlog), j \in 1..Len(n.socks[m].backlog) :
        n.socks[l].backlog[i] = n.socks[m].backlog[j] => l = m /\ i = j
QueuedIdle(n) ==
    \A t \in Sock : IsQueued(n, t) =>
        /\ n.socks[t].state = "connected" /\ n.socks[t].refs = 0
        /\ ~n.socks[t].shutWr /\ ~n.socks[t].shutRd
        /\ ~IsQueued(n, n.socks[t].far)
Queues(n) == OnlyListenersQueue(n) /\ QueuedOnce(n) /\ QueuedIdle(n)
Hangs(n, but) == n \in NetRec /\ Counted(n) /\ Kept(n, but) /\ Paired(n) /\ Queues(n)
\* m is n after traffic and events
Quiet(n, m) ==
    /\ m \in NetRec /\ m.refs = n.refs
    /\ \A s \in Sock : Lively(m.socks[s], n.socks[s])

----------------------------------------------------------------------------
(***************************************************************************)
(* References taken and given up: a record keeps everything but its count. *)
(***************************************************************************)
Recount(r, sk) == r = [sk EXCEPT !.refs = r.refs]
Recounted(n, m) ==
    /\ m \in NetRec
    /\ \A s \in Sock : Recount(m.socks[s], n.socks[s])
    /\ m.inFlight = n.inFlight /\ m.nextDue = n.nextDue /\ m.port = n.port
\* The descriptors of p for s set to a, and the count of s to b
Rewritten(n, p, s, a, b) == [n EXCEPT !.refs[p][s] = a, !.socks[s].refs = b]
Rewrites(n, m, p, s, a, b) ==
    /\ Recounted(n, m)
    /\ m.refs = [n.refs EXCEPT ![p] = [n.refs[p] EXCEPT ![s] = a]]
    /\ m.socks[s].refs = b
    /\ \A t \in Sock : t # s => m.socks[t] = n.socks[t]

----------------------------------------------------------------------------
(***************************************************************************)
(* Release.  Whatever goes, every record ends in one of three ways.        *)
(***************************************************************************)
Emptied(r, sk, state) ==
    /\ r \in SockRec /\ r.state = state /\ r.refs = 0 /\ r.backlog = <<>>
    /\ r.kind = "stream" /\ r.rx = <<>> /\ ~r.fin /\ ~r.shutWr /\ ~r.shutRd
    /\ state = "closed" => r.far = sk.far
\* An open record may be told that its peer is gone, and keeps its events.
Stays(r, sk) ==
    /\ Lively(r, sk) /\ r.rx = sk.rx
    /\ sk.rdNew => r.rdNew
    /\ sk.wrNew => r.wrNew
    /\ sk.fin => r.fin
    /\ r.fin /\ ~sk.fin => r.rdNew
\* With the sockets of G a closed far end of one goes for good; what has an
\* open far end stays behind closed.
Survives(n, G, t) == t \notin G /\ ~(n.socks[t].state = "closed" /\ n.socks[t].far \in G)
Lingers(n, G, t)  == t \in G /\ n.socks[t].state = "connected" /\ n.socks[n.socks[t].far].state # "closed"
Bereft(n, G, t)   == Linked(n.socks[t]) /\ n.socks[t].far \in G
Released(n, m, G) ==
    /\ m \in NetRec /\ m.refs = n.refs /\ m.port = n.port
    /\ \A t \in Sock :
        /\ Survives(n, G, t) => Stays(m.socks[t], n.socks[t])
        /\ Survives(n, G, t) => IF Bereft(n, G, t) THEN m.socks[t].wrNew ELSE m.socks[t] = n.socks[t]
        /\ Lingers(n, G, t) => Emptied(m.socks[t], n.socks[t], "closed")
        /\ ~Survives(n, G, t) /\ ~Lingers(n, G, t) => Emptied(m.socks[t], n.socks[t], "free")
FreesTwo(n, m, a, b) ==
    /\ m \in NetRec /\ m.refs = n.refs /\ m.port = n.port
    /\ m.inFlight = n.inFlight /\ m.nextDue = n.nextDue
    /\ m.socks[a] = Freed(n.socks[a]) /\ m.socks[b] = Freed(n.socks[b])
    /\ \A t \in Sock : t # a /\ t # b => m.socks[t] = n.socks[t]
\* An end whose peer is gone too takes both records, another one hangs up.
EndGoes(n, s) ==
    IF n.socks[n.socks[s].far].state = "closed"
    THEN [n EXCEPT !.socks[n.socks[s].far] = Freed(@), !.socks[s] = Freed(@)]
    ELSE HangUp(n, s)
\* What the peer of s becomes when s hangs up
TellsPeer(n, s, r) ==
    LET peer == n.socks[s].far IN
    \/ n.socks[s].shutWr /\ r = Told(n.socks[peer])
    \/ ~n.socks[s].shutWr /\ ArrivesNow(n.socks[s].host, n.socks[peer]) /\ r = Told(Land(n.socks[peer], Fin))
    \/ /\ ~n.socks[s].shutWr /\ ~ArrivesNow(n.socks[s].host, n.socks[peer])
       /\ r = Told(Flying(n.socks[peer], Delay(n.socks[s].host, n.socks[peer]), Fin))
\* The first i connections queued on l
FirstQueued(n, l, i) == {n.socks[l].backlog[j] : j \in 1..i}
\* What goes with s: a listener takes its queue along.
Goners(n, s) ==
    IF n.socks[s].state = "listening" THEN FirstQueued(n, s, Len(n.socks[s].backlog)) \cup {s} ELSE {s}

----------------------------------------------------------------------------
(***************************************************************************)
(* References given up, one socket after the other.                        *)
(***************************************************************************)
\* What is open after any number of releases was open before; it kept what it
\* received and its events, and has new ones for what changed for it.
Outlives(r, sk) ==
    /\ Alike(r, sk) /\ Named(r, sk) /\ r.backlogMax = sk.backlogMax
    /\ r.rx = sk.rx
    /\ sk.rdNew => r.rdNew
    /\ sk.wrNew => r.wrNew
    /\ sk.fin => r.fin
    /\ r.fin /\ ~sk.fin => r.rdNew
StillWritable(n, m, t) == ~IsWritable(n, t) /\ IsWritable(m, t) => m.socks[t].wrNew
NoneGone(n, m) == \A t \in Sock : IsGone(m.socks[t]) => IsGone(n.socks[t])
Wanes(n, m) ==
    /\ \A t \in Sock : IsGone(n.socks[t]) => IsGone(m.socks[t])
    /\ \A t \in Sock : ~IsGone(m.socks[t]) => Outlives(m.socks[t], n.socks[t]) /\ StillWritable(n, m, t)
    /\ \A t \in Sock : IsQueued(m, t) => IsQueued(n, t)
    /\ NoneGone(n, m) => Recounted(n, m)
    /\ m.port = n.port
\* References of p to s are given up; with the last one s goes.
Dropped(n, m, p, s, k) ==
    /\ Hangs(m, NoSock) /\ Wanes(n, m)
    /\ m.refs = [n.refs EXCEPT ![p] = [n.refs[p] EXCEPT ![s] = n.refs[p][s] - k]]
\* First the counts are less by k, then s may go.
Rests(n, m, rest, p, s, k) ==
    /\ Recounted(n, rest) /\ Wanes(n, rest)
    /\ rest.refs = [n.refs EXCEPT ![p] = [n.refs[p] EXCEPT ![s] = n.refs[p][s] - k]]
    /\ \/ Hangs(rest, NoSock) /\ m = rest
       \/ /\ Hangs(rest, s) /\ ~IsGone(rest.socks[s]) /\ ~IsQueued(rest, s) /\ rest.socks[s].refs = 0
          /\ m = Release(rest, s)
\* One socket after the other
DroppedAll(n, m, p, held, i) ==
    /\ Hangs(m, NoSock) /\ Wanes(n, m)
    /\ m.refs = [n.refs EXCEPT ![p] = [t \in Sock |-> n.refs[p][t] - (IF t <= i THEN held[t] ELSE 0)]]
\* One socket more
DropsNext(n, x, y, p, held, i) ==
    /\ Hangs(x, NoSock) /\ held[i] \in Nat /\ held[i] <= x.refs[p][i] /\ i \in Sock
    /\ DroppedAll(n, y, p, held, i)

----------------------------------------------------------------------------
(***************************************************************************)
(* What the calls do to one socket.                                        *)
(***************************************************************************)
\* m is n with record r for socket s and perhaps a port taken.
Sets(n, m, s, r) ==
    /\ m \in NetRec /\ r \in SockRec
    /\ m.socks = [n.socks EXCEPT ![s] = r]
    /\ m.refs = n.refs /\ m.inFlight = n.inFlight /\ m.nextDue = n.nextDue
PortsOK(n) == \A h \in Host : n.port[h] \in DOMAIN Ephemeral[h]
Renamed(sk, name) == [sk EXCEPT !.local = name, !.state = "bound"]
\* A socket that is only known by another name or listens from now on, and
\* one that is shut down, hangs as before.
Alters(n, m) ==
    /\ m \in NetRec /\ m.refs = n.refs
    /\ \A t \in Sock : LET r == m.socks[t]  sk == n.socks[t] IN
        /\ r.far = sk.far /\ r.refs = sk.refs /\ r.backlog = sk.backlog
        /\ \/ r.state = sk.state
           \/ sk.state \in {"new", "bound"} /\ r.state \in {"bound", "listening"}
        /\ IsQueued(n, t) => r.shutWr = sk.shutWr /\ r.shutRd = sk.shutRd

----------------------------------------------------------------------------
(***************************************************************************)
(* New sockets and connections.                                            *)
(***************************************************************************)
Fresh(h, family, kind) == [Blank(h) EXCEPT !.state = "new", !.family = family, !.kind = kind]
\* What was in flight to the slot is discarded.
Less(k, by) == IF k < by THEN 0 ELSE k - by
Anew(n, m, s, r) ==
    /\ m \in NetRec /\ m.socks = [n.socks EXCEPT ![s] = r]
    /\ m.refs = n.refs /\ m.port = n.port /\ m.nextDue = n.nextDue
    /\ m.inFlight = Less(n.inFlight, Len(n.socks[s].flight))
Joins(n, m, s, l, far) ==
    /\ m \in NetRec /\ m.refs = n.refs /\ m.port = n.port /\ m.nextDue = n.nextDue
    /\ m.inFlight = Less(n.inFlight, Len(n.socks[far].flight))
    /\ m.socks[s] = End(n.socks[s], far)
    /\ m.socks[far] = End(Fresh(n.socks[l].host, n.socks[s].family, "stream"), s)
    /\ m.socks[l] = Queueing(n.socks[l], far)
    /\ \A t \in Sock \ {s, l, far} : m.socks[t] = n.socks[t]
Ended(r, sk, far) ==
    /\ r \in SockRec /\ r.state = "connected" /\ r.far = far
    /\ r.refs = sk.refs /\ r.backlog = sk.backlog
    /\ r.kind = sk.kind /\ r.rx = sk.rx /\ r.fin = sk.fin
    /\ r.shutWr = sk.shutWr /\ r.shutRd = sk.shutRd
    /\ r.flight = sk.flight /\ r.flStream = sk.flStream
Enqueued(r, sk, far) ==
    /\ r \in SockRec /\ r.state = sk.state /\ r.refs = sk.refs /\ r.far = sk.far
    /\ r.shutWr = sk.shutWr /\ r.shutRd = sk.shutRd
    /\ r.kind = sk.kind /\ r.rx = sk.rx /\ r.fin = sk.fin
    /\ r.flight = sk.flight /\ r.flStream = sk.flStream
    /\ r.backlog = Append(sk.backlog, far)
    /\ r.rdNew /\ r.wrNew = sk.wrNew
Shorter(sk) == [sk EXCEPT !.backlog = Tail(@)]
Takes(n, x, l, far) ==
    /\ Sets(n, x, l, Shorter(n.socks[l])) /\ x.port = n.port
    /\ far \in Sock /\ Hangs(x, far) /\ ~IsGone(x.socks[far]) /\ ~IsQueued(x, far)
    /\ \A t \in Sock : IsQueued(x, t) => IsQueued(n, t)

----------------------------------------------------------------------------
(***************************************************************************)
(* What every step keeps of the network.                                   *)
(***************************************************************************)
Stands(n) == Hangs(n, NoSock) /\ PortsOK(n)
\* What enters a ring is the oldest of what is in flight.
InOrder(n, m) ==
    \A t \in Sock : ~IsGone(m.socks[t]) /\ n.socks[t].flight # <<>> /\ Len(m.socks[t].rx) > Len(n.socks[t].rx)
                        => Len(m.socks[t].flight) < Len(n.socks[t].flight)
\* Nothing enters a ring.
Calms(n, m) == \A t \in Sock : ~IsGone(m.socks[t]) => Len(m.socks[t].rx) <= Len(n.socks[t].rx)
\* A record that changes in what Alters allows
Altered(r, sk) ==
    /\ r.far = sk.far /\ r.refs = sk.refs /\ r.backlog = sk.backlog
    /\ \/ r.state = sk.state
       \/ sk.state \in {"new", "bound"} /\ r.state \in {"bound", "listening"}

----------------------------------------------------------------------------
(***************************************************************************)
(* The calls, one after the other.                                         *)
(***************************************************************************)
Keeps == Stands(net') /\ InOrder(net, net')
\* What naming a socket does
NamedAnew(n, m, s) ==
    /\ Stands(m) /\ Calms(n, m)
    /\ \E name \in Name : Sets(n, m, s, Renamed(n.socks[s], name))
Listening(sk, max) == [sk EXCEPT !.state = "listening", !.backlogMax = max]
HistRec == [sent: [Sock -> Number], got: [Sock -> Number], silent: BOOLEAN]
\* What each record in flight takes of the ring
Weights(flight) == [i \in DOMAIN flight |-> FlightHeader + Size(flight[i].pay)]
\* A record that only had traffic or events is put back.
Livens(n, m, s, r) ==
    /\ Stands(m) /\ Quiet(n, m) /\ m \in NetRec
    /\ m.socks[s] = r /\ \A t \in Sock : t # s => m.socks[t] = n.socks[t]
    /\ m.inFlight = n.inFlight /\ m.nextDue = n.nextDue
WithRx(sk, rx) == [sk EXCEPT !.rx = rx]
Flagged(sk, rd, wr) == [sk EXCEPT !.rdNew = rd, !.wrNew = wr]
\* What a call of p leaves that waits for room at t (WaitsForRoom)
Crowds(p, op, s, t, rd) ==
    /\ t \in Sock /\ rd \in BOOLEAN
    /\ net' = [net EXCEPT !.socks = [net.socks EXCEPT ![t] = Flagged(net.socks[t], rd, net.socks[t].wrNew)]]
    /\ wait' = [wait EXCEPT ![p] = [op |-> op, sock |-> s, asleep |-> TRUE]]
    /\ proc' = proc
    /\ (net' = net /\ hist' = hist) \/ hist' = [hist EXCEPT !.silent = TRUE]
RingSet(n, s, rx) == [n EXCEPT !.socks = [n.socks EXCEPT ![s] = WithRx(n.socks[s], rx)]]
\* Sockets that are open and linked as before
Same(n, m) ==
    /\ Stands(m) /\ Calms(n, m)
    /\ \A t \in Sock : /\ m.socks[t].state = n.socks[t].state /\ m.socks[t].far = n.socks[t].far
                       /\ m.socks[t].host = n.socks[t].host /\ m.socks[t].kind = n.socks[t].kind
                       /\ IsQueued(m, t) <=> IsQueued(n, t)
NotReading(sk) == [sk EXCEPT !.shutRd = TRUE, !.rx = <<>>]
NotWriting(sk) == [sk EXCEPT !.shutWr = TRUE]
\* Taken apart, the two halves of a shutdown
ReadEnd(n, s)  == [n EXCEPT !.socks = [n.socks EXCEPT ![s] = NotReading(n.socks[s])]]
WriteEnd(n, s) == [n EXCEPT !.socks = [n.socks EXCEPT ![s] = NotWriting(n.socks[s])]]
Knowing(sk, dest) == [sk EXCEPT !.peer = dest, !.hasPeer = TRUE]

----------------------------------------------------------------------------
(***************************************************************************)
(* The clock.                                                              *)
(***************************************************************************)
AgedFlight(flight, d) == [i \in DOMAIN flight |-> [left |-> Later(flight[i].left, d), pay |-> flight[i].pay]]
\* A record that only grew older
Ages(r, sk, d) ==
    /\ Lively(r, sk) /\ r.rx = sk.rx /\ r.fin = sk.fin /\ r.rdNew = sk.rdNew /\ r.wrNew = sk.wrNew
    /\ r.flStream = sk.flStream /\ r.flight = AgedFlight(sk.flight, d)
    /\ Len(r.flight) = Len(sk.flight) /\ FlLen(r) = FlLen(sk)
    /\ \A i \in 1..Len(sk.flight) : r.flight[i].pay = sk.flight[i].pay
AgesAll(n, m, d) ==
    /\ Stands(m) /\ Quiet(n, m) /\ Calms(n, m) /\ m \in NetRec
    /\ m.inFlight = n.inFlight /\ m.nextDue = (IF n.nextDue = NoTime THEN NoTime ELSE Later(n.nextDue, d))
    /\ \A s \in Sock : Ages(m.socks[s], n.socks[s], d)

----------------------------------------------------------------------------
(***************************************************************************)
(* What is in flight.                                                      *)
(***************************************************************************)
\* The stream bytes of each record in flight
Loads(flight) ==
    [i \in DOMAIN flight |-> IF flight[i].pay.kind = "bytes" THEN Len(flight[i].pay.data) ELSE 0]
Load(pay) == IF pay.kind = "bytes" THEN Len(pay.data) ELSE 0
\* One more record in flight
Grown(flight, left, pay, more) ==
    /\ more \in Seq([left: Nat, pay: Payload]) /\ Len(more) = Len(flight) + 1 /\ Len(flight) \in Nat
    /\ \A i \in 1..Len(flight) : more[i] = flight[i]
    /\ more[Len(flight) + 1] = [left |-> left, pay |-> pay]
    /\ StreamLen(more) = StreamLen(flight) + Load(pay)
    /\ Total(Weights(more)) = Total(Weights(flight)) + FlightHeader + Size(pay)

----------------------------------------------------------------------------
(***************************************************************************)
(* The counters of the traffic and what each kind of socket may have       *)
(* received, in flight and in its ring.                                    *)
(***************************************************************************)
\* The number of records in flight to each socket
Lens(n) == [s \in Sock |-> Len(n.socks[s].flight)]
Clocked(n) ==
    /\ n.inFlight = Total(Lens(n))
    /\ \A s \in Sock : n.socks[s].flight # <<>> => n.nextDue # NoTime /\ n.nextDue <= n.socks[s].flight[1].left
Carries(sk, kind) == \E i \in 1..Len(sk.flight) : sk.flight[i].pay.kind = kind
Blameless(sk) ==
    /\ sk.flStream = StreamLen(sk.flight)
    /\ RxLen(sk) + sk.flStream <= Ring
    /\ FlLen(sk) <= Ring
    /\ sk.state \notin {"new", "bound"} => sk.kind = "stream"
    /\ sk.kind = "stream" /\ sk.state \in {"new", "bound", "listening"} =>
          sk.rx = <<>> /\ sk.flight = <<>> /\ ~sk.fin /\ ~sk.shutWr /\ ~sk.shutRd
    /\ IsGone(sk) => sk.rx = <<>> /\ ~sk.fin
    /\ sk.state = "connected" => ~Carries(sk, "dgram")
    /\ sk.kind = "dgram" => sk.flStream = 0 /\ ~Carries(sk, "bytes") /\ ~Carries(sk, "fin")
\* An end that may still send has said no FIN, and there is room for one.
Speaks(sk) == sk.state = "connected" /\ ~sk.shutWr
Owed(n, s) ==
    Linked(n.socks[s]) /\ Speaks(n.socks[n.socks[s].far]) =>
        /\ n.socks[s].flight # <<>> => FlLen(n.socks[s]) + FlightHeader <= Ring
        /\ ~n.socks[s].fin /\ ~Carries(n.socks[s], "fin")
Traffic(n) ==
    /\ Clocked(n)
    /\ \A s \in Sock : Blameless(n.socks[s])
    /\ \A s \in Sock : Owed(n, s)

----------------------------------------------------------------------------
(***************************************************************************)
(* Traffic stays in order when no record is sent or lands.                 *)
(***************************************************************************)
\* r carries what sk does
Laden(r, sk) == r \in SockRec /\ r.flight = sk.flight /\ r.flStream = sk.flStream
\* What a record may become without blame: it may be named, listen, lose
\* what it received or be shut down once it is connected.
Mild(r, sk) ==
    /\ Laden(r, sk) /\ r.kind = sk.kind /\ Len(r.rx) <= Len(sk.rx)
    /\ r.fin => sk.fin
    /\ \/ r.state = sk.state
       \/ sk.state \in {"new", "bound"} /\ r.state \in {"bound", "listening"} /\ (r.state = "listening" => r.kind = "stream")
    /\ r.state = "connected" \/ (r.shutWr = sk.shutWr /\ r.shutRd = sk.shutRd)
Ends(n) == \A t \in Sock : Linked(n.socks[t]) => n.socks[t].far \in Sock
\* What a delivery does to its receiver
Delivered(n, m, d, pay) ==
    /\ Quiet(n, m) /\ m.port = n.port /\ Clocked(m) /\ Blameless(m.socks[d])
    /\ \A t \in Sock : t # d => m.socks[t] = n.socks[t]
    /\ pay.kind # "fin" /\ n.socks[d].state = "connected" /\ Owed(n, d) => Owed(m, d)

----------------------------------------------------------------------------
(***************************************************************************)
(* Traffic through the calls.                                              *)
(***************************************************************************)
\* m is n with record r for socket s, nothing sent and nothing landed.
Changes(n, m, s, r) ==
    /\ m \in NetRec /\ m.socks[s] = r /\ \A t \in Sock : t # s => m.socks[t] = n.socks[t]
    /\ m.inFlight = n.inFlight /\ m.nextDue = n.nextDue
Soft(r, sk) == Mild(r, sk) /\ r.far = sk.far /\ (sk.shutWr => r.shutWr)
\* Nothing received, nothing in flight
Idles(r) ==
    /\ r \in SockRec /\ r.rx = <<>> /\ r.flight = <<>> /\ r.flStream = 0 /\ ~r.fin
    /\ ~r.shutWr /\ ~r.shutRd
Flows == Traffic(net')

----------------------------------------------------------------------------
(***************************************************************************)
(* Traffic through the clock.                                              *)
(***************************************************************************)
\* x is sk after stream bytes of the given sum, among other records, landed.
Landing(sk, x, sum) ==
    /\ Lively(x, sk) /\ x.flight = sk.flight /\ x.flStream = sk.flStream /\ x.wrNew = sk.wrNew
    /\ sk.rdNew => x.rdNew
    /\ IsGone(sk) => x = sk
    /\ sk.fin => x.fin
    /\ x.fin => sk.fin \/ Carries(sk, "fin")
    /\ ~IsGone(sk) /\ sk.kind = "stream" => RxLen(x) = RxLen(sk) + sum
    /\ ~IsGone(sk) /\ sk.kind = "dgram" => RxLen(x) <= Ring
\* All that is due
LandsAll(sk, x) ==
    /\ Landing(sk, x, StreamLen(Due(sk)))
    /\ DueLen(sk) > 0 /\ ~IsGone(sk) => x.rdNew
    /\ DueLen(sk) = 0 => x = sk
\* What is due has landed, the rest is still in flight.
LandsDue(sk, r) ==
    /\ Lively(r, sk) /\ Blameless(r)
    /\ sk.wrNew => r.wrNew
    /\ sk.rdNew => r.rdNew
    /\ sk.fin => r.fin
    /\ r.fin => sk.fin \/ Carries(sk, "fin")
    /\ DueLen(sk) > 0 /\ ~IsGone(sk) => r.rdNew
    /\ DueLen(sk) = 0 => r.rx = sk.rx /\ r.fin = sk.fin
    /\ IsGone(sk) => r.rx = sk.rx
    /\ Len(sk.flight) = DueLen(sk) + Len(r.flight) /\ DueLen(sk) \in Nat /\ Len(r.flight) \in Nat
    /\ \A i \in 1..Len(r.flight) : r.flight[i] = sk.flight[DueLen(sk) + i]
    /\ FlLen(r) <= FlLen(sk)
\* What advance does when anything is due
Heads(n) == {n.socks[s].flight[DueLen(n.socks[s]) + 1].left :
                s \in {t \in Sock : DueLen(n.socks[t]) < Len(n.socks[t].flight)}}
DueLens(n) == [s \in Sock |-> DueLen(n.socks[s])]
Opens(n, s) == \E d \in Sock : n.socks[d].state = "connected" /\ LandsBytes(n.socks[d]) /\ s = n.socks[d].far
Advances(n, m) ==
    /\ m.socks \in [Sock -> SockRec] /\ \A s \in Sock : LandsDue(n.socks[s], m.socks[s])
    /\ \A s \in Sock : Opens(n, s) /\ ~IsGone(n.socks[s]) => m.socks[s].wrNew
    /\ m = [n EXCEPT !.socks = m.socks, !.inFlight = n.inFlight - Total(DueLens(n)),
                     !.nextDue = IF Heads(n) = {} THEN NoTime ELSE Min(Heads(n))]

----------------------------------------------------------------------------
(***************************************************************************)
(* The invariant.                                                          *)
(***************************************************************************)
\* Time passes; what became due lands.
Passes(a, d) ==
    /\ AgesAll(net, a, d)
    /\ \/ ~AnythingDue(a) /\ net' = a /\ wait' = wait /\ hist' = hist
       \/ AnythingDue(a) /\ Advances(a, net') /\ wait' = WakeIo(wait) /\ hist' = [hist EXCEPT !.silent = FALSE]
\* History stays in its bounds.
Recorded == hist' \in HistRec
\* Nothing is open and nothing in flight.
Starting(n) ==
    /\ n.socks = [s \in Sock |-> Blank(AnyHost)]
    /\ n.refs = [p \in Proc |-> Nothing]
    /\ n.inFlight = 0 /\ n.nextDue = 0 /\ n.port = [h \in Host |-> 1]
    /\ n \in NetRec
Inv == Stands(net) /\ Traffic(net) /\ hist \in HistRec

----------------------------------------------------------------------------
(***************************************************************************)
(* Who waits.  A step either wakes everybody parked for I/O, or leaves     *)
(* what a waiter looks at as it is.                                        *)
(***************************************************************************)
WaitRec == [op: Ops \cup {"none"}, sock: Sock \cup {NoSock}, asleep: BOOLEAN]
\* Who is not forked yet holds nothing, and who sleeps in a call holds the
\* socket it waits for.
Unborn   == \A q \in Proc : proc[q] = "unborn" => net.refs[q] = Nothing
Sleeping == \A q \in Proc : wait[q].asleep => wait[q].sock \in Sock /\ net.refs[q][wait[q].sock] > 0
Places == proc \in [Proc -> {"unborn", "up", "dead"}] /\ wait \in [Proc -> WaitRec]
Minds  == Places /\ Unborn /\ Sleeping /\ WaitersLookAgain
\* r shows a waiter no more than sk did.
Seen(r, sk) ==
    /\ r.state = sk.state /\ r.far = sk.far /\ r.kind = sk.kind /\ r.backlog = sk.backlog
    /\ r.shutWr = sk.shutWr /\ r.shutRd = sk.shutRd /\ r.rx = sk.rx /\ r.fin = sk.fin
    /\ r.host = sk.host /\ Window(r) = Window(sk) /\ \A h : TakesDgram(h, r) <=> TakesDgram(h, sk)
    /\ r.rdNew => sk.rdNew
    /\ r.wrNew => sk.wrNew
Frozen(n, m) == \A t \in Sock : n.socks[t].state # "free" => Seen(m.socks[t], n.socks[t])
Woken == \A q \in Proc : ~wait'[q].asleep
\* Everybody but p sleeps on with the same in sight; p may begin to.
Dozes(p) ==
    /\ \A q \in Proc : q # p /\ wait'[q].asleep => wait'[q] = wait[q] /\ net'.refs[q] = net.refs[q]
    /\ ~hist'.silent => ~hist.silent /\ Frozen(net, net')
    /\ wait'[p].asleep => wait'[p].sock \in Sock /\ net'.refs[p][wait'[p].sock] > 0
    /\ wait'[p].asleep /\ ~hist'.silent => ~Ready(p)'
\* Only p takes or drops references, and p is not one that is yet to come.
Owns(p) ==
    /\ \A q \in Proc : q # p => net'.refs[q] = net.refs[q] /\ proc'[q] = proc[q]
    /\ proc'[p] # "unborn"
Minded == (\E p \in Proc : Owns(p) /\ (Woken \/ Dozes(p))) /\ Places'
\* A call of p, which leaves the references of the others alone
Calls(p) == proc' = proc /\ proc[p] = "up" /\ \A q \in Proc : q # p => net'.refs[q] = net.refs[q]

=============================================================================
