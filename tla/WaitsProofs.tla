----------------------------- MODULE WaitsProofs -----------------------------
(***************************************************************************)
(* Signals of condition variables end one wait each, and signals of        *)
(* processes run one handler each, for any programs of any threads.        *)
(***************************************************************************)
EXTENDS Waits, FiniteSetTheorems, SequenceTheorems, TLAPS

\* fire_alarms wakes one blocked thread, whether or not it blocks SIGALRM, so
\* what is shown of signals of processes is shown for programs without threads
\* that do.
TimersAreHeard == \A s \in Scenarios, t \in Thread : <<t, "alrm">> \notin s.deaf

----------------------------------------------------------------------------
(***************************************************************************)
(* The invariant.                                                          *)
(***************************************************************************)
States   == {"runnable", "running", "blocked", "exited"}
ThFields == {"state", "key", "timed", "timedOut", "stale", "signaled", "due", "handled", "parked"}
AtFields == {"pc", "stage", "about", "timed", "then"}
SigFields == {"pend", "mine", "deaths", "alarms", "posted", "taken", "counts", "watch"}

ThreadsTyped(b) ==
    /\ DOMAIN b = Thread
    /\ \A t \in Thread : /\ DOMAIN b[t] = ThFields /\ b[t].state \in States
                         /\ b[t].due \in BOOLEAN /\ b[t].signaled \in BOOLEAN

\* Signals of processes and of threads are of different kinds, and every one
\* posted has been taken or is pending
SignalsTyped(g) ==
    /\ DOMAIN g = SigFields
    /\ IsFiniteSet(g.pend) /\ IsFiniteSet(g.mine) /\ IsFiniteSet(g.alarms)
    /\ g.alarms \subseteq Process
    /\ \A x \in g.pend : x = <<x[1], x[2]>> /\ x[2] \in {"usr", "alrm"}
    /\ \A x \in g.mine : x = <<x[1], x[2]>> /\ x[2] = "urg"
    /\ g.posted \in Nat /\ g.taken \in Nat
    /\ g.posted = g.taken + Cardinality(g.pend) + Cardinality(g.mine)

\* Where an actor is
Place(r) == DOMAIN r = AtFields /\ r.pc \in Nat \ {0}

TypeInv ==
    /\ sc \in Scenarios /\ current \in Thread \cup {Nobody}
    /\ ThreadsTyped(th) /\ SignalsTyped(sig)
    /\ DOMAIN at = Actor /\ \A a \in Actor : Place(at[a])

\* Whoever has the baton runs, and he alone has signals to take first
BatonInv ==
    \A t \in Thread : (th[t].state = "running" <=> current = t) /\ (th[t].due => current = t)

Able(t, x) == Home(t) = x[1] /\ <<t, x[2]>> \notin sc.deaf

\* Past taking up the baton a thread has left nothing pending that it takes
Cleared ==
    \A t \in Thread : current = t /\ ~th[t].due => \A x \in sig.pend : ~Able(t, x)

\* A thread that could take a signal means one that will
OnTheWay(b, u) == b[u].state = "runnable" \/ b[u].due
Served(b, g) ==
    \A x \in g.pend, t \in Thread :
       Able(t, x) /\ b[t].state # "exited" => \E u \in Thread : Able(u, x) /\ OnTheWay(b, u)

\* From when it is queued to when its wait has ended
Waiting(t) ==
    /\ ~Done(t) /\ Call(t).do = "wait"
    /\ \/ at[t].stage \in {"unlock", "wake", "look", "woke"}
       \/ at[t].stage = "block" /\ at[t].then = "woke"

\* Who is queued waits for what he is queued on, once, and has no signal yet
Distinct(s) == \A i, j \in DOMAIN s : s[i] = s[j] => i = j
QueuesInv ==
    /\ DOMAIN queue = Object
    /\ \A o \in Object :
         /\ queue[o] \in Seq(Thread) /\ Distinct(queue[o])
         /\ \A i \in DOMAIN queue[o] : /\ Waiting(queue[o][i]) /\ Call(queue[o][i]).on = o
                                       /\ ~th[queue[o][i]].signaled

Signaled == {t \in Thread : th[t].signaled}
AccountInv ==
    /\ \A t \in Signaled : Waiting(t)
    /\ IsFiniteSet(Signaled)
    /\ DOMAIN hist = {"sent", "got"} /\ hist.sent \in Nat /\ hist.got \in Nat
    /\ hist.sent = hist.got + Cardinality(Signaled)

Inv == TypeInv /\ BatonInv /\ QueuesInv /\ AccountInv
\* ... and in programs whose timers are heard
TakenInv == Cleared /\ Served(th, sig)

----------------------------------------------------------------------------
(***************************************************************************)
(* Sets and queues.                                                        *)
(***************************************************************************)
\* As many pairs as there are first elements, or second ones.
LEMMA PairsCount ==
    ASSUME NEW S, IsFiniteSet(S), NEW k, NEW T,
           \/ \A y : y \in T <=> \E x \in S : y = <<x, k>>
           \/ \A y : y \in T <=> \E x \in S : y = <<k, x>>
    PROVE  IsFiniteSet(T) /\ Cardinality(T) = Cardinality(S)
<1>1. ASSUME NEW f \in [S -> T], \A x, y \in S : f[x] = f[y] => x = y, \A z \in T : \E x \in S : f[x] = z
      PROVE  IsFiniteSet(T) /\ Cardinality(T) = Cardinality(S)
  <2>1. f \in Injection(S, T)
    BY <1>1 DEF Injection, IsInjective
  <2>2. f \in Surjection(S, T)
    BY <1>1 DEF Surjection
  <2>3. ExistsBijection(S, T)
    BY <2>1, <2>2 DEF Bijection, ExistsBijection
  <2> QED BY <2>3, FS_Bijection
<1>2. CASE \A y : y \in T <=> \E x \in S : y = <<x, k>>
  <2> DEFINE f == [x \in S |-> <<x, k>>]
  <2>1. f \in [S -> T] /\ (\A x, y \in S : f[x] = f[y] => x = y) /\ \A z \in T : \E x \in S : f[x] = z
    BY <1>2
  <2> HIDE DEF f
  <2> QED BY <2>1, <1>1
<1>3. CASE \A y : y \in T <=> \E x \in S : y = <<k, x>>
  <2> DEFINE f == [x \in S |-> <<k, x>>]
  <2>1. f \in [S -> T] /\ (\A x, y \in S : f[x] = f[y] => x = y) /\ \A z \in T : \E x \in S : f[x] = z
    BY <1>3
  <2> HIDE DEF f
  <2> QED BY <2>1, <1>1
<1> QED BY <1>2, <1>3

\* Who is taken out of a queue is not in it, and nobody else comes in.
LEMMA RemoveLemma ==
    ASSUME NEW S, NEW q \in Seq(S), Distinct(q), NEW e
    PROVE  /\ RemoveFirst(q, e) \in Seq(S) /\ Distinct(RemoveFirst(q, e))
           /\ \A i \in DOMAIN RemoveFirst(q, e) :
                 RemoveFirst(q, e)[i] # e /\ \E j \in DOMAIN q : q[j] = RemoveFirst(q, e)[i]
<1>1. DOMAIN q = 1..Len(q) /\ Len(q) \in Nat
  OBVIOUS
<1>2. CASE ~\E i \in 1..Len(q) : q[i] = e
  BY <1>1, <1>2 DEF RemoveFirst
<1>3. CASE \E i \in 1..Len(q) : q[i] = e
  <2>1. PICK n \in 1..Len(q) : q[n] = e
    BY <1>3
  <2>2. {i \in 1..Len(q) : q[i] = e} = {n}
    BY <1>1, <2>1 DEF Distinct
  <2>3. SelectInSeq(q, LAMBDA v : v = e) = n
    <3>1. Min({n}) = n
      BY DEF Min
    <3> QED BY <2>2, <3>1 DEF SelectInSeq
  <2> DEFINE x == SubSeq(q, 1, n - 1)
             y == SubSeq(q, n + 1, Len(q))
             w == x \o y
  <2>4. RemoveFirst(q, e) = w
    BY <1>3, <2>3 DEF RemoveFirst, RemoveAt
  <2>5. x \in Seq(S) /\ Len(x) = n - 1 /\ \A i \in 1..n - 1 : x[i] = q[i]
    BY <1>1, <2>1
  <2>6. y \in Seq(S) /\ Len(y) = Len(q) - n /\ \A i \in 1..Len(q) - n : y[i] = q[n + i]
    BY <1>1, <2>1
  <2> HIDE DEF x, y
  <2>7. /\ w \in Seq(S) /\ Len(w) = Len(x) + Len(y)
        /\ \A i \in 1..Len(x) + Len(y) : w[i] = IF i <= Len(x) THEN x[i] ELSE y[i - Len(x)]
    BY <2>5, <2>6, ConcatProperties, Zenon
  <2>8. DOMAIN w = 1..Len(q) - 1
    <3>1. Len(w) = Len(q) - 1
      BY <1>1, <2>1, <2>5, <2>6, <2>7
    <3> QED BY <2>7, <3>1
  <2> HIDE DEF w
  <2> DEFINE at2 == [i \in 1..Len(q) - 1 |-> IF i < n THEN i ELSE i + 1]
  <2>9. ASSUME NEW i \in 1..Len(q) - 1
        PROVE  at2[i] \in 1..Len(q) /\ at2[i] # n /\ w[i] = q[at2[i]]
    <3>1. at2[i] \in 1..Len(q) /\ at2[i] # n
      BY <1>1, <2>1
    <3>2. CASE i < n
      BY <1>1, <2>1, <2>5, <2>6, <2>7, <3>2
    <3>3. CASE ~(i < n)
      <4>1. i - (n - 1) \in 1..Len(q) - n /\ w[i] = y[i - (n - 1)]
        BY <1>1, <2>1, <2>5, <2>6, <2>7, <3>3
      <4>2. y[i - (n - 1)] = q[n + (i - (n - 1))]
        BY <2>6, <4>1
      <4>3. n + (i - (n - 1)) = i + 1 /\ at2[i] = i + 1
        BY <1>1, <2>1, <3>3
      <4> QED BY <3>1, <4>1, <4>2, <4>3
    <3> QED BY <3>2, <3>3
  <2>10. \A i, j \in 1..Len(q) - 1 : at2[i] = at2[j] => i = j
    BY <1>1, <2>1
  <2> HIDE DEF at2
  <2>11. Distinct(w)
    BY <1>1, <2>8, <2>9, <2>10 DEF Distinct
  <2>12. \A i \in DOMAIN w : w[i] # e /\ \E j \in DOMAIN q : q[j] = w[i]
    BY <1>1, <2>1, <2>8, <2>9 DEF Distinct
  <2> QED BY <2>4, <2>7, <2>11, <2>12
<1> QED BY <1>2, <1>3

----------------------------------------------------------------------------
(***************************************************************************)
(* The hand-off.                                                           *)
(***************************************************************************)
\* What is pending, and what was posted, after timers rang.
LEMMA RingLemma ==
    ASSUME NEW g, SignalsTyped(g), NEW P \in SUBSET g.alarms
    PROVE  /\ SignalsTyped(Ring(g, P)) /\ Ring(g, P).pend = g.pend \cup {<<p, "alrm">> : p \in P}
           /\ Ring(g, P).deaths = g.deaths /\ Ring(g, P).mine = g.mine
<1> DEFINE N == {p \in P : <<p, "alrm">> \notin g.pend}
           new == {<<p, "alrm">> : p \in N}
           all == {<<p, "alrm">> : p \in P}
           r == Ring(g, P)
<1>1. /\ DOMAIN r = SigFields
      /\ r.alarms = g.alarms \ P /\ r.posted = g.posted + Cardinality(N) /\ r.pend = g.pend \cup all
      /\ r.mine = g.mine /\ r.taken = g.taken /\ r.deaths = g.deaths
  BY DEF SignalsTyped, SigFields, Ring
<1>2. IsFiniteSet(N) /\ IsFiniteSet(g.alarms \ P)
  <2>1. IsFiniteSet(g.alarms)
    BY DEF SignalsTyped
  <2>2. N \in SUBSET g.alarms /\ g.alarms \ P \in SUBSET g.alarms
    OBVIOUS
  <2> QED BY <2>1, <2>2, FS_Subset
<1>3. IsFiniteSet(new) /\ Cardinality(new) = Cardinality(N) /\ Cardinality(N) \in Nat
  <2>1. \A y : y \in new <=> \E p \in N : y = <<p, "alrm">>
    OBVIOUS
  <2> HIDE DEF new, N
  <2> QED BY <1>2, <2>1, PairsCount, FS_CardinalityType
<1>4. g.pend \cup all = g.pend \cup new /\ g.pend \cap new = {}
  OBVIOUS
<1> HIDE DEF r, N
<1>5. /\ IsFiniteSet(g.pend \cup new)
      /\ Cardinality(g.pend \cup new) = Cardinality(g.pend) + Cardinality(N)
  <2>1. IsFiniteSet(g.pend) /\ Cardinality(g.pend) \in Nat
    BY FS_CardinalityType DEF SignalsTyped
  <2> HIDE DEF new
  <2>2. Cardinality(g.pend \cup new) = Cardinality(g.pend) + Cardinality(new) - Cardinality(g.pend \cap new)
    BY <1>3, <2>1, FS_Union
  <2>3. IsFiniteSet(g.pend \cup new)
    BY <1>3, <2>1, FS_Union
  <2>4. Cardinality(g.pend \cap new) = 0
    BY <1>4, FS_EmptySet
  <2> QED BY <1>3, <2>1, <2>2, <2>3, <2>4
<1>6. \A x \in all : x = <<x[1], x[2]>> /\ x[2] \in {"usr", "alrm"}
  OBVIOUS
<1> HIDE DEF new, all
<1>7. SignalsTyped(r)
  <2>1. Cardinality(g.pend) \in Nat /\ Cardinality(g.mine) \in Nat
    BY FS_CardinalityType DEF SignalsTyped
  <2>2. r.posted \in Nat /\ r.posted = r.taken + Cardinality(r.pend) + Cardinality(r.mine)
    BY <1>1, <1>3, <1>4, <1>5, <2>1 DEF SignalsTyped
  <2>3. \A x \in r.pend : x = <<x[1], x[2]>> /\ x[2] \in {"usr", "alrm"}
    BY <1>1, <1>6 DEF SignalsTyped
  <2>4. IsFiniteSet(r.pend) /\ IsFiniteSet(r.mine) /\ IsFiniteSet(r.alarms) /\ r.alarms \subseteq Process
    BY <1>1, <1>2, <1>4, <1>5 DEF SignalsTyped
  <2>5. (\A x \in r.mine : x = <<x[1], x[2]>> /\ x[2] = "urg") /\ r.taken \in Nat
    BY <1>1 DEF SignalsTyped
  <2> QED BY <1>1, <2>2, <2>3, <2>4, <2>5 DEF SignalsTyped
<1> QED BY <1>1, <1>7 DEF r, all

\* What a hand-off does to every thread.
Handed(b, E, W, n) ==
    /\ current' = n /\ ThreadsTyped(th')
    /\ \A t \in Thread :
         /\ th'[t].state = IF t = n THEN "running" ELSE IF t \in E \cup W THEN "runnable" ELSE b[t].state
         /\ th'[t].due = (t = n /\ (Takes(t, sig') # {} \/ TakesChild(t, sig')))
         /\ th'[t].signaled = b[t].signaled

\* Either nobody can run, or somebody gets the baton.
LEMMA ChooseCases ==
    ASSUME NEW b, ThreadsTyped(b), NEW g, Choose(b, g)
    PROVE  \E E \in SUBSET {t \in Thread : b[t].state = "blocked"}, P \in SUBSET g.alarms :
           \E W \in SUBSET {t \in Thread : b[t].state = "blocked" /\ t \notin E} :
              /\ WokenByAlarm(Expire(b, E), P, W) /\ sig' = Ring(g, P)
              /\ \/ /\ E = {} /\ W = {} /\ \A t \in Thread : b[t].state # "runnable"
                    /\ current' = Nobody /\ th' = b
                 \/ \E n \in E \cup W \cup {t \in Thread : b[t].state = "runnable"} : Handed(b, E, W, n)
<1> DEFINE Ready(E, W) == E \cup W \cup {t \in Thread : b[t].state = "runnable"}
           After(E, W, n) == [t \in Thread |->
                               [Expire(b, E)[t] EXCEPT
                                  !.state = IF t = n THEN "running" ELSE IF t \in W THEN "runnable" ELSE @,
                                  !.parked = @ /\ t # n,
                                  !.due = t = n /\ (Takes(t, sig') # {} \/ TakesChild(t, sig'))]]
<1>1. \E E \in SUBSET Due(b), P \in SUBSET g.alarms :
        \E W \in SUBSET {t \in Thread : b[t].state = "blocked" /\ t \notin E} :
           /\ WokenByAlarm(Expire(b, E), P, W)
           /\ Ready(E, W) = {} => Due(b) = {} /\ P = g.alarms
           /\ sig' = Ring(g, P)
           /\ \/ Ready(E, W) = {} /\ current' = Nobody /\ th' = b
              \/ \E n \in Ready(E, W) : current' = n /\ th' = After(E, W, n)
  BY Zenon DEF Choose
<1> HIDE DEF Ready, After
<1>2. PICK E \in SUBSET Due(b), P \in SUBSET g.alarms :
           \E W \in SUBSET {t \in Thread : b[t].state = "blocked" /\ t \notin E} :
              /\ WokenByAlarm(Expire(b, E), P, W)
              /\ sig' = Ring(g, P)
              /\ \/ Ready(E, W) = {} /\ current' = Nobody /\ th' = b
                 \/ \E n \in Ready(E, W) : current' = n /\ th' = After(E, W, n)
  BY <1>1
<1>3. PICK W \in SUBSET {t \in Thread : b[t].state = "blocked" /\ t \notin E} :
              /\ WokenByAlarm(Expire(b, E), P, W)
              /\ sig' = Ring(g, P)
              /\ \/ Ready(E, W) = {} /\ current' = Nobody /\ th' = b
                 \/ \E n \in Ready(E, W) : current' = n /\ th' = After(E, W, n)
  BY <1>2
<1>4. E \in SUBSET {t \in Thread : b[t].state = "blocked"}
  BY DEF Due
<1> USE DEF Ready
<1>5. CASE Ready(E, W) = {} /\ current' = Nobody /\ th' = b
  BY <1>3, <1>4, <1>5
<1>6. CASE \E n \in Ready(E, W) : current' = n /\ th' = After(E, W, n)
  <2>1. PICK n \in Ready(E, W) : current' = n /\ th' = After(E, W, n)
    BY <1>6
  <2> DEFINE e == Expire(b, E)
  <2>2. /\ DOMAIN e = Thread
        /\ \A t \in Thread : /\ DOMAIN e[t] = ThFields /\ e[t].signaled = b[t].signaled
                             /\ e[t].state = IF t \in E THEN "runnable" ELSE b[t].state
    BY DEF Expire, ThreadsTyped, ThFields
  <2>3. \A t \in Thread :
           th'[t] = [e[t] EXCEPT
                       !.state = IF t = n THEN "running" ELSE IF t \in W THEN "runnable" ELSE @,
                       !.parked = @ /\ t # n,
                       !.due = t = n /\ (Takes(t, sig') # {} \/ TakesChild(t, sig'))]
    BY <2>1 DEF After
  <2>4. DOMAIN th' = Thread
    BY <2>1 DEF After
  <2> HIDE DEF e
  <2>5. ASSUME NEW t \in Thread
        PROVE  /\ DOMAIN th'[t] = ThFields /\ th'[t].signaled = b[t].signaled
               /\ th'[t].state = IF t = n THEN "running" ELSE IF t \in E \cup W THEN "runnable" ELSE b[t].state
               /\ th'[t].due = (t = n /\ (Takes(t, sig') # {} \/ TakesChild(t, sig')))
    <3> DEFINE state == IF t = n THEN "running" ELSE IF t \in W THEN "runnable" ELSE e[t].state
               parked == e[t].parked /\ t # n
               due == t = n /\ (Takes(t, sig') # {} \/ TakesChild(t, sig'))
    <3>1. th'[t] = [e[t] EXCEPT !.state = state, !.parked = parked, !.due = due]
      BY <2>3, Zenon
    <3> HIDE DEF state, parked, due
    <3>2. /\ DOMAIN th'[t] = ThFields /\ th'[t].signaled = e[t].signaled
          /\ th'[t].state = state /\ th'[t].due = due
      BY <2>2, <3>1 DEF ThFields
    <3>3. state = IF t = n THEN "running" ELSE IF t \in E \cup W THEN "runnable" ELSE b[t].state
      BY <2>2 DEF state
    <3> QED BY <2>2, <3>2, <3>3 DEF due
  <2>6. ThreadsTyped(th')
    <3>1. ASSUME NEW t \in Thread
          PROVE  th'[t].state \in States /\ th'[t].due \in BOOLEAN /\ th'[t].signaled \in BOOLEAN
      <4>1. b[t].state \in States /\ b[t].signaled \in BOOLEAN
        BY DEF ThreadsTyped
      <4>2. (t = n /\ (Takes(t, sig') # {} \/ TakesChild(t, sig'))) \in BOOLEAN
        BY DEF TakesChild
      <4> QED BY <2>5, <4>1, <4>2 DEF States
    <3> QED BY <2>4, <2>5, <3>1 DEF ThreadsTyped
  <2>7. Handed(b, E, W, n)
    BY <2>1, <2>5, <2>6 DEF Handed
  <2> QED BY <1>3, <1>4, <2>7
<1> QED BY <1>3, <1>5, <1>6

\* A hand-off leaves one thread running, or nobody.
LEMMA ChooseLemma ==
    ASSUME NEW b, ThreadsTyped(b), NEW g, SignalsTyped(g), Choose(b, g),
           \A t \in Thread : b[t].state # "running" /\ ~b[t].due
    PROVE  /\ ThreadsTyped(th') /\ SignalsTyped(sig') /\ current' \in Thread \cup {Nobody}
           /\ \A t \in Thread : /\ th'[t].state = "running" <=> current' = t
                                /\ th'[t].due => current' = t
                                /\ th'[t].signaled = b[t].signaled
<1>1. PICK E \in SUBSET {t \in Thread : b[t].state = "blocked"}, P \in SUBSET g.alarms :
           \E W \in SUBSET {t \in Thread : b[t].state = "blocked" /\ t \notin E} :
              /\ WokenByAlarm(Expire(b, E), P, W) /\ sig' = Ring(g, P)
              /\ \/ /\ E = {} /\ W = {} /\ \A t \in Thread : b[t].state # "runnable"
                    /\ current' = Nobody /\ th' = b
                 \/ \E n \in E \cup W \cup {t \in Thread : b[t].state = "runnable"} : Handed(b, E, W, n)
  BY ChooseCases
<1>2. SignalsTyped(sig')
  BY <1>1, RingLemma
<1>3. PICK W \in SUBSET {t \in Thread : b[t].state = "blocked" /\ t \notin E} :
              \/ current' = Nobody /\ th' = b
              \/ \E n \in E \cup W \cup {t \in Thread : b[t].state = "runnable"} : Handed(b, E, W, n)
  BY <1>1
<1>4. CASE current' = Nobody /\ th' = b
  BY <1>2, <1>4, ActorsAssumption DEF Actor
<1>5. CASE \E n \in E \cup W \cup {t \in Thread : b[t].state = "runnable"} : Handed(b, E, W, n)
  <2>1. PICK n \in Thread : Handed(b, E, W, n)
    BY <1>5
  <2> QED BY <1>2, <2>1 DEF Handed
<1> QED BY <1>3, <1>4, <1>5

\* After a hand-off a signal that a thread could take is on its way to one:
\* before it such a thread was runnable; a timer wakes a thread that hears it,
\* if none of its process was awake.
LEMMA ChooseServes ==
    ASSUME NEW b, ThreadsTyped(b), NEW g, SignalsTyped(g), Choose(b, g),
           \A t \in Thread : b[t].state # "running" /\ ~b[t].due,
           Served(b, g), sc \in Scenarios, TimersAreHeard
    PROVE  /\ \A x \in sig'.pend, t \in Thread :
                 Able(t, x) /\ th'[t].state # "exited" => \E u \in Thread : Able(u, x) /\ OnTheWay(th', u)
           /\ \A t \in Thread : current' = t /\ ~th'[t].due => \A x \in sig'.pend : ~Able(t, x)
<1>1. PICK E \in SUBSET {t \in Thread : b[t].state = "blocked"}, P \in SUBSET g.alarms :
           \E W \in SUBSET {t \in Thread : b[t].state = "blocked" /\ t \notin E} :
              /\ WokenByAlarm(Expire(b, E), P, W) /\ sig' = Ring(g, P)
              /\ \/ /\ E = {} /\ W = {} /\ \A t \in Thread : b[t].state # "runnable"
                    /\ current' = Nobody /\ th' = b
                 \/ \E n \in E \cup W \cup {t \in Thread : b[t].state = "runnable"} : Handed(b, E, W, n)
  BY ChooseCases
<1>2. PICK W \in SUBSET {t \in Thread : b[t].state = "blocked" /\ t \notin E} :
              /\ WokenByAlarm(Expire(b, E), P, W) /\ sig' = Ring(g, P)
              /\ \/ /\ E = {} /\ W = {} /\ \A t \in Thread : b[t].state # "runnable"
                    /\ current' = Nobody /\ th' = b
                 \/ \E n \in E \cup W \cup {t \in Thread : b[t].state = "runnable"} : Handed(b, E, W, n)
  BY <1>1
<1>3. sig'.pend = g.pend \cup {<<p, "alrm">> : p \in P} /\ SignalsTyped(sig')
  BY <1>2, RingLemma
\* Among the threads ready is one that could take x
<1>4. ASSUME NEW x \in sig'.pend, NEW t \in Thread, Able(t, x), b[t].state # "exited"
      PROVE  \E u \in E \cup W \cup {v \in Thread : b[v].state = "runnable"} : Able(u, x)
  <2>1. CASE x \in g.pend
    BY <1>4, <2>1 DEF Served, OnTheWay
  <2>2. CASE x \notin g.pend
    <3>1. PICK p \in P : x = <<p, "alrm">>
      BY <1>3, <2>2
    <3>2. p \in Process
      BY DEF SignalsTyped
    <3>3. \A u \in Thread : Home(u) = p => Able(u, x)
      BY <3>1 DEF Able, TimersAreHeard
    <3>4. Home(t) = p
      BY <1>4, <3>1 DEF Able
    <3> DEFINE B == {u \in Thread : Expire(b, E)[u].state = "blocked" /\ Home(u) = p}
    <3>5. Cardinality(W \cap B) = IF B # {} THEN 1 ELSE 0
      BY <1>2, <3>2 DEF WokenByAlarm
    <3>6. \A u \in Thread : Expire(b, E)[u].state = IF u \in E THEN "runnable" ELSE b[u].state
      BY DEF Expire, ThreadsTyped, ThFields
    <3>7. CASE B # {}
      <4>1. W \cap B # {}
        <5> HIDE DEF B
        <5>1. Cardinality({}) = 0
          BY FS_EmptySet
        <5>2. Cardinality(W \cap B) = 1
          BY <3>5, <3>7
        <5>3. ASSUME W \cap B = {} PROVE FALSE
          <6>1. Cardinality(W \cap B) = 0
            BY <5>1, <5>3, Zenon
          <6> QED BY <5>2, <6>1
        <5> QED BY <5>3
      <4>2. PICK u \in W : Home(u) = p
        BY <4>1
      <4> QED BY <3>3, <4>2
    <3>8. CASE B = {}
      <4>1. t \in E \/ b[t].state # "blocked"
        BY <3>4, <3>6, <3>8
      <4>2. b[t].state \in {"runnable", "blocked"}
        BY <1>4 DEF ThreadsTyped, States
      <4> QED BY <1>4, <4>1, <4>2
    <3> QED BY <3>7, <3>8
  <2> QED BY <2>1, <2>2
<1>5. CASE /\ E = {} /\ W = {} /\ \A t \in Thread : b[t].state # "runnable"
           /\ current' = Nobody /\ th' = b
  <2>1. Nobody \notin Thread
    BY ActorsAssumption DEF Actor
  <2> QED BY <1>4, <1>5, <2>1
<1>6. CASE \E n \in E \cup W \cup {t \in Thread : b[t].state = "runnable"} : Handed(b, E, W, n)
  <2>1. PICK n \in E \cup W \cup {t \in Thread : b[t].state = "runnable"} : Handed(b, E, W, n)
    BY <1>6
  \* Whoever got the baton and could take x is to take it
  <2>2. ASSUME NEW x \in sig'.pend, Able(n, x) PROVE th'[n].due
    <3>1. x = <<Home(n), x[2]>> /\ x[2] \in Posted /\ <<n, x[2]>> \notin sc.deaf
      BY <1>3, <2>2 DEF SignalsTyped, Able, Posted
    <3>2. Takes(n, sig') # {}
      BY <3>1 DEF Takes
    <3> QED BY <2>1, <3>2 DEF Handed
  <2>3. ASSUME NEW x \in sig'.pend, NEW t \in Thread, Able(t, x), th'[t].state # "exited"
        PROVE  \E u \in Thread : Able(u, x) /\ OnTheWay(th', u)
    <3>1. b[t].state # "exited"
      BY <2>1, <2>3 DEF Handed
    <3>2. PICK u \in E \cup W \cup {v \in Thread : b[v].state = "runnable"} : Able(u, x)
      BY <1>4, <2>3, <3>1
    <3>3. CASE u = n
      BY <2>2, <3>2, <3>3 DEF OnTheWay
    <3>4. CASE u # n
      BY <2>1, <3>2, <3>4 DEF OnTheWay, Handed
    <3> QED BY <3>3, <3>4
  <2>4. ASSUME NEW t \in Thread, current' = t, ~th'[t].due, NEW x \in sig'.pend
        PROVE  ~Able(t, x)
    <3>1. t = n
      BY <2>1, <2>4 DEF Handed
    <3> QED BY <2>2, <2>4, <3>1
  <2> QED BY <2>3, <2>4
<1> QED BY <1>2, <1>5, <1>6

----------------------------------------------------------------------------
(***************************************************************************)
(* What most steps have in common.                                         *)
(***************************************************************************)
Keeps == Inv' /\ (TimersAreHeard /\ TakenInv => TakenInv')

\* One actor goes on, and if it was in a wait it still is in the same one.
Moved(a) == \E r : at' = [at EXCEPT ![a] = r] /\ Place(r)
Moves(a) ==
    /\ DOMAIN at' = Actor /\ \A c \in Actor : Place(at'[c])
    /\ \A c \in Actor \ {a} : at'[c] = at[c]
    /\ Waiting(a) => Waiting(a)' /\ at'[a].pc = at[a].pc

\* From b to c nobody is signaled, and nobody's state changes but by being
\* woken.
Mild(b, c) ==
    /\ ThreadsTyped(c)
    /\ \A t \in Thread : /\ c[t].due = b[t].due /\ c[t].signaled = b[t].signaled
                         /\ c[t].state = b[t].state \/ (b[t].state = "blocked" /\ c[t].state = "runnable")

\* Whoever goes on with his program moves.
LEMMA MovedLemma ==
    ASSUME TypeInv, NEW a \in Actor, NEW s, NEW x, NEW k, NEW timed,
           Goes(a) \/ To(a, s) \/ ToAbout(a, s, x) \/ Blocks(a, k, timed, s)
    PROVE  Moved(a)
<1>1. at[a].pc \in Nat \ {0} /\ at[a].pc + 1 \in Nat \ {0}
  BY DEF TypeInv, Place
<1>2. \A i : DOMAIN AtCall(i) = AtFields /\ AtCall(i).pc = i
  BY DEF AtCall, AtFields
<1>3. CASE Goes(a)
  <2>1. Place(AtCall(at[a].pc + 1))
    BY <1>1, <1>2 DEF Place
  <2> QED BY <1>3, <2>1 DEF Goes, Moved
<1>4. CASE To(a, s)
  <2> DEFINE r == [AtCall(at[a].pc) EXCEPT !.stage = s]
  <2>1. Place(r)
    BY <1>1, <1>2 DEF Place
  <2> QED BY <1>4, <2>1 DEF To, Moved
<1>5. CASE ToAbout(a, s, x)
  <2> DEFINE r == [AtCall(at[a].pc) EXCEPT !.stage = s, !.about = x]
  <2>1. Place(r)
    BY <1>1, <1>2 DEF Place
  <2> QED BY <1>5, <2>1 DEF ToAbout, Moved
<1>6. CASE Blocks(a, k, timed, s)
  <2> DEFINE r == [pc |-> at[a].pc, stage |-> "block", about |-> k, timed |-> timed, then |-> s]
  <2>1. Place(r)
    BY <1>1 DEF AtFields, Place
  <2> QED BY <1>6, <2>1 DEF Blocks, Moved
<1> QED BY <1>3, <1>4, <1>5, <1>6

LEMMA MovesLemma ==
    ASSUME TypeInv, NEW a \in Actor, Moved(a), ~Waiting(a)
    PROVE  Moves(a)
BY DEF TypeInv, Moved, Moves

\* Who is in a wait stays in it, at the stage s or while it blocks to go on
\* with the wait.
LEMMA WaitMovesLemma ==
    ASSUME TypeInv, NEW a \in Actor, Waiting(a), sc' = sc, NEW s, NEW x, NEW k, NEW timed,
           \/ s \in {"unlock", "wake", "look", "woke"} /\ (To(a, s) \/ ToAbout(a, s, x))
           \/ Blocks(a, k, timed, "woke")
    PROVE  Moves(a)
<1>1. Moved(a)
  BY MovedLemma
<1> DEFINE r == at'[a]
           InWait == /\ r.pc = at[a].pc
                     /\ \/ r.stage \in {"unlock", "wake", "look", "woke"}
                        \/ r.stage = "block" /\ r.then = "woke"
<1>2. ASSUME s \in {"unlock", "wake", "look", "woke"} /\ To(a, s) PROVE InWait
  <2>1. r = [AtCall(at[a].pc) EXCEPT !.stage = s]
    BY <1>2 DEF TypeInv, To
  <2>2. r.pc = at[a].pc /\ r.stage = s
    <3> HIDE DEF r
    <3> QED BY <2>1 DEF AtCall
  <2> QED BY <1>2, <2>2
<1>3. ASSUME s \in {"unlock", "wake", "look", "woke"} /\ ToAbout(a, s, x) PROVE InWait
  <2>1. r = [AtCall(at[a].pc) EXCEPT !.stage = s, !.about = x]
    BY <1>3 DEF TypeInv, ToAbout
  <2>2. r.pc = at[a].pc /\ r.stage = s
    <3> HIDE DEF r
    <3> QED BY <2>1 DEF AtCall
  <2> QED BY <1>3, <2>2
<1>4. ASSUME Blocks(a, k, timed, "woke") PROVE InWait
  <2>1. r = [pc |-> at[a].pc, stage |-> "block", about |-> k, timed |-> timed, then |-> "woke"]
    BY <1>4 DEF TypeInv, Blocks
  <2>2. r.pc = at[a].pc /\ r.stage = "block" /\ r.then = "woke"
    <3> HIDE DEF r
    <3> QED BY <2>1
  <2> QED BY <2>2
<1>5. InWait
  BY <1>2, <1>3, <1>4
<1>6. Waiting(a)'
  BY <1>5 DEF Waiting, Done, Call, Prog
<1> QED BY <1>1, <1>5, <1>6 DEF TypeInv, Moved, Moves

LEMMA StaysLemma ==
    ASSUME TypeInv, NEW a \in Actor, at' = at, sc' = sc
    PROVE  Moves(a)
BY DEF TypeInv, Moves, Waiting, Done, Call, Prog

\* Whoever was in a wait is in the same one.
LEMMA StillWaiting ==
    ASSUME TypeInv, NEW a \in Actor, Moves(a), sc' = sc, NEW u \in Actor, Waiting(u)
    PROVE  Waiting(u)' /\ Call(u)' = Call(u)
BY DEF TypeInv, Moves, Waiting, Done, Call, Prog

\* Queues and accounts are untouched by a step that neither queues nor signals.
LEMMA AccountKept ==
    ASSUME Inv, NEW a \in Actor, Moves(a), UNCHANGED <<sc, queue, hist>>,
           \A t \in Thread : th'[t].signaled = th[t].signaled
    PROVE  QueuesInv' /\ AccountInv'
<1>1. \A u \in Thread : Waiting(u) => Waiting(u)' /\ Call(u)' = Call(u)
  BY StillWaiting DEF Inv, Actor
<1>2. \A o \in Object : queue[o] \in Seq(Thread)
  BY DEF Inv, QueuesInv
<1>3. \A o \in Object : \A i \in DOMAIN queue[o] : queue[o][i] \in Thread
  BY <1>2
<1>4. QueuesInv'
  BY <1>1, <1>3 DEF Inv, QueuesInv, Distinct
<1>5. Signaled' = Signaled
  BY DEF Signaled
<1>6. AccountInv'
  BY <1>1, <1>5 DEF Inv, AccountInv, Signaled
<1> QED BY <1>4, <1>6

\* The baton stays, and what is on its way to be taken is, if nobody's state
\* changes but by being woken.
LEMMA CalmLemma ==
    ASSUME Inv, UNCHANGED <<sc, current>>, sig'.pend = sig.pend,
           \A t \in Thread : /\ th'[t].due = th[t].due
                             /\ \/ th'[t].state = th[t].state
                                \/ th[t].state = "blocked" /\ th'[t].state = "runnable"
    PROVE  BatonInv' /\ (TakenInv => TakenInv')
<1>1. BatonInv'
  BY DEF Inv, BatonInv
<1>2. ASSUME TakenInv PROVE TakenInv'
  <2>1. \A t \in Thread : \A x : Able(t, x)' = Able(t, x)
    BY DEF Able, Home
  <2>2. Cleared'
    BY <1>2, <2>1 DEF TakenInv, Cleared
  <2>3. ASSUME NEW x \in sig'.pend, NEW t \in Thread, Able(t, x)', th'[t].state # "exited"
        PROVE  \E u \in Thread : Able(u, x)' /\ OnTheWay(th', u)
    <3>1. Able(t, x) /\ th[t].state # "exited"
      BY <2>1, <2>3
    <3>2. PICK u \in Thread : Able(u, x) /\ OnTheWay(th, u)
      BY <1>2, <3>1 DEF TakenInv, Served
    <3>3. OnTheWay(th', u)
      BY <3>2 DEF OnTheWay
    <3> QED BY <2>1, <3>2, <3>3
  <2>4. Served(th, sig)'
    BY <2>3 DEF Served, OnTheWay
  <2> QED BY <2>2, <2>4 DEF TakenInv
<1> QED BY <1>1, <1>2

\* A step that hands nothing over.
LEMMA MildLemma ==
    ASSUME Inv, NEW a \in Actor, Moves(a), UNCHANGED <<sc, queue, current, hist>>,
           Mild(th, th'), SignalsTyped(sig'), sig'.pend = sig.pend
    PROVE  Keeps
<1>1. QueuesInv' /\ AccountInv'
  BY AccountKept DEF Mild
<1>2. TypeInv'
  BY DEF Inv, TypeInv, Mild, Moves
<1>3. BatonInv' /\ (TakenInv => TakenInv')
  BY CalmLemma DEF Mild
<1> QED BY <1>1, <1>2, <1>3 DEF Keeps, Inv

LEMMA QuietLemma ==
    ASSUME Inv, NEW a \in Actor, Moves(a), UNCHANGED <<sc, th, queue, current, hist, sig>>
    PROVE  Keeps
<1>1. Mild(th, th')
  BY DEF Mild, Inv, TypeInv
<1> QED BY <1>1, MildLemma DEF Inv, TypeInv

\* A step that hands the baton on, after it made b of the threads and g of the
\* signals.
LEMMA HandedLemma ==
    ASSUME Inv, NEW a \in Actor, Moves(a), UNCHANGED <<sc, queue, hist>>,
           NEW b, ThreadsTyped(b), NEW g, SignalsTyped(g), Choose(b, g),
           \A t \in Thread : b[t].state # "running" /\ ~b[t].due /\ b[t].signaled = th[t].signaled,
           TakenInv => Served(b, g)
    PROVE  Keeps
<1>1. /\ ThreadsTyped(th') /\ SignalsTyped(sig') /\ current' \in Thread \cup {Nobody}
      /\ \A t \in Thread : /\ th'[t].state = "running" <=> current' = t
                           /\ th'[t].due => current' = t
                           /\ th'[t].signaled = b[t].signaled
  BY ChooseLemma
<1>2. QueuesInv' /\ AccountInv'
  BY <1>1, AccountKept
<1>3. TypeInv' /\ BatonInv'
  BY <1>1 DEF Inv, TypeInv, BatonInv, Moves
<1>4. ASSUME TimersAreHeard, TakenInv PROVE TakenInv'
  <2>1. /\ \A x \in sig'.pend, t \in Thread :
                 Able(t, x) /\ th'[t].state # "exited" => \E u \in Thread : Able(u, x) /\ OnTheWay(th', u)
        /\ \A t \in Thread : current' = t /\ ~th'[t].due => \A x \in sig'.pend : ~Able(t, x)
    BY <1>4, ChooseServes DEF Inv, TypeInv
  <2>2. \A t \in Thread : \A x : Able(t, x)' = Able(t, x)
    BY DEF Able, Home
  <2> QED BY <2>1, <2>2 DEF TakenInv, Cleared, Served, OnTheWay
<1> QED BY <1>2, <1>3, <1>4 DEF Keeps, Inv

----------------------------------------------------------------------------
(***************************************************************************)
(* Calls that touch no thread's record: locks, semaphores, words, pipes.   *)
(***************************************************************************)
\* Calls that are no wait on a condition variable
LEMMA NoWaitLemma ==
    ASSUME NEW a \in Actor, NEW what, what # "wait", NEW s, Tries(a, what) \/ In(a, what, s)
    PROVE  ~Waiting(a)
BY DEF Tries, In, Waiting

LEMMA GoesOnLemma ==
    ASSUME Inv, NEW a \in Actor
    PROVE  /\ Goes(a) => Moved(a)
           /\ \A s : To(a, s) => Moved(a)
           /\ \A s, x : ToAbout(a, s, x) => Moved(a)
           /\ \A k, timed, s : Blocks(a, k, timed, s) => Moved(a)
           /\ Moved(a) /\ ~Waiting(a) => Moves(a)
<1>1. TypeInv
  BY DEF Inv
<1>2. Goes(a) => Moved(a)
  BY <1>1, MovedLemma
<1>3. \A s : To(a, s) => Moved(a)
  BY <1>1, MovedLemma
<1>4. \A s, x : ToAbout(a, s, x) => Moved(a)
  BY <1>1, MovedLemma
<1>5. \A k, timed, s : Blocks(a, k, timed, s) => Moved(a)
  BY <1>1, MovedLemma
<1>6. Moved(a) /\ ~Waiting(a) => Moves(a)
  BY <1>1, MovesLemma
<1> QED BY <1>2, <1>3, <1>4, <1>5, <1>6

Undisturbed == UNCHANGED <<sc, th, queue, current, hist, sig>>

LEMMA CallsKeep ==
    ASSUME Inv, NEW a \in Actor,
           \/ Lock(a) \/ Unlock(a) \/ Add(a) \/ Down(a) \/ Up(a) \/ Futex(a) \/ Store(a) \/ Gate(a)
           \/ Ungate(a) \/ Read(a) \/ Write(a) \/ CloseEnd(a) \/ Flock(a) \/ Trigger(a)
    PROVE  Keeps
<1>1. Goes(a) => Moved(a)
  BY GoesOnLemma
<1>2. \A s, x : To(a, s) \/ ToAbout(a, s, x) => Moved(a)
  BY GoesOnLemma
<1>3. \A k, timed, s : Blocks(a, k, timed, s) => Moved(a)
  BY GoesOnLemma
<1>4. \A what : what # "wait" /\ Tries(a, what) => ~Waiting(a)
  BY NoWaitLemma
<1>5. ASSUME Moved(a), ~Waiting(a), Undisturbed PROVE Keeps
  BY <1>5, GoesOnLemma, QuietLemma DEF Undisturbed
<1>6. ASSUME Lock(a) PROVE Moved(a) /\ ~Waiting(a) /\ Undisturbed
  BY <1>1, <1>2, <1>3, <1>4, <1>6 DEF Lock, Undisturbed
<1>7. ASSUME Unlock(a) PROVE Moved(a) /\ ~Waiting(a) /\ Undisturbed
  BY <1>1, <1>2, <1>3, <1>4, <1>7 DEF Unlock, Undisturbed
<1>8. ASSUME Add(a) PROVE Moved(a) /\ ~Waiting(a) /\ Undisturbed
  BY <1>1, <1>2, <1>3, <1>4, <1>8 DEF Add, Undisturbed
<1>9. ASSUME Down(a) PROVE Moved(a) /\ ~Waiting(a) /\ Undisturbed
  BY <1>1, <1>2, <1>3, <1>4, <1>9 DEF Down, Undisturbed
<1>10. ASSUME Up(a) PROVE Moved(a) /\ ~Waiting(a) /\ Undisturbed
  BY <1>1, <1>2, <1>3, <1>4, <1>10 DEF Up, Undisturbed
<1>11. ASSUME Futex(a) PROVE Moved(a) /\ ~Waiting(a) /\ Undisturbed
  BY <1>1, <1>2, <1>3, <1>4, <1>11 DEF Futex, Undisturbed
<1>12. ASSUME Store(a) PROVE Moved(a) /\ ~Waiting(a) /\ Undisturbed
  BY <1>1, <1>2, <1>3, <1>4, <1>12 DEF Store, Undisturbed
<1>13. ASSUME Gate(a) PROVE Moved(a) /\ ~Waiting(a) /\ Undisturbed
  BY <1>1, <1>2, <1>3, <1>4, <1>13 DEF Gate, Undisturbed
<1>14. ASSUME Ungate(a) PROVE Moved(a) /\ ~Waiting(a) /\ Undisturbed
  BY <1>1, <1>2, <1>3, <1>4, <1>14 DEF Ungate, Undisturbed
<1>15. ASSUME Read(a) PROVE Moved(a) /\ ~Waiting(a) /\ Undisturbed
  BY <1>1, <1>2, <1>3, <1>4, <1>15 DEF Read, WhenReadable, Undisturbed
<1>16. ASSUME Write(a) PROVE Moved(a) /\ ~Waiting(a) /\ Undisturbed
  BY <1>1, <1>2, <1>3, <1>4, <1>16 DEF Write, WriteAll, Undisturbed
<1>17. ASSUME CloseEnd(a) PROVE Moved(a) /\ ~Waiting(a) /\ Undisturbed
  BY <1>1, <1>2, <1>3, <1>4, <1>17 DEF CloseEnd, Undisturbed
<1>18. ASSUME Flock(a) PROVE Moved(a) /\ ~Waiting(a) /\ Undisturbed
  BY <1>1, <1>2, <1>3, <1>4, <1>18 DEF Flock, Undisturbed
<1>19. ASSUME Trigger(a) PROVE Moved(a) /\ ~Waiting(a) /\ Undisturbed
  BY <1>1, <1>2, <1>3, <1>4, <1>19 DEF Trigger, Undisturbed
<1> QED BY <1>5, <1>6, <1>7, <1>8, <1>9, <1>10, <1>11, <1>12, <1>13, <1>14, <1>15, <1>16, <1>17, <1>18, <1>19

LEMMA ThreadCallsKeep ==
    ASSUME Inv, NEW t \in Thread,
           \/ Join(t) \/ Waitpid(t) \/ SleepOver(t) \/ DownWoke(t) \/ SystemWait(t) \/ FutexWoke(t)
           \/ FutexForReal(t) \/ UnfairForReal(t) \/ RecordLock(t) \/ Semop(t) \/ WaitWoke(t)
    PROVE  Keeps
<1>1. Goes(t) => Moved(t)
  BY GoesOnLemma DEF Actor
<1>2. \A s, x : To(t, s) \/ ToAbout(t, s, x) => Moved(t)
  BY GoesOnLemma DEF Actor
<1>3. \A k, timed, s : Blocks(t, k, timed, s) => Moved(t)
  BY GoesOnLemma DEF Actor
<1>4. \A what, s : what # "wait" /\ (Tries(t, what) \/ In(t, what, s)) => ~Waiting(t)
  BY NoWaitLemma DEF Actor
<1>5. ASSUME Moved(t), ~Waiting(t), Undisturbed PROVE Keeps
  BY <1>5, GoesOnLemma, QuietLemma DEF Undisturbed, Actor
<1>6. ASSUME Join(t) PROVE Moved(t) /\ ~Waiting(t) /\ Undisturbed
  BY <1>1, <1>2, <1>3, <1>4, <1>6 DEF Join, Undisturbed
<1>7. ASSUME Waitpid(t) PROVE Moved(t) /\ ~Waiting(t) /\ Undisturbed
  BY <1>1, <1>2, <1>3, <1>4, <1>7 DEF Waitpid, Undisturbed
<1>8. ASSUME SleepOver(t) PROVE Moved(t) /\ ~Waiting(t) /\ Undisturbed
  BY <1>1, <1>2, <1>3, <1>4, <1>8 DEF SleepOver, Undisturbed
<1>9. ASSUME DownWoke(t) PROVE Moved(t) /\ ~Waiting(t) /\ Undisturbed
  BY <1>1, <1>2, <1>3, <1>4, <1>9 DEF DownWoke, Undisturbed
<1>10. ASSUME SystemWait(t) PROVE Moved(t) /\ ~Waiting(t) /\ Undisturbed
  BY <1>1, <1>2, <1>3, <1>4, <1>10 DEF SystemWait, Undisturbed
<1>11. ASSUME FutexWoke(t) PROVE Moved(t) /\ ~Waiting(t) /\ Undisturbed
  BY <1>1, <1>2, <1>3, <1>4, <1>11 DEF FutexWoke, Undisturbed
<1>12. ASSUME FutexForReal(t) PROVE Moved(t) /\ ~Waiting(t) /\ Undisturbed
  BY <1>1, <1>2, <1>3, <1>4, <1>12 DEF FutexForReal, Undisturbed
<1>13. ASSUME UnfairForReal(t) PROVE Moved(t) /\ ~Waiting(t) /\ Undisturbed
  BY <1>1, <1>2, <1>3, <1>4, <1>13 DEF UnfairForReal, Undisturbed
<1>14. ASSUME RecordLock(t) PROVE Moved(t) /\ ~Waiting(t) /\ Undisturbed
  BY <1>1, <1>2, <1>3, <1>4, <1>14 DEF RecordLock, Undisturbed
<1>15. ASSUME Semop(t) PROVE Moved(t) /\ ~Waiting(t) /\ Undisturbed
  BY <1>1, <1>2, <1>3, <1>4, <1>15 DEF Semop, Undisturbed
<1>16. ASSUME WaitWoke(t) PROVE Moved(t) /\ ~Waiting(t) /\ Undisturbed
  BY <1>1, <1>2, <1>3, <1>4, <1>16 DEF WaitWoke, Undisturbed
<1> QED BY <1>5, <1>6, <1>7, <1>8, <1>9, <1>10, <1>11, <1>12, <1>13, <1>14, <1>15, <1>16

\* Stages of a wait on a condition variable that queue nobody.
LEMMA WaitStagesKeep ==
    ASSUME Inv, NEW t \in Thread, WaitUnlocks(t) \/ Relock(t) \/ StartUp(t)
    PROVE  Keeps
<1>1. t \in Actor /\ TypeInv
  BY DEF Actor, Inv
<1>2. CASE WaitUnlocks(t)
  <2>1. Waiting(t)
    BY <1>2 DEF WaitUnlocks, In, Waiting
  <2>2. ToAbout(t, "wake", Call(t).with) /\ UNCHANGED <<sc, th, queue, current, hist, sig>>
    BY <1>2 DEF WaitUnlocks
  <2>3. Moves(t)
    BY <1>1, <2>1, <2>2, WaitMovesLemma
  <2> QED BY <1>1, <2>2, <2>3, QuietLemma
<1>3. CASE Relock(t)
  <2>1. ~Waiting(t)
    BY <1>3 DEF Relock, In, Waiting
  <2>2. Moved(t) /\ UNCHANGED <<sc, th, queue, current, hist, sig>>
    BY <1>1, <1>3, GoesOnLemma DEF Relock
  <2> QED BY <1>1, <2>1, <2>2, GoesOnLemma, QuietLemma
<1>4. CASE StartUp(t)
  <2>1. ~Waiting(t)
    BY <1>4 DEF StartUp, Waiting
  <2>2. Moved(t) /\ UNCHANGED <<sc, th, queue, current, hist, sig>>
    BY <1>1, <1>4, GoesOnLemma DEF StartUp
  <2> QED BY <1>1, <2>1, <2>2, GoesOnLemma, QuietLemma
<1> QED BY <1>2, <1>3, <1>4

----------------------------------------------------------------------------
(***************************************************************************)
(* Steps that wake, and calls that begin.                                  *)
(***************************************************************************)
\* Waking some of the blocked threads, or touching other fields, is mild.
LEMMA WokenMild ==
    ASSUME NEW b, ThreadsTyped(b), NEW c, DOMAIN c = Thread, NEW B,
           \A x \in Thread : c[x] = IF b[x].state = "blocked" /\ x \in B
                                    THEN [b[x] EXCEPT !.state = "runnable"] ELSE b[x]
    PROVE  Mild(b, c)
<1>1. ASSUME NEW x \in Thread
      PROVE  /\ DOMAIN c[x] = ThFields /\ c[x].due = b[x].due /\ c[x].signaled = b[x].signaled
             /\ c[x].state = b[x].state \/ (b[x].state = "blocked" /\ c[x].state = "runnable")
  <2>1. DOMAIN b[x] = ThFields
    BY DEF ThreadsTyped
  <2>2. CASE c[x] = b[x]
    BY <2>1, <2>2
  <2>3. CASE b[x].state = "blocked" /\ c[x] = [b[x] EXCEPT !.state = "runnable"]
    BY <2>1, <2>3 DEF ThFields
  <2> QED BY <2>2, <2>3
<1>2. \A x \in Thread : c[x].state \in States /\ c[x].due \in BOOLEAN /\ c[x].signaled \in BOOLEAN
  BY <1>1 DEF ThreadsTyped, States
<1> QED BY <1>1, <1>2 DEF Mild, ThreadsTyped

LEMMA HandlerMild ==
    ASSUME NEW t \in Thread, NEW b, ThreadsTyped(b), HandlerRuns(t, b)
    PROVE  Mild(b, th')
<1>1. CASE Hears(Home(t))
  <2> DEFINE B == {x \in Thread : b[x].key = "io"}
  <2>1. th' = [x \in Thread |-> IF b[x].state = "blocked" /\ b[x].key = "io"
                                THEN [b[x] EXCEPT !.state = "runnable"] ELSE b[x]]
    BY <1>1 DEF HandlerRuns
  <2>2. \A x \in Thread : th'[x] = IF b[x].state = "blocked" /\ x \in B
                                   THEN [b[x] EXCEPT !.state = "runnable"] ELSE b[x]
    BY <2>1
  <2>3. DOMAIN th' = Thread
    BY <2>1
  <2> HIDE DEF B
  <2>4. \A c : DOMAIN c = Thread /\ (\A x \in Thread : c[x] = IF b[x].state = "blocked" /\ x \in B
                                    THEN [b[x] EXCEPT !.state = "runnable"] ELSE b[x]) => Mild(b, c)
    BY WokenMild
  <2> QED BY <2>2, <2>3, <2>4
<1>2. CASE ~Hears(Home(t))
  BY <1>2 DEF HandlerRuns, Mild
<1> QED BY <1>1, <1>2

LEMMA WakeKeeps ==
    ASSUME Inv, NEW a \in Actor, Wake(a)
    PROVE  Keeps
<1>1. TypeInv /\ ThreadsTyped(th) /\ SignalsTyped(sig)
  BY DEF Inv, TypeInv
<1>2. Mild(th, th')
  <2>1. PICK k, everywhere : th' = Woken(a, k, everywhere)
    BY DEF Wake, WakeIo, WakeAll
  <2>2. DOMAIN th' = Thread
    BY <2>1 DEF Woken
  <2>3. ASSUME NEW t \in Thread
        PROVE  /\ DOMAIN th'[t] = ThFields /\ th'[t].due = th[t].due /\ th'[t].signaled = th[t].signaled
               /\ th'[t].state = th[t].state \/ (th[t].state = "blocked" /\ th'[t].state = "runnable")
    <3> DEFINE state == IF th[t].state = "blocked" /\ th[t].key = k /\ (everywhere \/ Home(t) = Home(a))
                        THEN "runnable" ELSE th[t].state
               stale == th[t].stale \/ (a \in Outside /\ Home(t) = Home(a))
    <3>1. th'[t] = [th[t] EXCEPT !.state = state, !.stale = stale]
      BY <2>1 DEF Woken
    <3>2. DOMAIN th[t] = ThFields
      BY <1>1 DEF ThreadsTyped
    <3>3. state = th[t].state \/ (th[t].state = "blocked" /\ state = "runnable")
      OBVIOUS
    <3> HIDE DEF state, stale
    <3>4. /\ DOMAIN th'[t] = ThFields /\ th'[t].due = th[t].due /\ th'[t].signaled = th[t].signaled
          /\ th'[t].state = state
      BY <3>1, <3>2 DEF ThFields
    <3> QED BY <3>3, <3>4
  <2>4. \A t \in Thread : th'[t].state \in States /\ th'[t].due \in BOOLEAN /\ th'[t].signaled \in BOOLEAN
    BY <1>1, <2>3 DEF ThreadsTyped, States
  <2> QED BY <2>2, <2>3, <2>4 DEF Mild, ThreadsTyped
<1>3. UNCHANGED <<sc, queue, current, hist, sig>>
  BY DEF Wake
<1>4. Moves(a)
  <2>1. CASE Call(a).do = "wait" /\ ~Done(a)
    <3>1. Waiting(a)
      BY <2>1 DEF Wake, Waiting
    <3>2. To(a, "look")
      BY <2>1 DEF Wake
    <3> QED BY <1>1, <1>3, <3>1, <3>2, WaitMovesLemma
  <2>2. CASE ~(Call(a).do = "wait" /\ ~Done(a))
    <3>1. ~Waiting(a)
      BY <2>2 DEF Waiting
    <3>2. Moved(a)
      BY GoesOnLemma DEF Wake
    <3> QED BY <3>1, <3>2, GoesOnLemma
  <2> QED BY <2>1, <2>2
<1> QED BY <1>1, <1>2, <1>3, <1>4, MildLemma

\* One field of one thread that says neither its state nor a signal.
LEMMA FieldMild ==
    ASSUME ThreadsTyped(th), NEW t \in Thread, NEW v, NEW w,
           \/ th' = th
           \/ th' = [th EXCEPT ![t].handled = v]
           \/ th' = [th EXCEPT ![t].parked = v]
           \/ th' = [th EXCEPT ![t].stale = v, ![t].timedOut = w]
    PROVE  Mild(th, th')
<1>1. DOMAIN th' = Thread /\ \A x \in Thread \ {t} : th'[x] = th[x]
  BY DEF ThreadsTyped
<1>2. \/ th'[t] = th[t]
      \/ th'[t] = [th[t] EXCEPT !.handled = v]
      \/ th'[t] = [th[t] EXCEPT !.parked = v]
      \/ th'[t] = [th[t] EXCEPT !.stale = v, !.timedOut = w]
  BY DEF ThreadsTyped
<1>3. DOMAIN th[t] = ThFields
  BY DEF ThreadsTyped
<1>4. /\ DOMAIN th'[t] = ThFields /\ th'[t].due = th[t].due /\ th'[t].signaled = th[t].signaled
      /\ th'[t].state = th[t].state
  BY <1>2, <1>3 DEF ThFields
<1> QED BY <1>1, <1>4 DEF Mild, ThreadsTyped

LEMMA BeginsMild ==
    ASSUME Inv, NEW t \in Thread, Begins(t)
    PROVE  Mild(th, th')
<1>1. ThreadsTyped(th)
  BY DEF Inv, TypeInv
<1>2. th' = th \/ th' = [th EXCEPT ![t].handled = FALSE]
  BY DEF Begins
<1> QED BY <1>1, <1>2, FieldMild

\* What is pending is the same, and typed
LEMMA SigFieldsKept ==
    ASSUME SignalsTyped(sig), NEW g, DOMAIN g = SigFields,
           /\ g.pend = sig.pend /\ g.mine = sig.mine /\ g.alarms = sig.alarms
           /\ g.posted = sig.posted /\ g.taken = sig.taken
    PROVE  SignalsTyped(g)
BY DEF SignalsTyped

LEMMA BeginningKeeps ==
    ASSUME Inv, NEW t \in Thread, Sleep(t) \/ PollFds(t) \/ Kevent(t) \/ Park(t) \/ Raise(t)
    PROVE  Keeps
<1>1. t \in Actor /\ TypeInv /\ ThreadsTyped(th) /\ SignalsTyped(sig)
  BY DEF Actor, Inv, TypeInv
<1>2. Moved(t) /\ ~Waiting(t) => Moves(t)
  BY <1>1, GoesOnLemma
<1>3. Goes(t) \/ (\E k, timed, s : Blocks(t, k, timed, s)) => Moved(t)
  BY <1>1, GoesOnLemma
<1>4. \A what : what # "wait" /\ Tries(t, what) => ~Waiting(t)
  BY <1>1, NoWaitLemma
<1>5. CASE Sleep(t)
  <2>1. Moves(t)
    BY <1>2, <1>3, <1>4, <1>5 DEF Sleep
  <2>2. Mild(th, th')
    BY <1>5, BeginsMild DEF Sleep
  <2>3. UNCHANGED <<sc, queue, current, hist, sig>>
    BY <1>5 DEF Sleep
  <2> QED BY <1>1, <2>1, <2>2, <2>3, MildLemma
<1>6. CASE PollFds(t)
  <2>1. Moves(t)
    BY <1>2, <1>3, <1>4, <1>6 DEF PollFds
  <2>2. Mild(th, th')
    BY <1>6, BeginsMild DEF PollFds
  <2>3. UNCHANGED <<sc, queue, current, hist, sig>>
    BY <1>6 DEF PollFds
  <2> QED BY <1>1, <2>1, <2>2, <2>3, MildLemma
<1>7. CASE Kevent(t)
  <2>1. Moves(t)
    BY <1>2, <1>3, <1>4, <1>7 DEF Kevent
  <2>2. Mild(th, th')
    BY <1>7, BeginsMild DEF Kevent
  <2>3. UNCHANGED <<sc, queue, current, hist>>
    BY <1>7 DEF Kevent
  <2>4. PICK w : sig' = sig \/ sig' = [sig EXCEPT !.watch = w]
    BY <1>7 DEF Kevent
  <2>5. DOMAIN sig = SigFields
    BY <1>1 DEF SignalsTyped
  <2>6. /\ DOMAIN sig' = SigFields
        /\ sig'.pend = sig.pend /\ sig'.mine = sig.mine /\ sig'.alarms = sig.alarms
        /\ sig'.posted = sig.posted /\ sig'.taken = sig.taken
    BY <2>4, <2>5 DEF SigFields
  <2>7. SignalsTyped(sig')
    BY <1>1, <2>6, SigFieldsKept
  <2> QED BY <1>1, <2>1, <2>2, <2>3, <2>6, <2>7, MildLemma
<1>8. CASE Park(t)
  <2>1. Moves(t)
    BY <1>1, <1>8, StaysLemma DEF Park
  <2>2. Mild(th, th')
    BY <1>1, <1>8, FieldMild DEF Park
  <2>3. UNCHANGED <<sc, queue, current, hist, sig>>
    BY <1>8 DEF Park
  <2> QED BY <1>1, <2>1, <2>2, <2>3, MildLemma
<1>9. CASE Raise(t)
  <2>1. Moves(t)
    BY <1>2, <1>3, <1>4, <1>9 DEF Raise
  <2>2. Mild(th, th')
    BY <1>1, <1>9, HandlerMild DEF Raise
  <2>3. UNCHANGED <<sc, queue, current, hist>>
    BY <1>9 DEF Raise
  <2>4. PICK w : sig' = [sig EXCEPT !.counts = w]
    <3>1. sig' = [sig EXCEPT !.counts = [sig.counts EXCEPT ![<<Home(t), "usr">>] = @ + 1]]
      BY <1>9 DEF Raise
    <3> QED BY <3>1
  <2>5. DOMAIN sig = SigFields
    BY <1>1 DEF SignalsTyped
  <2>6. /\ DOMAIN sig' = SigFields
        /\ sig'.pend = sig.pend /\ sig'.mine = sig.mine /\ sig'.alarms = sig.alarms
        /\ sig'.posted = sig.posted /\ sig'.taken = sig.taken
    BY <2>4, <2>5 DEF SigFields
  <2>7. SignalsTyped(sig')
    BY <1>1, <2>6, SigFieldsKept
  <2> QED BY <1>1, <2>1, <2>2, <2>3, <2>6, <2>7, MildLemma
<1> QED BY <1>5, <1>6, <1>7, <1>8, <1>9

----------------------------------------------------------------------------
(***************************************************************************)
(* Steps that hand the baton on.                                           *)
(***************************************************************************)
\* A thread of the schedule acts with the baton.
LEMMA ActsLemma ==
    ASSUME NEW t \in Thread, Acts(t)
    PROVE  current = t /\ ~th[t].due
BY ActorsAssumption DEF Acts

\* Whoever hands over had nothing to take, so what somebody else is to take
\* somebody else still is.
LEMMA HandOffKeeps ==
    ASSUME Inv, NEW t \in Thread, Acts(t), NEW state \in {"runnable", "blocked"}, NEW k, NEW timed,
           HandOff(t, state, k, timed), Moves(t), UNCHANGED <<sc, queue, hist>>
    PROVE  Keeps
<1> DEFINE b == [th EXCEPT ![t].state = state, ![t].key = k, ![t].timed = timed, ![t].timedOut = FALSE]
<1>1. t \in Actor /\ ThreadsTyped(th) /\ SignalsTyped(sig) /\ BatonInv
  BY DEF Actor, Inv, TypeInv
<1>2. DOMAIN b = Thread /\ \A x \in Thread \ {t} : b[x] = th[x]
  BY <1>1 DEF ThreadsTyped
<1>3. b[t] = [th[t] EXCEPT !.state = state, !.key = k, !.timed = timed, !.timedOut = FALSE]
  BY <1>1 DEF ThreadsTyped
<1>4. DOMAIN th[t] = ThFields
  BY <1>1 DEF ThreadsTyped
<1>5. Choose(b, sig)
  BY DEF HandOff
<1> HIDE DEF b
<1>6. /\ DOMAIN b[t] = ThFields /\ b[t].state = state
      /\ b[t].due = th[t].due /\ b[t].signaled = th[t].signaled
  BY <1>3, <1>4 DEF ThFields
<1>7. ThreadsTyped(b)
  BY <1>1, <1>2, <1>6 DEF ThreadsTyped, States
<1>8. current = t /\ ~th[t].due
  BY ActsLemma
<1>9. \A x \in Thread : b[x].state # "running" /\ ~b[x].due /\ b[x].signaled = th[x].signaled
  BY <1>1, <1>2, <1>6, <1>8 DEF BatonInv
<1>10. ASSUME TakenInv PROVE Served(b, sig)
  <2>1. \A x \in sig.pend : ~Able(t, x)
    BY <1>8, <1>10 DEF TakenInv, Cleared
  <2>2. ASSUME NEW x \in sig.pend, NEW v \in Thread, Able(v, x), b[v].state # "exited"
        PROVE  \E u \in Thread : Able(u, x) /\ OnTheWay(b, u)
    <3>1. v # t
      BY <2>1, <2>2
    <3>2. th[v].state # "exited"
      BY <1>2, <2>2, <3>1
    <3>3. PICK u \in Thread : Able(u, x) /\ OnTheWay(th, u)
      BY <1>10, <2>2, <3>2 DEF TakenInv, Served
    <3>4. u # t
      BY <2>1, <2>2, <3>3
    <3> QED BY <1>2, <3>3, <3>4 DEF OnTheWay
  <2> QED BY <2>2 DEF Served
<1> QED BY <1>1, <1>5, <1>7, <1>9, <1>10, HandedLemma

LEMMA BlockKeeps ==
    ASSUME Inv, NEW t \in Thread, Block(t)
    PROVE  Keeps
<1>1. t \in Actor /\ TypeInv /\ ThreadsTyped(th) /\ SignalsTyped(sig)
  BY DEF Actor, Inv, TypeInv
<1>2. Acts(t) /\ at[t].stage = "block" /\ UNCHANGED <<sc, queue, hist>>
  BY DEF Block
<1>3. Moves(t)
  <2>1. To(t, at[t].then)
    BY DEF Block, To
  <2>2. CASE Waiting(t)
    <3>1. at[t].then = "woke"
      BY <1>2, <2>2 DEF Waiting
    <3> QED BY <1>1, <1>2, <2>1, <2>2, <3>1, WaitMovesLemma
  <2>3. CASE ~Waiting(t)
    BY <1>1, <2>1, <2>3, GoesOnLemma
  <2> QED BY <2>2, <2>3
<1>4. CASE th[t].stale
  <2>1. Mild(th, th')
    BY <1>1, <1>4, FieldMild DEF Block
  <2>2. UNCHANGED <<current, sig>>
    BY <1>4 DEF Block
  <2> QED BY <1>1, <1>2, <1>3, <2>1, <2>2, MildLemma
<1>5. CASE ~th[t].stale
  <2>1. HandOff(t, "blocked", at[t].about, at[t].timed)
    BY <1>5 DEF Block
  <2> QED BY <1>2, <1>3, <2>1, HandOffKeeps
<1> QED BY <1>4, <1>5

LEMMA YieldKeeps ==
    ASSUME Inv, NEW t \in Thread, Preempt(t) \/ UnfairWait(t)
    PROVE  Keeps
<1>1. t \in Actor /\ TypeInv
  BY DEF Actor, Inv
<1>2. CASE Preempt(t)
  <2>1. Acts(t) /\ HandOff(t, "runnable", "none", FALSE) /\ UNCHANGED <<sc, queue, at, hist>>
    BY <1>2 DEF Preempt
  <2>2. Moves(t)
    BY <1>1, <2>1, StaysLemma
  <2> QED BY <2>1, <2>2, HandOffKeeps
<1>3. CASE UnfairWait(t)
  <2>1. Acts(t) /\ ~Waiting(t) /\ UNCHANGED <<sc, queue, hist>>
    BY <1>3 DEF UnfairWait, In, Waiting
  <2>2. Moved(t)
    BY <1>1, <1>3, GoesOnLemma DEF UnfairWait
  <2>3. Moves(t)
    BY <1>1, <2>1, <2>2, GoesOnLemma
  <2>4. UNCHANGED <<th, current, sig>> \/ HandOff(t, "runnable", "none", FALSE)
    BY <1>3 DEF UnfairWait
  <2> QED BY <1>1, <2>1, <2>3, <2>4, HandOffKeeps, QuietLemma
<1> QED BY <1>2, <1>3

LEMMA PollKeeps ==
    ASSUME Inv, Poll
    PROVE  Keeps
<1>1. ThreadsTyped(th) /\ SignalsTyped(sig) /\ TypeInv /\ BatonInv
  BY DEF Inv, TypeInv
<1>2. current = Nobody /\ Choose(th, sig) /\ UNCHANGED <<sc, queue, at, hist>>
  BY DEF Poll
<1>3. PICK t \in Thread : th[t].state = "runnable"
  BY DEF Poll
<1>4. Moves(t)
  BY <1>1, <1>2, StaysLemma DEF Actor
<1>5. \A x \in Thread : th[x].state # "running" /\ ~th[x].due
  BY <1>1, <1>2, ActorsAssumption DEF BatonInv, Actor
<1>6. TakenInv => Served(th, sig)
  BY DEF TakenInv
<1> QED BY <1>1, <1>2, <1>4, <1>5, <1>6, HandedLemma DEF Actor

----------------------------------------------------------------------------
(***************************************************************************)
(* Ends of threads and of processes.                                       *)
(***************************************************************************)
\* The threads of a process that ended are out of the schedule, all others
\* are as they were or woken.
LEMMA EndedLemma ==
    ASSUME NEW b, ThreadsTyped(b), NEW p
    PROVE  /\ ThreadsTyped(WithoutProcess(b, p))
           /\ \A x \in Thread :
                /\ WithoutProcess(b, p)[x].due = b[x].due /\ WithoutProcess(b, p)[x].signaled = b[x].signaled
                /\ Home(x) = p => WithoutProcess(b, p)[x].state = "exited"
                /\ Home(x) # p => \/ WithoutProcess(b, p)[x].state = b[x].state
                                  \/ b[x].state = "blocked" /\ WithoutProcess(b, p)[x].state = "runnable"
<1> DEFINE c == WithoutProcess(b, p)
<1>1. DOMAIN c = Thread
  BY DEF WithoutProcess
<1>2. ASSUME NEW x \in Thread
      PROVE  /\ DOMAIN c[x] = ThFields /\ c[x].due = b[x].due /\ c[x].signaled = b[x].signaled
             /\ Home(x) = p => c[x].state = "exited"
             /\ Home(x) # p => c[x].state = b[x].state \/ (b[x].state = "blocked" /\ c[x].state = "runnable")
  <2>1. DOMAIN b[x] = ThFields
    BY DEF ThreadsTyped
  <2>2. CASE Home(x) = p
    <3>1. c[x] = [b[x] EXCEPT !.state = "exited"]
      BY <2>2 DEF WithoutProcess
    <3> HIDE DEF c
    <3> QED BY <2>1, <2>2, <3>1 DEF ThFields
  <2>3. CASE Home(x) # p
    <3>1. c[x] = b[x] \/ (b[x].state = "blocked" /\ c[x] = [b[x] EXCEPT !.state = "runnable"])
      BY <2>3 DEF WithoutProcess
    <3> HIDE DEF c
    <3>2. CASE c[x] = b[x]
      BY <2>1, <2>3, <3>2
    <3>3. CASE b[x].state = "blocked" /\ c[x] = [b[x] EXCEPT !.state = "runnable"]
      BY <2>1, <2>3, <3>3 DEF ThFields
    <3> QED BY <3>1, <3>2, <3>3
  <2> QED BY <2>2, <2>3
<1> HIDE DEF c
<1>3. \A x \in Thread : c[x].state \in States /\ c[x].due \in BOOLEAN /\ c[x].signaled \in BOOLEAN
  BY <1>2 DEF ThreadsTyped, States
<1>4. ThreadsTyped(c)
  BY <1>1, <1>2, <1>3 DEF ThreadsTyped
<1> QED BY <1>2, <1>4 DEF c

\* What is on its way to a process is not lost with another one.
LEMMA EndedServes ==
    ASSUME NEW b, ThreadsTyped(b), NEW g, Served(b, g), NEW h, h.pend = g.pend, NEW p
    PROVE  Served(WithoutProcess(b, p), h)
<1> DEFINE c == WithoutProcess(b, p)
<1>1. \A x \in Thread :
         /\ c[x].due = b[x].due
         /\ Home(x) = p => c[x].state = "exited"
         /\ Home(x) # p => c[x].state = b[x].state \/ (b[x].state = "blocked" /\ c[x].state = "runnable")
  BY EndedLemma
<1> HIDE DEF c
<1>2. ASSUME NEW x \in h.pend, NEW v \in Thread, Able(v, x), c[v].state # "exited"
      PROVE  \E u \in Thread : Able(u, x) /\ OnTheWay(c, u)
  <2>1. Home(v) # p /\ b[v].state # "exited"
    BY <1>1, <1>2
  <2>2. PICK u \in Thread : Able(u, x) /\ OnTheWay(b, u)
    BY <1>2, <2>1 DEF Served
  <2>3. Home(u) # p
    BY <1>2, <2>1, <2>2 DEF Able
  <2> QED BY <1>1, <2>2, <2>3 DEF OnTheWay
<1>3. Served(c, h)
  BY <1>2 DEF Served
<1> QED BY <1>3 DEF c

LEMMA BereavedLemma ==
    ASSUME SignalsTyped(sig), NEW p
    PROVE  SignalsTyped(Bereaved(p)) /\ Bereaved(p).pend = sig.pend
<1> DEFINE g == Bereaved(p)
<1>1. DOMAIN sig = SigFields /\ IsFiniteSet(sig.alarms) /\ sig.alarms \subseteq Process
  BY DEF SignalsTyped
<1>2. /\ DOMAIN g = SigFields /\ g.pend = sig.pend /\ g.mine = sig.mine
      /\ g.alarms = sig.alarms \ {p} /\ g.posted = sig.posted /\ g.taken = sig.taken
  BY <1>1 DEF Bereaved, SigFields
<1> HIDE DEF g
<1>3. IsFiniteSet(g.alarms)
  <2>1. g.alarms \in SUBSET sig.alarms
    BY <1>2
  <2> QED BY <1>1, <2>1, FS_Subset
<1>4. SignalsTyped(g)
  BY <1>1, <1>2, <1>3 DEF SignalsTyped
<1> QED BY <1>2, <1>4 DEF g

\* A thread leaves with nothing to take.
LEMMA ExitKeeps ==
    ASSUME Inv, NEW t \in Thread, Exit(t)
    PROVE  Keeps
<1> DEFINE p == Home(t)
           left == [x \in Thread |->
                      IF x = t THEN [th[x] EXCEPT !.state = "exited"]
                      ELSE IF th[x].state = "blocked" /\ th[x].key = t /\ Home(x) = p
                           THEN [th[x] EXCEPT !.state = "runnable"] ELSE th[x]]
<1>1. t \in Actor /\ ThreadsTyped(th) /\ SignalsTyped(sig) /\ BatonInv /\ TypeInv
  BY DEF Actor, Inv, TypeInv
<1>2. current = t /\ ~th[t].due
  BY ActsLemma DEF Exit
<1>3. UNCHANGED <<sc, queue, at, hist>>
  BY DEF Exit
<1>4. Choose(WithoutProcess(left, p), Bereaved(p)) \/ Choose(left, sig)
  BY DEF Exit
<1>5. Moves(t)
  BY <1>1, <1>3, StaysLemma
<1>6. DOMAIN left = Thread
  OBVIOUS
<1>7. ASSUME NEW x \in Thread
      PROVE  /\ DOMAIN left[x] = ThFields /\ left[x].due = th[x].due /\ left[x].signaled = th[x].signaled
             /\ x = t => left[x].state = "exited"
             /\ x # t => left[x].state = th[x].state \/ (th[x].state = "blocked" /\ left[x].state = "runnable")
  <2>1. DOMAIN th[x] = ThFields
    BY <1>1 DEF ThreadsTyped
  <2>2. CASE x = t
    <3>1. left[x] = [th[x] EXCEPT !.state = "exited"]
      BY <2>2
    <3> HIDE DEF left
    <3> QED BY <2>1, <2>2, <3>1 DEF ThFields
  <2>3. CASE x # t
    <3>1. left[x] = th[x] \/ (th[x].state = "blocked" /\ left[x] = [th[x] EXCEPT !.state = "runnable"])
      BY <2>3
    <3> HIDE DEF left
    <3>2. CASE left[x] = th[x]
      BY <2>1, <2>3, <3>2
    <3>3. CASE th[x].state = "blocked" /\ left[x] = [th[x] EXCEPT !.state = "runnable"]
      BY <2>1, <2>3, <3>3 DEF ThFields
    <3> QED BY <3>1, <3>2, <3>3
  <2> QED BY <2>2, <2>3
<1> HIDE DEF left, p
<1>8. ThreadsTyped(left)
  <2>1. \A x \in Thread : left[x].state \in States /\ left[x].due \in BOOLEAN /\ left[x].signaled \in BOOLEAN
    BY <1>1, <1>7 DEF ThreadsTyped, States
  <2> QED BY <1>6, <1>7, <2>1 DEF ThreadsTyped
<1>9. \A x \in Thread : left[x].state # "running" /\ ~left[x].due /\ left[x].signaled = th[x].signaled
  BY <1>1, <1>2, <1>7 DEF BatonInv
<1>10. ASSUME TakenInv PROVE Served(left, sig)
  <2>1. \A x \in sig.pend : ~Able(t, x)
    BY <1>2, <1>10 DEF TakenInv, Cleared
  <2>2. ASSUME NEW x \in sig.pend, NEW v \in Thread, Able(v, x), left[v].state # "exited"
        PROVE  \E u \in Thread : Able(u, x) /\ OnTheWay(left, u)
    <3>1. v # t /\ th[v].state # "exited"
      BY <1>7, <2>1, <2>2
    <3>2. PICK u \in Thread : Able(u, x) /\ OnTheWay(th, u)
      BY <1>10, <2>2, <3>1 DEF TakenInv, Served
    <3>3. u # t
      BY <2>1, <2>2, <3>2
    <3> QED BY <1>7, <3>2, <3>3 DEF OnTheWay
  <2> QED BY <2>2 DEF Served
<1>11. CASE Choose(left, sig)
  BY <1>1, <1>3, <1>5, <1>8, <1>9, <1>10, <1>11, HandedLemma
<1>12. CASE Choose(WithoutProcess(left, p), Bereaved(p))
  <2> DEFINE b == WithoutProcess(left, p)
             g == Bereaved(p)
  <2>1. ThreadsTyped(b) /\ \A x \in Thread : b[x].state # "running" /\ ~b[x].due /\ b[x].signaled = th[x].signaled
    BY <1>8, <1>9, EndedLemma
  <2>2. SignalsTyped(g) /\ g.pend = sig.pend
    BY <1>1, BereavedLemma
  <2>3. TakenInv => Served(b, g)
    BY <1>8, <1>10, <2>2, EndedServes
  <2>4. Choose(b, g)
    BY <1>12
  <2> HIDE DEF b, g
  <2> QED BY <1>1, <1>3, <1>5, <2>1, <2>2, <2>3, <2>4, HandedLemma
<1> QED BY <1>4, <1>11, <1>12

----------------------------------------------------------------------------
(***************************************************************************)
(* Signals sent and taken.                                                 *)
(***************************************************************************)
\* A step of the thread with the baton that keeps it.
LEMMA OnwardLemma ==
    ASSUME Inv, NEW t \in Thread, Moves(t), current = t, UNCHANGED <<sc, queue, current, hist>>,
           ThreadsTyped(th'), SignalsTyped(sig'),
           \A x \in Thread : /\ th'[x].signaled = th[x].signaled
                             /\ th'[x].state = "running" <=> x = t
                             /\ th'[x].due => x = t,
           TakenInv => TakenInv'
    PROVE  Keeps
<1>1. QueuesInv' /\ AccountInv'
  BY AccountKept DEF Actor
<1>2. TypeInv'
  BY DEF Inv, TypeInv, Moves
<1>3. BatonInv'
  BY DEF BatonInv
<1> QED BY <1>1, <1>2, <1>3 DEF Keeps, Inv

LEMMA PostLemma ==
    ASSUME SignalsTyped(sig), NEW p
    PROVE  SignalsTyped(Post(p)) /\ Post(p).pend = sig.pend \cup {<<p, "usr">>}
<1> DEFINE g == Post(p)
           x == <<p, "usr">>
           more == IF x \in sig.pend THEN 0 ELSE 1
<1>1. DOMAIN sig = SigFields
  BY DEF SignalsTyped
<1>2. PICK c : g = [sig EXCEPT !.pend = sig.pend \cup {x}, !.counts = c, !.posted = sig.posted + more]
  <2>1. g = [sig EXCEPT !.pend = sig.pend \cup {x}, !.counts = [sig.counts EXCEPT ![x] = @ + 1],
                        !.posted = sig.posted + more]
    BY DEF Post
  <2> QED BY <2>1
<1> HIDE DEF g, more
<1>3. /\ DOMAIN g = SigFields /\ g.pend = sig.pend \cup {x} /\ g.mine = sig.mine
      /\ g.alarms = sig.alarms /\ g.posted = sig.posted + more /\ g.taken = sig.taken
  BY <1>1, <1>2 DEF SigFields
<1>4. IsFiniteSet(sig.pend) /\ Cardinality(sig.pend) \in Nat /\ Cardinality(sig.mine) \in Nat
  BY FS_CardinalityType DEF SignalsTyped
<1>5. IsFiniteSet(g.pend) /\ Cardinality(g.pend) = Cardinality(sig.pend) + more
  <2> HIDE DEF x
  <2>1. /\ IsFiniteSet(sig.pend \cup {x})
        /\ Cardinality(sig.pend \cup {x}) =
              IF x \in sig.pend THEN Cardinality(sig.pend) ELSE Cardinality(sig.pend) + 1
    BY <1>4, FS_AddElement
  <2> QED BY <1>3, <1>4, <2>1 DEF more
<1>6. \A y \in g.pend : y = <<y[1], y[2]>> /\ y[2] \in {"usr", "alrm"}
  BY <1>3 DEF SignalsTyped
<1>7. g.posted \in Nat /\ g.posted = g.taken + Cardinality(g.pend) + Cardinality(g.mine)
  BY <1>3, <1>4, <1>5 DEF SignalsTyped, more
<1>8. SignalsTyped(g)
  BY <1>3, <1>5, <1>6, <1>7 DEF SignalsTyped
<1> QED BY <1>3, <1>8 DEF g

\* kill wakes every thread of the target that could take the signal.
LEMMA KillKeeps ==
    ASSUME Inv, NEW t \in Thread, Kill(t)
    PROVE  Keeps
<1> DEFINE p == Call(t).on
<1>1. t \in Actor /\ ThreadsTyped(th) /\ SignalsTyped(sig) /\ BatonInv
  BY DEF Actor, Inv, TypeInv
<1>2. current = t /\ ~th[t].due /\ Home(t) # p
  BY ActsLemma DEF Kill, Tries, In
<1>3. Moves(t) /\ UNCHANGED <<sc, queue, current, hist>>
  <2>1. ~Waiting(t) /\ Goes(t)
    BY <1>1, NoWaitLemma DEF Kill
  <2> QED BY <1>1, <2>1, GoesOnLemma DEF Kill
<1>4. CASE Dead(p)
  BY <1>1, <1>3, <1>4, QuietLemma DEF Kill
<1>5. CASE ~Dead(p)
  <2> DEFINE B == {x \in Thread : Home(x) = p \/ th[x].key = "io"}
  <2>1. sig' = Post(p)
    BY <1>5 DEF Kill
  <2>2. th' = [x \in Thread |-> IF th[x].state = "blocked" /\ (Home(x) = p \/ th[x].key = "io")
                                THEN [th[x] EXCEPT !.state = "runnable"] ELSE th[x]]
    BY <1>5 DEF Kill
  <2>3. DOMAIN th' = Thread
    BY <2>2
  <2>4. \A x \in Thread : th'[x] = IF th[x].state = "blocked" /\ x \in B
                                   THEN [th[x] EXCEPT !.state = "runnable"] ELSE th[x]
    BY <2>2
  <2>5. Mild(th, th')
    <3> HIDE DEF B
    <3>1. \A c : DOMAIN c = Thread /\ (\A x \in Thread : c[x] = IF th[x].state = "blocked" /\ x \in B
                                         THEN [th[x] EXCEPT !.state = "runnable"] ELSE th[x]) => Mild(th, c)
      BY <1>1, WokenMild, ZenonT(60)
    <3> QED BY <2>3, <2>4, <3>1
  <2>6. SignalsTyped(sig') /\ sig'.pend = sig.pend \cup {<<p, "usr">>}
    BY <1>1, <2>1, PostLemma
  <2>7. \A x \in Thread : Home(x) = p /\ th'[x].state # "exited" => th'[x].state = "runnable"
    <3>1. ASSUME NEW x \in Thread, Home(x) = p, th'[x].state # "exited" PROVE th'[x].state = "runnable"
      <4>1. DOMAIN th[x] = ThFields /\ th[x].state \in States
        BY <1>1 DEF ThreadsTyped
      <4>2. th[x].state # "running"
        BY <1>1, <1>2, <3>1 DEF BatonInv
      <4>3. CASE th[x].state = "blocked"
        BY <2>4, <3>1, <4>1, <4>3 DEF ThFields
      <4>4. CASE th[x].state # "blocked"
        <5>1. th'[x] = th[x]
          BY <2>4, <4>4
        <5> QED BY <3>1, <4>1, <4>2, <4>4, <5>1 DEF States
      <4> QED BY <4>3, <4>4
    <3> QED BY <3>1
  <2> HIDE DEF B, p
  <2>8. ASSUME TakenInv PROVE TakenInv'
    <3>1. \A u \in Thread : \A x : Able(u, x)' = Able(u, x)
      BY <1>3 DEF Able, Home
    <3>2. ~Able(t, <<p, "usr">>)
      BY <1>2 DEF Able
    <3>3. Cleared'
      BY <1>2, <1>3, <2>6, <2>8, <3>1, <3>2 DEF TakenInv, Cleared
    <3>4. ASSUME NEW x \in sig'.pend, NEW v \in Thread, Able(v, x), th'[v].state # "exited"
          PROVE  \E u \in Thread : Able(u, x) /\ OnTheWay(th', u)
      <4>1. CASE x \in sig.pend
        <5>1. th[v].state # "exited"
          BY <2>5, <3>4 DEF Mild
        <5>2. PICK u \in Thread : Able(u, x) /\ OnTheWay(th, u)
          BY <2>8, <3>4, <4>1, <5>1 DEF TakenInv, Served
        <5> QED BY <2>5, <5>2 DEF Mild, OnTheWay
      <4>2. CASE x = <<p, "usr">>
        <5>1. Home(v) = p
          BY <3>4, <4>2 DEF Able
        <5> QED BY <2>7, <3>4, <5>1 DEF OnTheWay
      <4> QED BY <2>6, <4>1, <4>2
    <3>5. Served(th, sig)'
      BY <3>1, <3>4 DEF Served, OnTheWay
    <3> QED BY <3>3, <3>5 DEF TakenInv
  <2>9. \A x \in Thread : /\ th'[x].signaled = th[x].signaled
                          /\ th'[x].state = "running" <=> x = t
                          /\ th'[x].due => x = t
    BY <1>1, <1>2, <2>5 DEF Mild, BatonInv
  <2>10. ThreadsTyped(th')
    BY <2>5 DEF Mild
  <2> QED BY <1>2, <1>3, <2>6, <2>8, <2>9, <2>10, OnwardLemma
<1> QED BY <1>4, <1>5

LEMMA ThreadSignalKeeps ==
    ASSUME Inv, NEW t \in Thread, ThreadKill(t) \/ Alarm(t)
    PROVE  Keeps
<1>1. t \in Actor /\ ThreadsTyped(th) /\ SignalsTyped(sig) /\ sc \in Scenarios
  BY DEF Actor, Inv, TypeInv
<1>2. UNCHANGED <<sc, th, queue, current, hist>>
  BY DEF ThreadKill, Alarm
<1>3. Moves(t)
  <2>1. ~Waiting(t) /\ Goes(t)
    BY <1>1, NoWaitLemma DEF ThreadKill, Alarm
  <2> QED BY <1>1, <2>1, GoesOnLemma
<1>4. DOMAIN sig = SigFields
  BY <1>1 DEF SignalsTyped
<1>5. Mild(th, th')
  BY <1>1, <1>2 DEF Mild
<1>6. CASE ThreadKill(t)
  <2> DEFINE x == <<Call(t).on, "urg">>
  <2>1. CASE sig' = sig
    BY <1>1, <1>2, <1>3, <2>1, QuietLemma
  <2>2. CASE x \notin sig.mine /\ sig' = [sig EXCEPT !.mine = sig.mine \cup {x}, !.posted = sig.posted + 1]
    <3> HIDE DEF x
    <3>1. /\ DOMAIN sig' = SigFields /\ sig'.pend = sig.pend /\ sig'.mine = sig.mine \cup {x}
          /\ sig'.alarms = sig.alarms /\ sig'.posted = sig.posted + 1 /\ sig'.taken = sig.taken
      BY <1>4, <2>2 DEF SigFields
    <3>2. IsFiniteSet(sig.mine) /\ Cardinality(sig.pend) \in Nat /\ Cardinality(sig.mine) \in Nat
      BY <1>1, FS_CardinalityType DEF SignalsTyped
    <3>3. IsFiniteSet(sig'.mine) /\ Cardinality(sig'.mine) = Cardinality(sig.mine) + 1
      BY <2>2, <3>1, <3>2, FS_AddElement
    <3>4. \A y \in sig'.mine : y = <<y[1], y[2]>> /\ y[2] = "urg"
      BY <1>1, <3>1 DEF SignalsTyped, x
    <3>5. sig'.posted \in Nat /\ sig'.posted = sig'.taken + Cardinality(sig'.pend) + Cardinality(sig'.mine)
      BY <1>1, <3>1, <3>2, <3>3 DEF SignalsTyped
    <3>6. SignalsTyped(sig')
      BY <1>1, <3>1, <3>3, <3>4, <3>5 DEF SignalsTyped
    <3> QED BY <1>1, <1>2, <1>3, <1>5, <3>1, <3>6, MildLemma
  <2>3. \/ sig' = sig
        \/ x \notin sig.mine /\ sig' = [sig EXCEPT !.mine = sig.mine \cup {x}, !.posted = sig.posted + 1]
    BY <1>6 DEF ThreadKill
  <2> QED BY <2>1, <2>2, <2>3
<1>7. CASE Alarm(t)
  <2>1. sig' = [sig EXCEPT !.alarms = sig.alarms \cup {Home(t)}]
    BY <1>7 DEF Alarm
  <2>2. /\ DOMAIN sig' = SigFields /\ sig'.pend = sig.pend /\ sig'.mine = sig.mine
        /\ sig'.alarms = sig.alarms \cup {Home(t)} /\ sig'.posted = sig.posted /\ sig'.taken = sig.taken
    BY <1>4, <2>1 DEF SigFields
  <2>3. Home(t) \in Process
    <3>1. sc.home \in [Actor -> Process]
      BY <1>1, ScenariosAssumption DEF Scenario
    <3> QED BY <1>1, <3>1 DEF Home
  <2>4. IsFiniteSet(sig'.alarms) /\ sig'.alarms \subseteq Process
    BY <1>1, <2>2, <2>3, FS_AddElement, SMTT(40) DEF SignalsTyped
  <2>5. SignalsTyped(sig')
    BY <1>1, <2>2, <2>4 DEF SignalsTyped
  <2> QED BY <1>1, <1>2, <1>3, <1>5, <2>2, <2>5, MildLemma
<1> QED BY <1>6, <1>7

\* What was on its way to a thread that is killed is not lost, and the killer
\* has nothing new to take but a SIGCHLD.
LEMMA SlayKeeps ==
    ASSUME Inv, NEW t \in Thread, Slay(t)
    PROVE  Keeps
<1> DEFINE p == Call(t).on
           b == WithoutProcess(th, p)
           child == TakesChild(t, sig')
<1>1. t \in Actor /\ ThreadsTyped(th) /\ SignalsTyped(sig) /\ BatonInv
  BY DEF Actor, Inv, TypeInv
<1>2. current = t /\ ~th[t].due /\ Home(t) # p
  BY ActsLemma DEF Slay, Tries, In
<1>3. Moves(t) /\ UNCHANGED <<sc, queue, current, hist>>
  <2>1. ~Waiting(t) /\ Goes(t)
    BY <1>1, NoWaitLemma DEF Slay
  <2> QED BY <1>1, <2>1, GoesOnLemma DEF Slay
<1>4. CASE Dead(p)
  BY <1>1, <1>3, <1>4, QuietLemma DEF Slay
<1>5. CASE ~Dead(p)
  <2>1. sig' = Bereaved(p) /\ th' = [b EXCEPT ![t].due = child]
    BY <1>5 DEF Slay
  <2>2. ThreadsTyped(b)
    BY <1>1, EndedLemma
  <2>3. \A x \in Thread :
          /\ b[x].due = th[x].due /\ b[x].signaled = th[x].signaled
          /\ Home(x) = p => b[x].state = "exited"
          /\ Home(x) # p => b[x].state = th[x].state \/ (th[x].state = "blocked" /\ b[x].state = "runnable")
    BY <1>1, EndedLemma
  <2>4. SignalsTyped(sig') /\ sig'.pend = sig.pend
    BY <1>1, <2>1, BereavedLemma
  <2>5. child \in BOOLEAN
    BY DEF TakesChild
  <2>6. TakenInv => Served(b, sig')
    BY <1>1, <2>4, EndedServes DEF TakenInv
  <2> HIDE DEF b, child, p
  <2>7. DOMAIN th' = Thread /\ \A x \in Thread \ {t} : th'[x] = b[x]
    BY <2>1, <2>2 DEF ThreadsTyped
  <2>8. th'[t] = [b[t] EXCEPT !.due = child] /\ DOMAIN b[t] = ThFields
    BY <2>1, <2>2 DEF ThreadsTyped
  <2>9. /\ DOMAIN th'[t] = ThFields /\ th'[t].due = child
        /\ th'[t].state = b[t].state /\ th'[t].signaled = b[t].signaled
    BY <2>8 DEF ThFields
  <2>10. ThreadsTyped(th')
    BY <2>2, <2>5, <2>7, <2>9 DEF ThreadsTyped
  <2>11. \A x \in Thread : /\ th'[x].signaled = th[x].signaled /\ th'[x].state = b[x].state
                           /\ x # t => th'[x].due = th[x].due
    BY <2>3, <2>7, <2>9
  <2>12. \A x \in Thread : /\ th'[x].signaled = th[x].signaled
                           /\ th'[x].state = "running" <=> x = t
                           /\ th'[x].due => x = t
    BY <1>1, <1>2, <2>3, <2>11 DEF BatonInv
  <2>13. ASSUME TakenInv PROVE TakenInv'
    <3>1. \A u \in Thread : \A x : Able(u, x)' = Able(u, x)
      BY <1>3 DEF Able, Home
    <3>2. Cleared'
      BY <1>2, <1>3, <2>4, <2>13, <3>1 DEF TakenInv, Cleared
    <3>3. ASSUME NEW x \in sig'.pend, NEW v \in Thread, Able(v, x), th'[v].state # "exited"
          PROVE  \E u \in Thread : Able(u, x) /\ OnTheWay(th', u)
      <4>1. b[v].state # "exited"
        BY <2>11, <3>3
      <4>2. PICK u \in Thread : Able(u, x) /\ OnTheWay(b, u)
        BY <2>6, <2>13, <3>3, <4>1 DEF Served
      <4>3. ~b[u].due
        BY <1>1, <1>2, <2>3 DEF BatonInv
      <4> QED BY <2>11, <4>2, <4>3 DEF OnTheWay
    <3>4. Served(th, sig)'
      BY <3>1, <3>3 DEF Served, OnTheWay
    <3> QED BY <3>2, <3>4 DEF TakenInv
  <2> QED BY <1>2, <1>3, <2>4, <2>10, <2>12, <2>13, OnwardLemma
<1> QED BY <1>4, <1>5

LEMMA PostedFinite == IsFiniteSet(Posted)
<1>1. IsFiniteSet({"usr"})
  BY FS_Singleton
<1>2. IsFiniteSet({"usr"} \cup {"alrm"})
  BY <1>1, FS_AddElement
<1>3. IsFiniteSet(({"usr"} \cup {"alrm"}) \cup {"urg"})
  BY <1>2, FS_AddElement
<1>4. Posted = ({"usr"} \cup {"alrm"}) \cup {"urg"}
  BY DEF Posted
<1> QED BY <1>3, <1>4

\* As many signals are taken as are no longer pending.
LEMMA TakenLemma ==
    ASSUME SignalsTyped(sig), NEW t \in Thread, NEW took, took = Takes(t, sig),
           NEW g, DOMAIN g = SigFields,
           /\ g.pend = sig.pend \ ({Home(t)} \X took) /\ g.mine = sig.mine \ ({t} \X took)
           /\ g.alarms = sig.alarms /\ g.posted = sig.posted
           /\ g.taken = sig.taken + Cardinality(took)
    PROVE  SignalsTyped(g)
<1> DEFINE K == {m \in took : <<Home(t), m>> \in sig.pend}
           L == {m \in took : <<t, m>> \in sig.mine}
<1>1. took = K \cup L
  BY DEF Takes
<1>2. K \cap L = {}
  <2>1. ASSUME NEW m, <<Home(t), m>> \in sig.pend, <<t, m>> \in sig.mine PROVE FALSE
    <3>1. m \in {"usr", "alrm"} /\ m = "urg"
      BY <2>1 DEF SignalsTyped
    <3> QED BY <3>1
  <2> QED BY <2>1
<1>3. IsFiniteSet(took) /\ IsFiniteSet(K) /\ IsFiniteSet(L)
  <2>1. took \in SUBSET Posted
    BY DEF Takes
  <2>2. IsFiniteSet(took)
    BY <2>1, PostedFinite, FS_Subset
  <2>3. K \in SUBSET took /\ L \in SUBSET took
    OBVIOUS
  <2> QED BY <2>2, <2>3, FS_Subset
<1>4. Cardinality(sig.pend \cap ({Home(t)} \X took)) = Cardinality(K)
  <2> DEFINE A == sig.pend \cap ({Home(t)} \X took)
  <2>1. ASSUME NEW y \in A PROVE \E m \in K : y = <<Home(t), m>>
    <3>1. y = <<Home(t), y[2]>> /\ y[2] \in took
      OBVIOUS
    <3> QED BY <3>1
  <2>2. ASSUME NEW m \in K PROVE <<Home(t), m>> \in A
    OBVIOUS
  <2> HIDE DEF A, K
  <2>3. \A y : y \in A <=> \E m \in K : y = <<Home(t), m>>
    BY <2>1, <2>2
  <2>4. Cardinality(A) = Cardinality(K)
    BY <1>3, <2>3, PairsCount, ZenonT(60)
  <2> QED BY <2>4 DEF A
<1>5. Cardinality(sig.mine \cap ({t} \X took)) = Cardinality(L)
  <2> DEFINE A == sig.mine \cap ({t} \X took)
  <2>1. ASSUME NEW y \in A PROVE \E m \in L : y = <<t, m>>
    <3>1. y = <<t, y[2]>> /\ y[2] \in took
      OBVIOUS
    <3> QED BY <3>1
  <2>2. ASSUME NEW m \in L PROVE <<t, m>> \in A
    OBVIOUS
  <2> HIDE DEF A, L
  <2>3. \A y : y \in A <=> \E m \in L : y = <<t, m>>
    BY <2>1, <2>2
  <2>4. Cardinality(A) = Cardinality(L)
    BY <1>3, <2>3, PairsCount, ZenonT(60)
  <2> QED BY <2>4 DEF A
<1> HIDE DEF K, L
<1>6. Cardinality(took) = Cardinality(K) + Cardinality(L) /\ Cardinality(K) \in Nat /\ Cardinality(L) \in Nat
  <2>1. Cardinality(K \cup L) = Cardinality(K) + Cardinality(L) - Cardinality(K \cap L)
    BY <1>3, FS_Union
  <2>2. Cardinality(K) \in Nat /\ Cardinality(L) \in Nat
    BY <1>3, FS_CardinalityType
  <2>3. Cardinality(K \cap L) = 0
    BY <1>2, FS_EmptySet
  <2> QED BY <1>1, <2>1, <2>2, <2>3
<1>7. /\ IsFiniteSet(sig.pend) /\ IsFiniteSet(sig.mine)
      /\ Cardinality(sig.pend) \in Nat /\ Cardinality(sig.mine) \in Nat
  BY FS_CardinalityType DEF SignalsTyped
<1>8. IsFiniteSet(g.pend) /\ Cardinality(g.pend) = Cardinality(sig.pend) - Cardinality(K)
  <2>1. /\ IsFiniteSet(sig.pend \ ({Home(t)} \X took))
        /\ Cardinality(sig.pend \ ({Home(t)} \X took)) =
              Cardinality(sig.pend) - Cardinality(sig.pend \cap ({Home(t)} \X took))
    BY <1>7, FS_Difference
  <2> QED BY <1>4, <2>1
<1>9. IsFiniteSet(g.mine) /\ Cardinality(g.mine) = Cardinality(sig.mine) - Cardinality(L)
  <2>1. /\ IsFiniteSet(sig.mine \ ({t} \X took))
        /\ Cardinality(sig.mine \ ({t} \X took)) = Cardinality(sig.mine) - Cardinality(sig.mine \cap ({t} \X took))
    BY <1>7, FS_Difference
  <2> QED BY <1>5, <2>1
<1>10. g.posted \in Nat /\ g.taken \in Nat /\ g.posted = g.taken + Cardinality(g.pend) + Cardinality(g.mine)
  BY <1>6, <1>7, <1>8, <1>9 DEF SignalsTyped
<1>11. /\ \A x \in g.pend : x = <<x[1], x[2]>> /\ x[2] \in {"usr", "alrm"}
       /\ \A x \in g.mine : x = <<x[1], x[2]>> /\ x[2] = "urg"
       /\ IsFiniteSet(g.alarms) /\ g.alarms \subseteq Process
  BY DEF SignalsTyped
<1> QED BY <1>8, <1>9, <1>10, <1>11 DEF SignalsTyped

\* Whoever takes the baton up takes all he can; what he leaves is on its way
\* to somebody else.
LEMMA TakeUpKeeps ==
    ASSUME Inv, NEW t \in Thread, TakeUp(t)
    PROVE  Keeps
<1> DEFINE took == Takes(t, sig)
           handled == th[t].handled \/ took # {}
           b == [th EXCEPT ![t].due = FALSE, ![t].handled = handled]
<1>1. t \in Actor /\ ThreadsTyped(th) /\ SignalsTyped(sig) /\ BatonInv /\ TypeInv
  BY DEF Actor, Inv, TypeInv
<1>2. current = t /\ th[t].due /\ HandlerRuns(t, b) /\ UNCHANGED <<sc, queue, current, at, hist>>
  BY DEF TakeUp
<1>3. Moves(t)
  BY <1>1, <1>2, StaysLemma
<1>4. PICK deaths : sig' = [sig EXCEPT !.deaths = deaths, !.pend = sig.pend \ ({Home(t)} \X took),
                                       !.mine = sig.mine \ ({t} \X took),
                                       !.taken = sig.taken + Cardinality(took)]
  BY DEF TakeUp
<1> HIDE DEF took, handled
<1>5. /\ DOMAIN sig' = SigFields
      /\ sig'.pend = sig.pend \ ({Home(t)} \X took) /\ sig'.mine = sig.mine \ ({t} \X took)
      /\ sig'.alarms = sig.alarms /\ sig'.posted = sig.posted
      /\ sig'.taken = sig.taken + Cardinality(took)
  <2>1. DOMAIN sig = SigFields
    BY <1>1 DEF SignalsTyped
  <2> QED BY <1>4, <2>1 DEF SigFields
<1>6. SignalsTyped(sig')
  BY <1>1, <1>5, TakenLemma DEF took
<1>7. DOMAIN b = Thread /\ \A x \in Thread \ {t} : b[x] = th[x]
  BY <1>1 DEF ThreadsTyped
<1>8. b[t] = [th[t] EXCEPT !.due = FALSE, !.handled = handled] /\ DOMAIN th[t] = ThFields
  BY <1>1 DEF ThreadsTyped
<1> HIDE DEF b
<1>9. DOMAIN b[t] = ThFields /\ b[t].due = FALSE /\ b[t].state = th[t].state /\ b[t].signaled = th[t].signaled
  BY <1>8 DEF ThFields
<1>10. ThreadsTyped(b)
  BY <1>1, <1>7, <1>9 DEF ThreadsTyped
<1>11. Mild(b, th')
  BY <1>2, <1>10, HandlerMild
<1>12. ThreadsTyped(th') /\ \A x \in Thread : /\ th'[x].signaled = th[x].signaled
                                              /\ th'[x].state = "running" <=> x = t
                                              /\ ~th'[x].due
  BY <1>1, <1>2, <1>7, <1>9, <1>11 DEF Mild, BatonInv
<1>13. ASSUME TakenInv PROVE TakenInv'
  <2>1. \A u \in Thread : \A x : Able(u, x)' = Able(u, x)
    BY <1>2 DEF Able, Home
  <2>2. ASSUME NEW x \in sig'.pend PROVE ~Able(t, x)
    <3>1. x \in sig.pend /\ x \notin {Home(t)} \X took
      BY <1>5
    <3>2. x = <<x[1], x[2]>> /\ x[2] \in Posted
      BY <1>1, <3>1 DEF SignalsTyped, Posted
    <3>3. ASSUME Able(t, x) PROVE FALSE
      <4>1. x = <<Home(t), x[2]>> /\ <<t, x[2]>> \notin sc.deaf
        BY <3>2, <3>3 DEF Able
      <4>2. x[2] \in took
        BY <3>1, <3>2, <4>1 DEF took, Takes
      <4> QED BY <3>1, <4>1, <4>2
    <3> QED BY <3>3
  <2>3. Cleared'
    BY <1>2, <2>1, <2>2 DEF Cleared
  <2>4. ASSUME NEW x \in sig'.pend, NEW v \in Thread, Able(v, x), th'[v].state # "exited"
        PROVE  \E u \in Thread : Able(u, x) /\ OnTheWay(th', u)
    <3>1. x \in sig.pend /\ th[v].state # "exited"
      BY <1>5, <1>7, <1>9, <1>11, <2>4 DEF Mild
    <3>2. PICK u \in Thread : Able(u, x) /\ OnTheWay(th, u)
      BY <1>13, <2>4, <3>1 DEF TakenInv, Served
    <3>3. u # t
      BY <2>2, <2>4, <3>2
    <3>4. th[u].state = "runnable"
      BY <1>1, <1>2, <3>2, <3>3 DEF OnTheWay, BatonInv
    <3>5. th'[u].state = "runnable"
      BY <1>7, <1>11, <3>3, <3>4 DEF Mild
    <3> QED BY <3>2, <3>5 DEF OnTheWay
  <2>5. Served(th, sig)'
    BY <2>1, <2>4 DEF Served, OnTheWay
  <2> QED BY <2>3, <2>5 DEF TakenInv
<1> QED BY <1>2, <1>3, <1>6, <1>12, <1>13, OnwardLemma

----------------------------------------------------------------------------
(***************************************************************************)
(* Condition variables.                                                    *)
(***************************************************************************)
LEMMA OthersStay ==
    ASSUME TypeInv, NEW a \in Actor, Moved(a), sc' = sc
    PROVE  /\ DOMAIN at' = Actor /\ \A c \in Actor : Place(at'[c])
           /\ \A u \in Actor \ {a} : Waiting(u) => Waiting(u)' /\ Call(u)' = Call(u)
BY DEF TypeInv, Moved, Waiting, Done, Call, Prog

\* A thread that is about to wait, or whose wait ends, has no signal; one it
\* had is accounted for.
LEMMA UnsignaledLemma ==
    ASSUME Inv, NEW t \in Thread, th' = [th EXCEPT ![t].signaled = FALSE], Got(t) \/ (~th[t].signaled /\ hist' = hist)
    PROVE  /\ ThreadsTyped(th') /\ Signaled' = Signaled \ {t} /\ IsFiniteSet(Signaled')
           /\ \A x \in Thread : th'[x].due = th[x].due /\ th'[x].state = th[x].state
           /\ DOMAIN hist' = {"sent", "got"} /\ hist'.sent \in Nat /\ hist'.got \in Nat
           /\ hist'.sent = hist'.got + Cardinality(Signaled')
<1>1. ThreadsTyped(th)
  BY DEF Inv, TypeInv
<1>2. DOMAIN th' = Thread /\ \A x \in Thread \ {t} : th'[x] = th[x]
  BY <1>1 DEF ThreadsTyped
<1>3. th'[t] = [th[t] EXCEPT !.signaled = FALSE] /\ DOMAIN th[t] = ThFields
  BY <1>1 DEF ThreadsTyped
<1>4. /\ DOMAIN th'[t] = ThFields /\ th'[t].signaled = FALSE
      /\ th'[t].due = th[t].due /\ th'[t].state = th[t].state
  BY <1>3 DEF ThFields
<1>5. ThreadsTyped(th') /\ \A x \in Thread : th'[x].due = th[x].due /\ th'[x].state = th[x].state
  BY <1>1, <1>2, <1>4 DEF ThreadsTyped
<1>6. Signaled' = Signaled \ {t}
  BY <1>2, <1>4 DEF Signaled
<1>7. /\ IsFiniteSet(Signaled) /\ DOMAIN hist = {"sent", "got"} /\ hist.sent \in Nat /\ hist.got \in Nat
      /\ hist.sent = hist.got + Cardinality(Signaled)
  BY DEF Inv, AccountInv
<1>8. /\ IsFiniteSet(Signaled \ {t}) /\ Cardinality(Signaled) \in Nat /\ Cardinality(Signaled \ {t}) \in Nat
      /\ Cardinality(Signaled \ {t}) = IF t \in Signaled THEN Cardinality(Signaled) - 1 ELSE Cardinality(Signaled)
  BY <1>7, FS_RemoveElement, FS_CardinalityType
<1>9. t \in Signaled <=> th[t].signaled
  BY DEF Signaled
<1>10. /\ DOMAIN hist' = {"sent", "got"} /\ hist'.sent = hist.sent
       /\ hist'.got = hist.got + (IF th[t].signaled THEN 1 ELSE 0)
  BY <1>7 DEF Got
<1>11. /\ hist'.sent \in Nat /\ hist'.got \in Nat
       /\ hist'.sent = hist'.got + Cardinality(Signaled \ {t})
  <2>1. CASE th[t].signaled
    BY <1>7, <1>8, <1>9, <1>10, <2>1
  <2>2. CASE ~th[t].signaled
    BY <1>7, <1>8, <1>9, <1>10, <2>2
  <2> QED BY <2>1, <2>2
<1> QED BY <1>5, <1>6, <1>8, <1>10, <1>11

\* Nobody is queued twice, or with a signal.
LEMMA QueuedLemma ==
    ASSUME Inv, NEW o \in Object, NEW i \in DOMAIN queue[o]
    PROVE  /\ queue[o][i] \in Thread /\ Waiting(queue[o][i]) /\ Call(queue[o][i]).on = o
           /\ queue[o][i] \notin Signaled
<1>1. queue[o] \in Seq(Thread)
  BY DEF Inv, QueuesInv
<1>2. queue[o][i] \in Thread
  BY <1>1
<1> QED BY <1>2 DEF Inv, QueuesInv, Signaled

\* What a step of a waiting thread does to the queues
LEMMA WaiterKeeps ==
    ASSUME Inv, NEW t \in Thread, Moved(t), UNCHANGED <<sc, current, sig>>,
           th' = [th EXCEPT ![t].signaled = FALSE], Got(t) \/ (~th[t].signaled /\ hist' = hist),
           QueuesInv'
    PROVE  Keeps
<1>1. t \in Actor /\ TypeInv
  BY DEF Actor, Inv
<1>2. /\ ThreadsTyped(th') /\ Signaled' = Signaled \ {t} /\ IsFiniteSet(Signaled')
      /\ \A x \in Thread : th'[x].due = th[x].due /\ th'[x].state = th[x].state
      /\ DOMAIN hist' = {"sent", "got"} /\ hist'.sent \in Nat /\ hist'.got \in Nat
      /\ hist'.sent = hist'.got + Cardinality(Signaled')
  BY UnsignaledLemma
<1>3. /\ DOMAIN at' = Actor /\ \A c \in Actor : Place(at'[c])
      /\ \A u \in Actor \ {t} : Waiting(u) => Waiting(u)' /\ Call(u)' = Call(u)
  BY <1>1, OthersStay
<1>4. TypeInv'
  BY <1>2, <1>3 DEF Inv, TypeInv
<1>5. \A u \in Signaled' : Waiting(u)'
  <2>1. \A u \in Signaled : Waiting(u) /\ u \in Actor
    BY DEF Inv, AccountInv, Signaled, Actor
  <2> QED BY <1>2, <1>3, <2>1
<1>6. AccountInv'
  BY <1>2, <1>5 DEF AccountInv
<1>7. BatonInv' /\ (TakenInv => TakenInv')
  BY <1>2, CalmLemma
<1> QED BY <1>4, <1>6, <1>7 DEF Keeps, Inv

LEMMA LookKeeps ==
    ASSUME Inv, NEW t \in Thread, LookForSignal(t)
    PROVE  Keeps
<1>1. t \in Actor /\ TypeInv
  BY DEF Actor, Inv
<1>2. /\ th' = [th EXCEPT ![t].signaled = FALSE] /\ Got(t) /\ UNCHANGED <<sc, queue, current, sig>>
      /\ Waiting(t)
  BY DEF LookForSignal, In, Waiting
<1>3. Moved(t)
  BY <1>1, GoesOnLemma DEF LookForSignal
<1>4. \A u \in Thread : u \in Signaled' => u \in Signaled
  BY <1>2, UnsignaledLemma
<1>5. \A u \in Actor \ {t} : Waiting(u) => Waiting(u)' /\ Call(u)' = Call(u)
  BY <1>1, <1>2, <1>3, OthersStay
<1>6. t \notin Signaled => Waiting(t)' /\ Call(t)' = Call(t)
  <2>1. ASSUME t \notin Signaled PROVE Waiting(t)' /\ Call(t)' = Call(t)
    <3>1. Blocks(t, Call(t).on, Call(t).timed, "woke")
      BY <2>1 DEF LookForSignal, Signaled
    <3>2. Moves(t)
      BY <1>1, <1>2, <3>1, WaitMovesLemma
    <3> QED BY <1>1, <1>2, <3>2, StillWaiting
  <2> QED BY <2>1
<1>7. QueuesInv'
  <2>1. ASSUME NEW o \in Object, NEW i \in DOMAIN queue[o]
        PROVE  /\ Waiting(queue[o][i])' /\ (Call(queue[o][i]).on = o)' /\ queue[o][i] \notin Signaled'
    <3> DEFINE u == queue[o][i]
    <3>1. u \in Thread /\ Waiting(u) /\ Call(u).on = o /\ u \notin Signaled
      BY QueuedLemma
    <3>2. u' = u
      BY <1>2
    <3> HIDE DEF u
    <3>3. Waiting(u)' /\ Call(u)' = Call(u)
      BY <1>5, <1>6, <3>1, <3>2 DEF Actor
    <3> QED BY <1>4, <3>1, <3>2, <3>3 DEF u
  <2>2. \A o \in Object : \A i \in DOMAIN queue[o] : queue[o][i] \in Thread
    BY QueuedLemma
  <2> QED BY <1>2, <2>1, <2>2 DEF QueuesInv, Signaled, Inv, Distinct
<1> QED BY <1>2, <1>3, <1>7, WaiterKeeps

\* Who gives a wait up is out of the queue.
LEMMA EndKeeps ==
    ASSUME Inv, NEW t \in Thread, WaitEnds(t)
    PROVE  Keeps
<1> DEFINE c == Call(t).on
<1>1. t \in Actor /\ TypeInv /\ UNCHANGED <<sc, current, sig>> /\ Waiting(t)
  BY DEF Actor, Inv, WaitEnds, In, Waiting
<1>2. Moved(t)
  BY <1>1, GoesOnLemma DEF WaitEnds
<1>3. CASE ~th[t].timedOut
  <2>1. To(t, "look") /\ UNCHANGED <<th, queue, hist>>
    BY <1>3 DEF WaitEnds
  <2>2. Moves(t)
    BY <1>1, <2>1, WaitMovesLemma
  <2> QED BY <1>1, <2>1, <2>2, QuietLemma
<1>4. CASE th[t].timedOut
  <2>1. /\ queue' = [queue EXCEPT ![c] = RemoveFirst(queue[c], t)]
        /\ th' = [th EXCEPT ![t].signaled = FALSE] /\ Got(t)
    BY <1>4 DEF WaitEnds
  <2> HIDE DEF c
  <2>2. DOMAIN queue = Object /\ \A o \in Object : queue[o] \in Seq(Thread) /\ Distinct(queue[o])
    BY DEF Inv, QueuesInv
  <2>3. /\ DOMAIN queue' = Object
        /\ \A o \in Object : queue'[o] = IF o = c THEN RemoveFirst(queue[o], t) ELSE queue[o]
    BY <2>1, <2>2
  <2>4. \A u \in Actor \ {t} : Waiting(u) => Waiting(u)' /\ Call(u)' = Call(u)
    BY <1>1, <1>2, OthersStay
  <2>5. \A u \in Thread : u \in Signaled' => u \in Signaled
    BY <2>1, UnsignaledLemma
  <2>6. ASSUME NEW o \in Object
        PROVE  /\ queue'[o] \in Seq(Thread) /\ Distinct(queue'[o])
               /\ \A i \in DOMAIN queue'[o] : queue'[o][i] # t /\ \E j \in DOMAIN queue[o] : queue[o][j] = queue'[o][i]
    <3>1. CASE o = c
      BY <2>2, <2>3, <3>1, RemoveLemma
    <3>2. CASE o # c
      <4>1. queue'[o] = queue[o]
        BY <2>3, <3>2
      <4>2. \A i \in DOMAIN queue[o] : queue[o][i] # t
        BY <3>2, QueuedLemma DEF c
      <4> QED BY <2>2, <4>1, <4>2
    <3> QED BY <3>1, <3>2
  <2>7. ASSUME NEW o \in Object, NEW i \in DOMAIN queue'[o]
        PROVE  /\ Waiting(queue[o][i])' /\ (Call(queue[o][i]).on = o)' /\ queue'[o][i] \notin Signaled'
               /\ queue'[o][i] \in Thread
    <3>1. PICK j \in DOMAIN queue[o] : queue[o][j] = queue'[o][i]
      BY <2>6
    <3>2. PICK u \in Thread : u = queue'[o][i] /\ Waiting(u) /\ Call(u).on = o /\ u \notin Signaled
      BY <3>1, QueuedLemma
    <3>3. u # t
      BY <2>6, <3>2
    <3>4. Waiting(u)' /\ Call(u)' = Call(u)
      BY <2>4, <3>2, <3>3 DEF Actor
    <3> QED BY <2>5, <3>2, <3>4
  <2>8. QueuesInv'
    BY <2>3, <2>6, <2>7 DEF QueuesInv, Signaled, Distinct
  <2> QED BY <1>1, <1>2, <2>1, <2>8, WaiterKeeps
<1> QED BY <1>3, <1>4

\* Who begins to wait was not waiting, and so neither queued nor signaled.
LEMMA WaitKeeps ==
    ASSUME Inv, NEW t \in Thread, Wait(t)
    PROVE  Keeps
<1> DEFINE c == Call(t).on
<1>1. t \in Actor /\ TypeInv /\ UNCHANGED <<sc, current, hist, sig>> /\ ~Waiting(t)
  BY DEF Actor, Inv, Wait, Tries, In, Waiting
<1>2. Moved(t)
  BY <1>1, GoesOnLemma DEF Wait
<1>3. CASE UNCHANGED <<th, queue>>
  BY <1>1, <1>2, <1>3, GoesOnLemma, QuietLemma
<1>4. CASE CondEnqueue(t, c) /\ To(t, "unlock")
  <2>1. /\ queue' = [queue EXCEPT ![c] = Append(queue[c], t)]
        /\ th' = [th EXCEPT ![t].signaled = FALSE]
    BY <1>4 DEF CondEnqueue
  <2>2. t \notin Signaled /\ ~th[t].signaled
    BY <1>1 DEF Inv, AccountInv, Signaled
  <2>3. ~Done(t) /\ Call(t).do = "wait"
    BY DEF Wait, Tries, In
  <2>4. Waiting(t)' /\ Call(t)' = Call(t)
    <3>1. at'[t] = [AtCall(at[t].pc) EXCEPT !.stage = "unlock"]
      BY <1>1, <1>4 DEF To, TypeInv
    <3>2. at'[t].pc = at[t].pc /\ at'[t].stage = "unlock"
      BY <3>1 DEF AtCall
    <3> QED BY <1>1, <2>3, <3>2 DEF Waiting, Done, Call, Prog
  <2> HIDE DEF c
  <2>5. DOMAIN queue = Object /\ \A o \in Object : queue[o] \in Seq(Thread) /\ Distinct(queue[o])
    BY DEF Inv, QueuesInv
  <2>6. /\ DOMAIN queue' = Object
        /\ \A o \in Object : queue'[o] = IF o = c THEN Append(queue[o], t) ELSE queue[o]
    BY <2>1, <2>5
  <2>7. \A u \in Actor \ {t} : Waiting(u) => Waiting(u)' /\ Call(u)' = Call(u)
    BY <1>1, <1>2, OthersStay
  <2>8. \A u \in Thread : u \in Signaled' => u \in Signaled
    BY <2>1, <2>2, <1>1, UnsignaledLemma
  <2>9. \A o \in Object : \A i \in DOMAIN queue[o] : queue[o][i] # t
    BY <1>1, QueuedLemma
  <2>10. ASSUME NEW o \in Object
         PROVE  /\ queue'[o] \in Seq(Thread) /\ Distinct(queue'[o])
                /\ \A i \in DOMAIN queue'[o] :
                      \/ queue'[o][i] = t /\ o = c
                      \/ \E j \in DOMAIN queue[o] : queue[o][j] = queue'[o][i]
    <3>1. CASE o = c
      <4> DEFINE q == queue[o]
                 r == queue'[o]
      <4>1. q \in Seq(Thread) /\ Len(q) \in Nat /\ DOMAIN q = 1..Len(q) /\ r = Append(q, t) /\ Distinct(q)
        BY <2>5, <2>6, <3>1
      <4>2. \A i \in 1..Len(q) : q[i] # t
        BY <2>9, <4>1
      <4> HIDE DEF q, r
      <4>3. /\ r \in Seq(Thread) /\ DOMAIN r = 1..Len(q) + 1
            /\ r[Len(q) + 1] = t /\ \A i \in 1..Len(q) : r[i] = q[i]
        BY <4>1
      <4>4. Distinct(r)
        <5>1. ASSUME NEW i \in 1..Len(q) + 1, NEW j \in 1..Len(q) + 1, r[i] = r[j] PROVE i = j
          <6>1. CASE i = Len(q) + 1
            BY <4>1, <4>2, <4>3, <5>1, <6>1
          <6>2. CASE j = Len(q) + 1
            BY <4>1, <4>2, <4>3, <5>1, <6>2
          <6>3. CASE i # Len(q) + 1 /\ j # Len(q) + 1
            <7>1. i \in 1..Len(q) /\ j \in 1..Len(q)
              BY <4>1, <6>3
            <7> QED BY <4>1, <4>3, <5>1, <7>1 DEF Distinct
          <6> QED BY <6>1, <6>2, <6>3
        <5> QED BY <4>3, <5>1 DEF Distinct
      <4>5. \A i \in DOMAIN r : r[i] = t \/ \E j \in DOMAIN q : q[j] = r[i]
        <5>1. ASSUME NEW i \in 1..Len(q) + 1, r[i] # t PROVE i \in 1..Len(q)
          BY <4>1, <4>3, <5>1
        <5> QED BY <4>1, <4>3, <5>1
      <4> QED BY <3>1, <4>3, <4>4, <4>5 DEF q, r
    <3>2. CASE o # c
      BY <2>5, <2>6, <3>2
    <3> QED BY <3>1, <3>2
  <2>11. ASSUME NEW o \in Object, NEW i \in DOMAIN queue'[o]
         PROVE  /\ Waiting(queue[o][i])' /\ (Call(queue[o][i]).on = o)' /\ queue'[o][i] \notin Signaled'
                /\ queue'[o][i] \in Thread
    <3>1. CASE queue'[o][i] = t /\ o = c
      BY <2>2, <2>4, <2>8, <3>1 DEF c
    <3>2. CASE \E j \in DOMAIN queue[o] : queue[o][j] = queue'[o][i]
      <4>1. PICK u \in Thread : u = queue'[o][i] /\ Waiting(u) /\ Call(u).on = o /\ u \notin Signaled
        BY <3>2, QueuedLemma
      <4>2. u # t
        BY <1>1, <4>1
      <4>3. Waiting(u)' /\ Call(u)' = Call(u)
        BY <2>7, <4>1, <4>2 DEF Actor
      <4> QED BY <2>8, <4>1, <4>3
    <3> QED BY <2>10, <3>1, <3>2
  <2>12. QueuesInv'
    BY <2>6, <2>10, <2>11 DEF QueuesInv, Signaled, Distinct
  <2> QED BY <1>1, <1>2, <2>1, <2>2, <2>12, WaiterKeeps
<1> QED BY <1>3, <1>4 DEF Wait

\* The object of a call on a condition variable is one.
LEMMA CondObject ==
    ASSUME TypeInv, NEW a \in Actor, ~Done(a), Call(a).do \in {"wait", "signal", "broadcast"}
    PROVE  Call(a).on \in Object
<1>1. Scenario(sc)
  BY ScenariosAssumption DEF TypeInv
<1>2. Prog(a) \in Seq(Range(Prog(a))) /\ at[a].pc \in Nat \ {0}
  BY <1>1 DEF Scenario, Prog, TypeInv, Place
<1>3. at[a].pc \in DOMAIN Prog(a)
  BY <1>2 DEF Done
<1>4. Call(a) \in Range(Prog(a))
  BY <1>3 DEF Call, Range
<1> QED BY <1>1, <1>4 DEF Scenario, Prog

\* Who is told was queued, waiting and not told before, and is queued no more.
LEMMA CondWakeKeeps ==
    ASSUME Inv, NEW a \in Actor, NEW what \in {"signal", "broadcast"}, NEW all \in BOOLEAN, CondWake(a, what, all)
    PROVE  Keeps
<1> DEFINE c == Call(a).on
           q == queue[c]
           W == {q[i] : i \in IF all THEN DOMAIN q ELSE DOMAIN q \cap {1}}
           V == {q[i] : i \in DOMAIN q}
<1>1. TypeInv /\ ThreadsTyped(th) /\ UNCHANGED <<sc, current, sig>>
  BY DEF Inv, TypeInv, CondWake
<1>2. ~Waiting(a) /\ ~Done(a) /\ Call(a).do = what
  BY DEF CondWake, Tries, In, Waiting
<1>3. Moves(a)
  BY <1>2, GoesOnLemma DEF CondWake
<1>4. c \in Object
  BY <1>1, <1>2, CondObject
<1>5. q \in Seq(Thread) /\ Distinct(q) /\ Len(q) \in Nat /\ DOMAIN q = 1..Len(q)
  BY <1>4 DEF Inv, QueuesInv
<1>6. /\ queue' = [queue EXCEPT ![c] = IF all \/ q = <<>> THEN <<>> ELSE Tail(q)]
      /\ th' = [t \in Thread |->
                   IF t \in W
                   THEN [th[t] EXCEPT !.signaled = TRUE,
                           !.state = IF th[t].state = "blocked" THEN "runnable" ELSE th[t].state]
                   ELSE th[t]]
      /\ hist' = [hist EXCEPT !.sent = hist.sent + Cardinality(W)]
  BY DEF CondWake
<1>7. \A u \in W : u \in Thread /\ u \in V /\ Waiting(u) /\ Call(u).on = c /\ u \notin Signaled
  <2>1. \A i \in DOMAIN q : /\ q[i] \in Thread /\ Waiting(q[i]) /\ Call(q[i]).on = c
                            /\ q[i] \notin Signaled
    BY <1>4, QueuedLemma
  <2> QED BY <2>1
<1>8. IsFiniteSet(W)
  <2>1. q \in Surjection(1..Len(q), V)
    BY <1>5 DEF Surjection
  <2>2. IsFiniteSet(1..Len(q))
    BY <1>5, FS_Interval
  <2> HIDE DEF V, q
  <2>3. IsFiniteSet(V)
    BY <2>1, <2>2, FS_Surjection
  <2>4. W \in SUBSET V
    BY <1>7
  <2> QED BY <2>3, <2>4, FS_Subset
\* Who is left in the queue is none of those told
<1> DEFINE rest == IF all \/ q = <<>> THEN <<>> ELSE Tail(q)
<1>9. /\ rest \in Seq(Thread) /\ Distinct(rest)
      /\ \A i \in DOMAIN rest : rest[i] \notin W /\ \E j \in DOMAIN q : q[j] = rest[i]
  <2>1. CASE all \/ q = <<>>
    BY <2>1 DEF Distinct
  <2>2. CASE ~all /\ q # <<>>
    <3>1. Len(q) >= 1 /\ rest = Tail(q)
      BY <1>5, <2>2
    <3>2. W = {q[1]}
      BY <1>5, <2>2, <3>1
    <3> HIDE DEF q, W, rest
    <3>3. /\ rest \in Seq(Thread) /\ DOMAIN rest = 1..Len(q) - 1
          /\ \A i \in 1..Len(q) - 1 : rest[i] = q[i + 1]
      <4>1. Tail(q) \in Seq(Thread) /\ Len(Tail(q)) = Len(q) - 1
        BY <1>5, <3>1
      <4>2. \A i \in 1..Len(q) - 1 : Tail(q)[i] = q[i + 1]
        BY <1>5, <3>1
      <4> QED BY <3>1, <4>1, <4>2
    <3>4. \A i \in 1..Len(q) - 1 : i + 1 \in DOMAIN q /\ q[i + 1] # q[1]
      BY <1>5, <3>1 DEF Distinct
    <3>5. Distinct(rest)
      BY <1>5, <3>1, <3>2, <3>4 DEF Distinct
    <3> QED BY <3>2, <3>3, <3>4, <3>5
  <2> QED BY <2>1, <2>2
<1>10. DOMAIN queue' = Object /\ \A o \in Object : queue'[o] = IF o = c THEN rest ELSE queue[o]
  BY <1>6 DEF Inv, QueuesInv
<1> HIDE DEF W, V, q, rest
<1>11. DOMAIN th' = Thread
  BY <1>6
<1>12. ASSUME NEW t \in Thread
       PROVE  /\ DOMAIN th'[t] = ThFields /\ th'[t].due = th[t].due
              /\ th'[t].signaled = (t \in W \/ th[t].signaled)
              /\ th'[t].state = th[t].state \/ (th[t].state = "blocked" /\ th'[t].state = "runnable")
  <2> DEFINE state == IF th[t].state = "blocked" THEN "runnable" ELSE th[t].state
  <2>1. DOMAIN th[t] = ThFields /\ th[t].signaled \in BOOLEAN
    BY <1>1 DEF ThreadsTyped
  <2>2. CASE t \in W
    <3>1. th'[t] = [th[t] EXCEPT !.signaled = TRUE, !.state = state]
      BY <1>6, <2>2
    <3> HIDE DEF state
    <3>2. /\ DOMAIN th'[t] = ThFields /\ th'[t].due = th[t].due
          /\ th'[t].signaled = TRUE /\ th'[t].state = state
      BY <2>1, <3>1 DEF ThFields
    <3> QED BY <2>2, <3>2 DEF state
  <2>3. CASE t \notin W
    <3>1. th'[t] = th[t]
      BY <1>6, <2>3
    <3> QED BY <2>1, <2>3, <3>1
  <2> QED BY <2>2, <2>3
<1>13. ThreadsTyped(th')
  <2>1. \A t \in Thread : th'[t].state \in States /\ th'[t].due \in BOOLEAN /\ th'[t].signaled \in BOOLEAN
    BY <1>1, <1>12 DEF ThreadsTyped, States
  <2> QED BY <1>11, <1>12, <2>1 DEF ThreadsTyped
<1>14. Signaled' = Signaled \cup W
  BY <1>7, <1>12 DEF Signaled
<1>15. \A u \in Thread : Waiting(u) => Waiting(u)' /\ Call(u)' = Call(u)
  BY <1>1, <1>3, StillWaiting DEF Actor
<1>16. QueuesInv'
  <2>1. ASSUME NEW o \in Object
        PROVE  /\ queue'[o] \in Seq(Thread) /\ Distinct(queue'[o])
               /\ \A i \in DOMAIN queue'[o] : queue'[o][i] \notin W /\ \E j \in DOMAIN queue[o] : queue[o][j] = queue'[o][i]
    <3>1. CASE o = c
      BY <1>9, <1>10, <3>1 DEF q
    <3>2. CASE o # c
      <4>1. queue'[o] = queue[o] /\ queue[o] \in Seq(Thread) /\ Distinct(queue[o])
        BY <1>10, <3>2 DEF Inv, QueuesInv
      <4>2. \A i \in DOMAIN queue[o] : queue[o][i] \notin W
        BY <1>7, <3>2, QueuedLemma
      <4> QED BY <4>1, <4>2
    <3> QED BY <3>1, <3>2
  <2>2. ASSUME NEW o \in Object, NEW i \in DOMAIN queue'[o]
        PROVE  /\ Waiting(queue[o][i])' /\ (Call(queue[o][i]).on = o)' /\ queue'[o][i] \notin Signaled'
               /\ queue'[o][i] \in Thread
    <3>1. PICK j \in DOMAIN queue[o] : queue[o][j] = queue'[o][i]
      BY <2>1
    <3>2. PICK u \in Thread : u = queue'[o][i] /\ Waiting(u) /\ Call(u).on = o /\ u \notin Signaled
      BY <3>1, QueuedLemma
    <3>3. u \notin W
      BY <2>1, <3>2
    <3> QED BY <1>14, <1>15, <3>2, <3>3
  <2> QED BY <1>10, <2>1, <2>2 DEF QueuesInv, Signaled, Distinct
<1>17. AccountInv'
  <2>1. /\ \A u \in Signaled : Waiting(u)
        /\ IsFiniteSet(Signaled) /\ DOMAIN hist = {"sent", "got"} /\ hist.sent \in Nat /\ hist.got \in Nat
        /\ hist.sent = hist.got + Cardinality(Signaled)
    BY DEF Inv, AccountInv
  <2>2. DOMAIN hist' = {"sent", "got"} /\ hist'.sent = hist.sent + Cardinality(W) /\ hist'.got = hist.got
    BY <1>6, <2>1
  <2>3. /\ IsFiniteSet(Signaled \cup W)
        /\ Cardinality(Signaled \cup W) = Cardinality(Signaled) + Cardinality(W) - Cardinality(Signaled \cap W)
    BY <1>8, <2>1, FS_Union
  <2>4. Cardinality(Signaled \cap W) = 0
    <3>1. Signaled \cap W = {}
      BY <1>7
    <3> QED BY <3>1, FS_EmptySet
  <2>5. Cardinality(Signaled) \in Nat /\ Cardinality(W) \in Nat
    BY <1>8, <2>1, FS_CardinalityType
  <2>6. hist'.sent \in Nat /\ hist'.got \in Nat /\ hist'.sent = hist'.got + Cardinality(Signaled \cup W)
    BY <2>1, <2>2, <2>3, <2>4, <2>5
  <2>7. \A u \in Signaled \cup W : Waiting(u)'
    BY <1>7, <1>15, <2>1 DEF Signaled
  <2> QED BY <1>14, <2>2, <2>3, <2>6, <2>7 DEF AccountInv
<1>18. TypeInv'
  BY <1>1, <1>3, <1>13 DEF TypeInv, Moves
<1>19. BatonInv' /\ (TakenInv => TakenInv')
  BY <1>1, <1>12, CalmLemma
<1> QED BY <1>16, <1>17, <1>18, <1>19 DEF Keeps, Inv

----------------------------------------------------------------------------
(***************************************************************************)
(* The invariant holds.                                                    *)
(***************************************************************************)
LEMMA InitHolds == Init => Inv /\ TakenInv
<1> SUFFICES ASSUME Init PROVE Inv /\ TakenInv
  OBVIOUS
<1>1. PICK first \in Thread :
        /\ current = first
        /\ th = [t \in Thread |->
                   [state |-> IF t = first THEN "running"
                              ELSE IF Prog(t) = <<>> THEN "exited" ELSE "runnable",
                    key |-> "none", timed |-> FALSE, timedOut |-> FALSE, stale |-> FALSE,
                    signaled |-> FALSE, due |-> FALSE,
                    handled |-> FALSE, parked |-> t # first /\ t \notin sc.starting]]
  BY DEF Init
<1>2. DOMAIN th = Thread
  BY <1>1
<1>3. ASSUME NEW t \in Thread
      PROVE  /\ DOMAIN th[t] = ThFields /\ ~th[t].signaled /\ th[t].signaled \in BOOLEAN
             /\ th[t].due = FALSE /\ th[t].state \in States /\ (th[t].state = "running" <=> t = first)
  BY <1>1 DEF ThFields, States
<1>4. ThreadsTyped(th) /\ BatonInv /\ Signaled = {}
  BY <1>1, <1>2, <1>3 DEF ThreadsTyped, BatonInv, Signaled
<1>5. SignalsTyped(sig) /\ sig.pend = {}
  <2>1. sig = [pend |-> {}, mine |-> {}, deaths |-> {}, alarms |-> {}, posted |-> 0, taken |-> 0,
               counts |-> [x \in Process \X Posted |-> 0], watch |-> [w \in sc.watches |-> 0]]
    BY DEF Init
  <2>2. /\ DOMAIN sig = SigFields /\ sig.pend = {} /\ sig.mine = {} /\ sig.alarms = {}
        /\ sig.posted = 0 /\ sig.taken = 0
    BY <2>1 DEF SigFields
  <2> QED BY <2>2, FS_EmptySet DEF SignalsTyped
<1>6. DOMAIN at = Actor /\ \A a \in Actor : Place(at[a])
  <2>1. DOMAIN at = Actor /\ \A a \in Actor : \E s : at[a] = [AtCall(1) EXCEPT !.stage = s]
    BY DEF Init
  <2>2. DOMAIN AtCall(1) = AtFields /\ AtCall(1).pc = 1
    BY DEF AtCall, AtFields
  <2>3. \A s : Place([AtCall(1) EXCEPT !.stage = s])
    BY <2>2 DEF Place
  <2> QED BY <2>1, <2>3
<1>7. QueuesInv
  <2>1. DOMAIN queue = Object /\ \A o \in Object : queue[o] = <<>>
    BY DEF Init
  <2>2. <<>> \in Seq(Thread) /\ DOMAIN <<>> = {}
    OBVIOUS
  <2>3. \A o \in Object : queue[o] \in Seq(Thread) /\ DOMAIN queue[o] = {}
    BY <2>1, <2>2
  <2> QED BY <2>1, <2>3 DEF QueuesInv, Distinct
<1>8. AccountInv
  <2>1. DOMAIN hist = {"sent", "got"} /\ hist.sent = 0 /\ hist.got = 0
    BY DEF Init
  <2> QED BY <1>4, <2>1, FS_EmptySet DEF AccountInv
<1>9. Inv
  BY <1>1, <1>4, <1>5, <1>6, <1>7, <1>8 DEF Inv, TypeInv, Init
<1>10. TakenInv
  BY <1>5 DEF TakenInv, Cleared, Served
<1> QED BY <1>9, <1>10

LEMMA StepKeeps ==
    ASSUME Inv, NEW a \in Actor, Step(a)
    PROVE  Keeps
<1>1. CASE Signal(a) \/ Broadcast(a)
  BY <1>1, CondWakeKeeps DEF Signal, Broadcast
<1>2. CASE Wake(a)
  BY <1>2, WakeKeeps
<1>3. CASE \/ Lock(a) \/ Unlock(a) \/ Add(a) \/ Down(a) \/ Up(a) \/ Futex(a) \/ Store(a) \/ Gate(a)
           \/ Ungate(a) \/ Read(a) \/ Write(a) \/ CloseEnd(a) \/ Flock(a) \/ Trigger(a)
  BY <1>3, CallsKeep
<1> QED BY <1>1, <1>2, <1>3 DEF Step

LEMMA ThreadStepKeeps ==
    ASSUME Inv, NEW t \in Thread, ThreadStep(t)
    PROVE  Keeps
<1>1. CASE Step(t)
  BY <1>1, StepKeeps DEF Actor
<1>2. CASE \/ Join(t) \/ Waitpid(t) \/ SleepOver(t) \/ DownWoke(t) \/ SystemWait(t) \/ FutexWoke(t)
           \/ FutexForReal(t) \/ UnfairForReal(t) \/ RecordLock(t) \/ Semop(t) \/ WaitWoke(t)
  BY <1>2, ThreadCallsKeep
<1>3. CASE Sleep(t) \/ PollFds(t) \/ Kevent(t) \/ Raise(t)
  BY <1>3, BeginningKeeps
<1>4. CASE TakeUp(t) \/ Kill(t) \/ ThreadKill(t) \/ Slay(t) \/ Alarm(t)
  BY <1>4, TakeUpKeeps, KillKeeps, ThreadSignalKeeps, SlayKeeps
<1>5. CASE Wait(t) \/ WaitUnlocks(t) \/ LookForSignal(t) \/ WaitEnds(t) \/ Relock(t)
  BY <1>5, WaitKeeps, WaitStagesKeep, LookKeeps, EndKeeps
<1>6. CASE UnfairWait(t) \/ Block(t) \/ Exit(t)
  BY <1>6, YieldKeeps, BlockKeeps, ExitKeeps
<1> QED BY <1>1, <1>2, <1>3, <1>4, <1>5, <1>6 DEF ThreadStep

LEMMA NextKeeps ==
    ASSUME Inv, [Next]_vars
    PROVE  Keeps
<1>1. ASSUME NEW t \in Thread, ThreadStep(t) PROVE Keeps
  BY <1>1, ThreadStepKeeps
<1>2. ASSUME NEW t \in Thread, Preempt(t) PROVE Keeps
  BY <1>2, YieldKeeps
<1>3. ASSUME NEW t \in Thread, Park(t) PROVE Keeps
  BY <1>3, BeginningKeeps
<1>4. ASSUME NEW t \in Thread, StartUp(t) PROVE Keeps
  BY <1>4, WaitStagesKeep
<1>5. ASSUME NEW a \in Outside, Step(a) PROVE Keeps
  BY <1>5, StepKeeps DEF Actor
<1>6. CASE Poll
  BY <1>6, PollKeeps
<1>7. CASE UNCHANGED vars
  <2>1. UNCHANGED <<sc, th, queue, current, at, hist, sig>>
    BY <1>7 DEF vars
  <2>2. Inv'
    <3>1. TypeInv'
      BY <2>1 DEF Inv, TypeInv
    <3>2. BatonInv'
      BY <2>1 DEF Inv, BatonInv
    <3>3. \A t \in Thread : Waiting(t)' = Waiting(t) /\ (Waiting(t) => Call(t)' = Call(t))
      BY <2>1 DEF Waiting, Done, Call, Prog
    <3>4. QueuesInv'
      BY <2>1, <3>3 DEF Inv, QueuesInv
    <3>5. Signaled' = Signaled
      BY <2>1 DEF Signaled
    <3>6. AccountInv'
      BY <2>1, <3>3, <3>5 DEF Inv, AccountInv, Signaled
    <3> QED BY <3>1, <3>2, <3>4, <3>6 DEF Inv
  <2>3. TakenInv' <=> TakenInv
    BY <2>1 DEF TakenInv, Cleared, Served, Able, OnTheWay, Home
  <2> QED BY <2>2, <2>3 DEF Keeps
<1> QED BY <1>1, <1>2, <1>3, <1>4, <1>5, <1>6, <1>7 DEF Next

\* Every signal of a condition variable that found a waiter ends one wait, of
\* any programs: a deadline that races it does not lose it, and no later wait
\* is ended by it (cond_wake, cond_block).
THEOREM SignalsEndOneWait == Spec => []SignalsAccounted
<1>1. Init => Inv
  BY InitHolds
<1>2. Inv /\ [Next]_vars => Inv'
  BY NextKeeps DEF Keeps
<1>3. Inv => SignalsAccounted
  <2> SUFFICES ASSUME Inv PROVE SignalsAccounted
    OBVIOUS
  <2>1. \A t \in Signaled : ~Done(t) /\ Call(t).do = "wait"
    BY DEF Inv, AccountInv, Waiting
  <2>2. {t \in Thread : th[t].signaled /\ ~Done(t) /\ Call(t).do = "wait"} = Signaled
    BY <2>1 DEF Signaled
  <2> QED BY <2>2 DEF Inv, AccountInv, SignalsAccounted
<1> QED BY <1>1, <1>2, <1>3, PTL DEF Spec

\* Every signal posted to a process or a thread is taken once or pending, and
\* while a thread could take it one is on its way to, of any programs without
\* threads that block SIGALRM (post_signal, fire_alarms, take_up_baton,
\* deliver_pending_signals).
THEOREM SignalsAreServed ==
    ASSUME TimersAreHeard
    PROVE  Spec => []SignalsTaken
<1> DEFINE I == Inv /\ TakenInv
<1>1. Init => I
  BY InitHolds
<1>2. I /\ [Next]_vars => I'
  BY NextKeeps DEF Keeps
<1>3. I => SignalsTaken
  <2> SUFFICES ASSUME Inv, TakenInv PROVE SignalsTaken
    OBVIOUS
  <2>1. ASSUME NEW x \in sig.pend, NEW t \in Thread, Home(t) = x[1], <<t, x[2]>> \notin sc.deaf,
               th[t].state # "exited"
        PROVE  \E u \in Thread : /\ Home(u) = x[1] /\ <<u, x[2]>> \notin sc.deaf /\ th[u].state # "exited"
                                 /\ th[u].state = "runnable" \/ th[u].due
    <3>1. PICK u \in Thread : Able(u, x) /\ OnTheWay(th, u)
      BY <2>1 DEF TakenInv, Served, Able
    <3>2. th[u].state # "exited"
      BY <3>1 DEF OnTheWay, Inv, BatonInv
    <3> QED BY <3>1, <3>2 DEF Able, OnTheWay
  <2>2. sig.posted = sig.taken + Cardinality(sig.pend) + Cardinality(sig.mine)
    BY DEF Inv, TypeInv, SignalsTyped
  <2> QED BY <2>1, <2>2 DEF SignalsTaken
<1> QED BY <1>1, <1>2, <1>3, PTL DEF Spec

=============================================================================
