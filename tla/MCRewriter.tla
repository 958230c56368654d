----------------------------- MODULE MCRewriter -----------------------------
(***************************************************************************)
(* Small programs for TLC: every text of three words and a callee, and a   *)
(* few longer ones; a `b' reaches 24 words instead of 32 M.                *)
(***************************************************************************)
EXTENDS Rewriter

Function(at) == [at |-> at, named |-> TRUE, room |-> FALSE]
Room(at)     == [at |-> at, named |-> TRUE, room |-> TRUE]
Table(at)    == [at |-> at, named |-> FALSE, room |-> FALSE]
Program(words, starts, tables, segment) ==
    [words |-> words, starts |-> starts, tables |-> tables, segment |-> segment]
Space(n) == [i \in 1..n |-> Plain("data")]

Instructions(a) ==
    {Jump("b", 0), Jump("cond", 0), Jump("cond", a + 1), Jump("bl", 4), By("blr", "x8"), By("blr", "x30"),
     By("br", "x8"), Word("mem", a, "x8"), By("mrs", "x8"), By("ret", "x30")}
Shorts == {<<p, q, r, Jump("b", 0), Plain("other"), By("ret", "x30")>> :
             p \in Instructions(0), q \in Instructions(1), r \in Instructions(2)}

\* Where the segment is: near; where the first trampolines are in reach of
\* the sites and the callee not of them; and out of reach but for the room
Short == {Program(t, <<Function(0), Function(4)>>, {}, s) : t \in Shorts, s \in {6, 12, 14}}
Roomy(t, n) == Program(t \o Space(n), <<Function(0), Function(4), Room(6)>>, {}, 60)

\* A constant that reads as a branch back, then a call
WithTable == <<Jump("b", 3), Jump("b", 0), Plain("data"), Jump("bl", 5), Jump("b", 0), By("ret", "x30")>>
Loops ==
    {<<Plain("ldxr"), Jump("cond", 4), Plain("stxr"), Jump("cond", 0), Jump("b", 0), By("ret", "x30")>>,
     <<Plain("ldxr"), Plain("other"), Plain("stxr"), Jump("cond", 0), Jump("bl", 5), Jump("b", 0)>>,
     <<Plain("stackaddr"), Word("mem", 1, "sp"), Jump("cond", 0), Word("mem", 3, "x8"), Jump("b", 0), Plain("other")>>,
     <<Word("mem", 0, "sp"), By("mrs", "x8"), Jump("cond", 0), By("br", "x16"), Jump("b", 1), Plain("other")>>,
     WithTable}
\* A call back, to a function that is out of its trampoline's reach
CallBack == <<Jump("b", 4), Plain("other"), By("ret", "x30"), Plain("other"),
              Jump("bl", 1), Word("mem", 5, "x8"), Jump("cond", 4), Jump("b", 4)>>
Others ==
    {Program(CallBack, <<Function(0), Function(4)>>, {}, s) : s \in {10, 14, 15, 16}} \cup
    {Program(t, <<Function(0)>>, {}, s) : t \in Loops, s \in {6, 12, 14}}
    \cup {Program(t \o Space(n), <<Function(0), Room(6)>>, {}, 60) : t \in Loops, n \in {14, 20}}
    \cup {Program(WithTable, <<Function(0), Table(1), Function(3)>>, {}, 6),
          Program(WithTable, <<Function(0)>>, {1}, 6)}
AllPrograms == Short \cup Others \cup {Roomy(t, 20) : t \in {x \in Shorts : x[3] = Jump("cond", 0)}}
=============================================================================
