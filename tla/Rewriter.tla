------------------------------ MODULE Rewriter ------------------------------
(***************************************************************************)
(* The rewriter (rewrite.rs) and the code it makes: a program's text is    *)
(* hooked word by word, then the rewritten program runs next to the        *)
(* original.                                                               *)
(*                                                                         *)
(* Addresses are counted in words.  An instruction is what decode says of  *)
(* it: an operation, where it branches to (of a load or store: which one   *)
(* it is) and the register it goes by.  Sequences the stubs always run as  *)
(* one (forming an address, loading a slot) are one word here.             *)
(***************************************************************************)
EXTENDS Integers, Sequences, FiniteSets, SequencesExt

CONSTANTS
    Programs,   \* [words, starts, tables, segment]: see below
    Reach,      \* of a `b', in words
    Quanta,     \* lengths the scheduler gives a quantum
    X8          \* what a register holds that the program branches by

\* words    the text, from address 0
\* starts   the function table: [at, named, room]
\* tables   addresses of data in code
\* segment  where __STUB begins
ASSUME ProgramsAssumption ==
    /\ Reach \in Nat /\ Quanta \subseteq Nat \ {0} /\ X8 \in Nat
    /\ \A p \in Programs : p.segment >= Len(p.words)

Word(op, to, rn) == [op |-> op, to |-> to, rn |-> rn]
Plain(op)   == Word(op, 0, "none")
Jump(op, to) == Word(op, to, "none")
By(op, rn)  == Word(op, 0, rn)

----------------------------------------------------------------------------
(***************************************************************************)
(* The function table (function_ranges).                                   *)
(***************************************************************************)
TextEnd(p) == Len(p.words)
EndOf(p, i) == IF i = Len(p.starts) THEN TextEnd(p) ELSE p.starts[i + 1].at
MostlyNamed(p) == Cardinality({i \in DOMAIN p.starts : p.starts[i].named}) * 2 >= Len(p.starts)
Entries(p) == {i \in DOMAIN p.starts : MostlyNamed(p) => p.starts[i].named}
Rooms(p)   == {i \in Entries(p) : p.starts[i].room}
Hookable(p) == {i \in Entries(p) : ~p.starts[i].room}
FunctionOf(p, a) == {i \in Hookable(p) : p.starts[i].at <= a /\ a < EndOf(p, i)}

\* Words of function i that are never touched: an exclusive span, and the
\* branch that tries again.
\* Mutant: the branch that tries again is hooked like any other
ExclusiveSansRetry(p, i) ==
    LET at(a) == p.words[a + 1]
        f == p.starts[i].at..EndOf(p, i) - 1
    IN  {a \in f : \/ at(a).op = "stxr"
                   \/ \E l \in f : l <= a /\ at(l).op = "ldxr" /\ \A s \in l..a - 1 : at(s).op # "stxr"}
Exclusive(p, i) ==
    LET at(a) == p.words[a + 1]
        f == p.starts[i].at..EndOf(p, i) - 1
    IN  {a \in f : \/ at(a).op = "stxr"
                   \/ \E l \in f : l <= a /\ at(l).op = "ldxr" /\ \A s \in l..a - 1 : at(s).op # "stxr"
                   \/ a - 1 \in f /\ at(a - 1).op = "stxr" /\ at(a).op = "cond" /\ at(a).to <= a - 1}
Tainted(p, i) == \E a \in p.starts[i].at..EndOf(p, i) - 1 : p.words[a + 1].op = "stackaddr"

----------------------------------------------------------------------------
(***************************************************************************)
(* State.  While it rewrites: the word that is next, the areas (segment    *)
(* first, then the rooms), the patches and the sites.  Then the CPU of the *)
(* rewritten program and that of the original, what decides the next       *)
(* condition and whether a quantum is out, and what is observed:           *)
(*   hooks   counted, less what they were counted for                      *)
(*   told    the site the scheduler was last told of                       *)
(*   try     the exclusive load that is open in the original's run         *)
(***************************************************************************)
VARIABLES program, next, areas, patches, sites, cpu, was, flag, left, hooks, told, try
vars    == <<program, next, areas, patches, sites, cpu, was, flag, left, hooks, told, try>>
runVars == <<cpu, was, flag, left, hooks, told, try>>
Nowhere == -1

\* Relative to `at' = where it is; only its branch has an address
CommonLen == 9
Common(at) ==
    <<Plain("push01"), Plain("count"), Jump("ifout", at + 5), Plain("pop01"), By("br", "x30"),
      Plain("push30"), Plain("yield"), Plain("pop30"), Jump("b", at + 3)>>

InReach(from, to) == -Reach <= to - from /\ to - from < Reach
Failed == <<>>

----------------------------------------------------------------------------
(***************************************************************************)
(* Trampolines.  What stub_or_far writes at `pc' of an area whose shared   *)
(* body is at `common', or Failed.                                         *)
(***************************************************************************)
\* Mutant: any branch that is too far may go by x16
TailOfByIsland(pc, tail, site) ==
    CASE tail.kind = "jump"     -> IF InReach(pc, tail.to) THEN <<Jump("b", tail.to)>>
                                   ELSE <<Jump("adr16", tail.to), By("br", "x16")>>
      [] tail.kind = "indirect" -> <<By("br", tail.rn)>>
      [] tail.kind = "replay"   -> IF InReach(pc + 1, site + 1) THEN <<tail.word, Jump("b", site + 1)>>
                                   ELSE Failed
TailOf(pc, tail, site) ==
    CASE tail.kind = "jump"     -> IF InReach(pc, tail.to) THEN <<Jump("b", tail.to)>>
                                   ELSE IF ~tail.island THEN Failed
                                   ELSE <<Jump("adr16", tail.to), By("br", "x16")>>
      [] tail.kind = "indirect" -> <<By("br", tail.rn)>>
      [] tail.kind = "replay"   -> IF InReach(pc + 1, site + 1) THEN <<tail.word, Jump("b", site + 1)>>
                                   ELSE Failed

StubOrFar(pc, common, site, guarded, tail) ==
    LET g    == IF guarded THEN 1 ELSE 0
        end  == TailOf(pc + g + 3, tail, site)
        past == pc + g + 3 + Len(end)
    IN  IF ~InReach(site, pc) \/ ~InReach(pc + g + 1, common) \/ end = Failed
             \/ (guarded /\ ~InReach(past, site + 1))
        THEN [code |-> Failed, yield |-> Nowhere]
        ELSE [code  |-> (IF guarded THEN <<Jump("unless", past)>> ELSE <<>>)
                        \o <<Plain("push30"), Jump("bl", common), Plain("pop30")>> \o end
                        \o (IF guarded THEN <<Jump("b", site + 1)>> ELSE <<>>),
              yield |-> pc + g + 2]

CounterStub(pc, site, rt) ==
    IF ~InReach(site, pc) \/ ~InReach(pc + 5, site + 1) THEN [code |-> Failed, yield |-> Nowhere]
    ELSE [code  |-> <<Plain("push30"), Plain("push01"), Plain("ask"), By("data", rt), Plain("pop30"),
                      Jump("b", site + 1)>>,
          yield |-> pc + 3]

\* What the hook of a word is: how the site gets there, and what follows
JumpTo(to, island) == [kind |-> "jump", to |-> to, island |-> island, rn |-> "none", word |-> Plain("none")]
Indirect(rn) == [JumpTo(0, FALSE) EXCEPT !.kind = "indirect", !.rn = rn]
Replay(word) == [JumpTo(0, FALSE) EXCEPT !.kind = "replay", !.word = word]
NoHook == [kind |-> "none", call |-> FALSE, guarded |-> FALSE, tail |-> JumpTo(0, FALSE)]
Hook(kind, call, guarded, tail) == [kind |-> kind, call |-> call, guarded |-> guarded, tail |-> tail]

HookFor(p, i, a) ==
    LET w == p.words[a + 1] IN
    IF a \in p.tables \cup Exclusive(p, i) THEN NoHook
    ELSE CASE w.op = "b" /\ w.to <= a      -> Hook("branch", FALSE, FALSE, JumpTo(w.to, FALSE))
           [] w.op = "bl"                  -> Hook("call", TRUE, FALSE, JumpTo(w.to, TRUE))
           [] w.op = "blr" /\ w.rn # "x30" -> Hook("call", TRUE, FALSE, Indirect(w.rn))
           [] w.op = "br"                  -> Hook("branch", FALSE, FALSE, Indirect(w.rn))
           [] w.op = "cond" /\ w.to <= a   -> Hook("branch", FALSE, TRUE, JumpTo(w.to, FALSE))
           [] w.op = "mrs" /\ w.rn # "x30" -> Hook("counter", FALSE, FALSE, Indirect(w.rn))
           [] w.op = "mem" /\ (w.rn # "sp" \/ Tainted(p, i)) -> Hook("mem", FALSE, FALSE, Replay(w))
           [] OTHER                        -> NoHook

\* The trampoline of a hook at the end of an area
StubIn(area, a, h) ==
    LET pc == area.base + Len(area.code) IN
    IF h.kind = "counter" THEN CounterStub(pc, a, h.tail.rn)
    ELSE StubOrFar(pc, area.base, a, h.guarded, h.tail)
Fits(area, a, h) ==
    LET s == StubIn(area, a, h) IN
    s.code # Failed /\ (area.cap = Nowhere \/ Len(area.code) + Len(s.code) <= area.cap)
FirstFitting(a, h) ==
    LET ok == {k \in DOMAIN areas : Fits(areas[k], a, h)}
    IN  IF ok = {} THEN Nowhere ELSE CHOOSE k \in ok : \A j \in ok : k <= j

PatchSite(a, h, k) ==
    LET area == areas[k]
        s    == StubIn(area, a, h)
    IN  /\ patches' = [x \in DOMAIN patches \cup {a} |->
                         IF x # a THEN patches[x]
                         ELSE Jump(IF h.call THEN "bl" ELSE "b", area.base + Len(area.code))]
        /\ areas' = [areas EXCEPT ![k].code = @ \o s.code]
        /\ sites' = sites \cup {[at |-> s.yield, addr |-> a, kind |-> h.kind]}

\* One word of the text.  Whether a load or store is hooked is drawn.
RewriteWord ==
    /\ next < TextEnd(program)
    /\ LET fs == FunctionOf(program, next)
           h  == IF fs = {} THEN NoHook ELSE HookFor(program, CHOOSE i \in fs : TRUE, next)
           k  == IF h = NoHook THEN Nowhere ELSE FirstFitting(next, h)
       IN  \/ k # Nowhere /\ PatchSite(next, h, k)
           \/ (k = Nowhere \/ h.kind = "mem") /\ UNCHANGED <<areas, patches, sites>>
    /\ next' = next + 1
    /\ UNCHANGED <<program, runVars>>

----------------------------------------------------------------------------
(***************************************************************************)
(* What the instructions do.  A CPU has its pc, the link register, the     *)
(* linker's scratch register x16, x0, the stack below the program's own,   *)
(* the last load or store it made and the last counter register it read.   *)
(***************************************************************************)
Cpu(pc, x30, x16) ==
    [pc |-> pc, x30 |-> x30, x16 |-> x16, x0 |-> "own", stack |-> <<>>, mem |-> Nowhere, read |-> "none"]
Reg(c, rn) == CASE rn = "x30" -> c.x30 [] rn = "x16" -> c.x16 [] OTHER -> X8
On(c)      == [c EXCEPT !.pc = @ + 1]
Push(c, v) == [On(c) EXCEPT !.stack = <<v>> \o @]
Popped(c)  == [On(c) EXCEPT !.stack = SubSeq(@, 2, Len(@))]

\* The program's instructions; `taken' is what the flags or registers say
\* of a condition
Runs(w, c, taken) ==
    CASE w.op = "b"    -> [c EXCEPT !.pc = w.to]
      [] w.op = "bl"   -> [c EXCEPT !.pc = w.to, !.x30 = c.pc + 1]
      [] w.op = "blr"  -> [c EXCEPT !.pc = Reg(c, w.rn), !.x30 = c.pc + 1]
      [] w.op \in {"br", "ret"} -> [c EXCEPT !.pc = Reg(c, w.rn)]
      [] w.op = "cond" -> IF taken THEN [c EXCEPT !.pc = w.to] ELSE On(c)
      [] w.op = "mem"  -> [On(c) EXCEPT !.mem = w.to]
      [] w.op = "mrs"  -> [On(c) EXCEPT !.read = w.rn]
      [] OTHER         -> On(c)

\* The scheduler's entry keeps every register but its own: x0 held the slot,
\* and the call to it writes x30
Yielded(c) == [On(c) EXCEPT !.x0 = "slot", !.x30 = c.pc + 1]

\* Those of the stubs besides
Stubs(w, c, taken, out) ==
    CASE w.op = "unless" -> IF taken THEN On(c) ELSE [c EXCEPT !.pc = w.to]
      [] w.op = "push30" -> Push(c, c.x30)
      [] w.op = "pop30"  -> [Popped(c) EXCEPT !.x30 = c.stack[1]]
      [] w.op = "push01" -> Push(c, c.x0)
      [] w.op = "pop01"  -> [Popped(c) EXCEPT !.x0 = c.stack[1]]
      [] w.op = "count"  -> [On(c) EXCEPT !.x0 = "base"]
      [] w.op = "ifout"  -> IF out THEN [c EXCEPT !.pc = w.to] ELSE On(c)
      [] w.op = "yield"  -> Yielded(c)
      [] w.op = "adr16"  -> [On(c) EXCEPT !.x16 = w.to]
      [] OTHER           -> Runs(w, c, taken)

AreaAt(a) == {k \in DOMAIN areas : areas[k].base <= a /\ a < areas[k].base + Len(areas[k].code)}
InStub(a) == AreaAt(a) # {}
Fetch(a) ==
    IF InStub(a) THEN LET k == CHOOSE j \in AreaAt(a) : TRUE IN areas[k].code[a - areas[k].base + 1]
    ELSE IF a \in DOMAIN patches THEN patches[a] ELSE program.words[a + 1]
Running == next = TextEnd(program)

\* The supervisor's counter entry pops x0 and x1, writes the register that
\* the word after the call names, and returns past that word
Asked(c) == [Popped(c) EXCEPT !.pc = c.pc + 2, !.x30 = c.pc + 2, !.x0 = c.stack[1],
                              !.read = Fetch(c.pc + 1).rn]

\* An instruction of the original is done: what it was counted for, and
\* whether it belongs to a try of an exclusive store
HookedAt(a) == \E s \in sites : s.addr = a /\ s.kind # "counter"
TakesEffect(w) == w.op = "cond" => flag
NextTry(a, w, to) ==
    IF w.op = "ldxr" THEN a
    ELSE IF \/ to \notin {a + 1, try}
            \/ w.op = "stxr" /\ LET n == program.words[a + 2] IN ~(n.op = "cond" /\ n.to <= a)
            \/ a > 0 /\ program.words[a].op = "stxr" /\ to = a + 1
         THEN Nowhere ELSE try

Execute ==
    /\ Running
    /\ LET w    == Fetch(cpu.pc)
           c    == IF w.op = "ask" THEN Asked(cpu) ELSE Stubs(w, cpu, flag, left = 0)
           done == ~InStub(c.pc)
           o    == program.words[was.pc + 1]
           ow   == Runs(o, was, flag)
       IN  /\ cpu' = c
           /\ was' = IF done THEN (IF o.op \in {"bl", "blr"} THEN [ow EXCEPT !.x16 = Nowhere] ELSE ow) ELSE was
           /\ IF done THEN flag' \in BOOLEAN ELSE UNCHANGED flag
           /\ IF w.op = "yield" THEN left' \in Quanta /\ told' = cpu.stack[1]
              ELSE left' = (IF w.op = "count" THEN left - 1 ELSE left) /\ UNCHANGED told
           /\ hooks' = hooks + (IF w.op = "count" THEN 1 ELSE 0)
                             - (IF done /\ HookedAt(was.pc) /\ TakesEffect(o) THEN 1 ELSE 0)
           /\ try' = IF done THEN NextTry(was.pc, o, ow.pc) ELSE try
    /\ UNCHANGED <<program, next, areas, patches, sites>>

----------------------------------------------------------------------------
AreaFor(base, cap) == [base |-> base, cap |-> cap, code |-> Common(base)]
RoomAreas(p) ==
    LET rooms == SetToSortSeq(Rooms(p), LAMBDA i, j : i < j)
    IN  [k \in DOMAIN rooms |-> AreaFor(p.starts[rooms[k]].at, EndOf(p, rooms[k]) - p.starts[rooms[k]].at)]

Init ==
    /\ program \in Programs
    /\ next = 0
    /\ areas = <<AreaFor(program.segment, Nowhere)>> \o RoomAreas(program)
    /\ patches = [a \in {} |-> Plain("none")]
    /\ sites = {}
    /\ cpu = Cpu(0, 0, X8) /\ was = Cpu(0, 0, X8)
    /\ flag \in BOOLEAN
    /\ left \in Quanta
    /\ hooks = 0 /\ told = Nowhere /\ try = Nowhere

Next == RewriteWord \/ Execute

Spec == Init /\ [][Next]_vars

----------------------------------------------------------------------------
(***************************************************************************)
(* Properties.                                                             *)
(***************************************************************************)
\* The rewritten program does what the original does: whenever it is out of
\* the stubs, it is at the same instruction with the same registers and
\* stack, and has made the same loads, stores and counter reads.  Only x16
\* may differ, and only after a call, as after a linker's branch island
\* (stub_or_far, emit_common, counter_stub).
SameRun ==
    Running /\ ~InStub(cpu.pc) =>
       \/ cpu = was
       \/ was.x16 = Nowhere /\ [cpu EXCEPT !.x16 = Nowhere] = was

\* Hooks are counted for what the program does and not for how a stub or the
\* hardware goes about it: one for every pass over a hooked instruction that
\* takes effect, none while a store-conditional may have to be tried again;
\* and the scheduler is told the site it is about to execute
\* (emit_common, rewrite).
HooksCounted ==
    Running =>
       /\ hooks \in (IF InStub(cpu.pc) THEN {0, 1} ELSE {0})
       /\ try # Nowhere => hooks = 0
       /\ (InStub(cpu.pc) /\ Fetch(cpu.pc).op = "pop30" /\ cpu.x0 = "slot") =>
             \E s \in sites : s.at = told /\ s.addr = was.pc
=============================================================================
