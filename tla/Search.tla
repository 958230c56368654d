------------------------------- MODULE Search -------------------------------
(***************************************************************************)
(* The tools that look into a failing seed by running it again:  `derp     *)
(* bisect', which asks when the failure was decided (bisect.rs), and `derp *)
(* suspects', which asks which switches it needs (suspects.rs).            *)
(*                                                                         *)
(* A run is the same run whenever it is made, so what one was is           *)
(* remembered: runs nobody has made yet may come out either way.  How many *)
(* of a probe's futures fail is any number.                                *)
(***************************************************************************)
EXTENDS Integers, Sequences, FiniteSets, SequencesExt

CONSTANTS
    Failures,     \* times at which the reference run may fail
    Resolutions,  \* asked of bisect
    Futures,      \* per probe, asked of bisect
    MaxSites      \* bound on candidates (model)

ASSUME SearchAssumption ==
    /\ Failures \subseteq Nat /\ Resolutions \subseteq Nat \ {0}
    /\ Futures \subseteq Nat /\ MaxSites \in Nat

(***************************************************************************)
(* State.                                                                  *)
(*                                                                         *)
(*   tool      how far the tool is, and the sites suspects asks about      *)
(*   want      what bisect was asked: when the reference failed, the       *)
(*             resolution and the futures per probe                        *)
(*   span      bisect's interval, the futures a probe has and how many of  *)
(*             them decide it                                              *)
(*   probed    the probes made: at, round, and whether decided             *)
(*   runs      by the sites at which a switch was allowed: whether the run *)
(*             failed like the reference                                   *)
(*   current, parts   the sites ddmin is at, in how many parts it cuts     *)
(*             them                                                        *)
(***************************************************************************)
VARIABLES tool, want, span, probed, runs, current, parts
vars == <<tool, want, span, probed, runs, current, parts>>
bisectVars   == <<want, span, probed>>
suspectsVars == <<runs, current, parts>>

At(at)   == tool.at = at
Goes(at) == tool' = [tool EXCEPT !.at = at]
CeilHalf(n) == (n + 1) \div 2

----------------------------------------------------------------------------
(***************************************************************************)
(* bisect.                                                                 *)
(***************************************************************************)
\* A failure at 0 stands for a reference run that does not fail
Asked == want.futures > 0 /\ want.failure > 2 * want.resolution

\* The base rate: what any run does, reseeded at the start.  The nearer it is
\* to certainty the more futures a probe gets.
PerProbe(failed) == want.futures * (CASE (failed * 4) \div want.futures = 0 -> 1
                                      [] (failed * 4) \div want.futures = 1 -> 2
                                      [] OTHER -> 4)
TooLikely(failed) == failed * 5 >= want.futures * 4
Threshold(base, n) == CeilHalf(base + n)
MeasureBase ==
    /\ At("bisect")
    /\ IF ~Asked THEN Goes("error") /\ UNCHANGED span
       ELSE \E failed \in 0..want.futures :
              IF TooLikely(failed) THEN Goes("error") /\ UNCHANGED span
              ELSE /\ Goes("last")
                   /\ LET n == PerProbe(failed) IN
                      span' = [span EXCEPT !.n = n, !.base = (failed * n) \div want.futures,
                                           !.threshold = Threshold((failed * n) \div want.futures, n)]
    /\ UNCHANGED <<want, probed, suspectsVars>>

Outcomes == {k >= span.threshold : k \in 0..span.n}
Probes(at, round, d) == probed' = probed \cup {[at |-> at, round |-> round, decided |-> d]}

\* Is it decided at all before the process dies?
LastMoment == want.failure - want.resolution
ProbeLast ==
    /\ At("last")
    /\ \E d \in Outcomes :
         /\ Probes(LastMoment, 0, d)
         /\ span' = IF d THEN [span EXCEPT !.lo = 0, !.hi = LastMoment, !.hiProbed = TRUE]
                         ELSE [span EXCEPT !.lo = LastMoment, !.hi = want.failure]
    /\ Goes("halving")
    /\ UNCHANGED <<want, suspectsVars>>

Narrow == span.hi - span.lo <= want.resolution
Middle == span.lo + (span.hi - span.lo) \div 2
Halve ==
    /\ At("halving") /\ ~Narrow
    /\ \E d \in Outcomes :
         /\ Probes(Middle, 0, d)
         /\ span' = IF d THEN [span EXCEPT !.hi = Middle, !.hiProbed = TRUE]
                         ELSE [span EXCEPT !.lo = Middle]
    /\ UNCHANGED <<tool, want, suspectsVars>>

\* Both ends again, with futures not used before; the start and the death of
\* the process are no measurements
Ends == (IF span.lo = 0 THEN {} ELSE {span.lo}) \cup (IF span.hiProbed THEN {span.hi} ELSE {})
Remeasure ==
    /\ At("halving") /\ Narrow
    /\ \E again \in [Ends -> Outcomes] :
         /\ probed' = probed \cup {[at |-> e, round |-> 1, decided |-> again[e]] : e \in Ends}
         /\ span' = [span EXCEPT !.unsure = \E e \in Ends : again[e] # (e = span.hi)]
    /\ Goes("found")
    /\ UNCHANGED <<want, suspectsVars>>

----------------------------------------------------------------------------
(***************************************************************************)
(* suspects.  First of the loads and stores at which the run switched,     *)
(* then of the branches and calls in the run that has none of those.       *)
(***************************************************************************)
Site == 1..MaxSites

\* Runs with the given sets allowed, in the order of the sets
Made(rs, sets) ==
    {[s \in DOMAIN rs \cup sets |-> IF s \in DOMAIN rs THEN rs[s] ELSE new[s]] :
        new \in [sets \ DOMAIN rs -> BOOLEAN]}

\* The traced run: candidates are the sites at which it switched, in order of
\* first appearance.  No seed that fails, or two programs of one name: an error
Trace ==
    /\ At("trace")
    /\ \/ \E k \in 0..MaxSites :
            /\ current' = [i \in 1..k |-> i]
            /\ runs' = [s \in {1..k} |-> TRUE]
            /\ Goes("check")
       \/ tool.sites = "memory" /\ Goes("error") /\ UNCHANGED <<runs, current>>
    /\ UNCHANGED <<bisectVars, parts>>

\* Allowed exactly where it switched, the run must be the traced run, and
\* allowed nowhere another: if not, an error.  One that fails with no switch
\* at a load or store is asked of the branches and calls.
Check ==
    /\ At("check")
    /\ \/ Goes("error") /\ UNCHANGED suspectsVars
       \/ \E rs \in Made(runs, {{}}) :
            /\ runs' = rs
            /\ \/ ~rs[{}] /\ Goes("ddmin") /\ parts' = 2 /\ UNCHANGED current
               \/ /\ rs[{}] /\ tool.sites = "memory"
                  /\ tool' = [at |-> "trace", sites |-> "others"]
                  /\ UNCHANGED <<current, parts>>
               \/ /\ rs[{}] /\ tool.sites = "others"
                  /\ Goes("minimal") /\ current' = <<>> /\ UNCHANGED parts
    /\ UNCHANGED bisectVars

\* Zeller's ddmin: the parts, or what is left without one of them
Chunk(len, n) == (len + n - 1) \div n
Parts(s, n) ==
    LET c == Chunk(Len(s), n)
    IN  [i \in 1..Chunk(Len(s), c) |-> SubSeq(s, (i - 1) * c + 1, IF i * c > Len(s) THEN Len(s) ELSE i * c)]
Without(s, n, i) ==
    LET c == Chunk(Len(s), n)
    IN  SubSeq(s, 1, (i - 1) * c) \o SubSeq(s, i * c + 1, Len(s))
Allowed(s) == Range(s)

FirstFailing(rs, ss) ==
    LET bad == {i \in DOMAIN ss : rs[Allowed(ss[i])]}
    IN  IF bad = {} THEN 0 ELSE CHOOSE i \in bad : \A j \in bad : i <= j
\* Mutant: it is over one cut too early
FinestEarly(n, len) == n >= len - 1
Finest(n, len) == n >= len
\* Mutant: it cuts no finer
FinerNot(n, len) == n
Finer(n, len) == IF 2 * n < len THEN 2 * n ELSE len
OneLess(n) == IF n - 1 > 2 THEN n - 1 ELSE 2

Ddmin ==
    /\ At("ddmin") /\ Len(current) >= 2
    /\ LET ps == Parts(current, parts)
           cs == [i \in DOMAIN ps |-> Without(current, parts, i)]
       IN  \E rp \in Made(runs, {Allowed(ps[i]) : i \in DOMAIN ps}) :
             IF FirstFailing(rp, ps) # 0
             THEN /\ current' = ps[FirstFailing(rp, ps)] /\ parts' = 2 /\ runs' = rp
                  /\ UNCHANGED tool
             ELSE \E rc \in Made(rp, IF Len(ps) > 2 THEN {Allowed(cs[i]) : i \in DOMAIN cs} ELSE {}) :
                    /\ runs' = rc
                    /\ IF Len(ps) > 2 /\ FirstFailing(rc, cs) # 0
                       THEN current' = cs[FirstFailing(rc, cs)] /\ parts' = OneLess(parts) /\ UNCHANGED tool
                       ELSE IF Finest(parts, Len(current)) THEN Goes("minimal") /\ UNCHANGED <<current, parts>>
                       ELSE parts' = Finer(parts, Len(current)) /\ UNCHANGED <<current, tool>>
    /\ UNCHANGED bisectVars
DdminSmall ==
    /\ At("ddmin") /\ Len(current) < 2
    /\ Goes("minimal")
    /\ UNCHANGED <<bisectVars, suspectsVars>>

----------------------------------------------------------------------------
Init ==
    /\ \/ /\ tool = [at |-> "bisect", sites |-> "none"]
          /\ want \in [failure : Failures, resolution : Resolutions, futures : Futures]
       \/ /\ tool = [at |-> "trace", sites |-> "memory"]
          /\ want = [failure |-> 0, resolution |-> 1, futures |-> 0]
    /\ span = [lo |-> 0, hi |-> 0, hiProbed |-> FALSE, n |-> 0, base |-> 0, threshold |-> 0, unsure |-> FALSE]
    /\ probed = {}
    /\ runs = [s \in {} |-> TRUE] /\ current = <<>> /\ parts = 2

Over == tool.at \in {"found", "minimal", "error"}
Next ==
    \/ MeasureBase \/ ProbeLast \/ Halve \/ Remeasure
    \/ Trace \/ Check \/ Ddmin \/ DdminSmall
    \/ Over /\ UNCHANGED vars

Spec == Init /\ [][Next]_vars
\* A tool that is not over goes on: it is one sequential program
FairSpec == Spec /\ WF_vars(Next)

----------------------------------------------------------------------------
(***************************************************************************)
(* Properties.                                                             *)
(***************************************************************************)
\* What a tool reports is what it measured.  Bisect's interval is as narrow as
\* was asked, every probe up to its start was open and every one from its end
\* decided, so that a failure decided at one moment was decided in it; and if
\* it is sure, both ends came out so twice.  The set ddmin leaves is enough
\* for the failure, and without any one of its sites the run was made and did
\* not fail (bisect, ddmin, check).
AnswerHolds ==
    /\ At("found") =>
         /\ span.lo < span.hi /\ Narrow /\ span.base < span.threshold
         /\ \A p \in probed : p.round = 0 =>
              IF p.decided THEN p.at >= span.hi ELSE p.at <= span.lo
         /\ ~span.unsure => \A p \in probed : p.decided = (p.at >= span.hi)
    /\ At("minimal") =>
         /\ runs[Allowed(current)]
         /\ \A s \in Allowed(current) :
              Allowed(current) \ {s} \in DOMAIN runs /\ ~runs[Allowed(current) \ {s}]

\* Both searches end, whatever the runs do (bisect, ddmin).
SearchEnds == <>Over
=============================================================================
