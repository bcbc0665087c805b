----------------------------- MODULE Transform ------------------------------
(***************************************************************************)
(* The pipeline between the stored nodes and an exported document          *)
(* (src/core/src/ops.rs, score.rs): filters, quality thresholds, rename,   *)
(* sort, the selection of the best N, country labels and unique names.     *)
(*                                                                         *)
(* A rule holds the set of values (of names, for a rename) its pattern     *)
(* matches in place of the pattern; `valid` is FALSE for a regex that does *)
(* not compile.  A speed is counted in quarters of 50 Mbit/s.              *)
(***************************************************************************)
EXTENDS Nodes

FieldVal(p, field) ==
    CASE field = "type" -> p.type
      [] field = "region" -> EffectiveRegion(p)
      [] field = "server" -> p.server
      [] OTHER -> p.name

Keep(p, rule) == (FieldVal(p, rule.field) \in rule.matches) # (rule.mode = "exclude")

\* What was never measured cannot be too slow.
GoodEnough(p, t) ==
    /\ t.minBandwidth # None /\ p.speed # None => p.speed >= t.minBandwidth
    /\ t.maxLatency # None /\ p.latency # None => p.latency <= t.maxLatency

Renamed(p, rule) == IF p.name \in rule.matches THEN [p EXCEPT !.name = rule.to] ELSE p

\* score_proxy, in units of 1/4000: 45 for latency, 40 for the square root of
\* the bandwidth, 15 for the services unlocked (counted in halves).
Root(n) == CHOOSE r \in 0..n : r * r <= n /\ n < (r + 1) * (r + 1)
AtMost(n, bound) == IF n < bound THEN n ELSE bound
Score(p) ==
    LET latency == IF p.available = None THEN 500 ELSE Or(p.latency, 2000)
        speed == IF p.measured THEN Or(p.speed, 0) ELSE 0
    IN IF p.available = FALSE THEN 0
       ELSE 90 * (2000 - AtMost(latency, 2000)) + 80000 * Root(AtMost(speed, 4))
                                                + 30000 * p.unlocked

Passes(p, t) == (\A i \in DOMAIN t.filters : Keep(p, t.filters[i])) /\ GoodEnough(p, t)

\* The sequence sorted by a strict order; what it does not tell apart stays as
\* it was (Vec::sort_by is stable).
SortedBy(Before(_, _), s) ==
    [k \in DOMAIN s |->
        s[Kth(DOMAIN s, LAMBDA j, i : Before(s[j], s[i]) \/ (~Before(s[i], s[j]) /\ j < i), k)]]

\* What a column holds; no latency is the largest there is, no speed is 0.
\* (The columns tcplat and httplat are latencies too; names and types are
\* ordered in the same two steps.)
Column(p, key) ==
    CASE key = "latency" -> Or(p.latency, 100000)
      [] key = "speed" -> Or(p.speed, 0)
      [] key = "score" -> Score(p)

\* A dead node goes to the end whatever the column and its direction.
Before(p, q, sort) ==
    IF (p.available = FALSE) # (q.available = FALSE) THEN q.available = FALSE
    ELSE IF sort.desc THEN Column(p, sort.key) > Column(q, sort.key)
                      ELSE Column(p, sort.key) < Column(q, sort.key)

Sorted(nodes, sort) == SortedBy(LAMBDA p, q : Before(p, q, sort), nodes)
BestFirst(nodes) == SortedBy(LAMBDA p, q : Score(p) > Score(q), nodes)

Compiles(t) == /\ \A i \in DOMAIN t.filters : t.filters[i].valid
               /\ t.rename # None => t.rename.valid

Apply(nodes, t) ==
    LET kept == Select(nodes, LAMBDA p : Passes(p, t))
        named == IF t.rename = None THEN kept
                 ELSE [i \in DOMAIN kept |-> Renamed(kept[i], t.rename)]
    IN IF t.sort = None THEN named ELSE Sorted(named, t.sort)

\* Mutant: nodes of one score in the wrong order.
TopNByScoreUnstable(nodes, n) ==
    LET ranked == Reverse(SortedBy(LAMBDA p, q : Score(p) < Score(q), Select(nodes, IsUsable)))
    IN SubSeq(ranked, 1, AtMost(n, Len(ranked)))

\* Mutant: the best N are cut off before the unusable are left out.
TopNByScoreCutFirst(nodes, n) ==
    LET ranked == BestFirst(nodes)
    IN Select(SubSeq(ranked, 1, AtMost(n, Len(ranked))), IsUsable)

\* Only nodes that may be published take a place among the best N.
TopNByScore(nodes, n) ==
    LET ranked == BestFirst(Select(nodes, IsUsable))
    IN SubSeq(ranked, 1, AtMost(n, Len(ranked)))

\* A parameter wins over the setting, zero (no limit) included.
ResolveTopN(param, global) ==
    CASE param = None -> IF global > 0 THEN global ELSE None
      [] param = 0 -> None
      [] OTHER -> param

-----------------------------------------------------------------------------

\* The n-th node of a name: "A", "A #2", "A #3" ...
Numbered(name, n) == Append(name, "#" \o ToString(n))

\* The first with a name keeps it; a later one takes the first number that
\* makes its name one nobody has had so far.
AppendUnique(done, p) ==
    LET used == {done[i].name : i \in DOMAIN done}
        free == {n \in 2 .. Len(done) + 2 : Numbered(p.name, n) \notin used}
    IN  Append(done, IF p.name \notin used THEN p
                     ELSE [p EXCEPT !.name = Numbered(@, Min(free))])

EnsureUniqueNames(nodes) ==
    LET done[k \in 0 .. Len(nodes)] ==
          IF k = 0 THEN <<>> ELSE AppendUnique(done[k - 1], nodes[k])
    IN  done[Len(nodes)]

\* Mutant: a label for every node whose country is known.
RegionFixupAlways(nodes) ==
    EnsureUniqueNames([i \in DOMAIN nodes |->
        IF nodes[i].country # None
        THEN [nodes[i] EXCEPT !.name = <<nodes[i].country>> \o @]
        ELSE nodes[i]])

\* A node whose name says nothing of a country is labelled with the one measured.
RegionFixup(nodes) ==
    EnsureUniqueNames([i \in DOMAIN nodes |->
        IF Region(nodes[i]) = "OTHER" /\ nodes[i].country # None
        THEN [nodes[i] EXCEPT !.name = <<nodes[i].country>> \o @]
        ELSE nodes[i]])
=============================================================================
