------------------------------ MODULE Publish -------------------------------
(***************************************************************************)
(* Nodes on their way through hubs: fetched from somebody's document,      *)
(* measured, published in one of the formats under a request (/sub,        *)
(* /api/merge/export, the gist), and read again by the next hub - or by    *)
(* the same one - which measures and publishes them in turn.               *)
(*                                                                         *)
(* `nodes` are the nodes of the subscriptions the request names, in order. *)
(* `doc` is the document that is followed: it is a value, which neither    *)
(* later tests nor other answers of its hub change, so its hub does        *)
(* nothing more until it is read.                                          *)
(***************************************************************************)
EXTENDS Formats

CONSTANTS
    Sources,    \* documents of others: [format, entries]
    Verdicts,   \* what a speed test may find out of a node
    Countries,  \* countries the exit probe may report
    Unlocks,    \* how many halves of the services a node may unlock
    Requests,   \* [t, top, global, format]
    MaxHops,    \* bound: documents read
    MaxRuns     \* bound: runs of tests and probes

\* What the pipeline, the exporters and the parsers are defined on.
IsListOf(s, Holds(_)) == /\ s \in Seq({s[i] : i \in DOMAIN s})
                         /\ \A i \in DOMAIN s : Holds(s[i])

IsEntry(e) == /\ e = [k \in DOMAIN e |-> e[k]] /\ Always \subseteq DOMAIN e
              /\ e.name \in Seq(STRING) /\ e.type \in Types
              /\ \A k \in Options \cap DOMAIN e : e[k] \in STRING

\* Options that are true or false, where they are given.
Switches == {"tls", "skip", "uos", "zrtt", "reality"}

IsVerdict(v) == /\ v = [available |-> v.available, latency |-> v.latency,
                        speed |-> v.speed, measured |-> v.measured]
                /\ v.available \in BOOLEAN /\ v.measured \in BOOLEAN
                /\ v.latency \in Nat \cup {None} /\ v.speed \in Nat \cup {None}

IsNode(p) == /\ p = [k \in Fields |-> p[k]]
             /\ p.name \in Seq(STRING) /\ p.type \in Types
             /\ \A k \in Options : p[k] \in STRING \cup {None}
             /\ p.available \in BOOLEAN \cup {None} /\ p.measured \in BOOLEAN
             /\ p.latency \in Nat \cup {None} /\ p.speed \in Nat \cup {None}
             /\ p.country \in Countries \cup {None} /\ p.unlocked \in Nat

DocFormats == {"clash", "base64", "sing-box", "v2ray", "surge", "links"}

IsRequest(r) ==
    /\ r.format \in DocFormats \ {"links"}
    /\ r.global \in Nat /\ r.top \in Nat \cup {None}
    /\ r.t # None =>
          /\ r.t.rename # None => r.t.rename.to \in Seq(STRING)
          /\ r.t.sort # None => r.t.sort.key \in {"latency", "speed", "score"}

\* The words the exporters and parsers know a node's options by, or write where
\* it says nothing.
Words == {"", "true", "false", "0", "auto", "chrome", "aes-128-gcm", "aes-256-gcm",
          "tcp", "ws", "grpc", "h2", "http",
          "obfs", "obfs-local", "simple-obfs", "spelt", "sip", "clash", "A_B"}

ASSUME PublishAssumption ==
    /\ MaxHops \in Nat /\ MaxRuns \in Nat
    /\ None \notin STRING \cup Nat \cup Requests \cup {[key |-> "score", desc |-> TRUE]}
    /\ Countries \subseteq STRING /\ Unlocks \subseteq Nat
    /\ Words \subseteq STRING
    /\ \A d \in Sources :
          /\ d.format \in DocFormats /\ IsListOf(d.entries, IsEntry)
          /\ \A i \in DOMAIN d.entries : \A k \in Switches \cap DOMAIN d.entries[i] :
                d.entries[i][k] \in {"true", "false"}
    /\ \A v \in Verdicts : IsVerdict(v)
    /\ \A r \in Requests : IsRequest(r)

VARIABLES
    nodes,  \* what the hub holds
    via,    \* the format of the hub's document its nodes were read from; "foreign"
            \* when somebody else wrote it, None while it has none
    doc,    \* the document handed out: [format, entries, count], or None
    asked,  \* the request it answers (history)
    sent,   \* the nodes it was written from (history)
    hops,   \* documents read so far
    runs    \* runs so far

vars == <<nodes, via, doc, asked, sent, hops, runs>>

Init == /\ nodes = <<>> /\ via = None /\ doc = None /\ asked = None /\ sent = <<>>
        /\ hops = 0 /\ runs = 0

Fetch(d) ==
    /\ via = None
    /\ nodes' = Parse(d.format, d.entries)
    /\ via' = "foreign"
    /\ UNCHANGED <<doc, asked, sent, hops, runs>>

Identities == {Fingerprint(nodes[i]) : i \in DOMAIN nodes}

MeasuringRun == /\ doc = None /\ runs < MaxRuns
                /\ nodes # <<>>
                /\ runs' = runs + 1
                /\ UNCHANGED <<via, doc, asked, sent, hops>>

Measured(p, result) == [k \in Fields |-> IF k \in DOMAIN result THEN result[k] ELSE p[k]]

\* persist_results: a result goes to every node with its fingerprint.
SpeedTest ==
    /\ MeasuringRun
    /\ \E found \in [Identities -> Verdicts] :
          nodes' = [i \in DOMAIN nodes |-> Measured(nodes[i], found[Fingerprint(nodes[i])])]

\* geo_detect: a probe that finds nothing clears the country, and without an
\* engine no probe finds anything.
GeoDetect ==
    /\ MeasuringRun
    /\ \E found \in [Identities -> Countries \cup {None}] :
          nodes' = [i \in DOMAIN nodes |->
                      [nodes[i] EXCEPT !.country = found[Fingerprint(nodes[i])]]]

UnlockDetect ==
    /\ MeasuringRun
    /\ \E found \in [Identities -> Unlocks] :
          nodes' = [i \in DOMAIN nodes |->
                      [nodes[i] EXCEPT !.unlocked = found[Fingerprint(nodes[i])]]]

\* From the stored nodes to those a document is written from.
Selected(r) ==
    LET base == MergeRefs(nodes)
        list == IF r.t = None THEN base ELSE Apply(base, r.t)
        n == ResolveTopN(r.top, r.global)
    IN RegionFixup(IF n = None THEN list ELSE TopNByScore(list, n))

\* A pattern that does not compile is answered with 400, and nothing changes.
Answer(r) ==
    /\ via # None /\ doc = None /\ hops < MaxHops
    /\ r.t # None => Compiles(r.t)
    /\ sent' = Selected(r)
    /\ doc' = [format |-> r.format, entries |-> ExportStr(sent', r.format),
               count |-> Len(ExportFilter(sent'))]
    /\ asked' = r
    /\ UNCHANGED <<nodes, via, hops, runs>>

ReadBack ==
    /\ doc # None
    /\ nodes' = Parse(doc.format, doc.entries)
    /\ via' = doc.format /\ hops' = hops + 1
    /\ doc' = None /\ asked' = None /\ sent' = <<>>
    /\ UNCHANGED runs

Next == \/ \E d \in Sources : Fetch(d)
        \/ SpeedTest \/ GeoDetect \/ UnlockDetect
        \/ \E r \in Requests : Answer(r)
        \/ ReadBack

Spec == Init /\ [][Next]_vars

TypeOK ==
    /\ IsListOf(nodes, IsNode) /\ IsListOf(sent, IsNode)
    /\ via \in DocFormats \cup {"foreign", None}
    /\ hops \in 0 .. MaxHops /\ runs \in 0 .. MaxRuns
    /\ IF asked = None THEN doc = None /\ sent = <<>>
       ELSE /\ asked \in Requests /\ hops < MaxHops
            /\ doc = [format |-> asked.format, entries |-> doc.entries, count |-> doc.count]
            /\ IsListOf(doc.entries, IsEntry) /\ doc.count \in Nat

-----------------------------------------------------------------------------
(* Properties *)

\* No document names two nodes alike, though names collide in the source, are
\* made equal by a rename, by a label or by what Surge allows in a line: a
\* client rejects the whole profile (ensure_unique_names, to_surge).
NamesDistinct ==
    doc # None => \A i, j \in DOMAIN doc.entries :
                     doc.entries[i].name = doc.entries[j].name => i = j

\* The best N of an export are the first N of the list sorted by score, dead
\* and unusable nodes aside: the two rankings "can never disagree" (score.rs).
ScoreAgrees ==
    LET all == MergeRefs(nodes)
        byScore == [filters |-> <<>>, minBandwidth |-> None, maxLatency |-> None,
                    rename |-> None, sort |-> [key |-> "score", desc |-> TRUE]]
        sorted == Select(Apply(all, byScore), IsUsable)
    IN \A n \in 0..Len(nodes) : TopNByScore(all, n) = SubSeq(sorted, 1, AtMost(n, Len(sorted)))

\* The identities of the usable nodes a request lets through.
Wanted(r) ==
    {Fingerprint(nodes[i]) : i \in {i \in DOMAIN nodes :
        IsUsable(nodes[i]) /\ (r.t # None => Passes(nodes[i], r.t))}}

\* As many nodes are announced as are wanted, and N of them when N are asked
\* for and there are as many: neither duplicates nor dead or unusable nodes
\* take a place.  clash documents hold all of them (the other formats leave out
\* what they cannot express, after the count).
CountIsWanted ==
    doc # None =>
        LET n == ResolveTopN(asked.top, asked.global)
            all == Cardinality(Wanted(asked))
        IN /\ doc.count = IF n = None THEN all ELSE AtMost(n, all)
           /\ doc.format \in {"clash", "base64"} => doc.count = Len(doc.entries)

\* However many hubs a node goes through and whatever country each of them
\* measures, its name gets one country code put in front (region_fixup), and
\* none if it names a country in another way.
LabelledOnce ==
    doc # None => \A i \in DOMAIN doc.entries :
        LET name == doc.entries[i].name
            labels == {k \in DOMAIN name : name[k] \in DOMAIN Codes2}
        IN /\ Cardinality(labels) <= 1
           /\ Coded(name, Flags) # "OTHER" \/ Named(name) # "OTHER" => labels = {}

\* The k-th entry of a document and the node it is read back as.
Trip(Kept(_, _)) ==
    ReadBack /\ doc.format # "surge" =>
        LET written == Written(sent, doc.format)
        IN /\ Len(nodes') = Len(written)
           /\ \A k \in DOMAIN written : Kept(written[k], nodes'[k])

Same(p, q, keys) == \A k \in keys : Or(p[k], "") = Or(q[k], "")

\* A node whose type the reader does not know comes back as `other`.
TypeUnknown(format, type) == <<format, type>> \in
    {<<"clash", "anytls">>, <<"base64", "anytls">>, <<"sing-box", "http">>}

Credentials(p) == CASE p.type \in {"vmess", "vless"} -> {"uuid"}
                    [] p.type = "tuic" -> {"uuid", "password"}
                    [] OTHER -> {"password"}

SameIdentity(p, q) ==
    /\ q.name = p.name /\ q.server = p.server /\ q.port = p.port
    /\ q.type = IF TypeUnknown(doc.format, p.type) THEN "other" ELSE p.type
    /\ SsMethod(q) = SsMethod(p) \/ p.type # "ss"
    /\ Same(p, q, Credentials(p))

\* Read back, a node is at its place in the list, at its address, with its
\* name, its type and what it authenticates with, save the user name of socks5 and http.
IdentityKept == [][Trip(SameIdentity)]_vars

Transport(p) == CASE p.network \in {None, "", "tcp"} -> "tcp"
                  [] p.network \in {"h2", "http"} -> "h2"
                  [] OTHER -> p.network

\* sing-box has no such transport, or the node lacks its service name.
NoTransport(p) == p.network \notin {None, "", "tcp", "ws", "h2", "http"}
                  /\ (p.network = "grpc" => p.svc = None)

SameConnection(p, q) ==
    p.type \in {"vmess", "vless", "trojan"} =>
        /\ p.tls = "true" => q.tls = "true" /\ Same(p, q, {"sni"})
        /\ q.tls = "true" => p.tls = "true" \/ p.type = "trojan"
        /\ p.reality = "true" /\ p.type = "vless" => q.reality = "true" /\ Same(p, q, {"pbk", "sid"})
        /\ \/ /\ Transport(q) = Transport(p)
              /\ Transport(p) \in {"ws", "h2"} => Same(p, q, {"path", "host"})
              /\ Transport(p) = "grpc" => Same(p, q, {"svc"})
           \/ doc.format = "sing-box" /\ NoTransport(p) /\ Transport(q) = "tcp"

\* A node never comes back with less protection than it had, nor with TLS it
\* did not have, nor over another transport - except that sing-box documents
\* silently make plain TCP of a transport they cannot express.  REALITY is what
\* the exporters carry for vless; clash drops it from other types.
ConnectionKept == [][Trip(SameConnection)]_vars

SameFingerprint(p, q) == via = doc.format => Fingerprint(q) = Fingerprint(p)

\* Once read from a hub's document of a format a node keeps its identity through
\* that format: a hub that refreshes a subscription on another hub finds its
\* nodes, and what it measured of them, again (incremental_update matches by
\* fingerprint).  The first document a foreign node goes into may still change
\* it: the exporters spell options their own way.
Settled == [][Trip(SameFingerprint)]_vars
=============================================================================
