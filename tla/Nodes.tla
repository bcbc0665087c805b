------------------------------- MODULE Nodes --------------------------------
(***************************************************************************)
(* A proxy node (src/core/src/model.rs): what a subscription says of it,   *)
(* what was measured of it, whether it may be published, and the identity  *)
(* by which results and refreshes find it again.                           *)
(*                                                                         *)
(* A node is a record.  Texts, flags and numbers a subscription may leave  *)
(* out are strings here, None when absent; a text may also be empty.  A    *)
(* name is the sequence of its words, for names are prefixed and numbered. *)
(* A flag that is a plain bool (`reality`) is "true" or None.              *)
(***************************************************************************)
EXTENDS Integers, Sequences, FiniteSets, SequencesExt

CONSTANTS
    None,                   \* an Option without a value
    Flags, Codes3, Codes2,  \* the country code a word stands for: flag emoji,
                            \* airports and cities, two-letter codes
    CountryNames            \* <<word, code>> in the order of the table

Types == {"ss", "trojan", "vmess", "vless", "hysteria2", "tuic", "socks5",
          "http", "wireguard", "anytls", "other"}

Options == {"uuid", "aid", "cipher", "flow", "password", "method", "plugin",
            "opts", "obfs", "obfspw", "alpn", "cc", "urm", "uos", "zrtt",
            "up", "down", "network", "tls", "sni", "skip", "path", "host",
            "svc", "fp", "reality", "pbk", "sid", "user"}

\* What every node has.
Always == {"name", "type", "server", "port"}

\* What tests find out; nothing yet of a node that was just parsed.
Untested == [available |-> None, latency |-> None, speed |-> None,
             measured |-> FALSE, country |-> None, unlocked |-> 0]

Fields == Always \cup Options \cup DOMAIN Untested

Given(v) == v # None /\ v # ""

Or(v, default) == IF v = None THEN default ELSE v

SsMethod(p) == LET v == Or(p.method, p.cipher) IN IF Given(v) THEN v ELSE None

\* Flags first, then names, where the order of the table decides, then codes,
\* where the order of the words does; all but flags are sought in the host too.
Coded(words, table) ==
    LET i == SelectInSeq(words, LAMBDA w : w \in DOMAIN table)
    IN IF i = 0 THEN "OTHER" ELSE table[words[i]]
Named(words) ==
    LET i == SelectInSeq(CountryNames, LAMBDA n : Contains(words, n[1]))
    IN IF i = 0 THEN "OTHER" ELSE CountryNames[i][2]
RegionOf(name, server) ==
    LET hay == Append(name, server)
        guesses == <<Coded(name, Flags), Named(hay), Coded(hay, Codes3), Coded(hay, Codes2)>>
        i == SelectInSeq(guesses, LAMBDA g : g # "OTHER")
    IN IF i = 0 THEN "OTHER" ELSE guesses[i]
Region(p) == RegionOf(p.name, p.server)

EffectiveRegion(p) == Or(p.country, Region(p))

-----------------------------------------------------------------------------

IsExportable(p) ==
    CASE p.type = "ss" -> Given(p.password) /\ (Given(p.cipher) \/ Given(p.method))
      [] p.type \in {"trojan", "anytls", "hysteria2"} -> Given(p.password)
      [] p.type = "vmess" -> Given(p.uuid)
      [] p.type = "vless" -> Given(p.uuid) /\ (p.reality = "true" => Given(p.pbk))
      [] p.type = "tuic" -> Given(p.uuid) /\ Given(p.password)
      [] p.type \in {"socks5", "http"} -> TRUE
      [] OTHER -> FALSE

IsUsable(p) == IsExportable(p) /\ p.available # FALSE

\* The options that make two nodes of a type different, None and "" alike ...
IdentifyingTexts(p) ==
    CASE p.type \in {"vmess", "vless", "tuic"} ->
            {"uuid", "network", "sni", "tls", "path", "cipher", "flow",
             "host", "svc", "reality", "alpn"}
            \cup (IF p.reality = "true" THEN {"pbk", "sid"} ELSE {})
      [] p.type = "ss" -> {"password", "plugin", "opts", "alpn"}
      [] p.type = "hysteria2" -> {"password", "sni", "host", "network", "path",
                                  "obfs", "obfspw", "alpn"}
      [] p.type \in {"trojan", "socks5", "http", "anytls"} ->
            {"password", "sni", "host", "network", "path", "alpn"}
      [] OTHER -> {"uuid", "password", "sni", "host", "network", "path", "alpn"}

\* ... and those that count only when they are there.
IdentifyingExtras(p) ==
    CASE p.type = "tuic" -> {"cc", "urm", "uos", "zrtt"}
      [] p.type = "hysteria2" -> {"up", "down"}
      [] OTHER -> {}

Fingerprint(p) ==
    [type |-> p.type, server |-> p.server, port |-> p.port, name |-> p.name,
     texts |-> [k \in IdentifyingTexts(p) |-> Or(p[k], "")],
     aid |-> IF p.type \in {"vmess", "vless", "tuic"} THEN Or(p.aid, "0") ELSE "",
     method |-> IF p.type = "ss" THEN Or(SsMethod(p), "") ELSE "",
     extras |-> [k \in IdentifyingExtras(p) |-> p[k]]]

-----------------------------------------------------------------------------

\* The k-th of the places I in the order in which they precede each other: the
\* one that k - 1 of them precede.
Kth(I, Precedes(_, _), k) == CHOOSE i \in I : Cardinality({j \in I : Precedes(j, i)}) = k - 1

\* The part of a sequence at the places I.
At(s, I) == [k \in 1 .. Cardinality(I) |-> s[Kth(I, LAMBDA j, i : j < i, k)]]
Select(s, Test(_)) == At(s, {i \in DOMAIN s : Test(s[i])})

\* Of the nodes with one fingerprint the first stays.
MergeRefs(nodes) ==
    At(nodes, {i \in DOMAIN nodes :
                  \A j \in 1 .. i - 1 : Fingerprint(nodes[j]) # Fingerprint(nodes[i])})
=============================================================================
