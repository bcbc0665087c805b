------------------------------ MODULE Formats -------------------------------
(***************************************************************************)
(* The documents a hub hands out and reads (src/core/src/export.rs,        *)
(* parse.rs): URI lists, clash YAML, sing-box JSON, v2ray JSON, Surge      *)
(* lines.  A document is [format, entries]; an entry is a record with the  *)
(* name, type, server and port of a node and just the options that are     *)
(* written, each under the name it has in the node.                        *)
(***************************************************************************)
EXTENDS Transform

\* insert_opt: a text that is there and not empty.
Filled(p, keys) == [k \in {k \in keys : Given(p[k])} |-> p[k]]

\* `if let Some`: an empty text is written too.
Present(p, keys) == [k \in {k \in keys : p[k] # None} |-> p[k]]

Entry(p, options) ==
    [k \in Always \cup DOMAIN options |-> IF k \in Always THEN p[k] ELSE options[k]]

\* The node of an entry of which a parser reads `keys`.
NodeOf(e, keys) ==
    [k \in Fields |-> CASE k \in Always -> e[k]
                       [] k \in Options -> IF k \in keys \cap DOMAIN e THEN e[k] ELSE None
                       [] OTHER -> Untested[k]]

Secured(p) == p.tls = "true" \/ p.port = 443

-----------------------------------------------------------------------------
(* SIP002 plugins.  The options are abstracted to how they are spelled:    *)
(* "sip" (obfs=..;obfs-host=..), "clash" (mode=..;host=..), "flags" (tls)  *)
(* or "spelt" (tls=true).                                                  *)

PluginName(plugin, obfs) ==
    CASE ~Given(plugin) -> None
      [] plugin \in {"obfs", "obfs-local", "simple-obfs"} -> obfs
      [] OTHER -> plugin

\* Mutant: only options in the SIP002 spelling are understood.
PluginOptsSipOnly(p, obfsStyle) ==
    IF ~Given(p.plugin) \/ ~Given(p.opts) THEN None
    ELSE CASE p.opts = "flags" -> "spelt"
           [] p.opts = "sip" /\ PluginName(p.plugin, "obfs") = "obfs" -> obfsStyle
           [] p.opts = "clash" /\ PluginName(p.plugin, "obfs") = "obfs" -> None
           [] OTHER -> p.opts

PluginOpts(p, obfsStyle) ==
    IF ~Given(p.plugin) \/ ~Given(p.opts) THEN None
    ELSE CASE p.opts = "flags" -> "spelt"
           [] p.opts \in {"sip", "clash"} /\ PluginName(p.plugin, "obfs") = "obfs" -> obfsStyle
           [] OTHER -> p.opts

-----------------------------------------------------------------------------
(* clash and clash-meta *)

ClashOptions ==
    [ss |-> {"cipher", "password", "plugin", "opts"},
     trojan |-> {"password", "sni", "flow", "network", "fp", "alpn", "tls", "skip"},
     vmess |-> {"uuid", "aid", "cipher", "network", "sni", "fp", "alpn", "tls", "skip"},
     vless |-> {"uuid", "flow", "network", "sni", "fp", "alpn", "tls", "skip"},
     hysteria2 |-> {"password", "sni", "obfs", "obfspw", "alpn", "up", "down", "skip"},
     tuic |-> {"uuid", "password", "sni", "alpn", "cc", "urm", "uos", "zrtt"},
     anytls |-> {"password", "sni", "fp", "skip"},
     socks5 |-> {"user", "password", "tls"},
     http |-> {"user", "password", "tls"}]

\* Mutant: path and host are written for WebSocket only.
ClashTransportWs(p) ==
    IF p.type \notin {"trojan", "vmess", "vless"} THEN {}
    ELSE CASE p.network = "ws" -> {"path", "host"}
           [] p.network = "grpc" -> {"svc"}
           [] OTHER -> {}

ClashTransport(p) ==
    IF p.type \notin {"trojan", "vmess", "vless"} THEN {}
    ELSE CASE p.network \in {"ws", "h2", "http"} -> {"path", "host"}
           [] p.network = "grpc" -> {"svc"}
           [] OTHER -> {}

ClashReality(p) ==
    IF p.type = "vless" /\ p.reality = "true" THEN {"reality", "pbk", "sid"} ELSE {}

\* Mutant: the cipher of a node that only has a method is forgotten.
ClashDefaultsCipherOnly(p) ==
    CASE p.type = "vmess" -> [p EXCEPT !.aid = Or(@, "0"), !.tls = Or(@, "false")]
      [] p.type = "ss" -> [p EXCEPT !.plugin = PluginName(@, "obfs"), !.opts = PluginOpts(p, "clash")]
      [] OTHER -> p

\* What the exporter writes where the node says nothing.
ClashDefaults(p) ==
    CASE p.type = "ss" -> [p EXCEPT !.cipher = Or(@, p.method),
                                    !.plugin = PluginName(@, "obfs"),
                                    !.opts = PluginOpts(p, "clash")]
      [] p.type = "trojan" -> [p EXCEPT !.tls = "true"]
      [] p.type = "vmess" -> [p EXCEPT !.aid = Or(@, "0"), !.tls = Or(@, "false")]
      [] p.type = "vless" -> [p EXCEPT !.tls = Or(@, "false"),
                                       !.fp = IF p.reality = "true" THEN Or(@, "chrome") ELSE @]
      [] p.type = "tuic" -> [p EXCEPT !.urm = IF p.uos = "true" THEN None ELSE @]
      [] p.type \in {"socks5", "http"} ->
            [p EXCEPT !.tls = Or(@, IF p.port = 443 THEN "true" ELSE None)]
      [] OTHER -> p

ToClash(p) == Entry(p, Filled(ClashDefaults(p),
                ClashOptions[p.type] \cup ClashTransport(p) \cup ClashReality(p)))

\* The parser knows neither the type anytls nor the key `username`.
FromClash(e) ==
    LET p == NodeOf(e, Options \ {"user"})
        q == [p EXCEPT !.type = IF @ = "anytls" THEN "other" ELSE @]
    IN IF q.reality = "true" THEN [q EXCEPT !.tls = "true"] ELSE q

-----------------------------------------------------------------------------
(* sing-box *)

SingboxOptions ==
    [vmess |-> {"uuid", "cipher", "aid"}, vless |-> {"uuid", "flow"},
     trojan |-> {"password"}, ss |-> {"method", "password", "plugin", "opts"},
     hysteria2 |-> {"password", "obfs", "obfspw", "up", "down"},
     tuic |-> {"uuid", "password", "cc", "urm", "uos", "zrtt"},
     socks5 |-> {"user", "password"}, http |-> {"user", "password"}]

SingboxTransport(p) ==
    IF p.type \notin {"trojan", "vmess", "vless"} THEN {}
    ELSE CASE p.network \in {"ws", "h2", "http"} -> {"network", "path", "host"}
           [] p.network = "grpc" /\ p.svc # None -> {"network", "svc"}
           [] OTHER -> {}

\* QUIC protocols always run over TLS.
SingboxTls(p) ==
    CASE p.type \in {"hysteria2", "tuic"} -> TRUE
      [] p.type \in {"vmess", "vless", "trojan"} -> p.tls = "true"
      [] p.type = "http" -> Secured(p)
      [] OTHER -> FALSE

SingboxTlsOptions(p) ==
    IF ~SingboxTls(p) THEN {}
    ELSE {"tls", "skip", "sni", "alpn", "fp"}
         \cup (IF p.reality = "true" THEN {"reality", "pbk", "sid"} ELSE {})

SingboxDefaults(p) ==
    [p EXCEPT !.cipher = Or(@, "auto"), !.aid = Or(@, "0"),
              !.method = IF p.type = "ss" THEN Or(SsMethod(p), "aes-256-gcm") ELSE @,
              !.plugin = PluginName(@, "obfs-local"), !.opts = PluginOpts(p, "sip"),
              !.urm = IF p.uos = "true" THEN None ELSE @,
              !.obfspw = IF p.obfs = None THEN None ELSE Or(@, ""),
              !.network = IF @ = "http" THEN "h2" ELSE @,
              !.tls = "true", !.skip = Or(@, "false"),
              !.fp = IF p.reality = "true" THEN Or(@, "chrome") ELSE @]

ToSingbox(p) == Entry(p, Present(SingboxDefaults(p),
                    SingboxOptions[p.type] \cup SingboxTransport(p) \cup SingboxTlsOptions(p)))

\* The parser reads neither `security` nor `alter_id`, and knows no type http.
FromSingbox(e) ==
    LET p == NodeOf(e, Options \ {"cipher", "aid"})
    IN [p EXCEPT !.type = IF @ = "http" THEN "other" ELSE @,
                 !.tls = IF p.reality = "true" THEN "true" ELSE Or(@, "false")]

-----------------------------------------------------------------------------
(* v2ray *)

V2rayOptions ==
    [vmess |-> {"uuid", "aid", "cipher"}, vless |-> {"uuid", "flow"},
     trojan |-> {"password", "flow"}, ss |-> {"method", "password"}]

V2rayStream(p) ==
    IF p.type = "ss" THEN {}
    ELSE {"network", "tls"}
         \cup (CASE p.reality = "true" -> {"reality", "sni", "skip", "pbk", "sid", "fp"}
                 [] p.reality # "true" /\ p.tls = "true" -> {"sni", "skip", "alpn"}
                 [] OTHER -> {})
         \cup (CASE p.network \in {"ws", "h2", "http"} -> {"path", "host"}
                 [] p.network = "grpc" -> {"svc"}
                 [] OTHER -> {})

V2rayDefaults(p) ==
    [p EXCEPT !.aid = Or(@, "0"), !.cipher = Or(@, "auto"), !.flow = Or(@, ""),
              !.method = Or(SsMethod(p), "aes-256-gcm"), !.network = Or(@, "tcp"),
              !.tls = IF p.reality = "true" THEN "true" ELSE Or(@, "false"),
              !.skip = Or(@, "false"),
              !.fp = IF p.reality = "true" THEN Or(@, "chrome") ELSE @]

ToV2ray(p) == Entry(p, Present(V2rayDefaults(p), V2rayOptions[p.type] \cup V2rayStream(p)))

\* A password stands for a missing id; a vless flow may not be empty.
FromV2ray(e) ==
    LET p == NodeOf(e, Options)
    IN [p EXCEPT !.uuid = Or(@, p.password),
                 !.tls = IF p.reality = "true" THEN "true" ELSE @,
                 !.flow = IF e.type = "vless" /\ @ = "" THEN None ELSE @]

-----------------------------------------------------------------------------
(* Surge *)

SurgeSafe(name) == [i \in DOMAIN name |-> IF name[i] = "A,B" THEN "A_B" ELSE name[i]]

\* Types and transports that a line of the [Proxy] section can express.
SurgeSupported(p) ==
    CASE p.type = "ss" -> PluginName(p.plugin, "obfs") \in {None, "obfs"}
      [] p.type \in {"vmess", "trojan"} -> p.network \in {None, "", "tcp", "ws"}
      [] p.type = "hysteria2" ->
            Given(p.obfs) => p.obfs \in {"salamander", "gecko"} /\ Given(p.obfspw)
      [] OTHER -> p.type \in {"tuic", "socks5", "http", "anytls"}

SurgeOptions(p) ==
    CASE p.type = "ss" -> {"method", "password", "plugin", "opts"}
      [] p.type = "vmess" -> {"uuid", "cipher", "tls", "sni", "skip", "fp", "alpn"}
      [] p.type = "tuic" -> {"uuid", "password"}
      [] p.type \in {"socks5", "http"} ->
            {"tls"} \cup (IF Given(p.user) THEN {"user", "password"} ELSE {})
      [] p.type = "hysteria2" -> {"password", "obfs", "obfspw", "down", "sni", "skip", "fp", "alpn"}
      [] OTHER -> {"password", "sni", "skip", "fp", "alpn"}

SurgeWs(p) ==
    IF p.type \in {"trojan", "vmess"} /\ p.network = "ws" THEN {"network", "path", "host"} ELSE {}

\* A flag is written only when it is on.
SurgeDefaults(p) ==
    [p EXCEPT !.method = SsMethod(p), !.skip = IF @ = "true" THEN @ ELSE None,
              !.tls = IF @ = "true" \/ (p.type = "http" /\ Secured(p)) THEN "true" ELSE None]

\* Mutant: names that became equal when they were made safe stay equal.
ToSurgeNamesOnce(nodes) ==
    [i \in DOMAIN nodes |->
        LET p == nodes[i]
        IN Entry([p EXCEPT !.name = SurgeSafe(@)],
                 Filled(SurgeDefaults(p), SurgeOptions(p) \cup SurgeWs(p)))]

\* Names are made safe for a line, and unique once more after that.
ToSurge(nodes) ==
    LET lines == [i \in DOMAIN nodes |->
                    LET p == nodes[i]
                    IN Entry([p EXCEPT !.name = SurgeSafe(@)],
                             Filled(SurgeDefaults(p), SurgeOptions(p) \cup SurgeWs(p)))]
    IN EnsureUniqueNames(lines)

-----------------------------------------------------------------------------
(* Links, one per line *)

\* What each link parser reads.
LinkOptions ==
    [vmess |-> {"uuid", "aid", "cipher", "network", "tls", "sni", "path", "host", "alpn", "skip"},
     vless |-> {"uuid", "flow", "network", "tls", "reality", "pbk", "sid", "sni", "fp",
                "alpn", "skip", "path", "host", "svc"},
     trojan |-> {"password", "sni", "flow", "network", "path", "host", "fp", "alpn", "skip"},
     ss |-> {"method", "password", "plugin", "opts"},
     hysteria2 |-> {"password", "sni", "fp", "obfs", "obfspw", "alpn", "up", "down", "skip"},
     tuic |-> {"uuid", "password", "sni", "fp", "alpn", "cc", "urm", "uos", "zrtt", "skip"},
     anytls |-> {"password", "network", "sni", "fp", "skip"},
     socks5 |-> {"user", "password"}, http |-> {"user", "password", "tls"}]

FromLink(e) ==
    LET p == NodeOf(e, LinkOptions[e.type])
    IN CASE e.type = "vmess" -> [p EXCEPT !.cipher = Or(@, "aes-128-gcm"),
                                          !.tls = Or(@, "false"), !.sni = Or(@, p.host)]
         [] e.type = "vless" -> [p EXCEPT !.tls = IF p.reality = "true" THEN "true" ELSE Or(@, "true"),
                                          !.pbk = IF Given(@) THEN @ ELSE None]
         [] e.type \in {"trojan", "hysteria2", "tuic", "anytls"} -> [p EXCEPT !.tls = "true"]
         [] OTHER -> p

\* SSR is dropped, and a bare http(s) URL is no node.
IsNodeLink(e) == /\ e.type \in DOMAIN LinkOptions
                 /\ e.type = "http" => {"user", "password"} \cap DOMAIN e # {}

-----------------------------------------------------------------------------

Represented(format, p) ==
    CASE format = "sing-box" -> p.type \in DOMAIN SingboxOptions
      [] format = "v2ray" -> p.type \in DOMAIN V2rayOptions /\ (p.type = "ss" => ~Given(p.plugin))
      [] format = "surge" -> SurgeSupported(p)
      [] OTHER -> TRUE

ExportFilter(nodes) == Select(nodes, IsUsable)

\* export_str: the nodes that are written, and the entries they become.
Written(nodes, format) ==
    Select(EnsureUniqueNames(ExportFilter(nodes)), LAMBDA p : Represented(format, p))

ExportStr(nodes, format) ==
    LET valid == Written(nodes, format)
    IN CASE format = "sing-box" -> [i \in DOMAIN valid |-> ToSingbox(valid[i])]
         [] format = "v2ray" -> [i \in DOMAIN valid |-> ToV2ray(valid[i])]
         [] format = "surge" -> ToSurge(valid)
         [] OTHER -> [i \in DOMAIN valid |-> ToClash(valid[i])]

\* parse_subscription: base64 is unwrapped to the clash YAML it holds; nothing
\* reads Surge lines.
Parse(format, entries) ==
    CASE format \in {"clash", "base64"} -> [i \in DOMAIN entries |-> FromClash(entries[i])]
      [] format = "sing-box" -> [i \in DOMAIN entries |-> FromSingbox(entries[i])]
      [] format = "v2ray" -> [i \in DOMAIN entries |-> FromV2ray(entries[i])]
      [] format = "links" -> LET links == Select(entries, IsNodeLink)
                             IN [i \in DOMAIN links |-> FromLink(links[i])]
      [] format = "surge" -> <<>>
=============================================================================
