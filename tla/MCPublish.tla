----------------------------- MODULE MCPublish ------------------------------
EXTENDS Publish, TLC

\* Options given under their own names, or on; an entry for them.
All(keys) == [k \in keys |-> IF k \in Switches THEN "true" ELSE k]
Of(type, name, options) == [name |-> name, type |-> type, server |-> "s", port |-> 1] @@ options
Links(entries) == [format |-> "links", entries |-> entries]

MCFlags == [flagUS |-> "US"]
MCCodes3 == [hkg |-> "HK"]
MCCodes2 == [HK |-> "HK", US |-> "US"]
MCNames == <<<<"hongkong", "HK">>, <<"japan", "JP">>>>

MCVerdicts == {[available |-> TRUE, latency |-> 100, speed |-> 4, measured |-> TRUE],
               [available |-> TRUE, latency |-> 1000, speed |-> 4, measured |-> FALSE],
               [available |-> FALSE, latency |-> None, speed |-> None, measured |-> FALSE]}

\* Nodes of one name, a name Surge cannot write beside the one it makes of it,
\* a number that is taken, a duplicate, a node that may not be published.
Password(p) == [method |-> "m", password |-> p]
MCLists ==
    {Links(<<Of("ss", <<"A">>, Password("x")), Of("ss", <<"A">>, Password("y")),
             [Of("trojan", <<"A", "#2">>, Password("x")) EXCEPT !.server = "hkg"], Of("ss", <<"A">>, Password("x"))>>),
     Links(<<Of("socks5", <<"A,B">>, <<>>), Of("ss", <<"A_B">>, Password("x"))>>),
     Links(<<Of("vless", <<"flagUS", "hongkong">>, [uuid |-> "u"]), Of("ss", <<"HK", "A">>, [method |-> "m"])>>)}

Plain == [filters |-> <<>>, minBandwidth |-> None, maxLatency |-> None, rename |-> None, sort |-> None]
Rule(field, mode, matches) == [field |-> field, mode |-> mode, matches |-> matches, valid |-> TRUE]
MCTransforms ==
    {None, Plain,
     [Plain EXCEPT !.filters = <<Rule("name", "exclude", {<<"A", "#2">>}), Rule("type", "include", {"ss", "socks5"})>>],
     [Plain EXCEPT !.filters = <<Rule("region", "include", {"HK"})>>, !.maxLatency = 500],
     [Plain EXCEPT !.filters = <<[Rule("name", "include", {}) EXCEPT !.valid = FALSE]>>],
     [Plain EXCEPT !.minBandwidth = 2, !.sort = [key |-> "latency", desc |-> FALSE]],
     [Plain EXCEPT !.rename = [valid |-> TRUE, matches |-> {<<"A">>, <<"A", "#2">>, <<"A,B">>}, to |-> <<"N">>],
                   !.sort = [key |-> "speed", desc |-> TRUE]]}
MCRequests ==
    {r \in [t : MCTransforms, top : {None, 0, 1}, global : {0, 2}, format : {"clash", "surge"}] :
        r.global = 0 => r.top = None}

-----------------------------------------------------------------------------
(* Every kind of link and of clash entry, one per document *)

Networks == {<<>>} \cup {[network |-> n] : n \in {"", "tcp", "ws", "grpc", "h2", "http", "xhttp"}}
Details == {<<>>, All({"path", "host", "svc"}), [path |-> "", host |-> "host"]}
Security == {[tls |-> "true"], [tls |-> "false"], All({"sni", "alpn", "fp"}),
             [reality |-> "true", tls |-> "true"] @@ All({"pbk"}),
             [reality |-> "true", tls |-> "true"] @@ All({"pbk", "sid", "sni", "fp"})}
Plugins == {<<>>, [plugin |-> "other"]} \cup
           {[plugin |-> n, opts |-> o] : n \in {"obfs-local", "v2ray-plugin"}, o \in {"sip", "clash", "flags"}}

Given3(type, key) == {Of(type, <<"A">>, n @@ d @@ s @@ All({key})) : n \in Networks, d \in Details, s \in Security}
Bare(type, optional, required) ==
    {Of(type, <<"A">>, All(given) @@ All(required)) : given \in SUBSET optional}

MCLinks ==
    Given3("vmess", "uuid") \cup Given3("vless", "uuid") \cup Given3("trojan", "password")
    \cup {Of("ss", <<"A">>, p @@ All({"method", "password"})) : p \in Plugins}
    \cup Bare("hysteria2", {"sni", "obfspw", "alpn", "up", "skip"}, {"password"})
    \cup Bare("hysteria2", {"down"}, {"password", "obfs"})
    \cup {Of("tuic", <<"A">>, u @@ All({"uuid", "password", "urm", "cc"})) :
             u \in {<<>>, [uos |-> "true"], [uos |-> "false", zrtt |-> "true"]}}
    \cup Bare("anytls", {"sni"}, {"password"})
    \cup Bare("socks5", {"user"}, {"password"})
    \cup {[e EXCEPT !.port = port] : e \in Bare("http", {"user", "tls"}, {"password"}), port \in {1, 443}}
MCEntries ==
    {e \in MCLinks : e.type \in {"vmess", "vless", "trojan", "tuic", "anytls", "socks5"}}
    \cup {Of("ss", <<"A">>, p @@ All({"cipher", "password"})) : p \in Plugins}
MCDocuments == {Links(<<e>>) : e \in MCLinks} \cup {[format |-> "clash", entries |-> <<e>>] : e \in MCEntries}
MCFormats ==
    [t : {None}, top : {None}, global : {0}, format : {"clash", "base64", "sing-box", "v2ray", "surge"}]
=============================================================================
