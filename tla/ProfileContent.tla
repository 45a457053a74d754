--------------------------- MODULE ProfileContent ---------------------------
(***************************************************************************)
(* What a provider's answer is taken for (subscriptions/classify.rs and    *)
(* its Android copy) and which of its entries become nodes (parser/).      *)
(*                                                                         *)
(* An entry of a list is [scheme, host, port, user, secret, transport,     *)
(* security, keys, obfs, name], an empty text or Missing for what is not   *)
(* there: a share link and a Clash proxy carry the same fields.  A node is *)
(* [tag, protocol, server, port, transport, tls].  A provider's own        *)
(* configuration is what SingboxConfig and XrayConfig merge into.          *)
(* A function that can fail returns None then.                             *)
(***************************************************************************)
EXTENDS RoutingRules

CONSTANT MaxItems       \* MAX_SUBSCRIPTION_ITEMS, 500 in the code

MaxItemsAssumption == MaxItems \in Nat \ {0}
ASSUME MaxItemsAssumption

Missing == 65536        \* no port in the entry
HttpDefault == 80       \* the port that a URL of scheme http may leave out
Null == "0.0.0.0"
Everywhere == "0.0.0.0"
Local == "127.0.0.1"

-----------------------------------------------------------------------------
(* parser::parse_link. *)

\* The URL parsers rewrite the scheme to http:// and take the port that the
\* URL library reports, which is none for the default port of that scheme.
UrlPort(port) == IF port = HttpDefault THEN Missing ELSE port

UrlSchemes == {"vless", "trojan", "hysteria2", "tuic"}
Schemes == UrlSchemes \cup {"vmess", "shadowsocks"}

PortOf(e) == IF e.scheme \in UrlSchemes THEN UrlPort(e.port) ELSE e.port

Transports == [vless |-> {"tcp", "ws", "http", "xhttp", "grpc"},
               vmess |-> {"tcp", "ws", "http", "grpc"},
               trojan |-> {"tcp", "ws", "grpc"}]

\* Shadowsocks and TUIC need a method or an id and a password; the other
\* schemes carry one of them.  The id and the address of a vmess entry are
\* only decoded, never looked at.
HasCredentials(e) ==
    CASE e.scheme = "vmess" -> TRUE
      [] e.scheme \in {"shadowsocks", "tuic"} -> e.user # "" /\ e.secret # ""
      [] OTHER -> e.user # ""

\* Reality needs its two keys; vmess does not know it.
KeysGiven(e) ==
    e.scheme \in {"vless", "trojan"} /\ e.security = "reality" => e.keys

ObfsKnown(e) ==
    e.scheme = "hysteria2" => e.obfs \in {"", "salamander"}

ParsesLink(e) ==
    /\ e.scheme \in Schemes
    /\ e.host # "" \/ e.scheme = "vmess"
    /\ PortOf(e) # Missing
    /\ HasCredentials(e)
    /\ e.scheme \in DOMAIN Transports => e.transport \in Transports[e.scheme]
    /\ KeysGiven(e) /\ ObfsKnown(e)

\* A name, else the address; vmess copies the name as it is.
TagOf(e) == IF e.name = "" /\ e.scheme # "vmess" THEN e.host ELSE e.name

Secured(e) ==
    CASE e.scheme \in {"hysteria2", "tuic"} -> TRUE
      [] e.scheme = "shadowsocks" -> FALSE
      [] e.scheme = "vmess" -> e.security \in {"tls", "reality"}
      [] e.scheme = "trojan" -> e.security # "none"
      [] OTHER -> e.security \notin {"none", ""}

ParseLink(e) ==
    IF ~ ParsesLink(e) THEN None
    ELSE [tag |-> TagOf(e), protocol |-> e.scheme, server |-> e.host, port |-> e.port,
          transport |-> IF e.scheme \in DOMAIN Transports THEN e.transport ELSE "tcp",
          tls |-> Secured(e)]

-----------------------------------------------------------------------------
(* parse_clash_proxy: an address, a port and a known type are all it asks. *)

ParseClash(e) ==
    IF e.host = "" \/ e.port = Missing \/ e.scheme \notin Schemes THEN None
    ELSE [tag |-> IF e.name = "" THEN "Clash proxy" ELSE e.name,
          protocol |-> e.scheme, server |-> e.host, port |-> e.port,
          transport |-> IF e.scheme \in DOMAIN Transports
                           /\ e.transport \in {"ws", "http", "grpc"}
                        THEN e.transport ELSE "tcp",
          tls |-> e.security = "tls" /\ e.scheme # "shadowsocks"]

-----------------------------------------------------------------------------
(* classify_payload.  A body is [shape, items]: "json" when it is declared *)
(* or begins like it, "yaml" when its first line is a known Clash key,     *)
(* else "links".                                                           *)

Links(nodes) == [kind |-> "links", nodes |-> nodes]
Bundle(engine, configs) == [kind |-> engine, configs |-> configs]

Nodes(parsed) == At(parsed, {i \in DOMAIN parsed : parsed[i] # None})

\* is_placeholder_outbound: the answer of a panel that does not know the
\* program.
Real(node) == ~ (node.server = Null /\ node.port <= 1)

\* classify_links: what parses and is no placeholder, on the desktop up to
\* the cap; nothing left is an error.
ClassifyLinks(items, capped) ==
    LET nodes == Nodes([i \in DOMAIN items |-> ParseLink(items[i])])
        real == At(nodes, {i \in DOMAIN nodes : Real(nodes[i])})
        kept == IF capped THEN SubSeq(real, 1, Min({MaxItems, Len(real)})) ELSE real
    IN IF kept = <<>> THEN None ELSE Links(kept)

\* classify_clash_yaml: no cap and no placeholder here.
ClassifyYaml(items) ==
    LET nodes == Nodes([i \in DOMAIN items |-> ParseClash(items[i])]) IN
    IF nodes = <<>> THEN None ELSE Links(nodes)

\* An item of a JSON answer is [like, node, marks, config]: it has the
\* discriminator of an outbound, the node it parses to, the engines whose
\* markers it carries, and itself as a configuration.
OneEngine(items) ==
    \E engine \in {"singbox", "xray"} :
        \A i \in DOMAIN items : items[i].marks = {engine}

\* sanitize_bundle_config: a listener for everyone becomes a local one.
Sanitized(config) ==
    IF "inbounds" \notin DOMAIN config THEN config
    ELSE [config EXCEPT !.inbounds =
             [i \in DOMAIN @ |-> IF @[i].listen = Everywhere
                                 THEN [@[i] EXCEPT !.listen = Local] ELSE @[i]]]

\* classified_children: the cap and the listeners, on the desktop only.
Children(items, capped) ==
    LET kept == IF capped THEN SubSeq(items, 1, Min({MaxItems, Len(items)})) ELSE items
    IN [i \in DOMAIN kept |-> IF capped THEN Sanitized(kept[i].config) ELSE kept[i].config]

\* classify_json: a list of outbounds only if every item is one that parses,
\* else configurations of one engine, which is looked for before the cap.
ClassifyJson(items, capped) ==
    IF items = <<>> THEN None
    ELSE IF \A i \in DOMAIN items : items[i].like /\ items[i].node # None
         THEN Links([i \in DOMAIN items |-> items[i].node])
    ELSE IF OneEngine(items)
         THEN Bundle(CHOOSE engine \in items[1].marks : TRUE, Children(items, capped))
    ELSE None

Classify(body, capped) ==
    CASE body.shape = "json" -> ClassifyJson(body.items, capped)
      [] body.shape = "yaml" -> ClassifyYaml(body.items)
      [] OTHER -> ClassifyLinks(body.items, capped)
=============================================================================
