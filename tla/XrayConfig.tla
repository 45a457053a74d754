----------------------------- MODULE XrayConfig -----------------------------
(***************************************************************************)
(* The Xray configuration: a provider's own, with the user's rules         *)
(* translated into it (xray/routing.rs) and, on the desktop, with the      *)
(* listeners and counters the program needs (xray/inbound.rs,              *)
(* xray/stats.rs); on Android with every dial chained through the          *)
(* protected dialer of the VPN service, or built from parsed links         *)
(* (xray_config.rs).                                                       *)
(*                                                                         *)
(* A configuration is [inbounds, outbounds, balancers, rules, api].  An    *)
(* inbound is [tag, protocol, listen, port], an outbound [tag, protocol,   *)
(* dialer, legacy]: the outbound it dials through, where Xray reads it and *)
(* where it does not.  `api` is the listener of the statistics.  A rule is *)
(* [match, to].  A function that can fail returns None then.               *)
(***************************************************************************)
EXTENDS RoutingRules

Loopback == "127.0.0.1"
ManagedHttp == "cloakwire-managed-http"
ManagedSocks == "cloakwire-managed-socks"
BlockTag == "cloakwire-block"
Protected == "protected"
SocksPort == 10808

Outbound(tag, protocol) ==
    [tag |-> tag, protocol |-> protocol, dialer |-> NoTag, legacy |-> NoTag]
Dialed(tag, protocol, dialer) == [Outbound(tag, protocol) EXCEPT !.dialer = dialer]

Tags(items) == {item.tag : item \in Range(items)}
Tagged(items) == NoTag \notin Tags(items)

-----------------------------------------------------------------------------
(* translate_rule. *)

Fields == {"site", "ip", "port", "range"}

\* Bug: a matcher that Xray does not have is left out.
TranslatableLoosely(rule) ==
    DOMAIN rule.match \cap Fields # {} /\ \A k \in DOMAIN rule.match : rule.match[k] # {}

\* One key that cannot be expressed, an empty list or no matcher at all
\* refuse the whole rule.
Translatable(rule) ==
    /\ DOMAIN rule.match # {} /\ DOMAIN rule.match \subseteq Fields
    /\ \A k \in DOMAIN rule.match : rule.match[k] # {}

\* The field that a key is written to; port_range comes after port and is
\* written over it.
TranslatedMatch(match) ==
    [field \in {IF k = "range" THEN "port" ELSE k : k \in DOMAIN match \cap Fields} |->
        IF field = "port" /\ "range" \in DOMAIN match THEN match.range ELSE match[field]]

\* The reason given for a rule.  supports_process_matcher() is false; the
\* process keys come last, so every other matcher was found good before.
Refusal(rule) ==
    LET others == [k \in DOMAIN rule.match \ {"app"} |-> rule.match[k]]
        unroutable == rule.kind = "route" /\ rule.to = NoTag
    IN CASE "app" \in DOMAIN rule.match
            /\ (Translatable([rule EXCEPT !.match = others]) \/ DOMAIN others = {})
              -> "process_matcher"
         [] Translatable(rule) /\ (rule.kind \notin {"route", "reject"} \/ unroutable)
              -> "unsupported_action"
         [] Translatable(rule) /\ rule.kind = "route" /\ ~ unroutable -> "missing_outbound"
         [] OTHER -> "unsupported_matcher"

\* An outbound or a balancer of the provider.
Target(rule, p) == rule.to \in Tags(p.outbounds) \cup p.balancers

Applies(rule, p) ==
    /\ Translatable(rule)
    /\ \/ rule.kind = "reject"
       \/ rule.kind = "route" /\ rule.to # NoTag /\ Target(rule, p)

-----------------------------------------------------------------------------
(* merge_routing. *)

Blackholes(p) ==
    {i \in DOMAIN p.outbounds :
        p.outbounds[i].protocol = "blackhole" /\ p.outbounds[i].tag # NoTag}

\* The provider's first blackhole takes what the user rejects.
BlockTarget(p) ==
    IF Blackholes(p) = {} THEN BlockTag ELSE p.outbounds[Min(Blackholes(p))].tag

Translate(rule, p) ==
    [match |-> TranslatedMatch(rule.match),
     to |-> IF rule.kind = "reject" THEN BlockTarget(p) ELSE rule.to]

EnabledRules(s) == At(s.rules, {i \in DOMAIN s.rules : IsEnabled(s.rules[i])})

\* Positions of the enabled rules that were applied.
Applied(s, p) == {i \in DOMAIN EnabledRules(s) : Applies(EnabledRules(s)[i], p)}

NeedsBlock(s, p) ==
    Blackholes(p) = {} /\ \E i \in Applied(s, p) : EnabledRules(s)[i].kind = "reject"

TranslatedRules(s, p) ==
    LET applied == At(EnabledRules(s), Applied(s, p))
    IN [i \in DOMAIN applied |-> Translate(applied[i], p)]

\* The picked applications and the rules that Xray cannot run are reported.
Unavailable(s, p) ==
    [apps |-> {list \in {"direct", "vpn"} : Names(s[list]) # {}},
     rules |-> {<<i, Refusal(EnabledRules(s)[i])>> :
                    i \in DOMAIN EnabledRules(s) \ Applied(s, p)}]

\* Refused: an item without a tag, or the reserved tag already in use.
MergeRouting(p, s) ==
    IF \/ ~ Tagged(p.inbounds) \/ ~ Tagged(p.outbounds)
       \/ NeedsBlock(s, p) /\ BlockTag \in Tags(p.outbounds)
    THEN None
    ELSE [p EXCEPT
             !.outbounds = IF NeedsBlock(s, p) THEN Append(@, Outbound(BlockTag, "blackhole"))
                           ELSE @,
             !.rules = TranslatedRules(s, p) \o @]

-----------------------------------------------------------------------------
(* prepare_xray_runtime_config, on the desktop. *)

HttpInbounds(p) == {i \in DOMAIN p.inbounds : p.inbounds[i].protocol = "http"}
SocksInbounds(p) ==
    {i \in DOMAIN p.inbounds : p.inbounds[i].protocol = "socks" /\ p.inbounds[i].port # 0}

\* The reserved tag, an HTTP listener the proxy cannot use, or two of them.
InboundsRefused(p) ==
    \/ ManagedHttp \in Tags(p.inbounds)
    \/ \E i \in HttpInbounds(p) : p.inbounds[i].listen # Loopback \/ p.inbounds[i].port = 0
    \/ Cardinality(HttpInbounds(p)) > 1

Listener(tag, protocol, port) ==
    [tag |-> tag, protocol |-> protocol, listen |-> Loopback, port |-> port]

\* ensure_managed_http_inbound, with the ports the system gives: a SOCKS
\* listener is added first, an HTTP listener only when there is none, and one
\* without a tag gets the managed one for the counters.
EnsureInbounds(p, socks, http) ==
    [p EXCEPT !.inbounds =
        [i \in DOMAIN @ |-> IF i \in HttpInbounds(p) /\ @[i].tag = NoTag
                            THEN [@[i] EXCEPT !.tag = ManagedHttp] ELSE @[i]]
        \o (IF SocksInbounds(p) = {} THEN <<Listener(ManagedSocks, "socks", socks)>> ELSE <<>>)
        \o (IF HttpInbounds(p) = {} THEN <<Listener(ManagedHttp, "http", http)>> ELSE <<>>)]

HttpPort(p, http) ==
    IF HttpInbounds(p) = {} THEN http ELSE p.inbounds[Min(HttpInbounds(p))].port

\* The last SOCKS listener of the provider that has a port.
SocksOf(p, socks) ==
    IF SocksInbounds(p) = {} THEN socks ELSE p.inbounds[Max(SocksInbounds(p))].port

\* merge_stats_config: the provider's statistics listener must be local and is
\* moved to the allocated port.
StatsRefused(p) == p.api \notin {NoTag, Loopback}

\* What is started, with the ports that the system proxy is set to and the
\* settings that have no effect.
PrepareDesktop(p, s, socks, http) ==
    IF InboundsRefused(p) \/ StatsRefused(p) THEN None
    ELSE LET merged == MergeRouting(EnsureInbounds(p, socks, http), s) IN
         IF merged = None THEN None
         ELSE [config |-> [merged EXCEPT !.api = Loopback],
               http |-> HttpPort(p, http), socks |-> SocksOf(p, socks),
               unavailable |-> Unavailable(s, p)]

-----------------------------------------------------------------------------
(* Android: xray_config.rs. *)

Dialers == {"vless", "vmess", "trojan", "shadowsocks", "socks", "http", "freedom"}
Mappable == {"vless", "vmess", "trojan", "shadowsocks"}
ProtectedOutbound == Outbound(Protected, "socks")

\* Bug: a chain of white space is taken for a chain.
ChainLoosely(o) == IF o.dialer = NoTag THEN [o EXCEPT !.dialer = Protected] ELSE o

\* chain_to_protected: a chain that Xray reads stays, one that it does not
\* read is moved to where it does, a blank one is no chain.
Chain(o) ==
    IF o.dialer \notin {NoTag, Blank} THEN o
    ELSE [o EXCEPT !.dialer = IF o.legacy \in {NoTag, Blank} THEN Protected ELSE o.legacy]

Chained(o) == IF o.tag # Protected /\ o.protocol \in Dialers THEN Chain(o) ELSE o

NormalizeBundle(p) ==
    IF p = None \/ p.outbounds = <<>> THEN None
    ELSE [p EXCEPT !.outbounds =
             [i \in DOMAIN @ |-> Chained(@[i])]
             \o (IF Protected \in Tags(@) THEN <<>> ELSE <<ProtectedOutbound>>)]

\* get_active_child_config: routing first, so that what it adds is chained.
PrepareAndroid(p, s) == NormalizeBundle(MergeRouting(p, s))

\* outbound_to_xray: any transport will do (stream_settings writes xhttp as
\* plain HTTP/2), but not an entry without an address or a port.
CanMap(node) == node.protocol \in Mappable /\ node.server # "" /\ node.port # 0

\* link_config: the nodes Xray has a protocol for, each behind the protected
\* dialer, and the helpers.  The direct helper carries no chain.
LinkConfig(nodes) ==
    LET mapped == At(nodes, {i \in DOMAIN nodes : CanMap(nodes[i])}) IN
    IF mapped = <<>> THEN None
    ELSE [inbounds |-> <<Listener("socks-in", "socks", SocksPort)>>,
          outbounds |-> [i \in DOMAIN mapped |->
                            Dialed(mapped[i].tag, mapped[i].protocol, Protected)]
                        \o <<Outbound("direct", "freedom"), Outbound("block", "blackhole"),
                             ProtectedOutbound>>,
          balancers |-> {}, api |-> NoTag,
          rules |-> <<[match |-> [port |-> {443}], to |-> "block"]>>]
=============================================================================
