-------------------------- MODULE ProfilePipeline --------------------------
(***************************************************************************)
(* A profile from the provider's answer to the configuration a core is     *)
(* started with: the answer is classified and stored, then one profile of  *)
(* it is prepared with the routing settings of the moment (commands.rs,    *)
(* commands_android.rs).  Preparing leaves the stored profile alone, so    *)
(* one start stands for them all.                                          *)
(***************************************************************************)
EXTENDS ProfileContent, SingboxConfig, XrayConfig

CONSTANTS
    Editions,           \* of {"windows", "macos", "android"}
    Bodies,             \* the answers a provider may give
    Settings,           \* the routing settings the user may have saved
    Ports,              \* what allocate_loopback_port may give
    Traffic             \* the connections that rules are judged by

EditionsAssumption == Editions \subseteq {"windows", "macos", "android"}
ASSUME EditionsAssumption

IsList(x) == x \in Seq(Range(x))

\* Lists are lists.
SettingsAssumption == \A s \in Settings : IsList(s.rules)
ASSUME SettingsAssumption

\* A provider's configuration has the parts that serde leaves in it, and uses
\* up none of the tags tried for the program's DNS servers.
IsSingbox(p) ==
    /\ DOMAIN p = {"outbounds", "rules", "final", "resolver", "dns"}
    /\ IsList(p.outbounds) /\ IsList(p.rules)
    /\ IsList(p.dns.servers) /\ IsList(p.dns.rules)
    /\ Free(LocalTags, p) # {} /\ Free(RemoteTags, p) # {}

IsXray(p) ==
    /\ DOMAIN p = {"inbounds", "outbounds", "balancers", "api", "rules"}
    /\ IsList(p.inbounds) /\ IsList(p.outbounds) /\ IsList(p.rules)
    /\ \A l \in Range(p.inbounds) : DOMAIN l = {"tag", "protocol", "listen", "port"}
    /\ \A o \in Range(p.outbounds) : DOMAIN o = {"tag", "protocol", "dialer", "legacy"}

BodiesAssumption ==
    \A b \in Bodies :
        /\ IsList(b.items)
        /\ b.shape = "json" =>
             \A item \in Range(b.items) :
                 /\ item.marks = {"singbox"} => IsSingbox(item.config)
                 /\ item.marks = {"xray"} => IsXray(item.config)
ASSUME BodiesAssumption

VARIABLES
    edition,
    body,               \* what the provider answered
    stored,             \* its classified payload, None when refused
    settings,           \* the routing settings, with the picked server
    stage,              \* "fetched", "stored", "ready" or "refused"
    config              \* [engine, value, http, socks, unavailable, from], else None

vars == <<edition, body, stored, settings, stage, config>>

Desktop == edition # "android"
Windows == edition = "windows"

-----------------------------------------------------------------------------
(* Classified and kept. *)

Import ==
    /\ stage = "fetched"
    /\ stored' = Classify(body, Desktop)
    /\ stage' = IF stored' = None THEN "refused" ELSE "stored"
    /\ UNCHANGED <<edition, body, settings, config>>

-----------------------------------------------------------------------------
(* Prepared for a start. *)

\* Without ports for the system proxy; `from` is the provider's part.
Unproxied(engine, value, from) ==
    [engine |-> engine, value |-> value, http |-> 0, socks |-> 0,
     unavailable |-> [apps |-> {}, rules |-> {}], from |-> from]

Ready(prepared) ==
    /\ config' = prepared
    /\ stage' = IF prepared = None THEN "refused" ELSE "ready"
    /\ UNCHANGED <<edition, body, stored, settings>>

Prepared(engine, value, from) ==
    IF value = None THEN None ELSE Unproxied(engine, value, from)

\* deduplicate_outbounds: complete definitions, the first of each.
Distinct(nodes) ==
    At(nodes, {i \in DOMAIN nodes : \A j \in 1 .. i - 1 : nodes[j] # nodes[i]})

\* Config::build takes no entry that is marked as unsupported.
Supported(nodes) == At(nodes, {i \in DOMAIN nodes : nodes[i].protocol # "unsupported"})

NodeTags(nodes) == [i \in DOMAIN nodes |-> nodes[i].tag]
LinkTags == NodeTags(Supported(Distinct(stored.nodes)))

\* start_managed_singbox with subscription links, generate_xray_config.
PrepareLinks ==
    /\ stage = "stored" /\ stored.kind = "links"
    /\ IF Desktop
       THEN Ready(Unproxied("singbox",
                            Build(LinkTags, settings.pick, settings, Windows), None))
       ELSE Ready(Prepared("xray", LinkConfig(stored.nodes), None))

\* prepare_ready_singbox_config, get_active_child_config.  The routing-only
\* merge of the phone keeps the default DNS settings.
PrepareSingbox ==
    /\ stage = "stored" /\ stored.kind = "singbox"
    /\ \E i \in DOMAIN stored.configs :
        LET p == stored.configs[i] IN
        Ready(Prepared("singbox", MergeReady(p, settings, Windows), p))

\* start_ready_profile_inner, get_active_child_config.
PrepareXray ==
    /\ stage = "stored" /\ stored.kind = "xray"
    /\ \E i \in DOMAIN stored.configs :
        LET p == stored.configs[i] IN
        IF Desktop
        THEN \E socks, http \in Ports :
                /\ socks # http
                /\ LET x == PrepareDesktop(p, settings, socks, http) IN
                   Ready(IF x = None THEN None
                         ELSE [engine |-> "xray", value |-> x.config,
                               http |-> x.http, socks |-> x.socks,
                               unavailable |-> x.unavailable, from |-> p])
        ELSE Ready(Prepared("xray", PrepareAndroid(p, settings), p))

-----------------------------------------------------------------------------

Init ==
    /\ edition \in Editions /\ body \in Bodies /\ settings \in Settings
    /\ stored = None
    /\ stage = "fetched" /\ config = None

Next == Import \/ PrepareLinks \/ PrepareSingbox \/ PrepareXray

Spec == Init /\ [][Next]_vars

-----------------------------------------------------------------------------
(* The sing-box configurations. *)

Running(engine) == stage = "ready" /\ config.engine = engine
Merged == config.from # None

\* The part of a merged list that the program put before the provider's.
Ours(merged, theirs) == SubSeq(merged, 1, Len(merged) - Len(theirs))
OurRules == IF Merged THEN Ours(config.value.rules, config.from.rules) ELSE config.value.rules
OurDnsRules ==
    IF Merged THEN Ours(config.value.dns.rules, config.from.dns.rules)
    ELSE config.value.dns.rules

\* What is left to the provider once no rule of the program applies.
Theirs == [verb |-> "theirs", to |-> NoTag]

\* What the program's rules alone make of a connection.
OurDecision(c) ==
    Decision(OurRules, IF Merged /\ config.from.rules # <<>> THEN Theirs
                       ELSE Routed(config.value.final), c)
Tunnels == TagsOf(config.value.outbounds) \ {"direct", "block"}
IntoTunnel(decision) ==
    decision.verb \notin {"reject", "hijack-dns"} /\ decision.to \in Tunnels

\* What the program's DNS rules say of a query, and whether that is to ask a
\* server outside the tunnel.
OurServer(q) ==
    DnsDecision(OurDnsRules, IF Merged THEN Theirs ELSE Routed(config.value.dns.final), q)
Outside(decision) ==
    /\ decision.verb = "route"
    /\ \E s \in Range(config.value.dns.servers) :
          s.tag = decision.to /\ s.detour \in {NoTag, "direct"}

\* A provider without an outbound "proxy" whose last word is direct access or
\* a refusal: that is then what the program takes for the tunnel.
EndsOutside == Merged /\ ProxyTarget(config.from) \in {"direct", "block"}

Ordinary(c) == c.app # Shared /\ c.port # 53 /\ c.ip # "lan"

\* On Windows no query goes to the local resolver for an application and a
\* site that have a connection which the user's rules send into the tunnel
\* (unless the provider's tunnel itself EndsOutside), and the queries of an
\* application picked for direct access never wait for the tunnel.
\* windows_dns_rules has to get both right from rules that speak of addresses
\* and ports a query does not have yet.
DnsFollowsRoute ==
    Running("singbox") /\ Windows =>
        \A q \in Traffic :
            q.app # Shared =>
                /\ Outside(OurServer(q)) /\ ~ EndsOutside =>
                     \A c \in Traffic : c.app = q.app /\ c.site = q.site /\ Ordinary(c) =>
                                            ~ IntoTunnel(OurDecision(c))
                /\ q.app \in Names(settings.direct) => Outside(OurServer(q))

\* An application picked for direct access goes direct.  One that is picked
\* for the tunnel alone goes to what stands for the tunnel (the selector, the
\* provider's "proxy", else what the provider ends with), and that is an
\* outbound other than "direct" and "block" unless the provider EndsOutside.
\* What the provider wrote never overrules what the program's own rules decide
\* (build_route, merge_route_documents, resolve_proxy_target).
UserDecides ==
    Running("singbox") =>
        \A c \in Traffic : Ordinary(c) =>
            LET decision == Decision(config.value.rules, Routed(config.value.final), c) IN
            /\ OurDecision(c) # Theirs => decision = OurDecision(c)
            /\ c.app \in Names(settings.direct) => decision = Routed("direct")
            /\ c.app \in Names(settings.vpn) \ Names(settings.direct) =>
                   /\ decision = Routed(IF Merged THEN ProxyTarget(config.from) ELSE "proxy")
                   /\ EndsOutside \/ IntoTunnel(decision)

-----------------------------------------------------------------------------
(* The Xray configurations. *)

\* A rule of the user that Xray was given applies to no connection but those
\* the user meant, and gives them what the user said: no key is dropped to
\* make a rule fit (translate_rule).
NothingWidened ==
    Running("xray") /\ Merged =>
        LET given == Ours(config.value.rules, config.from.rules)
            rules == EnabledRules(settings)
            meant == [i \in DOMAIN rules |->
                        [match |-> Stripped(rules[i].match), kind |-> rules[i].kind,
                         to |-> rules[i].to]]
            Gets(to) == IF \E o \in Range(config.value.outbounds) :
                               o.tag = to /\ o.protocol = "blackhole"
                        THEN "reject" ELSE to
        IN \A k \in DOMAIN given : \E i \in DOMAIN meant :
              /\ \A c \in Traffic : MatchesAll(given[k].match, c) => Matches(meant[i].match, c)
              /\ Gets(given[k].to) = IF meant[i].kind = "reject" THEN "reject"
                                     ELSE Gets(meant[i].to)

\* Every protocol of Xray opens connections of its own but these.
Silent == {"blackhole", "dns", "loopback"}
Dialing(o) == o.protocol \notin Silent /\ o.tag # Protected

\* Of those that do, Xray's wireguard and hysteria are not given the protected
\* dialer: what the provider sends there leaves past the tunnel.
Chainable == {"vless", "vmess", "trojan", "shadowsocks", "socks", "http", "freedom"}
AllChainable(p) == \A o \in Range(p.outbounds) : Dialing(o) => o.protocol \in Chainable

\* Where traffic enters: the default outbound, those that rules name, and what
\* a balancer may pick.
Entry(v) ==
    IF v.balancers # {} THEN Tags(v.outbounds)
    ELSE {v.outbounds[1].tag} \cup {r.to : r \in Range(v.rules)}

\* Every set of outbounds that the chains starting at o stay in has the
\* protected one.
Stays(v, tags) ==
    \A o \in Range(v.outbounds) : o.tag \in tags /\ Dialing(o) => o.dialer \in tags
EndsProtected(v, o) ==
    LET places == Tags(v.outbounds) \cup {each.dialer : each \in Range(v.outbounds)} IN
    \A tags \in SUBSET places : o.dialer \in tags /\ Stays(v, tags) => Protected \in tags

\* The provider's own chains lead from one dialing outbound to another, to the
\* protected one or to none, and not in a circle; the program does not look.
Written(o) == IF o.dialer \notin {NoTag, Blank} THEN o.dialer ELSE o.legacy
ChainsEnd(p) ==
    LET dialing == {o \in Range(p.outbounds) : Dialing(o)} IN
    /\ \A o \in dialing : Written(o) \in {NoTag, Blank, Protected} \cup {each.tag : each \in dialing}
    /\ \A some \in SUBSET dialing :
          some # {} => \E o \in some : \A other \in some : Written(o) # other.tag

\* On the phone no traffic leaves past the tunnel: wherever it enters, an
\* outbound that opens connections has a chain of dialers that reaches the
\* protected one (normalize_bundle, link_config).  Named exceptions: a provider
\* whose own chains lead nowhere, or who dials with wireguard or hysteria.
\* Xray refuses a configuration with one tag for two outbounds.
DialsProtected ==
    /\ Running("xray") /\ ~ Desktop
    /\ Merged => ChainsEnd(config.from) /\ AllChainable(config.from)
    /\ Cardinality(Tags(config.value.outbounds)) = Len(config.value.outbounds)
    => \A o \in Range(config.value.outbounds) :
           o.tag \in Entry(config.value) /\ Dialing(o) => EndsProtected(config.value, o)

-----------------------------------------------------------------------------
(* Both. *)

\* The names in the places where a core looks one up, and those it finds:
\* outbounds (with Xray's two places for a dialer, as the program moves one
\* into the other), then the DNS servers of sing-box.
Named(v) ==
    {r.to : r \in Range(v.rules)}
    \cup IF config.engine = "xray"
         THEN UNION {{o.dialer, o.legacy} : o \in Range(v.outbounds)}
         ELSE {v.final} \cup {s.detour : s \in Range(v.dns.servers)}
              \cup UNION {Range(o.members) \cup {o.default} : o \in Range(v.outbounds)}
Defined(v) ==
    {NoTag} \cup TagsOf(v.outbounds) \cup (IF config.engine = "xray" THEN v.balancers ELSE {})
Loose(v) == Named(v) \ Defined(v)

Asked(v) == {v.resolver, v.dns.final} \cup {r.to : r \in Range(v.dns.rules)}
            \cup {s.resolver : s \in Range(v.dns.servers)}
Answering(v) == {NoTag} \cup {s.tag : s \in Range(v.dns.servers)}

\* What others left undefined: the provider, or the user in a configuration
\* built from links, where no rule is looked up.  Without a node there is no
\* "auto", and the selector names it all the same.
Chosen == {settings.final} \cup {r.to : r \in Range(settings.rules)}
NoNode == stored.kind = "links" /\ LinkTags = <<>>
LeftLoose ==
    IF Merged THEN Loose(config.from)
    ELSE (Chosen \ {"proxy", "auto", "direct", "block"}) \cup (IF NoNode THEN {"auto"} ELSE {})

Listens(port, protocol, addresses) ==
    \E l \in Range(config.value.inbounds) :
        l.port = port /\ l.protocol = protocol /\ l.listen \in addresses

\* A core never refuses a configuration, or stops at a connection, for a name
\* that the program put in, or took the definition of away (an outbound of a
\* rule, group, default, dialer or DNS server, a DNS server of a rule, of the
\* outbounds or of another server), NoNode excepted, and the ports that
\* the system proxy is set to are those of listeners of the configuration,
\* local ones except for a SOCKS listener that the provider placed elsewhere.
NothingDangles ==
    stage = "ready" =>
        /\ Loose(config.value) \subseteq LeftLoose
        /\ config.engine = "singbox" =>
             Asked(config.value) \ Answering(config.value)
                 \subseteq IF Merged THEN Asked(config.from) \ Answering(config.from) ELSE {}
        /\ config.http # 0 =>
             /\ Listens(config.http, "http", {Local})
             /\ Listens(config.socks, "socks",
                        {Local} \cup {l.listen : l \in Range(config.from.inbounds)})

-----------------------------------------------------------------------------
(* What the parsers' own headers say, and the code does not do. *)

\* A link that names a server, a port, its credentials and options that the
\* program knows becomes a node.
LinksImported ==
    stage # "fetched" /\ body.shape = "links" =>
        \A i \in DOMAIN body.items :
            LET e == body.items[i] IN
            e.scheme \in {"vless", "trojan"} /\ e.host # "" /\ e.port \in 2 .. 65535
               /\ e.user # "" /\ e.transport = "ws" /\ e.security = "none"
            => stored # None /\ \E n \in Range(stored.nodes) : n.server = e.host
=============================================================================
