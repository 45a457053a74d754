--------------------------- MODULE SingboxConfig ---------------------------
(***************************************************************************)
(* The sing-box configuration, as config/mod.rs builds it from parsed      *)
(* links and as config/ready.rs merges it into a provider's own            *)
(* configuration.  On Windows both add DNS rules that follow the           *)
(* applications and the sites of the route rules.                          *)
(*                                                                         *)
(* A configuration is [outbounds, rules, final, resolver, dns].            *)
(* `outbounds` is a sequence of [tag, members, default], the last two      *)
(* empty but for a group.  `dns` is [servers, rules, final], servers a     *)
(* sequence of [tag, detour, resolver]: the outbound it is asked through   *)
(* and the server that resolves its own name.  The configuration's         *)
(* `resolver` is the one for the addresses of the outbounds.  A function   *)
(* that can fail returns None then.                                        *)
(***************************************************************************)
EXTENDS RoutingRules

Node(tag) == [tag |-> tag, members |-> <<>>, default |-> NoTag]
TagsOf(outbounds) == {o.tag : o \in Range(outbounds)}

-----------------------------------------------------------------------------
(* build_route. *)

Hijack == [match |-> [port |-> {53}], verb |-> "hijack-dns", to |-> NoTag]
LanBypass == [match |-> [lan |-> {"lan"}], verb |-> "route", to |-> "direct"]

Sniffing(s) ==
    IF s.sniff THEN <<[match |-> <<>>, verb |-> "sniff", to |-> NoTag]>> ELSE <<>>

\* One rule for the picked applications, none for an empty list.
AppRule(list, to) ==
    IF Names(list) = {} THEN <<>>
    ELSE <<[match |-> [app |-> Names(list)], verb |-> "route", to |-> to]>>

\* A user's rule in the core's shape.
Normalized(rule) ==
    [match |-> Stripped(rule.match), verb |-> Verb(rule), to |-> rule.to]

\* A rule that has no matcher left is not emitted.
Meaningful(rule) == DOMAIN rule.match # {}

CustomRules(s) ==
    LET rules == [i \in DOMAIN s.rules |-> Normalized(s.rules[i])]
    IN At(rules, {i \in DOMAIN rules : IsEnabled(s.rules[i]) /\ Meaningful(rules[i])})

\* The order is the point: DNS and LAN first, then the picked applications,
\* direct before VPN, then the user's rules.
BuildRoute(s) ==
    <<Hijack, LanBypass>> \o Sniffing(s) \o AppRule(s.direct, "direct")
        \o AppRule(s.vpn, "proxy") \o CustomRules(s)

-----------------------------------------------------------------------------
(* windows_dns_rules: the route rules seen as DNS rules. *)

\* dns_application_matchers: only what is known of a query can be projected;
\* one other matcher makes the whole rule unusable.
Projectable(rule) == DOMAIN rule.match \subseteq {"app", "site"}

Ignored(rule) == rule.verb \in PassingVerbs \cup {"hijack-dns"} \/ rule = LanBypass
Direct(rule) == rule.to = "direct"
Refuses(rule) == rule.verb = "reject" \/ rule.to = "block"

\* Bug: a rule that cannot be projected is forgotten.
RaisesNoBarrier(rule) == FALSE

\* A decision other than direct that DNS cannot see: from here on nothing may
\* be added to what resolves locally.
RaisesBarrier(rule) ==
    \/ ~ Projectable(rule) /\ ~ Direct(rule)
    \/ Projectable(rule) /\ ~ Refuses(rule) /\ rule.verb # "route"

\* The rule that sends every query to a server.
CatchAll(server) == [match |-> <<>>, verb |-> "route", to |-> server]

\* The loop's remote_barrier after the first n rules.
BarrierWithin(rules, n) ==
    \E j \in 1 .. n : ~ Ignored(rules[j]) /\ RaisesBarrier(rules[j])

\* The route rules that become DNS rules; a direct one only before a barrier.
Projected(rules) ==
    {i \in DOMAIN rules :
        /\ ~ Ignored(rules[i]) /\ Projectable(rules[i]) /\ ~ RaisesBarrier(rules[i])
        /\ ~ (Direct(rules[i]) /\ BarrierWithin(rules, i - 1))}

DnsRule(rule, local, remote) ==
    IF Refuses(rule) THEN [match |-> rule.match, verb |-> "reject", to |-> NoTag]
    ELSE [match |-> rule.match, verb |-> "route",
          to |-> IF Direct(rule) THEN local ELSE remote]

\* After them the process that asks for all others, when an application is
\* picked for direct access, and at a barrier the rest to the tunnel.
SharedRule(asked, local) ==
    IF asked THEN <<[match |-> [app |-> {Shared}], verb |-> "route", to |-> local]>> ELSE <<>>
BarrierRule(rules, remote) ==
    IF BarrierWithin(rules, Len(rules)) THEN <<CatchAll(remote)>> ELSE <<>>

ProjectedRules(rules, local, remote) ==
    LET kept == At(rules, Projected(rules)) IN
    [i \in DOMAIN kept |-> DnsRule(kept[i], local, remote)]
WindowsDnsRules(rules, local, remote, sharedDirect) ==
    ProjectedRules(rules, local, remote)
        \o SharedRule(sharedDirect, local) \o BarrierRule(rules, remote)

-----------------------------------------------------------------------------
(* Config::build, from the nodes of the parsed links. *)

\* The remote server dials through an outbound, the local one does not; the
\* name of one asked over HTTPS is resolved by the local one.
LocalServer(tag) == [tag |-> tag, detour |-> NoTag, resolver |-> NoTag]
RemoteServer(s, tag, detour, local) ==
    [tag |-> tag, detour |-> detour, resolver |-> IF s.https THEN local ELSE NoTag]

BuildDns(s, windows) ==
    [servers |-> <<LocalServer("local"), RemoteServer(s, "remote", "proxy", "local")>>,
     rules |-> IF windows
               THEN WindowsDnsRules(BuildRoute(s), "local", "remote",
                                    Names(s.direct) # {})
               ELSE <<>>,
     final |-> IF windows /\ s.final = "direct" THEN "local" ELSE "remote"]

\* Bug: the pick is taken although its node may be gone.
PickAsSaved(nodes, pick) == IF pick # NoTag THEN pick ELSE "auto"

\* Only a pick that is still among the nodes is honoured.
DefaultTag(nodes, pick) ==
    IF pick # NoTag /\ pick \in Range(nodes) THEN pick ELSE "auto"

\* The groups and the helpers before the nodes; no urltest without nodes.
Groups(nodes, pick) ==
    (IF nodes = <<>> THEN <<>>
     ELSE <<[tag |-> "auto", members |-> nodes, default |-> NoTag]>>)
    \o <<[tag |-> "proxy",
          members |-> IF nodes = <<>> THEN <<"direct">> ELSE <<"auto">> \o nodes,
          default |-> DefaultTag(nodes, pick)],
         Node("direct"), Node("block")>>

Build(nodes, pick, s, windows) ==
    [outbounds |-> Groups(nodes, pick) \o [i \in DOMAIN nodes |-> Node(nodes[i])],
     rules |-> BuildRoute(s), final |-> s.final, resolver |-> "local",
     dns |-> BuildDns(s, windows)]

-----------------------------------------------------------------------------
(* merge_ready_config, into a provider's configuration p. *)

\* outbound_tags: every outbound has a tag of its own.
TagsUnique(p) ==
    NoTag \notin TagsOf(p.outbounds) /\ Cardinality(TagsOf(p.outbounds)) = Len(p.outbounds)

\* resolve_proxy_target: the provider's "proxy", else what it ends with.
ProxyTarget(p) ==
    CASE "proxy" \in TagsOf(p.outbounds) -> "proxy"
      [] "proxy" \notin TagsOf(p.outbounds) /\ p.final \in TagsOf(p.outbounds) -> p.final
      [] OTHER -> NoTag

\* rewrite_proxy_aliases: "proxy" and "auto" mean the provider's target,
\* unless the provider has an outbound of that name.
Alias(to, p) ==
    IF to \in {"proxy", "auto"} \ TagsOf(p.outbounds) THEN ProxyTarget(p) ELSE to

LocalRules(s, p) ==
    LET rules == BuildRoute(s) IN
    [i \in DOMAIN rules |->
        [match |-> rules[i].match, verb |-> rules[i].verb, to |-> Alias(rules[i].to, p)]]

LocalTargets(s, p) ==
    {Alias(s.final, p)} \cup ({r.to : r \in Range(LocalRules(s, p))} \ {NoTag})

\* validate_local_targets.
TargetsValid(s, p) == LocalTargets(s, p) \subseteq TagsOf(p.outbounds) \cup {"direct", "block"}

\* ensure_standard_outbounds: "direct" and "block" are added when a local
\* rule needs them.
Standard(s, p) ==
    LET missing == (LocalTargets(s, p) \cap {"direct", "block"}) \ TagsOf(p.outbounds)
        add(tag) == IF tag \in missing THEN <<Node(tag)>> ELSE <<>>
    IN add("direct") \o add("block")

HasServer(p, tag) == \E server \in Range(p.dns.servers) : server.tag = tag

\* The program's own tag, else the first of its suffixed forms that no server
\* of the provider has; the code's count of suffixes has no end.
LocalTags == <<"cloakwire-local", "cloakwire-local-1", "cloakwire-local-2">>
RemoteTags == <<"cloakwire-remote", "cloakwire-remote-1", "cloakwire-remote-2">>
Free(tags, p) == {i \in DOMAIN tags : ~ HasServer(p, tags[i])}
Fresh(tags, p) == tags[Min(Free(tags, p))]

\* merge_windows_dns changes nothing when there is no local DNS policy.
NoDnsPolicy(s) ==
    /\ Names(s.direct) = {} /\ Names(s.vpn) = {}
    /\ WindowsDnsRules(BuildRoute(s), "local", "remote", FALSE) = <<>>
    /\ s.final # "direct" /\ ~ s.ownLocal /\ ~ s.ownRemote

\* merge_windows_dns: two servers of its own after the provider's, the local
\* rules before the provider's.
MergeDns(s, p) ==
    LET local == Fresh(LocalTags, p)
        remote == Fresh(RemoteTags, p)
        endsDirect == Alias(s.final, p) = "direct"
    IN [servers |-> p.dns.servers
                    \o <<LocalServer(local), RemoteServer(s, remote, ProxyTarget(p), local)>>,
        rules |-> WindowsDnsRules(BuildRoute(s), local, remote, Names(s.direct) # {})
                  \o (IF endsDirect THEN <<CatchAll(local)>> ELSE <<>>)
                  \o p.dns.rules,
        final |-> IF endsDirect THEN local
                  ELSE IF s.ownRemote \/ p.dns.servers = <<>> THEN remote
                  ELSE p.dns.final]

\* The resolver of the outbounds' own addresses: the provider's stays unless
\* it has a server called "local" and, on Windows, no resolver of its own; an
\* empty one is filled when DNS rules are merged in.
Resolver(s, p, windows) ==
    LET kept == IF HasServer(p, "local") /\ ~ (windows /\ p.resolver # NoTag)
                THEN "local" ELSE p.resolver
    IN IF kept = NoTag /\ windows /\ ~ NoDnsPolicy(s)
       THEN Fresh(LocalTags, p) ELSE kept

\* Bug: the provider's rules come first.
ProviderFirst(s, p) == p.rules \o LocalRules(s, p)

\* merge_route_documents: local rules run before the provider's.
MergedRules(s, p) == LocalRules(s, p) \o p.rules

MergeReady(p, s, windows) ==
    IF ~ TagsUnique(p) \/ ProxyTarget(p) = NoTag \/ ~ TargetsValid(s, p) THEN None
    ELSE [outbounds |-> p.outbounds \o Standard(s, p),
          rules |-> MergedRules(s, p),
          final |-> Alias(s.final, p),
          resolver |-> Resolver(s, p, windows),
          dns |-> IF ~ windows \/ NoDnsPolicy(s) THEN p.dns ELSE MergeDns(s, p)]
=============================================================================
