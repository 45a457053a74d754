------------------------- MODULE MCProfilePipeline -------------------------
(* Answers, settings and connections that meet every branch of the         *)
(* preparation: see the README for what each one is there for.             *)
EXTENDS ProfilePipeline

Base == [scheme |-> "vless", host |-> "a", port |-> 443, user |-> "u", secret |-> "p",
         transport |-> "tcp", security |-> "tls", keys |-> FALSE, obfs |-> "", name |-> "n1"]

MCLinks ==
    {<<Base, [Base EXCEPT !.host = "b", !.name = "", !.transport = "xhttp"], Base>>,
     <<[Base EXCEPT !.scheme = "vmess", !.host = "", !.name = "n4"],
       [Base EXCEPT !.port = 0]>>,
     <<[Base EXCEPT !.scheme = "vmess", !.host = "c", !.name = ""],
       [Base EXCEPT !.scheme = "trojan", !.security = "reality"],
       [Base EXCEPT !.scheme = "hysteria2", !.name = "n2", !.obfs = "salamander"]>>,
     <<[Base EXCEPT !.host = Null, !.port = 1], [Base EXCEPT !.scheme = "other"]>>,
     <<[Base EXCEPT !.host = ""], [Base EXCEPT !.scheme = "tuic", !.name = "n2"]>>,
     <<Base, Base, [Base EXCEPT !.name = "n3"]>>,
     <<>>}

\* A server behind plain WebSocket, on the port of the web.
MCPortBodies ==
    {[shape |-> "links",
      items |-> <<Base, [Base EXCEPT !.host = "b", !.port = port, !.transport = "ws",
                                     !.security = "none"]>>] : port \in {80, 8080}}

Lists(items, n) == UNION {[1 .. k -> items] : k \in 1 .. n}

\* Providers' sing-box configurations.
SbServer(tag, detour) == [tag |-> tag, detour |-> detour, resolver |-> NoTag]
Sb == [outbounds |-> <<[tag |-> "vpn", members |-> <<>>, default |-> NoTag]>>,
       rules |-> <<[match |-> [site |-> {"t"}], verb |-> "route", to |-> "vpn"]>>,
       final |-> "vpn", resolver |-> NoTag,
       dns |-> [servers |-> <<SbServer("local", NoTag)>>, rules |-> <<>>,
                final |-> "local"]]
SbNode(tag) == [tag |-> tag, members |-> <<>>, default |-> NoTag]

MCSingbox ==
    {Sb,
     [Sb EXCEPT !.outbounds = <<SbNode("direct"), SbNode("proxy")>>, !.final = "direct",
                !.rules = <<[match |-> [site |-> {"s"}], verb |-> "route", to |-> "direct"]>>,
                !.dns.servers = <<[SbServer("cloakwire-local", "proxy")
                                        EXCEPT !.resolver = "cloakwire-local"]>>],
     [Sb EXCEPT !.outbounds = <<SbNode("direct"), SbNode("fr")>>, !.final = "direct",
                !.rules = <<[match |-> [site |-> {"t"}], verb |-> "route", to |-> "fr"]>>],
     [Sb EXCEPT !.rules = <<>>, !.dns = [servers |-> <<>>, rules |-> <<>>, final |-> NoTag]],
     [Sb EXCEPT !.outbounds = @ \o @],
     [Sb EXCEPT !.final = "gone"]}

\* Providers' Xray configurations.
Ob(tag, protocol, dialer, legacy) ==
    [tag |-> tag, protocol |-> protocol, dialer |-> dialer, legacy |-> legacy]
In(tag, protocol, listen, port) ==
    [tag |-> tag, protocol |-> protocol, listen |-> listen, port |-> port]
Xr == [inbounds |-> <<In("in", "socks", Local, 1080)>>,
       outbounds |-> <<Ob("px", "vless", "", ""), Ob("fr", "freedom", "", "")>>,
       balancers |-> {}, api |-> NoTag,
       rules |-> <<[match |-> [site |-> {"t"}], to |-> "fr"]>>]

MCXray ==
    {Xr,
     [Xr EXCEPT !.inbounds = <<In("", "http", Everywhere, 8080)>>,
                !.outbounds = Append(@, Ob("bh", "blackhole", "", "")),
                !.api = Local],
     [Xr EXCEPT !.inbounds = <<In("one", "socks", Local, 1080), In("two", "socks", Local, 1081)>>,
                !.outbounds = <<Ob("px", "vless", " ", ""), Ob("fr", "freedom", "", "px")>>,
                !.balancers = {"proxy"}],
     [Xr EXCEPT !.outbounds = <<Ob("wg", "wireguard", "", ""), Ob("fr", "freedom", "", "")>>],
     [Xr EXCEPT !.outbounds = Append(@, Ob("ask", "dns", "", "gone"))],
     [Xr EXCEPT !.outbounds = Append(@, Ob("cloakwire-block", "vless", "", ""))],
     [Xr EXCEPT !.outbounds = Append(@, Ob("protected", "socks", "", "")), !.api = Everywhere],
     [Xr EXCEPT !.outbounds[2].tag = NoTag],
     [Xr EXCEPT !.inbounds = <<In("lan", "socks", "10.0.0.2", 1080)>>,
                !.outbounds = <<Ob("px", "vless", "fr", ""), Ob("fr", "freedom", "", "px")>>],
     [Xr EXCEPT !.inbounds = <<In("h1", "http", Local, 1), In("h2", "http", Local, 2)>>]}

Item(marks, value) == [like |-> FALSE, node |-> None, marks |-> marks, config |-> value]
Marked == [like |-> TRUE, marks |-> {}, config |-> None,
           node |-> [ParseLink(Base) EXCEPT !.protocol = "unsupported", !.tag = ""]]
Outb == [like |-> TRUE, node |-> ParseLink(Base), marks |-> {}, config |-> None]

MCJson ==
    {<<Item({"singbox"}, p)>> : p \in MCSingbox} \cup {<<Item({"xray"}, p)>> : p \in MCXray}
    \cup {<<Item({"xray"}, Xr), Item({"singbox"}, Sb)>>, <<Item({}, None)>>,
          <<Outb>>, <<Marked>>, <<Outb, Marked>>, <<Outb, Item({"singbox"}, Sb)>>, <<>>,
          <<Item({"singbox"}, Sb), Item({"singbox"}, Sb), Item({"singbox"}, Sb)>>}

Body(shape, items) == [shape |-> shape, items |-> items]

MCBodies ==
    {Body("links", l) : l \in MCLinks}
    \cup {Body("yaml", l) : l \in {<<[Base EXCEPT !.port = Missing]>>,
                                   <<[Base EXCEPT !.name = ""], [Base EXCEPT !.host = ""]>>}}
    \cup {Body("json", l) : l \in MCJson}

\* The user's rules.
Rule(match, kind, to) == [on |-> TRUE, match |-> match, kind |-> kind, to |-> to]

MCRules ==
    {Rule([site |-> {"t"}], "route", "direct"),
     Rule([app |-> {"a"}, ip |-> {}], "", "proxy"),
     Rule([site |-> {"s"}, port |-> {443}], "route", "direct"),
     Rule([ip |-> {"x"}], "route", "proxy"),
     Rule([site |-> {"s"}, ip |-> {"x"}], "reject", ""),
     Rule([app |-> {"b"}, site |-> {"t"}], "route", "block"),
     Rule([port |-> {80}, range |-> {443}], "route", "fr"),
     Rule([app |-> {"a"}, port |-> {80}], "reject", ""),
     Rule([site |-> {"s"}], "sniff", ""),
     [Rule([site |-> {"t"}], "reject", "") EXCEPT !.on = FALSE],
     Rule([site |-> {}], "route", "direct")}

MCSettings ==
    [rules : {<<>>} \cup Lists(MCRules, 2), direct : {{}, {"a", Blank}}, vpn : {{}, {"a", "b"}},
     sniff : {TRUE}, final : {"proxy", "auto", "direct", "block"}, ownLocal : {FALSE}, ownRemote : BOOLEAN,
     https : BOOLEAN, pick : {"n2"}]

MCTraffic ==
    [app : {"a", "b", Shared}, site : {"s", "t"}, ip : {"x", "y", "lan"}, port : {53, 80, 443}]
=============================================================================
