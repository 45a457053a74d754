---------------------------- MODULE MCProvisioning ----------------------------
(* Values for TLC: the answers of the release servers, good and unusable.   *)
EXTENDS Provisioning, TLC

Symmetry == Permutations(Attempts)

MCOldPair == [geoip |-> "ip 1", geosite |-> "site 1"]
MCInstalls == {[platform |-> "windows", pair |-> MCOldPair, core |-> "1"],
               [platform |-> "macos", pair |-> Missing, core |-> Missing]}

DataNames == {"geoip", "geosite"}
SumOf(n) == n \o ".sha256sum"
Asset(n, size, tag) ==
  [name |-> n, size |-> size,
   url |-> [plain |-> TRUE, host |-> "github.com", tag |-> tag, file |-> n]]
Listing(size) == <<Asset("geoip", size, "t"), Asset("geosite", size, "t"),
                   Asset("geoip.sha256sum", 1, "t"), Asset("geosite.sha256sum", 1, "t")>>
Sum(hash, n) == [size |-> 1, lines |-> <<<<"comment">>, <<hash, n>>>>]
Release(listing, size, hash) ==
  [tag |-> "t", assets |-> listing,
   body |-> [n \in DataNames \cup {SumOf(m) : m \in DataNames} |->
               CASE n = "geoip" -> [size |-> size, digest |-> "ip 2"]
                 [] n = "geosite" -> [size |-> 1, digest |-> "site 2"]
                 [] n = "geoip.sha256sum" -> Sum("ip 2", "geoip")
                 [] n = "geosite.sha256sum" -> Sum(hash, "geosite")]]
MCReleases ==
  {Release(Listing(1), 1, "site 2"),
   Release(Listing(2), 1, "site 2"), Release(Listing(1), 2, "site 2"),
   Release(Listing(1), 1, "site 3"), Release(Listing(1), 1, "malformed"),
   Release(Listing(1) \o <<Asset("geoip", 1, "t")>>, 1, "site 2"),
   Release(<<Asset("geoip", 1, "other")>> \o Tail(Listing(1)), 1, "site 2")}

Tag == [prefix |-> "v", number |-> "2"]
Name == <<"2", "windows-amd64.zip">>
Direct == [plain |-> TRUE, host |-> "github.com", tag |-> Tag, file |-> Name]
Storage == [plain |-> TRUE, host |-> "release-assets"]
Elsewhere == [plain |-> TRUE, host |-> "elsewhere"]
Entries(binary) == <<[name |-> "LICENSE", safe |-> TRUE, binary |-> Missing],
                     [name |-> "sing-box", safe |-> TRUE, binary |-> binary]>>
Archive(hops, digest, entries) ==
  [name |-> Name, url |-> Direct, hops |-> hops, digest |-> digest, hash |-> "h",
   entries |-> entries]
CoreRelease(assets) == [tag |-> Tag, assets |-> assets]
MCCoreReleases ==
  {CoreRelease(<<Archive(<<Storage>>, "h", Entries("2"))>>),
   CoreRelease(<<Archive(<<Storage>>, "absent", Entries("broken"))>>),
   CoreRelease(<<Archive(<<Storage>>, "other", Entries("2"))>>),
   CoreRelease(<<Archive(<<Elsewhere>>, "h", Entries("2"))>>),
   CoreRelease(<<Archive(<<>>, "h", Entries("2") \o Entries("2"))>>),
   CoreRelease(<<Archive(<<>>, "h", Entries("2")), Archive(<<>>, "h", Entries("2"))>>)}
MCExpected == {Missing, "2", "3"}

MCCurrent == <<1, 9>>
Route == <<"github latest", "github tagged", "assets">>
Entry(kind, signature, artifact) ==
  [kind |-> kind, signature |-> signature, artifact |-> artifact,
   route |-> <<"github asset", "assets">>]
Feed(route, version, signature) ==
  [route |-> route, version |-> version,
   entry |-> [here \in {"windows", "macos"} |->
                Entry(IF here = "windows" THEN "msi" ELSE "dmg", signature, version)]]
MCFeeds ==
  {Feed(Route, <<1, 10>>, <<1, 10>>), Feed(Route, <<1, 11>>, <<1, 11>>),
   Feed(Route, <<1, 9, 0>>, <<1, 9, 0>>)}
=============================================================================
