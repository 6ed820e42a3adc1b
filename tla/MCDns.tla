-------------------------------- MODULE MCDns --------------------------------
EXTENDS Dns

Variables == {"HOSTIP", "DOCKER_SOCKET", "DNS_UNKNOWN_ACTION", "CLUSTER_ENABLED", "CLUSTER_PORT",
              "CLUSTER_SEEDS", "NODE_NAME", "CLUSTER_BIND_ADDR", "CLUSTER_SECRET", "DISCOVERY_PORT",
              "JOYRIDE_ENABLE_SERF", "JOYRIDE_NXDOMAIN_ENABLED", "TRAEFIK_EXTERNALS_DIRECTORY",
              "TRAEFIK_EXTERNALS_TTL", "TRAEFIK_EXTERNALS_ENABLED"}
Env(f) == [v \in Variables |-> IF v \in DOMAIN f THEN f[v] ELSE Unset]

All == {<<"app">>, <<"web">>, <<"ext">>, <<"nas">>}

\* The blocks of the Corefile the image ships, and what operators add to them.
ClusterBlock == <<<<"docker_socket", "default">>, <<"host_ip", "0.0.0.0">>, <<"label", <<"coredns.host.name">>>>,
                  <<"label", <<"joyride.host.name">>>>, <<"ttl", 60>>>>
ExternalsBlock == <<<<"directory", "default">>, <<"host_ip", "0.0.0.0">>, <<"ttl", 60>>, <<"fallthrough", All>>>>
Plus(d) == ClusterBlock \o d

Setup(cluster, ext, env) ==
  [cluster |-> cluster, externals |-> ext, env |-> Env(env), directory |-> TRUE, forward |-> FALSE]
HostIp == [HOSTIP |-> "10.0.0.1"]

Shipped == Setup(ClusterBlock, ExternalsBlock, HostIp)

MCShipped == {Shipped}

\* Each setting in every combination of the places it can come from.
Directives(property, words) == {<<>>} \cup {<<<<property, w>>>> : w \in words}
Actions ==
  {Setup(Plus(d), NoBlock, [DNS_UNKNOWN_ACTION |-> new, JOYRIDE_NXDOMAIN_ENABLED |-> old]) :
     d \in Directives("unknown_action", {"nxdomain"}) \cup {<<<<"unknown_action", "nxdomain">>, <<"unknown_action", "timeout">>>>},
     new \in {Unset, "none", "nxdomain", "refuse"}, old \in {Unset, "1", "no"}}
Clusters ==
  {Setup(Plus(d), NoBlock, [CLUSTER_ENABLED |-> new, JOYRIDE_ENABLE_SERF |-> old]) :
     d \in Directives("cluster_enabled", {"yes", "no"}), new \in {Unset, "true", "off"}, old \in {Unset, "1", "no"}}
Chains ==
  {[Setup(Plus(d), ext, [HOSTIP |-> ip, TRAEFIK_EXTERNALS_ENABLED |-> on]) EXCEPT !.forward = fwd] :
     d \in Directives("fallthrough", {All, {<<"ext">>}}), ext \in {NoBlock, ExternalsBlock, SubSeq(ExternalsBlock, 1, 3)},
     ip \in {Unset, "10.0.0.1", "::1", "host.local"}, on \in {Unset, "no"}, fwd \in BOOLEAN}
Others ==
  {[Shipped EXCEPT !.directory = FALSE],
   Setup(Plus(<<<<"cluster_enabled", "yes">>, <<"fallthrough", All>>>>), ExternalsBlock, [HOSTIP |-> "10.0.0.1", NODE_NAME |-> "n1"]),
   Setup(ClusterBlock, ExternalsBlock, [TRAEFIK_EXTERNALS_TTL |-> NotANumber, CLUSTER_SECRET |-> 24]),
   Setup(<<<<"host_ip", "10.0.0.1">>>>, NoBlock, <<>>),
   Setup(<<>>, NoBlock, <<>>), Setup(<<<<"host_ip", NoArg>>>>, NoBlock, HostIp),
   Setup(<<<<"cluster_secret", 16>>>>, NoBlock, HostIp), Setup(<<<<"colour", "blue">>>>, NoBlock, HostIp),
   Setup(ClusterBlock, NoBlock, [CLUSTER_PORT |-> 65536]), Setup(ClusterBlock, NoBlock, [CLUSTER_PORT |-> 65535]),
   Setup(ClusterBlock, NoBlock, [CLUSTER_SECRET |-> 20]), Setup(ClusterBlock, NoBlock, [DISCOVERY_PORT |-> NotANumber]),
   Setup(ClusterBlock, <<<<"colour", "blue">>>>, HostIp)}
MCSetups == Actions \cup Clusters \cup Chains \cup Others

MCAddresses == {"0.0.0.0", "10.0.0.1", "10.0.0.2", "::1", "host.local"}
MCIPv4 == {"0.0.0.0", "10.0.0.1", "10.0.0.2"}
MCIPv6 == {"::1"}

\* One container; parts with spaces, in upper case, twice, empty, and not allowed.
MCContainers == {"c1"}
MCLabels == [c \in MCContainers |->
  [l \in {"coredns.host.name", "other"} |-> IF l = "other" THEN <<"ext">> ELSE <<" App", "app", "", "a_b", "..">>]]
MCTrim == [p \in {"ext", " App", "app", "", "a_b", ".."} |->
             CASE p = " App" -> <<"App">> [] p = "" -> <<>> [] p = "a_b" -> <<"a", "_", "b">>
               [] p = ".." -> <<"a", ".", ".">> [] OTHER -> <<p>>]
MCLower == [t \in {"App"} |-> "app"]
MCBytes == {"App", "app", "ext", "a", "b", "."}
MCQuestions == {<<"App", ".">>, <<"ext", ".">>, <<"nas", ".">>}
MCTypes == {"A", "AAAA", "TXT"}
MCStatic == {<<"nas">>}
MCPeerRecords == {<<<<"app">>, "10.0.0.2">>, <<<<"ext">>, "host.local">>}
MCExternal == {<<"ext">>, <<"app">>}
=============================================================================
