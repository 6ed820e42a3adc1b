------------------------------- MODULE Config -------------------------------
(***************************************************************************)
(* The configuration of the two plugins: parseConfig, Validate,            *)
(* parseUnknownAction and isDisabled (docker-cluster/setup.go and          *)
(* cluster_config.go, traefik-externals/setup.go).                         *)
(*                                                                         *)
(* A block of the Corefile is a sequence of directives <<property, value>>.*)
(* An environment is a function on the variables' names, Unset for one     *)
(* that is absent or empty.  Words are in lower case, as ToLower leaves    *)
(* them; a number is an integer or NotANumber; the value of "fallthrough"  *)
(* is the set of names in its zones.                                       *)
(***************************************************************************)
EXTENDS Integers, Sequences, SequencesExt

CONSTANTS
  Addresses,    \* values of host_ip and HOSTIP
  IPv4, IPv6,   \* those net.ParseIP accepts, by family
  Unset,        \* an environment variable that is not set
  NoArg,        \* a directive without its argument
  NotANumber,   \* a text ParseUint or Atoi rejects
  Hostname,     \* os.Hostname, or Unset if it fails
  Invalid       \* parseConfig returned an error

ASSUME ConfigAssumption ==
  /\ IPv4 \subseteq Addresses /\ IPv6 \subseteq Addresses /\ IPv4 \cap IPv6 = {}
  /\ Unset \notin Addresses

isTrue(word) == word \in {"true", "1", "yes"}

parseUnknownAction(word) ==
  IF word \in {"drop", "timeout", "none"} THEN "drop"
  ELSE IF word = "nxdomain" THEN "nxdomain" ELSE Invalid

(* The variables parseConfig starts from.                                  *)
NewClusterConfig ==
  [host_ip |-> Unset, label |-> <<>>, ttl |-> 60, fallthrough |-> {}, unknown_action |-> "drop",
   cluster_enabled |-> FALSE, cluster_port |-> 7946, cluster_seeds |-> <<>>, node_name |-> Unset,
   cluster_secret |-> 0, discovery_port |-> 8889]

(* One directive, or one variable of the environment, which sets the same  *)
(* property.  docker_socket and cluster_bind_addr are only passed on.      *)
Set(cfg, property, value) ==
  CASE property \in {"ttl", "cluster_port", "discovery_port"} ->
         IF value = NotANumber THEN Invalid ELSE [cfg EXCEPT ![property] = value]
    [] property = "unknown_action" ->
         IF parseUnknownAction(value) = Invalid THEN Invalid
         ELSE [cfg EXCEPT !.unknown_action = parseUnknownAction(value)]
    [] property = "cluster_enabled" -> [cfg EXCEPT !.cluster_enabled = isTrue(value)]
    [] property = "label" -> [cfg EXCEPT !.label = @ \o value]
    [] property \in {"host_ip", "fallthrough", "cluster_seeds", "node_name", "cluster_secret"} ->
         [cfg EXCEPT ![property] = value]
    [] property \in {"docker_socket", "cluster_bind_addr"} -> cfg
    [] OTHER -> Invalid

(* A directive of the docker-cluster block: the secret is refused there.   *)
Directive(cfg, d) ==
  IF cfg = Invalid \/ d[2] = NoArg \/ d[1] = "cluster_secret" THEN Invalid ELSE Set(cfg, d[1], d[2])

(* The variables in the order parseConfig reads them.                      *)
Overrides ==
  <<<<"HOSTIP", "host_ip">>, <<"DOCKER_SOCKET", "docker_socket">>, <<"DNS_UNKNOWN_ACTION", "unknown_action">>,
    <<"CLUSTER_ENABLED", "cluster_enabled">>, <<"CLUSTER_PORT", "cluster_port">>,
    <<"CLUSTER_SEEDS", "cluster_seeds">>, <<"NODE_NAME", "node_name">>,
    <<"CLUSTER_BIND_ADDR", "cluster_bind_addr">>, <<"CLUSTER_SECRET", "cluster_secret">>,
    <<"DISCOVERY_PORT", "discovery_port">>>>

(* The legacy variables, which the new ones override.  JOYRIDE_NXDOMAIN_   *)
(* ENABLED can only turn nxdomain on.                                      *)
Legacy(cfg, env) ==
  LET serf == IF env["JOYRIDE_ENABLE_SERF"] = Unset THEN cfg
              ELSE Set(cfg, "cluster_enabled", env["JOYRIDE_ENABLE_SERF"])
  IN  IF isTrue(env["JOYRIDE_NXDOMAIN_ENABLED"]) THEN [serf EXCEPT !.unknown_action = "nxdomain"] ELSE serf

(* For comparison: the legacy variables override the new ones.             *)
OverrideLegacyLast(cfg, env) ==
  LET c == FoldLeft(LAMBDA c, o : IF c = Invalid \/ env[o[1]] = Unset THEN c ELSE Set(c, o[2], env[o[1]]),
                    cfg, Overrides)
  IN  IF c = Invalid THEN c ELSE Legacy(c, env)

(* For comparison: HOSTIP counts only where the Corefile gives no address. *)
OverrideKeepsAddress(cfg, env) ==
  FoldLeft(LAMBDA c, o : IF c = Invalid \/ env[o[1]] = Unset \/ (o[2] = "host_ip" /\ c.host_ip # Unset)
                         THEN c ELSE Set(c, o[2], env[o[1]]),
           Legacy(cfg, env), Overrides)

Override(cfg, env) ==
  FoldLeft(LAMBDA c, o : IF c = Invalid \/ env[o[1]] = Unset THEN c ELSE Set(c, o[2], env[o[1]]),
           Legacy(cfg, env), Overrides)

(* The key is an AES key; a node of a cluster has a name.                  *)
Validate(cfg) ==
  IF \/ cfg.cluster_port <= 0 \/ cfg.cluster_port >= 65536
     \/ cfg.cluster_secret \notin {0, 16, 24, 32}
     \/ cfg.cluster_enabled /\ cfg.node_name = Unset /\ Hostname = Unset
  THEN Invalid
  ELSE [cfg EXCEPT !.node_name = IF cfg.cluster_enabled /\ @ = Unset THEN Hostname ELSE @]

(* parseConfig of docker-cluster.                                          *)
parseCluster(block, env) ==
  LET file == FoldLeft(Directive, NewClusterConfig, block)
      cfg  == IF file = Invalid THEN Invalid ELSE Override(file, env)
  IN  IF cfg = Invalid THEN Invalid
      ELSE IF cfg.host_ip = Unset \/ Validate(cfg) = Invalid THEN Invalid
      ELSE [Validate(cfg) EXCEPT !.label = IF @ = <<>> THEN <<"coredns.host.name", "joyride.host.name">> ELSE @]

-----------------------------------------------------------------------------

(* parseConfig of traefik-externals: a TTL of the environment that is no   *)
(* number is ignored; the address must be one.                             *)
ExternalsDirective(cfg, d) ==
  IF cfg = Invalid \/ d[2] = NoArg THEN Invalid
  ELSE IF d[1] = "ttl" /\ d[2] = NotANumber THEN Invalid
  ELSE IF d[1] \in {"directory", "host_ip", "ttl", "fallthrough"} THEN [cfg EXCEPT ![d[1]] = d[2]]
  ELSE Invalid

parseExternals(block, env) ==
  LET file == FoldLeft(ExternalsDirective,
                       [directory |-> "default", host_ip |-> Unset, ttl |-> 60, fallthrough |-> {}], block)
      over(v, old) == IF env[v] = Unset THEN old ELSE env[v]
  IN  IF file = Invalid THEN Invalid
      ELSE IF over("HOSTIP", file.host_ip) \notin IPv4 \cup IPv6 THEN Invalid
      ELSE [file EXCEPT !.host_ip = over("HOSTIP", @),
                        !.directory = over("TRAEFIK_EXTERNALS_DIRECTORY", @),
                        !.ttl = IF env["TRAEFIK_EXTERNALS_TTL"] = NotANumber THEN @
                                ELSE over("TRAEFIK_EXTERNALS_TTL", @)]

isDisabled(env) == env["TRAEFIK_EXTERNALS_ENABLED"] \in {"false", "no", "0"}

=============================================================================
