--------------------------------- MODULE Dns ---------------------------------
(***************************************************************************)
(* One CoreDNS server block of the image: the setup of the two plugins     *)
(* from the Corefile and the environment, and a query on its way through   *)
(* the chain hosts, docker-cluster, traefik-externals, forward (the order  *)
(* of plugin.cfg) while containers, peers and files change the records.    *)
(*                                                                         *)
(* A hostname is a sequence of tokens, "." being one.  A handler's lookup  *)
(* is one atomic load, and what it does with the result depends on nothing *)
(* else, so a handler is one step; the records change between the steps.   *)
(* How the records come about is the subject of the modules DockerWatcher, *)
(* Cluster and FileWatcher: here containers come and go one at a time, and *)
(* a peer or a load may bring any record.                                  *)
(***************************************************************************)
EXTENDS Config, FiniteSets

CONSTANTS
  Setups,       \* [cluster, externals: blocks, NoBlock if absent; env; directory, forward: BOOLEAN]
  NoBlock,
  Containers,   \* ids
  Labels,       \* Containers -> [label name -> Seq of the parts between commas]
  TrimSpace,    \* the parts -> hostnames
  Lower,        \* strings.ToLower, for the tokens it changes
  Bytes,        \* the tokens made of letters, digits, "-" and "."
  MaxLength,    \* 253 bytes, in tokens
  Questions,    \* the names clients ask for, as they write them, with the final dot
  Types,        \* "A", "AAAA" and others
  Static,       \* the names of the hosts file
  PeerRecords,  \* <<hostname, address>> that peers may announce
  External      \* the hostnames of the Traefik files

(* A block is a sequence of directives, and what host_ip is given is an    *)
(* address or nothing.                                                     *)
IsBlock(block) == Len(block) \in Nat /\ DOMAIN block = 1 .. Len(block)

HasAddresses(block) == \A i \in DOMAIN block : block[i][1] = "host_ip" => block[i][2] \in Addresses \cup {NoArg}

(* The Corefile has a docker-cluster block.  Hostnames are sequences of    *)
(* tokens, in the labels and in what peers announce.                       *)
ASSUME DnsAssumption ==
  /\ \A s \in Setups :
       /\ s.cluster # NoBlock /\ IsBlock(s.cluster) /\ HasAddresses(s.cluster)
       /\ s.externals # NoBlock => IsBlock(s.externals) /\ HasAddresses(s.externals)
       /\ s.env["HOSTIP"] \in Addresses \cup {Unset}
  /\ \A c \in Containers : \A l \in DOMAIN Labels[c] : \A part \in ToSet(Labels[c][l]) :
       TrimSpace[part] \in Seq(STRING)
  /\ \A t \in DOMAIN Lower : Lower[t] \in STRING
  /\ PeerRecords \subseteq Seq(STRING) \X Addresses

VARIABLES
  setup,        \* the Corefile and environment of this process
  phase,        \* "cluster", "externals": the plugin being set up; "serving", "refused"
  dc, te,       \* the configurations, Unset until set up, or if there is no handler
  running,      \* the containers the watcher tracks
  records,      \* docker-cluster's records
  externals,    \* the hostnames in traefik-externals' records
  query         \* the query in flight or last answered

vars == <<setup, phase, dc, te, running, records, externals, query>>

ToLower(name) == [i \in DOMAIN name |-> IF name[i] \in DOMAIN Lower THEN Lower[name[i]] ELSE name[i]]

(* The queried name as both handlers look it up.                           *)
qname(name) ==
  LET low == ToLower(name)
  IN  IF low # <<>> /\ Last(low) = "." THEN Front(low) ELSE low

(* dns.IsDomainName: no empty label, except the root.                      *)
IsDomainName(name) ==
  name = <<".">> \/ (name[1] # "." /\ \A i \in 2 .. Len(name) : name[i] = "." => name[i - 1] # ".")

isValidHostname(name) ==
  /\ Len(name) \in 1 .. MaxLength
  /\ \A i \in DOMAIN name : name[i] \in Bytes
  /\ IsDomainName(name)

(* The hostnames of a container's labels; no caller depends on the order.  *)
extractHostnames(labels, c) ==
  {h \in {TrimSpace[part] : part \in UNION {ToSet(Labels[c][l]) : l \in ToSet(labels) \cap DOMAIN Labels[c]}} :
     isValidHostname(h)}

NoQuery == [at |-> "done", name |-> <<>>, type |-> "A", reply |-> "none", ip |-> Unset,
            cluster |-> {}, external |-> {}]

Init ==
  /\ setup \in Setups
  /\ phase = "cluster"
  /\ dc = Unset /\ te = Unset
  /\ running = {} /\ records = <<>> /\ externals = {}
  /\ query = NoQuery

-----------------------------------------------------------------------------
(* Setup: the plugins in the order of plugin.cfg; an error ends the start. *)

(* With clustering the manager may fail to start (a port in use).          *)
SetupCluster ==
  /\ phase = "cluster"
  /\ LET cfg == parseCluster(setup.cluster, setup.env)
     IN  \/ cfg # Invalid /\ dc' = cfg /\ phase' = "externals"
         \/ (IF cfg = Invalid THEN TRUE ELSE cfg.cluster_enabled) /\ phase' = "refused" /\ UNCHANGED dc
  /\ UNCHANGED <<setup, te, running, records, externals, query>>

(* The block is parsed even if the plugin is disabled.  No handler without *)
(* the directory; the watcher may fail to start.                           *)
SetupExternals ==
  /\ phase = "externals"
  /\ IF setup.externals = NoBlock THEN phase' = "serving" /\ UNCHANGED te
     ELSE LET cfg == parseExternals(setup.externals, setup.env)
          IN  \/ /\ cfg # Invalid
                 /\ te' = IF isDisabled(setup.env) \/ ~setup.directory THEN Unset ELSE cfg
                 /\ phase' = "serving"
              \/ /\ cfg = Invalid \/ (~isDisabled(setup.env) /\ setup.directory)
                 /\ phase' = "refused" /\ UNCHANGED te
  /\ UNCHANGED <<setup, dc, running, records, externals, query>>

-----------------------------------------------------------------------------
(* The records.  A query in flight notes what its name was looked up as.   *)

Held(recs, name) == IF qname(name) \in DOMAIN recs THEN recs[qname(name)] ELSE Unset

Observe(recs, exts) ==
  IF query.at = "done" THEN query
  ELSE [query EXCEPT !.cluster = @ \cup {Held(recs, query.name)},
                     !.external = @ \cup {qname(query.name) \in exts}]

(* A write of docker-cluster's records.                                    *)
Store(recs) ==
  /\ phase = "serving"
  /\ records' = recs
  /\ query' = Observe(recs, externals)
  /\ UNCHANGED <<setup, phase, dc, te, externals>>

Without(recs, S) == [n \in DOMAIN recs \ S |-> recs[n]]

ContainerUp(c) ==
  LET names == {ToLower(h) : h \in extractHostnames(dc.label, c)}
  IN  /\ c \notin running
      /\ running' = running \cup {c}
      /\ Store([n \in DOMAIN records \cup names |-> IF n \in names THEN dc.host_ip ELSE records[n]])

ContainerDown(c) ==
  /\ c \in running
  /\ running' = running \ {c}
  /\ Store(Without(records, {ToLower(h) : h \in extractHostnames(dc.label, c)}))

PeerAdds(r) ==
  /\ phase = "serving" /\ dc.cluster_enabled
  /\ Store([n \in DOMAIN records \cup {r[1]} |-> IF n = r[1] THEN r[2] ELSE records[n]])
  /\ UNCHANGED running

PeerRemoves(r) ==
  /\ phase = "serving" /\ dc.cluster_enabled
  /\ Store(Without(records, {r[1]}))
  /\ UNCHANGED running

(* The file watcher installs what it has read.                             *)
Load(S) ==
  /\ phase = "serving" /\ te # Unset
  /\ externals' = S
  /\ query' = Observe(records, S)
  /\ UNCHANGED <<setup, phase, dc, te, running, records>>

-----------------------------------------------------------------------------
(* A query in the chain.                                                   *)

Ask(name, type) ==
  /\ phase = "serving" /\ query.at = "done"
  /\ query' = [NoQuery EXCEPT !.at = "hosts", !.name = name, !.type = type,
                 !.cluster = {Held(records, name)}, !.external = {qname(name) \in externals}]
  /\ UNCHANGED <<setup, phase, dc, te, running, records, externals>>

Serving(plugin) ==
  /\ query.at = plugin
  /\ UNCHANGED <<setup, phase, dc, te, running, records, externals>>

(* w.WriteMsg, which may fail.                                             *)
WriteMsg(reply, ip) ==
  \/ query' = [query EXCEPT !.at = "done", !.reply = reply, !.ip = ip]
  \/ query' = [query EXCEPT !.at = "done", !.reply = "failed"]

Drop == query' = [query EXCEPT !.at = "done"]

(* plugin.NextOrFailure: the next handler, or SERVFAIL without one.        *)
NextOrFailure(plugin) ==
  query' = IF plugin = "docker-cluster" /\ te # Unset THEN [query EXCEPT !.at = "traefik-externals"]
           ELSE IF setup.forward THEN [query EXCEPT !.at = "forward"]
           ELSE [query EXCEPT !.at = "done", !.reply = "servfail"]

(* The hosts plugin, with fallthrough as in the Corefile.                  *)
ServeHosts ==
  /\ Serving("hosts")
  /\ IF qname(query.name) \in Static THEN WriteMsg("static", Unset)
     ELSE query' = [query EXCEPT !.at = "docker-cluster"]

handleUnknown ==
  IF qname(query.name) \in dc.fallthrough THEN NextOrFailure("docker-cluster")
  ELSE IF dc.unknown_action = "nxdomain" THEN WriteMsg("nxdomain", Unset)
  ELSE Drop

(* For comparison: only A queries are looked up.                           *)
ServeClusterOnlyA ==
  /\ Serving("docker-cluster")
  /\ LET ip == Held(records, query.name)
     IN  IF query.type = "A" /\ ip \in IPv4 THEN WriteMsg("A", ip) ELSE handleUnknown

(* For comparison: the address is not checked.                             *)
ServeClusterUnchecked ==
  /\ Serving("docker-cluster")
  /\ LET ip == Held(records, query.name)
     IN  IF query.type = "AAAA" /\ ip # Unset THEN WriteMsg("empty", Unset)
         ELSE IF query.type = "A" /\ ip # Unset THEN WriteMsg("A", ip)
         ELSE handleUnknown

ServeCluster ==
  /\ Serving("docker-cluster")
  /\ LET ip == Held(records, query.name)
     IN  IF query.type = "AAAA" /\ ip # Unset THEN WriteMsg("empty", Unset)
         ELSE IF query.type = "A" /\ ip \in IPv4 THEN WriteMsg("A", ip)
         ELSE handleUnknown

(* For comparison: a name in the fallthrough zones is passed on unseen.    *)
ServeExternalsFallFirst ==
  /\ Serving("traefik-externals")
  /\ LET found == qname(query.name) \in externals
     IN  IF query.type = "AAAA" /\ found THEN WriteMsg("empty", Unset)
         ELSE IF query.type # "A" \/ qname(query.name) \in te.fallthrough THEN NextOrFailure("traefik-externals")
         ELSE IF found /\ te.host_ip \in IPv4 THEN WriteMsg("A", te.host_ip)
         ELSE Drop

(* Other types pass on whatever fallthrough says; a known name without an  *)
(* IPv4 address is dropped.                                                *)
ServeExternals ==
  /\ Serving("traefik-externals")
  /\ LET found == qname(query.name) \in externals
     IN  IF query.type = "AAAA" /\ found THEN WriteMsg("empty", Unset)
         ELSE IF query.type # "A" THEN NextOrFailure("traefik-externals")
         ELSE IF ~found /\ qname(query.name) \in te.fallthrough THEN NextOrFailure("traefik-externals")
         ELSE IF found /\ te.host_ip \in IPv4 THEN WriteMsg("A", te.host_ip)
         ELSE Drop

Forward == Serving("forward") /\ WriteMsg("forwarded", Unset)

Next ==
  \/ SetupCluster \/ SetupExternals
  \/ \E c \in Containers : ContainerUp(c) \/ ContainerDown(c)
  \/ \E r \in PeerRecords : PeerAdds(r) \/ PeerRemoves(r)
  \/ \E S \in SUBSET External : Load(S)
  \/ \E name \in Questions, type \in Types : Ask(name, type)
  \/ ServeHosts \/ ServeCluster \/ ServeExternals \/ Forward

Spec == Init /\ [][Next]_vars

-----------------------------------------------------------------------------

(* What the operator asked for, said of the whole input at once: the last  *)
(* directive counts.                                                       *)
LastAmong(block, S, default) ==
  IF S = {} THEN default ELSE block[CHOOSE i \in S : \A j \in S : j <= i][2]

LastOf(block, property, default) ==
  LastAmong(block, IF block = NoBlock THEN {} ELSE {i \in DOMAIN block : block[i][1] = property}, default)

WantedAddress(block) ==
  IF setup.env["HOSTIP"] # Unset THEN setup.env["HOSTIP"] ELSE LastOf(block, "host_ip", Unset)

WantedAction ==
  IF setup.env["DNS_UNKNOWN_ACTION"] # Unset THEN parseUnknownAction(setup.env["DNS_UNKNOWN_ACTION"])
  ELSE IF isTrue(setup.env["JOYRIDE_NXDOMAIN_ENABLED"]) THEN "nxdomain"
  ELSE parseUnknownAction(LastOf(setup.cluster, "unknown_action", "drop"))

WantsCluster ==
  LET legacy == setup.env["JOYRIDE_ENABLE_SERF"]  new == setup.env["CLUSTER_ENABLED"]
  IN  isTrue(IF new # Unset THEN new ELSE IF legacy # Unset THEN legacy
             ELSE LastOf(setup.cluster, "cluster_enabled", "no"))

(* The last query is answered, and the answer could be sent.               *)
Answered == phase = "serving" /\ query.at = "done" /\ query.name # <<>> /\ query.reply # "failed"

NotStatic == qname(query.name) \notin Static

(* The state is well formed; an A record carries an IPv4 address: neither  *)
(* plugin builds one from an address To4 does not convert.                 *)
TypeOK ==
  /\ setup \in Setups
  /\ phase \in {"cluster", "externals", "serving", "refused"}
  /\ running \subseteq Containers /\ externals \subseteq External
  /\ \A n \in DOMAIN records : n \in Seq(STRING) /\ records[n] \in Addresses
  /\ query.at \in {"hosts", "docker-cluster", "traefik-externals", "forward", "done"}
  /\ query.reply = "A" => query.ip \in IPv4

(* A name that docker-cluster has with an IPv4 address for as long as the  *)
(* query is under way, whatever its changes, is answered from its records: *)
(* it is never denied, dropped, passed on or answered by a later plugin,   *)
(* and an AAAA query for it gets the empty reply.                          *)
KnownAnswered ==
  Answered /\ NotStatic /\ query.cluster \subseteq IPv4 =>
    /\ query.type = "A" => query.reply = "A" /\ query.ip \in query.cluster
    /\ query.type = "AAAA" => query.reply = "empty"

(* A name docker-cluster does not have at any time of the query, and does  *)
(* not pass on, gets what the operator asked for, no response or NXDOMAIN, *)
(* however the Corefile, the legacy variable and the new one disagree.     *)
UnknownAsAsked ==
  Answered /\ NotStatic /\ query.cluster = {Unset} /\ qname(query.name) \notin dc.fallthrough =>
    query.reply = IF WantedAction = "drop" THEN "none" ELSE "nxdomain"

(* An A record carries the address the operator asked for, HOSTIP before   *)
(* the Corefile's placeholder, or with clustering a peer's.                *)
AddressAsAsked ==
  Answered /\ query.reply = "A" =>
    query.ip \in {WantedAddress(setup.cluster), WantedAddress(setup.externals)}
                  \cup (IF WantsCluster THEN {r[2] : r \in PeerRecords} ELSE {})

(* A name of the Traefik files that docker-cluster does not have and       *)
(* passes on is answered with traefik-externals' address, if it is an IPv4 *)
(* one, and not passed on or dropped.                                      *)
PassedOnAnswered ==
  (/\ Answered /\ NotStatic /\ query.type = "A"
   /\ query.cluster = {Unset} /\ query.external = {TRUE}
   /\ qname(query.name) \in dc.fallthrough /\ te.host_ip \in IPv4) =>
    query.reply = "A" /\ query.ip = te.host_ip

(* README.md: traefik-externals creates DNS A records pointing those       *)
(* hostnames to your configured HOSTIP.  A name it has throughout, and no  *)
(* other plugin has, is answered with that address.                        *)
ExternalsServed ==
  Answered /\ NotStatic /\ query.type = "A" /\ query.cluster = {Unset} /\ query.external = {TRUE} =>
    query.reply = "A" /\ query.ip = te.host_ip

=============================================================================
