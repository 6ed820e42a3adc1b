----------------------------- MODULE DnsProofs -----------------------------
(***************************************************************************)
(* For any Corefile, environment, records and questions: a name that       *)
(* docker-cluster knows is answered from its records, one it passes on     *)
(* from the Traefik files, and one it does not know as the operator asked; *)
(* and the addresses are the ones that were asked for.                     *)
(*                                                                         *)
(* The first half is about the configuration: what the folds over the      *)
(* directives of a block and over the variables of the environment         *)
(* compute, by induction over the number of those read.  The second half   *)
(* is about a query in the chain.                                          *)
(***************************************************************************)
EXTENDS Dns, WellFoundedInduction, TLAPS

(* Induction over the naturals, by the least number that is not in S.      *)
LEMMA Induction ==
  ASSUME NEW S, 0 \in S, \A n \in Nat : n \in S => n + 1 \in S
  PROVE  \A n \in Nat : n \in S
<1> DEFINE T == Nat \ S
           R == OpToRel(<, Nat)
<1> SUFFICES ASSUME T # {} PROVE FALSE
  BY Zenon
<1>1. IsWellFoundedOn(R, Nat) /\ T \subseteq Nat
  BY Zenon, NatLessThanWellFounded
<1> HIDE DEF R, T
<1>2. PICK x \in T : \A y \in T : ~(<<y, x>> \in R)
  BY Zenon, <1>1, WFMin
<1>3. x \in Nat /\ x # 0
  BY DEF T
<1>4. x - 1 \in Nat /\ (x - 1) + 1 = x
  BY <1>3
<1>5. x - 1 \in T
  BY <1>4 DEF T
<1>6. <<x - 1, x>> \in R
  BY <1>3, <1>4 DEF R, OpToRel
<1> QED BY Zenon, <1>2, <1>5, <1>6

(* Max is the greatest element, if there is one.                           *)
LEMMA MaxIs ==
  ASSUME NEW S \in SUBSET Int, NEW x \in S, \A y \in S : y <= x
  PROVE  Max(S) = x
<1>1. \A y \in S : x >= y
  OBVIOUS
<1> DEFINE m == Max(S)
<1>2. m \in S /\ \A y \in S : m >= y
  BY Zenon, <1>1 DEF Max
<1> HIDE DEF m
<1>3. m \in Int /\ x \in Int /\ m >= x /\ x >= m
  BY Zenon, <1>1, <1>2
<1>4. m = x
  BY <1>3
<1> QED BY Zenon, <1>4 DEF m

-----------------------------------------------------------------------------
(* Reading a block of the Corefile and reading the variables of the        *)
(* environment are folds: recursive functions on the sets of indices.      *)

OverrideStep(env, c, o) == IF c = Invalid \/ env[o[1]] = Unset THEN c ELSE Set(c, o[2], env[o[1]])

Step(kind, env, c, d) ==
  CASE kind = "cluster" -> Directive(c, d)
    [] kind = "externals" -> ExternalsDirective(c, d)
    [] OTHER -> OverrideStep(env, c, d)

IsFold(kind, env, base, seq, n, f) ==
  f = [I \in SUBSET (1 .. n) |-> IF I = {} THEN base ELSE Step(kind, env, f[I \ {Max(I)}], seq[Max(I)])]

(* The function exists, whatever is read, ...                              *)
LEMMA FoldExists ==
  ASSUME NEW kind, NEW env, NEW base, NEW seq, NEW n \in Nat
  PROVE  \E f : IsFold(kind, env, base, seq, n, f)
<1> DEFINE T == {k \in Nat : \E f : IsFold(kind, env, base, seq, k, f)}
<1>1. 0 \in T
  <2> DEFINE f == [I \in SUBSET (1 .. 0) |-> base]
  <2>1. \A I \in SUBSET (1 .. 0) : I = {}
    OBVIOUS
  <2>2. IsFold(kind, env, base, seq, 0, f)
    BY Zenon, <2>1 DEF IsFold
  <2> QED BY <2>2
<1>2. ASSUME NEW k \in Nat, k \in T PROVE k + 1 \in T
  <2>1. PICK f : IsFold(kind, env, base, seq, k, f)
    BY Zenon, <1>2
  <2> DEFINE g == [I \in SUBSET (1 .. (k + 1)) |->
                    IF k + 1 \in I THEN Step(kind, env, f[I \ {k + 1}], seq[k + 1]) ELSE f[I]]
  <2>2. ASSUME NEW I \in SUBSET (1 .. (k + 1))
        PROVE  g[I] = IF I = {} THEN base ELSE Step(kind, env, g[I \ {Max(I)}], seq[Max(I)])
    <3>1. CASE k + 1 \in I
      <4>1. I \in SUBSET Int /\ \A y \in I : y <= k + 1
        OBVIOUS
      <4>2. Max(I) = k + 1
        BY Zenon, <3>1, <4>1, MaxIs
      <4>3. I \ {k + 1} \in SUBSET (1 .. (k + 1)) /\ k + 1 \notin I \ {k + 1} /\ I # {}
        BY Zenon, <3>1
      <4>4. g[I \ {k + 1}] = f[I \ {k + 1}]
        BY Zenon, <4>3
      <4> QED BY Zenon, <3>1, <4>2, <4>3, <4>4
    <3>2. CASE k + 1 \notin I
      <4>1. I \in SUBSET (1 .. k)
        BY <3>2
      <4>2. I \ {Max(I)} \in SUBSET (1 .. (k + 1)) /\ k + 1 \notin I \ {Max(I)}
        BY Zenon, <3>2
      <4>3. g[I] = f[I] /\ g[I \ {Max(I)}] = f[I \ {Max(I)}]
        BY Zenon, <3>2, <4>2
      <4>4. f[I] = IF I = {} THEN base ELSE Step(kind, env, f[I \ {Max(I)}], seq[Max(I)])
        BY Zenon, <2>1, <4>1 DEF IsFold
      <4> QED BY Zenon, <4>3, <4>4
    <3> QED BY Zenon, <3>1, <3>2
  <2> HIDE DEF g
  <2>3. IsFold(kind, env, base, seq, k + 1, g)
    <3>1. g = [I \in SUBSET (1 .. (k + 1)) |-> g[I]]
      BY Zenon DEF g
    <3> QED BY Zenon, <2>2, <3>1 DEF IsFold
  <2>4. k + 1 \in Nat
    OBVIOUS
  <2> QED BY Zenon, <2>3, <2>4
<1> HIDE DEF T
<1>3. n \in T
  BY Zenon, <1>1, <1>2, Induction
<1> QED BY Zenon, <1>3 DEF T

(* ... and takes one step per element.                                     *)
Runs(kind, env, base, seq, n, f) ==
  /\ f[1 .. 0] = base
  /\ \A k \in 1 .. n : f[1 .. k] = Step(kind, env, f[1 .. (k - 1)], seq[k])

LEMMA FoldRuns ==
  ASSUME NEW kind, NEW env, NEW base, NEW seq, NEW n \in Nat, NEW f, IsFold(kind, env, base, seq, n, f)
  PROVE  Runs(kind, env, base, seq, n, f)
<1>1. f[1 .. 0] = base
  <2>1. 1 .. 0 = {}
    OBVIOUS
  <2> QED BY Zenon, <2>1 DEF IsFold
<1>2. ASSUME NEW k \in 1 .. n PROVE f[1 .. k] = Step(kind, env, f[1 .. (k - 1)], seq[k])
  <2> DEFINE I == 1 .. k
  <2>1. I \in SUBSET Int /\ k \in I /\ (\A y \in I : y <= k) /\ I \ {k} = 1 .. (k - 1) /\ I \in SUBSET (1 .. n)
    OBVIOUS
  <2> HIDE DEF I
  <2>2. Max(I) = k /\ I # {}
    BY Zenon, <2>1, MaxIs
  <2>3. f[I] = Step(kind, env, f[I \ {Max(I)}], seq[Max(I)])
    BY Zenon, <2>1, <2>2 DEF IsFold
  <2>4. f[I] = Step(kind, env, f[1 .. (k - 1)], seq[k])
    BY Zenon, <2>1, <2>2, <2>3
  <2> QED BY Zenon, <2>4 DEF I
<1> QED BY Zenon, <1>1, <1>2 DEF Runs

ClusterFile(b) == FoldLeft(Directive, NewClusterConfig, b)

(* The docker-cluster block, ...                                           *)
LEMMA ClusterFolds ==
  ASSUME NEW b, IsBlock(b)
  PROVE  \E f : Runs("cluster", 0, NewClusterConfig, b, Len(b), f) /\ ClusterFile(b) = f[1 .. Len(b)]
<1> DEFINE Is(f) ==
             f = [I \in SUBSET (1 .. Len(b)) |-> IF I = {} THEN NewClusterConfig ELSE Directive(f[I \ {Max(I)}], b[Max(I)])]
           f == CHOOSE f : Is(f)
<1>1. \A g : IsFold("cluster", 0, NewClusterConfig, b, Len(b), g) <=> Is(g)
  BY Zenon DEF IsFold, Step
<1>2. \E g : IsFold("cluster", 0, NewClusterConfig, b, Len(b), g)
  BY Zenon, FoldExists DEF IsBlock
<1>3. Is(f)
  BY Zenon, <1>1, <1>2
<1>4. Runs("cluster", 0, NewClusterConfig, b, Len(b), f)
  BY Zenon, <1>1, <1>3, FoldRuns DEF IsBlock
<1>5. ClusterFile(b) = f[1 .. Len(b)]
  BY Zenon DEF ClusterFile, FoldLeft, MapThenFoldSet, IsBlock
<1> QED BY Zenon, <1>4, <1>5

NewExternalsConfig == [directory |-> "default", host_ip |-> Unset, ttl |-> 60, fallthrough |-> {}]

ExternalsFile(b) == FoldLeft(ExternalsDirective, NewExternalsConfig, b)

(* ... the traefik-externals block, ...                                    *)
LEMMA ExternalsFolds ==
  ASSUME NEW b, IsBlock(b)
  PROVE  \E f : Runs("externals", 0, NewExternalsConfig, b, Len(b), f) /\ ExternalsFile(b) = f[1 .. Len(b)]
<1> DEFINE Is(f) ==
             f = [I \in SUBSET (1 .. Len(b)) |->
                    IF I = {} THEN NewExternalsConfig ELSE ExternalsDirective(f[I \ {Max(I)}], b[Max(I)])]
           f == CHOOSE f : Is(f)
<1>1. \A g : IsFold("externals", 0, NewExternalsConfig, b, Len(b), g) <=> Is(g)
  BY Zenon DEF IsFold, Step
<1>2. \E g : IsFold("externals", 0, NewExternalsConfig, b, Len(b), g)
  BY Zenon, FoldExists DEF IsBlock
<1>3. Is(f)
  BY Zenon, <1>1, <1>2
<1>4. Runs("externals", 0, NewExternalsConfig, b, Len(b), f)
  BY Zenon, <1>1, <1>3, FoldRuns DEF IsBlock
<1>5. ExternalsFile(b) = f[1 .. Len(b)]
  BY Zenon DEF ExternalsFile, FoldLeft, MapThenFoldSet, IsBlock
<1> QED BY Zenon, <1>4, <1>5

(* ... and the environment.                                                *)
LEMMA OverrideFolds ==
  ASSUME NEW c, NEW env
  PROVE  \E f : Runs("env", env, Legacy(c, env), Overrides, 10, f) /\ Override(c, env) = f[1 .. 10]
<1> DEFINE base == Legacy(c, env)
           Is(f) ==
             f = [I \in SUBSET (1 .. 10) |-> IF I = {} THEN base ELSE OverrideStep(env, f[I \ {Max(I)}], Overrides[Max(I)])]
           f == CHOOSE f : Is(f)
<1> HIDE DEF base
<1>1. \A g : IsFold("env", env, base, Overrides, 10, g) <=> Is(g)
  BY Zenon DEF IsFold, Step
<1>2. \E g : IsFold("env", env, base, Overrides, 10, g)
  BY Zenon, FoldExists, 10 \in Nat
<1>3. Is(f)
  BY Zenon, <1>1, <1>2
<1>4. Runs("env", env, base, Overrides, 10, f)
  BY Zenon, <1>1, <1>3, FoldRuns, 10 \in Nat
<1>5. DOMAIN Overrides = 1 .. 10
  BY DEF Overrides
<1>6. Override(c, env) = f[1 .. 10]
  BY Zenon, <1>5 DEF Override, base, FoldLeft, MapThenFoldSet, OverrideStep
<1> QED BY Zenon, <1>4, <1>6 DEF base

-----------------------------------------------------------------------------
(* What the operator can ask for in several places.                        *)

Fields == {"host_ip", "label", "ttl", "fallthrough", "unknown_action", "cluster_enabled", "cluster_port",
           "cluster_seeds", "node_name", "cluster_secret", "discovery_port"}

Asked == {"host_ip", "unknown_action", "cluster_enabled"}

Meaning(p, v) ==
  IF p = "unknown_action" THEN parseUnknownAction(v) ELSE IF p = "cluster_enabled" THEN isTrue(v) ELSE v

Default(p) == IF p = "unknown_action" THEN "drop" ELSE IF p = "cluster_enabled" THEN "no" ELSE Unset

HasSet(c, p, v, r) ==
  /\ DOMAIN r = Fields
  /\ \A q \in Asked : r[q] = IF p = q THEN Meaning(q, v) ELSE c[q]
  /\ p = "unknown_action" => parseUnknownAction(v) # Invalid

(* Setting a property leaves the other ones alone.                         *)
LEMMA SetIs ==
  ASSUME NEW c, DOMAIN c = Fields, NEW p, NEW v, Set(c, p, v) # Invalid
  PROVE  HasSet(c, p, v, Set(c, p, v))
<1> USE DEF HasSet
<1>1. CASE p \in {"ttl", "cluster_port", "discovery_port"}
  <2>1. Set(c, p, v) = [c EXCEPT ![p] = v]
    BY <1>1 DEF Set
  <2> QED BY <1>1, <2>1 DEF Asked, Fields
<1>2. CASE p = "unknown_action"
  <2>1. Set(c, p, v) = [c EXCEPT !.unknown_action = parseUnknownAction(v)] /\ parseUnknownAction(v) # Invalid
    BY <1>2 DEF Set
  <2> QED BY <1>2, <2>1 DEF Asked, Fields, Meaning
<1>3. CASE p = "cluster_enabled"
  <2>1. Set(c, p, v) = [c EXCEPT !.cluster_enabled = isTrue(v)]
    BY <1>3 DEF Set
  <2> QED BY Zenon, <1>3, <2>1 DEF Asked, Fields, Meaning
<1>4. CASE p = "label"
  <2>1. Set(c, p, v) = [c EXCEPT !.label = @ \o v]
    BY <1>4 DEF Set
  <2> QED BY <1>4, <2>1 DEF Asked, Fields
<1>5. CASE p \in {"host_ip", "fallthrough", "cluster_seeds", "node_name", "cluster_secret"}
  <2>1. Set(c, p, v) = [c EXCEPT ![p] = v]
    BY <1>5 DEF Set
  <2> QED BY <1>5, <2>1 DEF Asked, Fields, Meaning
<1>6. CASE p \in {"docker_socket", "cluster_bind_addr"}
  <2>1. Set(c, p, v) = c
    BY <1>6 DEF Set
  <2> QED BY <1>6, <2>1 DEF Asked, Fields
<1>7. CASE p \notin Fields \cup {"docker_socket", "cluster_bind_addr"}
  BY <1>7 DEF Set, Fields
<1> QED BY Zenon, <1>1, <1>2, <1>3, <1>4, <1>5, <1>6, <1>7 DEF Fields

(* The last directive of the first k for a property.                       *)
LastTo(b, k, p) == LastAmong(b, {i \in 1 .. k : b[i][1] = p}, Default(p))

(* Before the first directive the default counts, ...                      *)
LEMMA LastFirst ==
  ASSUME NEW b, NEW p
  PROVE  LastTo(b, 0, p) = Default(p)
<1>1. {i \in 1 .. 0 : b[i][1] = p} = {}
  OBVIOUS
<1> QED BY Zenon, <1>1 DEF LastTo, LastAmong

(* ... and every directive for the property replaces what was there.       *)
LEMMA LastNext ==
  ASSUME NEW b, NEW k \in Nat, NEW p
  PROVE  LastTo(b, k + 1, p) = IF b[k + 1][1] = p THEN b[k + 1][2] ELSE LastTo(b, k, p)
<1> DEFINE S == {i \in 1 .. k : b[i][1] = p}
           T == {i \in 1 .. (k + 1) : b[i][1] = p}
<1>1. 1 .. (k + 1) = (1 .. k) \cup {k + 1}
  OBVIOUS
<1>2. CASE b[k + 1][1] = p
  <2>1. k + 1 \in T /\ T \subseteq Int /\ \A j \in T : j <= k + 1
    BY <1>2
  <2> DEFINE m == CHOOSE i \in T : \A j \in T : j <= i
  <2>2. m \in T /\ \A j \in T : j <= m
    BY Zenon, <2>1
  <2> HIDE DEF m, T
  <2>3. m = k + 1
    BY <2>1, <2>2
  <2>4. LastTo(b, k + 1, p) = b[m][2]
    BY Zenon, <2>1 DEF LastTo, LastAmong, T, m
  <2> QED BY Zenon, <1>2, <2>3, <2>4
<1>3. CASE b[k + 1][1] # p
  <2>1. T = S
    BY Zenon, <1>1, <1>3
  <2> QED BY Zenon, <1>3, <2>1 DEF LastTo
<1> QED BY Zenon, <1>2, <1>3

(* For the whole block this is what the property says of it.               *)
LEMMA LastIs ==
  ASSUME NEW b, IsBlock(b), b # NoBlock, NEW p
  PROVE  LastOf(b, p, Default(p)) = LastTo(b, Len(b), p)
BY Zenon DEF IsBlock, LastOf, LastTo

(* What reading the first k directives has made of them.                   *)
ReadTo(b, k, c) ==
  c # Invalid =>
    /\ DOMAIN c = Fields
    /\ \A p \in Asked : c[p] = Meaning(p, LastTo(b, k, p))
    /\ c["host_ip"] \in Addresses \cup {Unset}
    /\ c["unknown_action"] \in {"drop", "nxdomain"}

(* Reading starts from the defaults ...                                    *)
LEMMA ReadFirst == ASSUME NEW b PROVE ReadTo(b, 0, NewClusterConfig)
<1>1. DOMAIN NewClusterConfig = Fields
  BY DEF NewClusterConfig, Fields
<1>2. \A p \in Asked : LastTo(b, 0, p) = Default(p)
  BY Zenon, LastFirst
<1>3. NewClusterConfig["host_ip"] = Unset /\ NewClusterConfig["unknown_action"] = "drop"
  BY DEF NewClusterConfig
<1>4. NewClusterConfig["cluster_enabled"] = FALSE
  BY DEF NewClusterConfig
<1>5. /\ Meaning("host_ip", Default("host_ip")) = Unset
      /\ Meaning("unknown_action", Default("unknown_action")) = "drop"
  BY DEF Meaning, Default, parseUnknownAction
<1>6. Meaning("cluster_enabled", Default("cluster_enabled")) = FALSE
  <2>1. Default("cluster_enabled") = "no" /\ "cluster_enabled" # "unknown_action"
    BY DEF Default
  <2>2. "no" \notin {"true", "1", "yes"}
    OBVIOUS
  <2>3. Meaning("cluster_enabled", "no") = isTrue("no")
    BY Zenon, <2>1 DEF Meaning
  <2>4. isTrue("no") = FALSE
    BY <2>2 DEF isTrue
  <2> QED BY Zenon, <2>1, <2>3, <2>4
<1>7. \A p \in Asked : NewClusterConfig[p] = Meaning(p, Default(p))
  BY Zenon, <1>3, <1>4, <1>5, <1>6 DEF Asked
<1> QED BY Zenon, <1>1, <1>2, <1>3, <1>7 DEF ReadTo

(* ... and every directive counts for its own property only.               *)
LEMMA ReadNext ==
  ASSUME NEW b, NEW k \in Nat, NEW c, ReadTo(b, k, c),
         b[k + 1][1] = "host_ip" => b[k + 1][2] \in Addresses \cup {NoArg}
  PROVE  ReadTo(b, k + 1, Directive(c, b[k + 1]))
<1> DEFINE p == b[k + 1][1]
           v == b[k + 1][2]
           r == Set(c, p, v)
<1> HIDE DEF p, v, r
<1> SUFFICES ASSUME Directive(c, b[k + 1]) # Invalid PROVE ReadTo(b, k + 1, Directive(c, b[k + 1]))
  BY Zenon DEF ReadTo
<1>1. c # Invalid /\ v # NoArg /\ Directive(c, b[k + 1]) = r
  BY Zenon DEF Directive, p, v, r
<1>2. r # Invalid
  BY Zenon, <1>1
<1>3. DOMAIN c = Fields /\ c["host_ip"] \in Addresses \cup {Unset} /\ c["unknown_action"] \in {"drop", "nxdomain"}
      /\ \A q \in Asked : c[q] = Meaning(q, LastTo(b, k, q))
  BY Zenon, <1>1 DEF ReadTo
<1>4. /\ DOMAIN r = Fields
      /\ \A q \in Asked : r[q] = IF p = q THEN Meaning(q, v) ELSE c[q]
      /\ p = "unknown_action" => parseUnknownAction(v) # Invalid
  <2>1. HasSet(c, p, v, r)
    BY Zenon, <1>2, <1>3, SetIs DEF r
  <2> QED BY Zenon, <2>1 DEF HasSet
<1>5. \A q \in Asked : LastTo(b, k + 1, q) = IF p = q THEN v ELSE LastTo(b, k, q)
  BY Zenon, LastNext DEF p, v
<1>6. \A q \in Asked : r[q] = Meaning(q, LastTo(b, k + 1, q))
  BY Zenon, <1>3, <1>4, <1>5
<1>7. r["host_ip"] \in Addresses \cup {Unset}
  BY Zenon, <1>1, <1>3, <1>4 DEF Asked, Meaning, p, v
<1>8. r["unknown_action"] \in {"drop", "nxdomain"}
  BY Zenon, <1>3, <1>4 DEF Asked, Meaning, parseUnknownAction
<1> QED BY Zenon, <1>1, <1>4, <1>6, <1>7, <1>8 DEF ReadTo

(* A docker-cluster block says what its last directives say.               *)
LEMMA ClusterFileIs ==
  ASSUME NEW b, IsBlock(b), HasAddresses(b)
  PROVE  ReadTo(b, Len(b), ClusterFile(b))
<1>1. PICK f : Runs("cluster", 0, NewClusterConfig, b, Len(b), f) /\ ClusterFile(b) = f[1 .. Len(b)]
  BY Zenon, ClusterFolds
<1> DEFINE T == {k \in Nat : k <= Len(b) => ReadTo(b, k, f[1 .. k])}
<1>2. 0 \in T
  BY Zenon, <1>1, ReadFirst, 0 \in Nat DEF Runs
<1>3. ASSUME NEW k \in Nat, k \in T PROVE k + 1 \in T
  <2> SUFFICES ASSUME k + 1 <= Len(b) PROVE ReadTo(b, k + 1, f[1 .. (k + 1)])
    OBVIOUS
  <2>1. k <= Len(b) /\ k + 1 \in 1 .. Len(b) /\ (k + 1) - 1 = k
    BY DEF IsBlock
  <2>2. f[1 .. (k + 1)] = Directive(f[1 .. k], b[k + 1])
    BY Zenon, <1>1, <2>1 DEF Runs, Step
  <2>3. ReadTo(b, k, f[1 .. k])
    BY Zenon, <1>3, <2>1
  <2>4. b[k + 1][1] = "host_ip" => b[k + 1][2] \in Addresses \cup {NoArg}
    BY Zenon, <2>1 DEF HasAddresses, IsBlock
  <2> QED BY Zenon, <2>2, <2>3, <2>4, ReadNext
<1> HIDE DEF T
<1>4. \A k \in Nat : k \in T
  BY Zenon, <1>2, <1>3, Induction
<1>5. Len(b) \in Nat /\ Len(b) <= Len(b)
  BY DEF IsBlock
<1> QED BY Zenon, <1>1, <1>4, <1>5 DEF T

-----------------------------------------------------------------------------
(* The environment, the legacy variables first.                            *)

(* What the legacy variables set.                                          *)
LEMMA LegacyIs ==
  ASSUME NEW c, DOMAIN c = Fields, NEW env
  PROVE  /\ DOMAIN Legacy(c, env) = Fields
         /\ Legacy(c, env)["host_ip"] = c["host_ip"]
         /\ Legacy(c, env)["unknown_action"]
              = IF isTrue(env["JOYRIDE_NXDOMAIN_ENABLED"]) THEN "nxdomain" ELSE c["unknown_action"]
         /\ Legacy(c, env)["cluster_enabled"]
              = IF env["JOYRIDE_ENABLE_SERF"] = Unset THEN c["cluster_enabled"]
                ELSE isTrue(env["JOYRIDE_ENABLE_SERF"])
<1> DEFINE v == env["JOYRIDE_ENABLE_SERF"]
           serf == IF v = Unset THEN c ELSE Set(c, "cluster_enabled", v)
<1>1. Set(c, "cluster_enabled", v) = [c EXCEPT !.cluster_enabled = isTrue(v)]
  BY DEF Set
<1>2. /\ DOMAIN serf = Fields /\ serf["host_ip"] = c["host_ip"] /\ serf["unknown_action"] = c["unknown_action"]
      /\ serf["cluster_enabled"] = IF v = Unset THEN c["cluster_enabled"] ELSE isTrue(v)
  BY Zenon, <1>1 DEF Fields
<1>3. Legacy(c, env) = IF isTrue(env["JOYRIDE_NXDOMAIN_ENABLED"]) THEN [serf EXCEPT !.unknown_action = "nxdomain"] ELSE serf
  BY Zenon DEF Legacy
<1> HIDE DEF serf, v
<1>4. CASE isTrue(env["JOYRIDE_NXDOMAIN_ENABLED"])
  <2>1. Legacy(c, env) = [serf EXCEPT !.unknown_action = "nxdomain"]
    BY Zenon, <1>3, <1>4
  <2>2. /\ DOMAIN Legacy(c, env) = Fields /\ Legacy(c, env)["host_ip"] = serf["host_ip"]
        /\ Legacy(c, env)["unknown_action"] = "nxdomain"
        /\ Legacy(c, env)["cluster_enabled"] = serf["cluster_enabled"]
    BY Zenon, <1>2, <2>1 DEF Fields
  <2> QED BY Zenon, <1>2, <1>4, <2>2 DEF v
<1>5. CASE ~isTrue(env["JOYRIDE_NXDOMAIN_ENABLED"])
  BY Zenon, <1>2, <1>3, <1>5 DEF v
<1> QED BY Zenon, <1>4, <1>5

(* The variable that overrides a property, and its place in the order.     *)
Variable(p) == IF p = "unknown_action" THEN "DNS_UNKNOWN_ACTION" ELSE IF p = "cluster_enabled" THEN "CLUSTER_ENABLED" ELSE "HOSTIP"
Place(p) == IF p = "unknown_action" THEN 3 ELSE IF p = "cluster_enabled" THEN 4 ELSE 1

(* Each of the properties has one place in the order.                      *)
LEMMA Places ==
  ASSUME NEW k \in 1 .. 10, NEW p \in Asked
  PROVE  (Overrides[k][2] = p <=> k = Place(p)) /\ (k = Place(p) => Overrides[k][1] = Variable(p))
<1>1. k \in {1, 2, 3, 4, 5, 6, 7, 8, 9, 10}
  OBVIOUS
<1>2. p = "host_ip" \/ p = "unknown_action" \/ p = "cluster_enabled"
  BY DEF Asked
<1>3. Overrides[1] = <<"HOSTIP", "host_ip">> /\ Overrides[2] = <<"DOCKER_SOCKET", "docker_socket">>
  BY DEF Overrides
<1>4. Overrides[3] = <<"DNS_UNKNOWN_ACTION", "unknown_action">> /\ Overrides[4] = <<"CLUSTER_ENABLED", "cluster_enabled">>
  BY DEF Overrides
<1>5. Overrides[5][2] = "cluster_port" /\ Overrides[6][2] = "cluster_seeds" /\ Overrides[7][2] = "node_name"
  BY DEF Overrides
<1>6. Overrides[8][2] = "cluster_bind_addr" /\ Overrides[9][2] = "cluster_secret" /\ Overrides[10][2] = "discovery_port"
  BY DEF Overrides
<1> QED BY SMTT(30), <1>1, <1>2, <1>3, <1>4, <1>5, <1>6 DEF Place, Variable

(* What reading the first k variables has made of a configuration.         *)
Overridden(base, env, k, c) ==
  c # Invalid =>
    /\ DOMAIN c = Fields
    /\ \A p \in Asked : c[p] = IF Place(p) <= k /\ env[Variable(p)] # Unset THEN Meaning(p, env[Variable(p)]) ELSE base[p]
    /\ (3 <= k /\ env["DNS_UNKNOWN_ACTION"] # Unset) => parseUnknownAction(env["DNS_UNKNOWN_ACTION"]) # Invalid

(* One more variable changes the property at its place.                    *)
LEMMA OverriddenNext ==
  ASSUME NEW base, NEW env, NEW k \in 1 .. 10, NEW c, Overridden(base, env, k - 1, c)
  PROVE  Overridden(base, env, k, OverrideStep(env, c, Overrides[k]))
<1> DEFINE o == Overrides[k]
           v == env[o[1]]
           r == OverrideStep(env, c, o)
<1> HIDE DEF o, v, r
<1> SUFFICES ASSUME r # Invalid PROVE Overridden(base, env, k, r)
  BY Zenon DEF Overridden, r, o
<1>1. c # Invalid /\ (v = Unset => r = c) /\ (v # Unset => r = Set(c, o[2], v))
  BY Zenon DEF OverrideStep, r, v
<1>2. /\ DOMAIN c = Fields
      /\ \A p \in Asked : c[p] = IF Place(p) <= k - 1 /\ env[Variable(p)] # Unset THEN Meaning(p, env[Variable(p)]) ELSE base[p]
      /\ (3 <= k - 1 /\ env["DNS_UNKNOWN_ACTION"] # Unset) => parseUnknownAction(env["DNS_UNKNOWN_ACTION"]) # Invalid
  BY Zenon, <1>1 DEF Overridden
<1>3. \A p \in Asked : (o[2] = p <=> k = Place(p)) /\ (k = Place(p) => o[1] = Variable(p))
  BY Zenon, Places DEF o
<1>4. \A p \in Asked : Place(p) <= k <=> (Place(p) <= k - 1 \/ k = Place(p))
  BY DEF Place
<1>5. \A p \in Asked : k = Place(p) => ~(Place(p) <= k - 1)
  BY DEF Place
<1>6. "unknown_action" \in Asked /\ Place("unknown_action") = 3 /\ Variable("unknown_action") = "DNS_UNKNOWN_ACTION"
  BY DEF Asked, Place, Variable
<1>7. CASE v = Unset
  <2>1. \A p \in Asked : k = Place(p) => env[Variable(p)] = Unset
    BY Zenon, <1>3, <1>7 DEF v
  <2>2. \A p \in Asked : (Place(p) <= k /\ env[Variable(p)] # Unset) <=> (Place(p) <= k - 1 /\ env[Variable(p)] # Unset)
    BY Zenon, <1>4, <2>1
  <2>3. \A p \in Asked : c[p] = IF Place(p) <= k /\ env[Variable(p)] # Unset THEN Meaning(p, env[Variable(p)]) ELSE base[p]
    BY Zenon, <1>2, <2>2
  <2>4. (3 <= k /\ env["DNS_UNKNOWN_ACTION"] # Unset) => parseUnknownAction(env["DNS_UNKNOWN_ACTION"]) # Invalid
    BY Zenon, <1>2, <1>6, <2>2
  <2> QED BY Zenon, <1>1, <1>2, <1>7, <2>3, <2>4 DEF Overridden
<1>8. CASE v # Unset
  <2>1. HasSet(c, o[2], v, r)
    BY Zenon, <1>1, <1>2, <1>8, SetIs
  <2>2. /\ DOMAIN r = Fields
        /\ \A p \in Asked : r[p] = IF o[2] = p THEN Meaning(p, v) ELSE c[p]
        /\ o[2] = "unknown_action" => parseUnknownAction(v) # Invalid
    BY Zenon, <2>1 DEF HasSet
  <2>3. ASSUME NEW p \in Asked
        PROVE  r[p] = IF Place(p) <= k /\ env[Variable(p)] # Unset THEN Meaning(p, env[Variable(p)]) ELSE base[p]
    <3>1. CASE k = Place(p)
      <4>1. o[2] = p /\ v = env[Variable(p)] /\ Place(p) <= k
        BY Zenon, <1>3, <1>4, <3>1 DEF v
      <4> QED BY Zenon, <1>8, <2>2, <4>1
    <3>2. CASE k # Place(p)
      <4>1. o[2] # p /\ (Place(p) <= k <=> Place(p) <= k - 1)
        BY Zenon, <1>3, <1>4, <3>2
      <4> QED BY Zenon, <1>2, <2>2, <4>1
    <3> QED BY Zenon, <3>1, <3>2
  <2>4. (3 <= k /\ env["DNS_UNKNOWN_ACTION"] # Unset) => parseUnknownAction(env["DNS_UNKNOWN_ACTION"]) # Invalid
    <3>1. CASE k = 3
      BY Zenon, <1>3, <1>6, <2>2, <3>1 DEF v
    <3>2. CASE k # 3
      <4>1. 3 <= k <=> 3 <= k - 1
        BY <3>2
      <4> QED BY Zenon, <1>2, <4>1
    <3> QED BY Zenon, <3>1, <3>2
  <2> QED BY Zenon, <2>2, <2>3, <2>4 DEF Overridden
<1> QED BY Zenon, <1>7, <1>8

(* All of them together.                                                   *)
LEMMA OverrideIs ==
  ASSUME NEW c, DOMAIN c = Fields, NEW env
  PROVE  Overridden(Legacy(c, env), env, 10, Override(c, env))
<1> DEFINE base == Legacy(c, env)
<1>1. DOMAIN base = Fields
  BY Zenon, LegacyIs
<1> HIDE DEF base
<1>2. PICK f : Runs("env", env, base, Overrides, 10, f) /\ Override(c, env) = f[1 .. 10]
  BY Zenon, OverrideFolds DEF base
<1> DEFINE T == {k \in Nat : k <= 10 => Overridden(base, env, k, f[1 .. k])}
<1>3. 0 \in T
  <2>1. \A p \in Asked : ~(Place(p) <= 0)
    BY DEF Place
  <2>2. f[1 .. 0] = base /\ 0 \in Nat /\ ~(3 <= 0)
    BY <1>2 DEF Runs
  <2>3. Overridden(base, env, 0, base)
    BY Zenon, <1>1, <2>1, <2>2 DEF Overridden
  <2> QED BY Zenon, <2>2, <2>3
<1>4. ASSUME NEW k \in Nat, k \in T PROVE k + 1 \in T
  <2> SUFFICES ASSUME k + 1 <= 10 PROVE Overridden(base, env, k + 1, f[1 .. (k + 1)])
    OBVIOUS
  <2>1. k <= 10 /\ k + 1 \in 1 .. 10 /\ (k + 1) - 1 = k
    OBVIOUS
  <2>2. f[1 .. (k + 1)] = OverrideStep(env, f[1 .. k], Overrides[k + 1])
    BY Zenon, <1>2, <2>1 DEF Runs, Step
  <2>3. Overridden(base, env, (k + 1) - 1, f[1 .. k])
    BY Zenon, <1>4, <2>1
  <2> QED BY Zenon, <2>1, <2>2, <2>3, OverriddenNext
<1> HIDE DEF T
<1>5. \A k \in Nat : k \in T
  BY Zenon, <1>3, <1>4, Induction
<1>6. 10 \in Nat /\ 10 <= 10
  OBVIOUS
<1> QED BY Zenon, <1>2, <1>5, <1>6 DEF T, base

(* The address of a block and an environment.                              *)
AddressOf(b, env) == IF env["HOSTIP"] # Unset THEN env["HOSTIP"] ELSE LastTo(b, Len(b), "host_ip")

ActionOf(b, env) ==
  IF env["DNS_UNKNOWN_ACTION"] # Unset THEN parseUnknownAction(env["DNS_UNKNOWN_ACTION"])
  ELSE IF isTrue(env["JOYRIDE_NXDOMAIN_ENABLED"]) THEN "nxdomain"
  ELSE parseUnknownAction(LastTo(b, Len(b), "unknown_action"))

EnabledOf(b, env) ==
  isTrue(IF env["CLUSTER_ENABLED"] # Unset THEN env["CLUSTER_ENABLED"]
         ELSE IF env["JOYRIDE_ENABLE_SERF"] # Unset THEN env["JOYRIDE_ENABLE_SERF"]
         ELSE LastTo(b, Len(b), "cluster_enabled"))

(* docker-cluster is configured as the Corefile and the environment say.   *)
LEMMA ClusterConfigured ==
  ASSUME NEW b, IsBlock(b), HasAddresses(b), NEW env, env["HOSTIP"] \in Addresses \cup {Unset},
         parseCluster(b, env) # Invalid
  PROVE  LET c == parseCluster(b, env)
         IN  /\ c["host_ip"] = AddressOf(b, env) /\ c["host_ip"] \in Addresses
             /\ c["unknown_action"] = ActionOf(b, env) /\ c["unknown_action"] \in {"drop", "nxdomain"}
             /\ c["cluster_enabled"] = EnabledOf(b, env)
<1> DEFINE file == ClusterFile(b)
           cfg == Override(file, env)
           base == Legacy(file, env)
           c == parseCluster(b, env)
<1> HIDE DEF file, cfg, base, c
<1> DEFINE valid == Validate(cfg)
           Labelled(r) == [r EXCEPT !.label = IF @ = <<>> THEN <<"coredns.host.name", "joyride.host.name">> ELSE @]
<1>1. /\ file # Invalid /\ cfg # Invalid /\ cfg.host_ip # Unset /\ valid # Invalid
      /\ c = Labelled(valid)
  BY Zenon DEF parseCluster, ClusterFile, file, cfg, c
<1>2. ReadTo(b, Len(b), file)
  BY Zenon, ClusterFileIs DEF file
<1>3. /\ DOMAIN file = Fields
      /\ \A p \in Asked : file[p] = Meaning(p, LastTo(b, Len(b), p))
      /\ file["host_ip"] \in Addresses \cup {Unset}
      /\ file["unknown_action"] \in {"drop", "nxdomain"}
  BY Zenon, <1>1, <1>2 DEF ReadTo
<1>4. Overridden(base, env, 10, cfg)
  BY Zenon, <1>3, OverrideIs DEF base, cfg
<1>5. /\ DOMAIN cfg = Fields
      /\ \A p \in Asked : cfg[p] = IF Place(p) <= 10 /\ env[Variable(p)] # Unset THEN Meaning(p, env[Variable(p)]) ELSE base[p]
      /\ (3 <= 10 /\ env["DNS_UNKNOWN_ACTION"] # Unset) => parseUnknownAction(env["DNS_UNKNOWN_ACTION"]) # Invalid
  BY Zenon, <1>1, <1>4 DEF Overridden
<1>6. /\ base["host_ip"] = file["host_ip"]
      /\ base["unknown_action"] = IF isTrue(env["JOYRIDE_NXDOMAIN_ENABLED"]) THEN "nxdomain" ELSE file["unknown_action"]
      /\ base["cluster_enabled"] = IF env["JOYRIDE_ENABLE_SERF"] = Unset THEN file["cluster_enabled"]
                                   ELSE isTrue(env["JOYRIDE_ENABLE_SERF"])
  BY Zenon, <1>3, LegacyIs DEF base
<1>7. valid = [cfg EXCEPT !.node_name = IF cfg.cluster_enabled /\ @ = Unset THEN Hostname ELSE @]
  BY SMTT(30), <1>1 DEF Validate
<1> HIDE DEF valid
<1>8. \A p \in Asked : c[p] = cfg[p]
  <2>1. DOMAIN valid = Fields /\ \A p \in Asked : valid[p] = cfg[p]
    BY Zenon, <1>5, <1>7 DEF Fields, Asked
  <2> QED BY Zenon, <1>1, <2>1 DEF Fields, Asked
<1>9. \A p \in Asked : Place(p) <= 10
  BY DEF Place
<1>10. 3 <= 10
  OBVIOUS
<1>11. c["host_ip"] = AddressOf(b, env) /\ c["host_ip"] \in Addresses
  <2>1. cfg["host_ip"] = IF env["HOSTIP"] # Unset THEN env["HOSTIP"] ELSE base["host_ip"]
    BY Zenon, <1>5, <1>9 DEF Asked, Variable, Meaning
  <2>2. file["host_ip"] = LastTo(b, Len(b), "host_ip")
    BY Zenon, <1>3 DEF Asked, Meaning
  <2>3. c["host_ip"] = cfg["host_ip"]
    BY Zenon, <1>8 DEF Asked
  <2> QED BY Zenon, <1>1, <1>3, <1>6, <2>1, <2>2, <2>3 DEF AddressOf
<1>12. c["unknown_action"] = ActionOf(b, env) /\ c["unknown_action"] \in {"drop", "nxdomain"}
  <2>1. cfg["unknown_action"] = IF env["DNS_UNKNOWN_ACTION"] # Unset THEN parseUnknownAction(env["DNS_UNKNOWN_ACTION"])
                                ELSE base["unknown_action"]
    BY Zenon, <1>5, <1>9 DEF Asked, Variable, Meaning
  <2>2. file["unknown_action"] = parseUnknownAction(LastTo(b, Len(b), "unknown_action"))
    BY Zenon, <1>3 DEF Asked, Meaning
  <2>3. c["unknown_action"] = cfg["unknown_action"]
    BY Zenon, <1>8 DEF Asked
  <2>4. c["unknown_action"] = ActionOf(b, env)
    BY Zenon, <1>6, <2>1, <2>2, <2>3 DEF ActionOf
  <2>5. env["DNS_UNKNOWN_ACTION"] # Unset => parseUnknownAction(env["DNS_UNKNOWN_ACTION"]) \in {"drop", "nxdomain"}
    BY Zenon, <1>5, <1>10 DEF parseUnknownAction
  <2> QED BY Zenon, <1>3, <1>6, <2>1, <2>3, <2>4, <2>5
<1>13. c["cluster_enabled"] = EnabledOf(b, env)
  <2>1. cfg["cluster_enabled"] = IF env["CLUSTER_ENABLED"] # Unset THEN isTrue(env["CLUSTER_ENABLED"]) ELSE base["cluster_enabled"]
    BY Zenon, <1>5, <1>9 DEF Asked, Variable, Meaning
  <2>2. file["cluster_enabled"] = isTrue(LastTo(b, Len(b), "cluster_enabled"))
    BY Zenon, <1>3 DEF Asked, Meaning
  <2>3. c["cluster_enabled"] = cfg["cluster_enabled"]
    BY Zenon, <1>8 DEF Asked
  <2> QED BY Zenon, <1>6, <2>1, <2>2, <2>3 DEF EnabledOf
<1> QED BY Zenon, <1>11, <1>12, <1>13 DEF c

-----------------------------------------------------------------------------
(* traefik-externals.                                                      *)

ExternalsTo(b, k, c) ==
  c # Invalid => DOMAIN c = {"directory", "host_ip", "ttl", "fallthrough"} /\ c["host_ip"] = LastTo(b, k, "host_ip")

(* One more directive, ...                                                 *)
LEMMA ExternalsNext ==
  ASSUME NEW b, NEW k \in Nat, NEW c, ExternalsTo(b, k, c)
  PROVE  ExternalsTo(b, k + 1, ExternalsDirective(c, b[k + 1]))
<1> DEFINE p == b[k + 1][1]
           v == b[k + 1][2]
           r == ExternalsDirective(c, b[k + 1])
<1> HIDE DEF p, v, r
<1> SUFFICES ASSUME r # Invalid PROVE ExternalsTo(b, k + 1, r)
  BY Zenon DEF ExternalsTo, r
<1>1. c # Invalid /\ p \in {"directory", "host_ip", "ttl", "fallthrough"} /\ r = [c EXCEPT ![p] = v]
  BY Zenon DEF ExternalsDirective, p, v, r
<1>2. DOMAIN c = {"directory", "host_ip", "ttl", "fallthrough"} /\ c["host_ip"] = LastTo(b, k, "host_ip")
  BY Zenon, <1>1 DEF ExternalsTo
<1>3. LastTo(b, k + 1, "host_ip") = IF p = "host_ip" THEN v ELSE LastTo(b, k, "host_ip")
  BY Zenon, LastNext DEF p, v
<1> QED BY Zenon, <1>1, <1>2, <1>3 DEF ExternalsTo

(* ... and the whole block.                                                *)
LEMMA ExternalsFileIs ==
  ASSUME NEW b, IsBlock(b)
  PROVE  ExternalsTo(b, Len(b), ExternalsFile(b))
<1>1. PICK f : Runs("externals", 0, NewExternalsConfig, b, Len(b), f) /\ ExternalsFile(b) = f[1 .. Len(b)]
  BY Zenon, ExternalsFolds
<1> DEFINE T == {k \in Nat : k <= Len(b) => ExternalsTo(b, k, f[1 .. k])}
<1>2. 0 \in T
  <2>1. NewExternalsConfig["host_ip"] = Unset /\ DOMAIN NewExternalsConfig = {"directory", "host_ip", "ttl", "fallthrough"}
    BY DEF NewExternalsConfig
  <2>2. LastTo(b, 0, "host_ip") = Unset
    BY Zenon, LastFirst DEF Default
  <2> QED BY Zenon, <1>1, <2>1, <2>2, 0 \in Nat DEF Runs, ExternalsTo
<1>3. ASSUME NEW k \in Nat, k \in T PROVE k + 1 \in T
  <2> SUFFICES ASSUME k + 1 <= Len(b) PROVE ExternalsTo(b, k + 1, f[1 .. (k + 1)])
    OBVIOUS
  <2>1. k <= Len(b) /\ k + 1 \in 1 .. Len(b) /\ (k + 1) - 1 = k
    BY DEF IsBlock
  <2>2. f[1 .. (k + 1)] = ExternalsDirective(f[1 .. k], b[k + 1])
    BY Zenon, <1>1, <2>1 DEF Runs, Step
  <2>3. ExternalsTo(b, k, f[1 .. k])
    BY Zenon, <1>3, <2>1
  <2> QED BY Zenon, <2>2, <2>3, ExternalsNext
<1> HIDE DEF T
<1>4. \A k \in Nat : k \in T
  BY Zenon, <1>2, <1>3, Induction
<1>5. Len(b) \in Nat /\ Len(b) <= Len(b)
  BY DEF IsBlock
<1> QED BY Zenon, <1>1, <1>4, <1>5 DEF T

(* traefik-externals answers with the address that was asked for.          *)
LEMMA ExternalsConfigured ==
  ASSUME NEW b, IsBlock(b), NEW env, parseExternals(b, env) # Invalid
  PROVE  parseExternals(b, env)["host_ip"] = AddressOf(b, env)
<1> DEFINE file == ExternalsFile(b)
           over(v, old) == IF env[v] = Unset THEN old ELSE env[v]
<1> HIDE DEF file
<1>1. /\ file # Invalid
      /\ parseExternals(b, env) =
           [file EXCEPT !.host_ip = over("HOSTIP", @),
                        !.directory = over("TRAEFIK_EXTERNALS_DIRECTORY", @),
                        !.ttl = IF env["TRAEFIK_EXTERNALS_TTL"] = NotANumber THEN @
                                ELSE over("TRAEFIK_EXTERNALS_TTL", @)]
  BY Zenon DEF parseExternals, NewExternalsConfig, ExternalsFile, file
<1>2. DOMAIN file = {"directory", "host_ip", "ttl", "fallthrough"} /\ file["host_ip"] = LastTo(b, Len(b), "host_ip")
  BY Zenon, <1>1, ExternalsFileIs DEF ExternalsTo, file
<1>3. parseExternals(b, env)["host_ip"] = over("HOSTIP", file["host_ip"])
  BY Zenon, <1>1, <1>2
<1> QED BY Zenon, <1>2, <1>3 DEF AddressOf

-----------------------------------------------------------------------------
(* A query in the chain.                                                   *)

(* The query is the record the handlers take it for.                       *)
IsQuery ==
  query = [at |-> query.at, name |-> query.name, type |-> query.type, reply |-> query.reply,
           ip |-> query.ip, cluster |-> query.cluster, external |-> query.external]

(* While the query is under way its history includes the present.          *)
Current ==
  query.at # "done" =>
    /\ Held(records, query.name) \in query.cluster
    /\ (qname(query.name) \in externals) \in query.external

(* Nothing is asked before the setup is over, and no file is loaded        *)
(* without the plugin.                                                     *)
Ordered ==
  /\ phase # "serving" => query = NoQuery /\ externals = {}
  /\ externals # {} => te # Unset

(* A known name does not get past docker-cluster, ...                      *)
KnownInv ==
  (query.cluster \subseteq IPv4 /\ query.type \in {"A", "AAAA"} /\ query.name # <<>>) =>
    /\ query.at \notin {"traefik-externals", "forward"}
    /\ (query.at = "done" /\ NotStatic /\ query.reply # "failed") =>
         /\ query.type = "A" => query.reply = "A" /\ query.ip \in query.cluster
         /\ query.type = "AAAA" => query.reply = "empty"

(* ... and one that is passed on not past traefik-externals.               *)
Expected ==
  /\ query.type = "A" /\ query.cluster = {Unset} /\ query.external = {TRUE}
  /\ query.name # <<>> /\ qname(query.name) \in dc.fallthrough /\ te.host_ip \in IPv4

PassedOnInv ==
  Expected =>
    /\ query.at # "forward"
    /\ (query.at = "done" /\ NotStatic /\ query.reply # "failed") =>
         query.reply = "A" /\ query.ip = te.host_ip

IInv == IsQuery /\ Current /\ Ordered /\ KnownInv /\ PassedOnInv

-----------------------------------------------------------------------------

(* A history that grew to one value had no other.                          *)
LEMMA Shrink ==
  ASSUME NEW S, NEW x, NEW v, S # {}, S \cup {x} = {v}
  PROVE  S = {v}
BY ZenonT(90)

(* The invariant holds before the setup.                                   *)
LEMMA InitIInv == Init => IInv
BY DEF Init, IInv, IsQuery, Current, Ordered, KnownInv, PassedOnInv, Expected, NoQuery

(* The setup leaves the query alone, and no query there is.                *)
LEMMA SetupStep ==
  ASSUME IInv, SetupCluster \/ SetupExternals
  PROVE  IInv'
<1>1. query' = query /\ records' = records /\ externals' = externals /\ phase # "serving"
  BY Zenon DEF SetupCluster, SetupExternals
<1>2. query = NoQuery /\ externals = {}
  BY Zenon, <1>1 DEF IInv, Ordered
<1> QED BY Zenon, <1>1, <1>2 DEF IInv, IsQuery, Current, Ordered, KnownInv, PassedOnInv, Expected, NoQuery

(* A change of the records or of the files adds to the query's history.    *)
LEMMA RecordStep ==
  ASSUME IInv, phase = "serving", phase' = phase, dc' = dc, te' = te,
         externals' # {} => te # Unset,
         query' = Observe(records', externals')
  PROVE  IInv'
<1> USE DEF IInv
<1>1. CASE query.at = "done"
  <2>1. query' = query
    BY Zenon, <1>1 DEF Observe
  <2> QED BY Zenon, <1>1, <2>1 DEF IsQuery, Current, Ordered, KnownInv, PassedOnInv, Expected, NotStatic
<1>2. CASE query.at # "done"
  <2>1. query' = [query EXCEPT !.cluster = @ \cup {Held(records', query.name)},
                               !.external = @ \cup {qname(query.name) \in externals'}]
    BY Zenon, <1>2 DEF Observe
  <2>2. /\ query'.at = query.at /\ query'.name = query.name /\ query'.type = query.type
        /\ query'.reply = query.reply /\ query'.ip = query.ip
        /\ query'.cluster = query.cluster \cup {Held(records', query.name)}
        /\ query'.external = query.external \cup {qname(query.name) \in externals'}
        /\ IsQuery'
    BY Zenon, <2>1 DEF IsQuery
  <2>3. Current' /\ Ordered'
    BY Zenon, <2>2 DEF Current, Ordered, Held
  <2>4. KnownInv'
    BY Zenon, <1>2, <2>2 DEF KnownInv
  <2>5. PassedOnInv'
    <3>1. query.cluster # {} /\ query.external # {}
      BY ZenonT(90), <1>2 DEF Current
    <3>2. Expected' => Expected
      <4> SUFFICES ASSUME Expected' PROVE Expected
        BY ZenonT(90)
      <4>1. query.cluster = {Unset}
        BY SMTT(30), <2>2, <3>1, Shrink DEF Expected
      <4>2. query.external = {TRUE}
        <5>1. query.external \cup {qname(query.name) \in externals'} = {TRUE}
          BY Zenon, <2>2 DEF Expected
        <5> QED BY Zenon, <3>1, <5>1, Shrink
      <4> QED BY ZenonT(90), <2>2, <4>1, <4>2 DEF Expected
    <3> QED BY Zenon, <1>2, <2>2, <3>2 DEF PassedOnInv
  <2> QED BY Zenon, <2>2, <2>3, <2>4, <2>5
<1> QED BY Zenon, <1>1, <1>2

(* A container or a peer that changes the records.                         *)
LEMMA StoreStep ==
  ASSUME IInv, NEW recs, Store(recs)
  PROVE  IInv'
BY Zenon, RecordStep DEF Store, IInv, Ordered

(* A new query starts with the present as its history.                     *)
LEMMA AskStep ==
  ASSUME IInv, NEW name \in Questions, NEW type \in Types, Ask(name, type)
  PROVE  IInv'
<1>1. /\ query'.at = "hosts" /\ query'.name = name
      /\ query'.cluster = {Held(records, name)} /\ query'.external = {qname(name) \in externals}
      /\ IsQuery'
  BY Zenon DEF Ask, NoQuery, IsQuery
<1> QED BY Zenon, <1>1 DEF Ask, IInv, Current, Ordered, KnownInv, PassedOnInv, Held

(* A step of the chain leaves the history of the query alone, and proves   *)
(* the two claims about the handler it moves on to, or the reply.          *)
Moved ==
  /\ query'.name = query.name /\ query'.type = query.type
  /\ query'.cluster = query.cluster /\ query'.external = query.external
  /\ IsQuery'

(* A handler sends a reply, or fails to, ...                               *)
LEMMA Sent ==
  ASSUME IInv, NEW r, NEW i, WriteMsg(r, i)
  PROVE  /\ Moved /\ query'.at = "done"
         /\ query'.reply = "failed" \/ (query'.reply = r /\ query'.ip = i)
<1>1. CASE query' = [query EXCEPT !.at = "done", !.reply = r, !.ip = i]
  BY Zenon, <1>1 DEF IInv, IsQuery, Moved
<1>2. CASE query' = [query EXCEPT !.at = "done", !.reply = "failed"]
  BY Zenon, <1>2 DEF IInv, IsQuery, Moved
<1> QED BY Zenon, <1>1, <1>2 DEF WriteMsg

(* ... drops the query ...                                                 *)
LEMMA Dropped ==
  ASSUME IInv, Drop
  PROVE  Moved /\ query'.at = "done" /\ query'.reply = query.reply
BY Zenon DEF IInv, IsQuery, Moved, Drop

(* ... or calls the next handler, if there is one.                         *)
LEMMA PassedOn ==
  ASSUME IInv, NEW p, NextOrFailure(p)
  PROVE  /\ Moved
         /\ query'.at \in {"traefik-externals", "forward", "done"}
         /\ (p = "docker-cluster" /\ te # Unset) => query'.at = "traefik-externals"
         /\ query'.reply = IF query'.at = "done" THEN "servfail" ELSE query.reply
<1>1. CASE query' = [query EXCEPT !.at = "traefik-externals"]
  BY ZenonT(90), <1>1 DEF IInv, IsQuery, Moved
<1>2. CASE /\ query' = [query EXCEPT !.at = "forward"]
           /\ ~(p = "docker-cluster" /\ te # Unset)
  BY ZenonT(90), <1>2 DEF IInv, IsQuery, Moved
<1>3. CASE /\ query' = [query EXCEPT !.at = "done", !.reply = "servfail"]
           /\ ~(p = "docker-cluster" /\ te # Unset)
  BY ZenonT(90), <1>3 DEF IInv, IsQuery, Moved
<1> QED BY Zenon, <1>1, <1>2, <1>3 DEF NextOrFailure

(* A step of the chain keeps the invariant.                                *)
LEMMA ChainStep ==
  ASSUME IInv, NEW p, p # "done", Serving(p), Moved, KnownInv', PassedOnInv'
  PROVE  IInv'
BY DEF IInv, Serving, Moved, Current, Ordered, Held, NoQuery

(* The hosts plugin answers its own names only.                            *)
LEMMA HostsStep ==
  ASSUME IInv, ServeHosts
  PROVE  IInv'
<1>1. CASE qname(query.name) \in Static /\ WriteMsg("static", Unset)
  <2>1. Moved
    BY ZenonT(90), <1>1, Sent
  <2>2. ~NotStatic' /\ query'.at = "done"
    BY ZenonT(90), <1>1, <2>1, Sent DEF NotStatic, Moved
  <2> QED BY ZenonT(90), <2>1, <2>2, ChainStep DEF ServeHosts, KnownInv, PassedOnInv
<1>2. CASE query' = [query EXCEPT !.at = "docker-cluster"]
  <2>1. Moved /\ query'.at = "docker-cluster"
    BY ZenonT(90), <1>2 DEF IInv, IsQuery, Moved
  <2> QED BY ZenonT(90), <2>1, ChainStep DEF ServeHosts, KnownInv, PassedOnInv
<1> QED BY ZenonT(90), <1>1, <1>2 DEF ServeHosts

(* What docker-cluster finds is in the history: an address if the name is  *)
(* known throughout, nothing if it is unknown throughout.                  *)
LEMMA ClusterStep ==
  ASSUME IInv, ServeCluster
  PROVE  IInv'
<1> DEFINE ip == Held(records, query.name)
<1>1. ip \in query.cluster
  BY ZenonT(90) DEF IInv, Current, ServeCluster, Serving
<1>2. Unset \notin IPv4
  BY ZenonT(90), ConfigAssumption
<1> HIDE DEF ip
<1>3. CASE query.type = "AAAA" /\ ip # Unset /\ WriteMsg("empty", Unset)
  <2>1. Moved /\ query'.at = "done" /\ (query'.reply = "failed" \/ query'.reply = "empty")
    BY ZenonT(90), <1>3, Sent
  <2> QED BY ZenonT(90), <1>3, <2>1, ChainStep DEF ServeCluster, KnownInv, PassedOnInv, Expected, Moved
<1>4. CASE query.type = "A" /\ ip \in IPv4 /\ WriteMsg("A", ip)
  <2>1. /\ Moved /\ query'.at = "done"
        /\ query'.reply = "failed" \/ (query'.reply = "A" /\ query'.ip = ip)
    BY ZenonT(90), <1>4, Sent
  <2>2. ~Expected'
    BY ZenonT(90), <1>1, <1>2, <1>4, <2>1 DEF Expected, Moved
  <2> QED BY ZenonT(90), <1>1, <1>4, <2>1, <2>2, ChainStep DEF ServeCluster, KnownInv, PassedOnInv, Moved
<1>5. CASE /\ ~(query.type = "AAAA" /\ ip # Unset) /\ ~(query.type = "A" /\ ip \in IPv4)
           /\ handleUnknown
  <2>1. ~(query.cluster \subseteq IPv4 /\ query.type \in {"A", "AAAA"})
    BY ZenonT(90), <1>1, <1>2, <1>5
  <2>2. Moved
    BY ZenonT(90), <1>5, Sent, Dropped, PassedOn DEF handleUnknown
  <2>3. KnownInv'
    BY ZenonT(90), <2>1, <2>2 DEF KnownInv, Moved
  <2>4. ASSUME Expected' PROVE query'.at = "traefik-externals"
    <3>1. query.external = {TRUE} /\ qname(query.name) \in dc.fallthrough
      BY ZenonT(90), <2>2, <2>4 DEF Expected, Moved, ServeCluster, Serving
    <3>2. (qname(query.name) \in externals) \in query.external
      BY ZenonT(90) DEF IInv, Current, ServeCluster, Serving
    <3>3. qname(query.name) \in externals
      <4> DEFINE found == qname(query.name) \in externals
      <4>1. found \in {TRUE}
        BY ZenonT(90), <3>1, <3>2
      <4> HIDE DEF found
      <4>2. found
        BY ZenonT(90), <4>1
      <4> QED BY ZenonT(90), <4>2 DEF found
    <3>4. te # Unset
      BY ZenonT(90), <3>3 DEF IInv, Ordered
    <3> QED BY ZenonT(90), <1>5, <3>1, <3>4, PassedOn DEF handleUnknown
  <2>5. PassedOnInv'
    BY ZenonT(90), <2>4 DEF PassedOnInv
  <2> QED BY ZenonT(90), <2>2, <2>3, <2>5, ChainStep DEF ServeCluster
<1> QED BY ZenonT(90), <1>3, <1>4, <1>5 DEF ServeCluster, ip

(* What traefik-externals finds is in the history, too.                    *)
LEMMA ExternalsStep ==
  ASSUME IInv, ServeExternals
  PROVE  IInv'
<1> DEFINE found == qname(query.name) \in externals
<1>1. query.at = "traefik-externals" /\ found \in query.external
  BY ZenonT(90) DEF IInv, Current, ServeExternals, Serving
<1> HIDE DEF found
<1>2. Moved
  BY ZenonT(90), Sent, Dropped, PassedOn DEF ServeExternals
<1>3. KnownInv'
  BY ZenonT(90), <1>1, <1>2 DEF IInv, KnownInv, Moved
<1>4. ASSUME Expected'
      PROVE  /\ query'.at = "done"
             /\ query'.reply = "failed" \/ (query'.reply = "A" /\ query'.ip = te'.host_ip)
  <2>1. /\ query.type = "A" /\ query.external = {TRUE} /\ te.host_ip \in IPv4 /\ te' = te
    BY ZenonT(90), <1>2, <1>4 DEF Expected, Moved, ServeExternals, Serving
  <2>2. found
    BY ZenonT(90), <1>1, <2>1
  <2>3. WriteMsg("A", te.host_ip)
    BY ZenonT(90), <2>1, <2>2 DEF ServeExternals, found
  <2> QED BY ZenonT(90), <2>1, <2>3, Sent
<1>5. PassedOnInv'
  BY ZenonT(90), <1>4 DEF PassedOnInv
<1> QED BY ZenonT(90), <1>2, <1>3, <1>5, ChainStep DEF ServeExternals

(* No name the two claims are about is forwarded.                          *)
LEMMA ForwardStep ==
  ASSUME IInv, Forward
  PROVE  IInv'
<1>1. query.at = "forward" /\ Moved
  BY ZenonT(90), Sent DEF Forward, Serving
<1>2. KnownInv'
  BY ZenonT(90), <1>1 DEF IInv, KnownInv, Moved
<1>3. Expected' => Expected
  BY ZenonT(90), <1>1 DEF Forward, Serving, Expected, Moved
<1>4. PassedOnInv'
  BY ZenonT(90), <1>1, <1>3 DEF IInv, PassedOnInv
<1> QED BY ZenonT(90), <1>1, <1>2, <1>4, ChainStep DEF Forward

(* Every step keeps the invariant.                                         *)
LEMMA IInvStep == IInv /\ [Next]_vars => IInv'
<1> SUFFICES ASSUME IInv, [Next]_vars PROVE IInv'
  BY ZenonT(90)
<1>1. CASE UNCHANGED vars
  BY ZenonT(90), <1>1
  DEF vars, IInv, IsQuery, Current, Ordered, KnownInv, PassedOnInv, Expected, NotStatic, Held
<1>2. CASE SetupCluster \/ SetupExternals
  BY ZenonT(90), <1>2, SetupStep
<1>3. ASSUME NEW c \in Containers, ContainerUp(c) \/ ContainerDown(c) PROVE IInv'
  <2>1. \E recs : Store(recs)
    BY ZenonT(90), <1>3 DEF ContainerUp, ContainerDown
  <2> QED BY ZenonT(90), <2>1, StoreStep
<1>4. ASSUME NEW r \in PeerRecords, PeerAdds(r) \/ PeerRemoves(r) PROVE IInv'
  <2>1. \E recs : Store(recs)
    BY ZenonT(90), <1>4 DEF PeerAdds, PeerRemoves
  <2> QED BY Zenon, <2>1, StoreStep
<1>5. ASSUME NEW S \in SUBSET External, Load(S) PROVE IInv'
  BY ZenonT(90), <1>5, RecordStep DEF Load
<1>6. ASSUME NEW name \in Questions, NEW type \in Types, Ask(name, type) PROVE IInv'
  BY ZenonT(90), <1>6, AskStep
<1>7. Next \/ UNCHANGED vars
  BY ZenonT(90)
<1> QED BY ZenonT(90), <1>1, <1>2, <1>3, <1>4, <1>5, <1>6, <1>7, HostsStep, ClusterStep, ExternalsStep,
           ForwardStep, Zenon DEF Next

-----------------------------------------------------------------------------
(* The configuration, the records and the replies.                         *)

Peers == {r[2] : r \in PeerRecords}

(* The addresses docker-cluster may serve.                                 *)
Served == {dc.host_ip} \cup (IF dc.cluster_enabled THEN Peers ELSE {})

ConfigInv ==
  /\ setup \in Setups
  /\ phase \in {"cluster", "externals", "serving", "refused"}
  /\ phase \in {"externals", "serving"} => dc # Invalid /\ dc = parseCluster(setup.cluster, setup.env)
  /\ te # Unset => te # Invalid /\ setup.externals # NoBlock /\ te = parseExternals(setup.externals, setup.env)

RecordsInv ==
  /\ running \subseteq Containers /\ externals \subseteq External
  /\ phase # "serving" => records = <<>>
  /\ \A n \in DOMAIN records : n \in Seq(STRING) /\ records[n] \in Served

ReplyInv ==
  /\ query.at \in {"hosts", "docker-cluster", "traefik-externals", "forward", "done"}
  /\ query.at # "done" => query.reply = "none"
  /\ query.reply = "A" =>
       phase = "serving" /\ query.ip \in IPv4 /\ (query.ip \in Served \/ (te # Unset /\ query.ip = te.host_ip))

Unknown == query.cluster = {Unset} /\ qname(query.name) \notin dc.fallthrough /\ query.name # <<>>

UnknownInv ==
  Unknown =>
    /\ query.at \notin {"traefik-externals", "forward"}
    /\ (query.at = "done" /\ NotStatic /\ query.reply # "failed") =>
         query.reply = IF dc.unknown_action = "nxdomain" THEN "nxdomain" ELSE "none"

AskedInv == ConfigInv /\ RecordsInv /\ ReplyInv /\ UnknownInv

(* Nothing is set up, recorded or asked at first.                          *)
LEMMA InitAsked == Init => AskedInv
<1> SUFFICES ASSUME Init PROVE AskedInv
  BY Zenon
<1>1. ConfigInv
  BY Zenon DEF Init, ConfigInv
<1>2. RecordsInv
  BY DEF Init, RecordsInv
<1>3. query.at = "done" /\ query.reply = "none" /\ query.name = <<>>
  BY DEF Init, NoQuery
<1>4. ReplyInv /\ UnknownInv
  BY <1>3 DEF ReplyInv, UnknownInv, Unknown
<1> QED BY Zenon, <1>1, <1>2, <1>4 DEF AskedInv

(* Only the setup changes the configuration.                               *)
Configured == UNCHANGED <<setup, phase, dc, te>>

LEMMA OthersConfigured ==
  ASSUME [Next]_vars, ~SetupCluster, ~SetupExternals
  PROVE  Configured
<1>1. CASE UNCHANGED vars
  BY Zenon, <1>1 DEF vars, Configured
<1>2. ASSUME NEW c \in Containers, ContainerUp(c) \/ ContainerDown(c) PROVE Configured
  BY Zenon, <1>2 DEF ContainerUp, ContainerDown, Store, Configured
<1>3. ASSUME NEW r \in PeerRecords, PeerAdds(r) \/ PeerRemoves(r) PROVE Configured
  BY Zenon, <1>3 DEF PeerAdds, PeerRemoves, Store, Configured
<1>4. ASSUME NEW S \in SUBSET External, Load(S) PROVE Configured
  BY Zenon, <1>4 DEF Load, Configured
<1>5. ASSUME NEW name \in Questions, NEW type \in Types, Ask(name, type) PROVE Configured
  BY Zenon, <1>5 DEF Ask, Configured
<1>6. CASE ServeHosts \/ ServeCluster \/ ServeExternals \/ Forward
  BY Zenon, <1>6 DEF ServeHosts, ServeCluster, ServeExternals, Forward, Serving, Configured
<1> QED BY Zenon, <1>1, <1>2, <1>3, <1>4, <1>5, <1>6 DEF Next

(* A plugin has the configuration that its parseConfig returned.           *)
LEMMA ConfigStep ==
  ASSUME ConfigInv, [Next]_vars
  PROVE  ConfigInv'
<1>1. CASE SetupCluster
  BY Zenon, <1>1 DEF ConfigInv, SetupCluster
<1>2. CASE SetupExternals
  BY Zenon, <1>2 DEF ConfigInv, SetupExternals
<1>3. CASE ~SetupCluster /\ ~SetupExternals
  <2>1. setup' = setup /\ phase' = phase /\ dc' = dc /\ te' = te
    BY Zenon, <1>3, OthersConfigured DEF Configured
  <2> QED BY Zenon, <2>1 DEF ConfigInv
<1> QED BY Zenon, <1>1, <1>2, <1>3

-----------------------------------------------------------------------------
(* The records.                                                            *)

(* Lowercasing a sequence of tokens leaves one.                            *)
LEMMA LowerType ==
  ASSUME NEW S, NEW name \in Seq(S), \A t \in DOMAIN Lower : Lower[t] \in S
  PROVE  ToLower(name) \in Seq(S)
<1>1. ToLower(name) = [i \in 1 .. Len(name) |-> IF name[i] \in DOMAIN Lower THEN Lower[name[i]] ELSE name[i]]
  BY DEF ToLower
<1>2. \A i \in 1 .. Len(name) : name[i] \in S
  OBVIOUS
<1>3. ToLower(name) \in [1 .. Len(name) -> S]
  BY ZenonT(60), <1>1, <1>2
<1>4. Len(name) \in Nat
  OBVIOUS
<1> QED BY SMTT(30), <1>3, <1>4

(* What the labels yield are hostnames.                                    *)
LEMMA HostnameType ==
  ASSUME NEW c \in Containers, NEW labels, NEW h \in extractHostnames(labels, c)
  PROVE  ToLower(h) \in Seq(STRING)
<1>1. PICK l \in DOMAIN Labels[c] : \E part \in ToSet(Labels[c][l]) : h = TrimSpace[part]
  BY Zenon DEF extractHostnames
<1>2. h \in Seq(STRING)
  BY Zenon, <1>1, DnsAssumption
<1>3. \A t \in DOMAIN Lower : Lower[t] \in STRING
  BY Zenon, DnsAssumption
<1> QED BY Zenon, <1>2, <1>3, LowerType

Sound(recs) == \A n \in DOMAIN recs : n \in Seq(STRING) /\ recs[n] \in Served

(* Removing names leaves the other records alone.                          *)
LEMMA WithoutSound ==
  ASSUME NEW recs, Sound(recs), NEW S
  PROVE  Sound(Without(recs, S))
BY Zenon DEF Sound, Without

(* A container's records carry docker-cluster's address, a peer's the      *)
(* address it announced.                                                   *)
LEMMA StoreSound ==
  ASSUME RecordsInv, NEW recs, Store(recs), Sound(recs), running' \subseteq Containers
  PROVE  RecordsInv'
<1>1. records' = recs /\ externals' = externals /\ phase' = phase /\ dc' = dc /\ phase = "serving"
  BY Zenon DEF Store
<1>2. Served' = Served
  BY Zenon, <1>1 DEF Served, Peers
<1> QED BY Zenon, <1>1, <1>2 DEF RecordsInv, Sound

(* Every step keeps the records right.                                     *)
LEMMA RecordsStep ==
  ASSUME RecordsInv, [Next]_vars
  PROVE  RecordsInv'
<1>1. Sound(records)
  BY Zenon DEF RecordsInv, Sound
<1>2. CASE SetupCluster \/ SetupExternals
  <2>1. running' = running /\ externals' = externals /\ records' = <<>>
    BY Zenon, <1>2 DEF SetupCluster, SetupExternals, RecordsInv
  <2>2. DOMAIN records' = {}
    BY <2>1
  <2> QED BY Zenon, <2>1, <2>2 DEF RecordsInv
<1>3. ASSUME NEW c \in Containers, ContainerUp(c) PROVE RecordsInv'
  <2> DEFINE names == {ToLower(h) : h \in extractHostnames(dc.label, c)}
             recs == [n \in DOMAIN records \cup names |-> IF n \in names THEN dc.host_ip ELSE records[n]]
  <2>1. \A n \in names : n \in Seq(STRING)
    BY Zenon, HostnameType
  <2>2. Store(recs) /\ running' = running \cup {c}
    BY Zenon, <1>3 DEF ContainerUp
  <2> HIDE DEF names
  <2>3. dc.host_ip \in Served
    BY Zenon DEF Served
  <2>4. Sound(recs)
    BY Zenon, <1>1, <2>1, <2>3 DEF Sound
  <2>5. running' \subseteq Containers
    BY Zenon, <2>2 DEF RecordsInv
  <2> HIDE DEF recs
  <2> QED BY Zenon, <2>2, <2>4, <2>5, StoreSound
<1>4. ASSUME NEW c \in Containers, ContainerDown(c) PROVE RecordsInv'
  <2>1. \E S : Store(Without(records, S))
    BY Zenon, <1>4 DEF ContainerDown
  <2>2. running' \subseteq Containers
    BY Zenon, <1>4 DEF ContainerDown, RecordsInv
  <2> QED BY Zenon, <1>1, <2>1, <2>2, WithoutSound, StoreSound
<1>5. ASSUME NEW r \in PeerRecords, PeerAdds(r) PROVE RecordsInv'
  <2> DEFINE recs == [n \in DOMAIN records \cup {r[1]} |-> IF n = r[1] THEN r[2] ELSE records[n]]
  <2>1. Store(recs) /\ running' = running
    BY Zenon, <1>5 DEF PeerAdds
  <2>2. r[1] \in Seq(STRING)
    BY DnsAssumption
  <2>3. r[2] \in Served
    BY Zenon, <1>5 DEF PeerAdds, Served, Peers
  <2>4. Sound(recs)
    BY Zenon, <1>1, <2>2, <2>3 DEF Sound
  <2>5. running' \subseteq Containers
    BY Zenon, <2>1 DEF RecordsInv
  <2> HIDE DEF recs
  <2> QED BY Zenon, <2>1, <2>4, <2>5, StoreSound
<1>6. ASSUME NEW r \in PeerRecords, PeerRemoves(r) PROVE RecordsInv'
  <2>1. \E S : Store(Without(records, S))
    BY Zenon, <1>6 DEF PeerRemoves
  <2>2. running' \subseteq Containers
    BY Zenon, <1>6 DEF PeerRemoves, RecordsInv
  <2> QED BY Zenon, <1>1, <2>1, <2>2, WithoutSound, StoreSound
<1>7. ASSUME NEW S \in SUBSET External, Load(S) PROVE RecordsInv'
  BY Zenon, <1>7 DEF Load, RecordsInv, Served, Peers
<1>8. ASSUME NEW name \in Questions, NEW type \in Types, Ask(name, type) PROVE RecordsInv'
  BY Zenon, <1>8 DEF Ask, RecordsInv, Served, Peers
<1>9. CASE ServeHosts \/ ServeCluster \/ ServeExternals \/ Forward
  <2>1. UNCHANGED <<phase, dc, running, records, externals>>
    BY Zenon, <1>9 DEF ServeHosts, ServeCluster, ServeExternals, Forward, Serving
  <2> QED BY Zenon, <2>1 DEF RecordsInv, Served, Peers
<1>10. CASE UNCHANGED vars
  BY Zenon, <1>10 DEF vars, RecordsInv, Served, Peers
<1> QED BY Zenon, <1>2, <1>3, <1>4, <1>5, <1>6, <1>7, <1>8, <1>9, <1>10 DEF Next

-----------------------------------------------------------------------------
(* The replies.                                                            *)

(* While the configuration stays, so do the addresses it allows.           *)
LEMMA ServedSame == ASSUME Configured PROVE Served' = Served /\ phase' = phase /\ dc' = dc /\ te' = te
BY Zenon DEF Configured, Served, Peers

(* A step that leaves the query alone, ...                                 *)
LEMMA SameReply ==
  ASSUME ReplyInv, UnknownInv, Configured, query' = query
  PROVE  ReplyInv' /\ UnknownInv'
BY Zenon, ServedSame DEF ReplyInv, UnknownInv, Unknown, NotStatic

(* ... the setup, ...                                                      *)
LEMMA SetupReply ==
  ASSUME IInv, SetupCluster \/ SetupExternals
  PROVE  ReplyInv' /\ UnknownInv'
<1>1. query' = query /\ phase # "serving"
  BY Zenon DEF SetupCluster, SetupExternals
<1>2. query' = NoQuery
  BY Zenon, <1>1 DEF IInv, Ordered
<1>3. query'.at = "done" /\ query'.reply = "none" /\ query'.name = <<>>
  BY <1>2 DEF NoQuery
<1> QED BY <1>3 DEF ReplyInv, UnknownInv, Unknown

(* ... a change of the records, ...                                        *)
LEMMA ObserveReply ==
  ASSUME IInv, ReplyInv, UnknownInv, Configured, query' = Observe(records', externals')
  PROVE  ReplyInv' /\ UnknownInv'
<1>1. CASE query.at = "done"
  <2>1. query' = query
    BY Zenon, <1>1 DEF Observe
  <2> QED BY Zenon, <2>1, SameReply
<1>2. CASE query.at # "done"
  <2>1. query' = [query EXCEPT !.cluster = @ \cup {Held(records', query.name)},
                               !.external = @ \cup {qname(query.name) \in externals'}]
    BY Zenon, <1>2 DEF Observe
  <2>2. /\ query'.at = query.at /\ query'.name = query.name
        /\ query'.reply = query.reply /\ query'.ip = query.ip
        /\ query'.cluster = query.cluster \cup {Held(records', query.name)}
    BY Zenon, <2>1 DEF IInv, IsQuery
  <2>3. query.cluster # {}
    BY Zenon, <1>2 DEF IInv, Current
  <2>4. Unknown' => Unknown
    <3> SUFFICES ASSUME Unknown' PROVE Unknown
      BY Zenon
    <3>1. query.cluster = {Unset}
      <4>1. query.cluster \cup {Held(records', query.name)} = {Unset}
        BY Zenon, <2>2 DEF Unknown
      <4> QED BY Zenon, <2>3, <4>1, Shrink
    <3>2. dc' = dc
      BY Zenon, ServedSame
    <3> QED BY Zenon, <2>2, <3>1, <3>2 DEF Unknown
  <2>5. ReplyInv'
    BY Zenon, <2>2, ServedSame DEF ReplyInv
  <2>6. UnknownInv'
    BY Zenon, <1>2, <2>2, <2>4 DEF UnknownInv
  <2> QED BY Zenon, <2>5, <2>6
<1> QED BY Zenon, <1>1, <1>2

(* ... a new query ...                                                     *)
LEMMA AskReply ==
  ASSUME NEW name, NEW type, Ask(name, type)
  PROVE  ReplyInv' /\ UnknownInv'
<1>1. query'.at = "hosts" /\ query'.reply = "none"
  BY Zenon DEF Ask, NoQuery
<1> QED BY Zenon, <1>1 DEF ReplyInv, UnknownInv

(* ... and the hosts plugin, whose answers are not A records of ours.      *)
LEMMA HostsReply ==
  ASSUME IInv, ReplyInv, ServeHosts
  PROVE  ReplyInv' /\ UnknownInv'
<1>1. query.at = "hosts"
  BY Zenon DEF ServeHosts, Serving
<1>2. CASE qname(query.name) \in Static /\ WriteMsg("static", Unset)
  <2>1. Moved /\ query'.at = "done" /\ (query'.reply = "failed" \/ query'.reply = "static")
    BY Zenon, <1>2, Sent
  <2>2. ~NotStatic'
    BY Zenon, <1>2, <2>1 DEF NotStatic, Moved
  <2> QED BY Zenon, <2>1, <2>2 DEF ReplyInv, UnknownInv
<1>3. CASE query' = [query EXCEPT !.at = "docker-cluster"]
  <2>1. query'.at = "docker-cluster" /\ query'.reply = query.reply
    BY Zenon, <1>3 DEF IInv, IsQuery
  <2>2. query'.reply = "none"
    BY Zenon, <1>1, <2>1 DEF ReplyInv
  <2> QED BY Zenon, <2>1, <2>2 DEF ReplyInv, UnknownInv
<1> QED BY ZenonT(60), <1>2, <1>3 DEF ServeHosts

(* An A record of docker-cluster carries what its records hold; a name it  *)
(* does not hold is handled as the configuration says.                     *)
LEMMA ClusterReply ==
  ASSUME IInv, RecordsInv, ReplyInv, ServeCluster
  PROVE  ReplyInv' /\ UnknownInv'
<1> DEFINE ip == Held(records, query.name)
<1>1. ip \in query.cluster /\ query.at = "docker-cluster" /\ query.reply = "none"
  BY Zenon DEF IInv, Current, ReplyInv, ServeCluster, Serving
<1>2. Unset \notin IPv4
  BY Zenon, ConfigAssumption
<1>3. ip = Unset \/ ip \in Served
  BY Zenon DEF Held, RecordsInv
<1>4. phase = "serving"
  <2>1. query.at # "done" /\ NoQuery.at = "done"
    BY <1>1 DEF NoQuery
  <2> QED BY Zenon, <2>1 DEF IInv, Ordered
<1>5. Configured
  BY Zenon DEF ServeCluster, Serving, Configured
<1> HIDE DEF ip
<1>6. CASE query.type = "AAAA" /\ ip # Unset /\ WriteMsg("empty", Unset)
  <2>1. Moved /\ query'.at = "done" /\ (query'.reply = "failed" \/ query'.reply = "empty")
    BY Zenon, <1>6, Sent
  <2>2. ~Unknown'
    BY Zenon, <1>1, <1>6, <2>1 DEF Unknown, Moved
  <2> QED BY Zenon, <2>1, <2>2 DEF ReplyInv, UnknownInv
<1>7. CASE query.type = "A" /\ ip \in IPv4 /\ WriteMsg("A", ip)
  <2>1. /\ Moved /\ query'.at = "done"
        /\ query'.reply = "failed" \/ (query'.reply = "A" /\ query'.ip = ip)
    BY Zenon, <1>7, Sent
  <2>2. ~Unknown'
    BY Zenon, <1>1, <1>2, <1>7, <2>1 DEF Unknown, Moved
  <2>3. ip \in Served'
    BY Zenon, <1>2, <1>3, <1>5, <1>7, ServedSame
  <2>4. phase' = "serving"
    BY Zenon, <1>4, <1>5, ServedSame
  <2> QED BY Zenon, <1>7, <2>1, <2>2, <2>3, <2>4 DEF ReplyInv, UnknownInv
<1>8. CASE qname(query.name) \in dc.fallthrough /\ NextOrFailure("docker-cluster")
  <2>1. /\ Moved /\ query'.at \in {"traefik-externals", "forward", "done"}
        /\ query'.reply = IF query'.at = "done" THEN "servfail" ELSE query.reply
    BY Zenon, <1>8, PassedOn
  <2>2. ~Unknown'
    BY ZenonT(60), <1>5, <1>8, <2>1, ServedSame DEF Unknown, Moved
  <2> QED BY Zenon, <1>1, <2>1, <2>2 DEF ReplyInv, UnknownInv
<1>9. CASE dc.unknown_action = "nxdomain" /\ WriteMsg("nxdomain", Unset)
  <2>1. Moved /\ query'.at = "done" /\ (query'.reply = "failed" \/ query'.reply = "nxdomain")
    BY Zenon, <1>9, Sent
  <2>2. dc' = dc
    BY Zenon, <1>5, ServedSame
  <2> QED BY Zenon, <1>9, <2>1, <2>2 DEF ReplyInv, UnknownInv
<1>10. CASE dc.unknown_action # "nxdomain" /\ Drop
  <2>1. query'.at = "done" /\ query'.reply = "none"
    BY Zenon, <1>1, <1>10, Dropped
  <2>2. dc' = dc
    BY Zenon, <1>5, ServedSame
  <2> QED BY Zenon, <1>10, <2>1, <2>2 DEF ReplyInv, UnknownInv
<1> QED BY Zenon, <1>6, <1>7, <1>8, <1>9, <1>10 DEF ServeCluster, handleUnknown, ip

(* An A record of traefik-externals carries its address.                   *)
LEMMA ExternalsReply ==
  ASSUME IInv, ReplyInv, UnknownInv, ServeExternals
  PROVE  ReplyInv' /\ UnknownInv'
<1> DEFINE found == qname(query.name) \in externals
<1>1. query.at = "traefik-externals" /\ query.reply = "none"
  BY Zenon DEF ServeExternals, Serving, ReplyInv
<1>2. Configured
  BY Zenon DEF ServeExternals, Serving, Configured
<1>3. phase = "serving"
  <2>1. query.at # "done" /\ NoQuery.at = "done"
    BY <1>1 DEF NoQuery
  <2> QED BY Zenon, <2>1 DEF IInv, Ordered
<1>4. found => te # Unset
  BY Zenon DEF IInv, Ordered
<1> HIDE DEF found
<1>5. ~Unknown
  BY Zenon, <1>1 DEF UnknownInv
<1>6. Moved => UnknownInv'
  BY Zenon, <1>2, <1>5, ServedSame DEF UnknownInv, Unknown, Moved
<1>7. CASE WriteMsg("empty", Unset)
  <2>1. Moved /\ query'.at = "done" /\ (query'.reply = "failed" \/ query'.reply = "empty")
    BY Zenon, <1>7, Sent
  <2> QED BY Zenon, <1>6, <2>1 DEF ReplyInv
<1>8. CASE NextOrFailure("traefik-externals")
  <2>1. /\ Moved /\ query'.at \in {"traefik-externals", "forward", "done"}
        /\ query'.reply = IF query'.at = "done" THEN "servfail" ELSE query.reply
    BY Zenon, <1>8, PassedOn
  <2> QED BY Zenon, <1>1, <1>6, <2>1 DEF ReplyInv
<1>9. CASE found /\ te.host_ip \in IPv4 /\ WriteMsg("A", te.host_ip)
  <2>1. /\ Moved /\ query'.at = "done"
        /\ query'.reply = "failed" \/ (query'.reply = "A" /\ query'.ip = te.host_ip)
    BY Zenon, <1>9, Sent
  <2>2. te' = te /\ te # Unset /\ phase' = "serving"
    BY Zenon, <1>2, <1>3, <1>4, <1>9, ServedSame
  <2> QED BY Zenon, <1>6, <1>9, <2>1, <2>2 DEF ReplyInv
<1>10. CASE Drop
  <2>1. Moved /\ query'.at = "done" /\ query'.reply = "none"
    BY Zenon, <1>1, <1>10, Dropped
  <2> QED BY Zenon, <1>6, <2>1 DEF ReplyInv
<1> QED BY Zenon, <1>7, <1>8, <1>9, <1>10 DEF ServeExternals, found

(* What is forwarded is not docker-cluster's to answer.                    *)
LEMMA ForwardReply ==
  ASSUME IInv, UnknownInv, Forward
  PROVE  ReplyInv' /\ UnknownInv'
<1>1. query.at = "forward" /\ Configured
  BY Zenon DEF Forward, Serving, Configured
<1>2. Moved /\ query'.at = "done" /\ (query'.reply = "failed" \/ query'.reply = "forwarded")
  BY Zenon, Sent DEF Forward
<1>3. ~Unknown'
  BY Zenon, <1>1, <1>2, ServedSame DEF UnknownInv, Unknown, Moved
<1> QED BY Zenon, <1>2, <1>3 DEF ReplyInv, UnknownInv

(* Every step keeps the replies right.                                     *)
LEMMA ReplyStep ==
  ASSUME IInv, RecordsInv, ReplyInv, UnknownInv, [Next]_vars
  PROVE  ReplyInv' /\ UnknownInv'
<1>1. CASE SetupCluster \/ SetupExternals
  BY Zenon, <1>1, SetupReply
<1>2. CASE ~SetupCluster /\ ~SetupExternals
  <2>1. Configured
    BY Zenon, <1>2, OthersConfigured
  <2>2. CASE UNCHANGED vars
    BY Zenon, <2>1, <2>2, SameReply DEF vars
  <2>3. ASSUME query' = Observe(records', externals') PROVE ReplyInv' /\ UnknownInv'
    BY Zenon, <2>1, <2>3, ObserveReply
  <2>4. ASSUME NEW c \in Containers, ContainerUp(c) \/ ContainerDown(c) PROVE query' = Observe(records', externals')
    BY Zenon, <2>4 DEF ContainerUp, ContainerDown, Store
  <2>5. ASSUME NEW r \in PeerRecords, PeerAdds(r) \/ PeerRemoves(r) PROVE query' = Observe(records', externals')
    BY Zenon, <2>5 DEF PeerAdds, PeerRemoves, Store
  <2>6. ASSUME NEW S \in SUBSET External, Load(S) PROVE query' = Observe(records', externals')
    BY Zenon, <2>6 DEF Load
  <2>7. ASSUME NEW name \in Questions, NEW type \in Types, Ask(name, type) PROVE ReplyInv' /\ UnknownInv'
    BY Zenon, <2>7, AskReply
  <2>8. Next \/ UNCHANGED vars
    BY Zenon
  <2> QED BY Zenon, <1>2, <2>2, <2>3, <2>4, <2>5, <2>6, <2>7, <2>8, HostsReply, ClusterReply, ExternalsReply,
             ForwardReply DEF Next
<1> QED BY Zenon, <1>1, <1>2

(* Every step keeps the configuration, the records and the replies right.  *)
LEMMA AskedStep ==
  ASSUME IInv, AskedInv, [Next]_vars
  PROVE  AskedInv'
BY Zenon, ConfigStep, RecordsStep, ReplyStep DEF AskedInv

-----------------------------------------------------------------------------

(* Both invariants hold throughout.                                        *)
LEMMA AskedAlways == Spec => [](IInv /\ AskedInv)
<1>1. IInv /\ AskedInv /\ [Next]_vars => (IInv /\ AskedInv)'
  BY Zenon, IInvStep, AskedStep
<1> QED BY <1>1, InitIInv, InitAsked, PTL DEF Spec

(* Once docker-cluster is set up its configuration is what was asked for,  *)
(* and so is the address of traefik-externals.                             *)
LEMMA ClusterAsAsked ==
  ASSUME ConfigInv, phase \in {"externals", "serving"}
  PROVE  /\ dc.host_ip = WantedAddress(setup.cluster) /\ dc.host_ip \in Addresses
         /\ dc.unknown_action = WantedAction /\ dc.unknown_action \in {"drop", "nxdomain"}
         /\ dc.cluster_enabled = WantsCluster
<1> DEFINE b == setup.cluster
           env == setup.env
<1>1. dc = parseCluster(b, env) /\ parseCluster(b, env) # Invalid
  BY Zenon DEF ConfigInv
<1>2. b # NoBlock /\ IsBlock(b) /\ HasAddresses(b) /\ env["HOSTIP"] \in Addresses \cup {Unset}
  BY Zenon, DnsAssumption DEF ConfigInv
<1>3. /\ dc["host_ip"] = AddressOf(b, env) /\ dc["host_ip"] \in Addresses
      /\ dc["unknown_action"] = ActionOf(b, env) /\ dc["unknown_action"] \in {"drop", "nxdomain"}
      /\ dc["cluster_enabled"] = EnabledOf(b, env)
  BY Zenon, <1>1, <1>2, ClusterConfigured
<1>4. Default("host_ip") = Unset /\ Default("unknown_action") = "drop" /\ Default("cluster_enabled") = "no"
  BY DEF Default
<1>5. /\ LastOf(b, "host_ip", Unset) = LastTo(b, Len(b), "host_ip")
      /\ LastOf(b, "unknown_action", "drop") = LastTo(b, Len(b), "unknown_action")
      /\ LastOf(b, "cluster_enabled", "no") = LastTo(b, Len(b), "cluster_enabled")
  <2>1. \A p : LastOf(b, p, Default(p)) = LastTo(b, Len(b), p)
    BY Zenon, <1>2, LastIs
  <2> QED BY Zenon, <1>4, <2>1
<1>6. AddressOf(b, env) = WantedAddress(b)
  BY Zenon, <1>5 DEF AddressOf, WantedAddress
<1>7. ActionOf(b, env) = WantedAction
  BY Zenon, <1>5 DEF ActionOf, WantedAction
<1>8. EnabledOf(b, env) = WantsCluster
  BY Zenon, <1>5 DEF EnabledOf, WantsCluster
<1> QED BY Zenon, <1>3, <1>6, <1>7, <1>8

LEMMA ExternalsAsAsked ==
  ASSUME ConfigInv, te # Unset
  PROVE  te.host_ip = WantedAddress(setup.externals)
<1> DEFINE b == setup.externals
           env == setup.env
<1>1. te = parseExternals(b, env) /\ parseExternals(b, env) # Invalid /\ b # NoBlock
  BY Zenon DEF ConfigInv
<1>2. IsBlock(b)
  BY Zenon, <1>1, DnsAssumption DEF ConfigInv
<1>3. te["host_ip"] = AddressOf(b, env)
  BY Zenon, <1>1, <1>2, ExternalsConfigured
<1>4. LastOf(b, "host_ip", Unset) = LastTo(b, Len(b), "host_ip")
  <2>1. LastOf(b, "host_ip", Default("host_ip")) = LastTo(b, Len(b), "host_ip")
    BY Zenon, <1>1, <1>2, LastIs
  <2>2. Default("host_ip") = Unset
    BY DEF Default
  <2> QED BY Zenon, <2>1, <2>2
<1> QED BY Zenon, <1>3, <1>4 DEF AddressOf, WantedAddress

(* For every Corefile, environment and order of changes: a name that       *)
(* docker-cluster has with an IPv4 address throughout a query is answered  *)
(* from its records (ServeDNS never denies, drops or passes it on).        *)
THEOREM AnswersKnown == Spec => []KnownAnswered
<1>1. IInv => KnownAnswered
  BY ZenonT(90) DEF IInv, KnownInv, KnownAnswered, Answered
<1> QED BY <1>1, InitIInv, IInvStep, PTL DEF Spec

(* For every Corefile, environment and order of changes: a Traefik name    *)
(* that docker-cluster lacks and passes on is answered by the              *)
(* traefik-externals handler with its address.                             *)
THEOREM AnswersPassedOn == Spec => []PassedOnAnswered
<1>1. IInv => PassedOnAnswered
  BY Zenon DEF IInv, PassedOnInv, Expected, PassedOnAnswered, Answered
<1> QED BY <1>1, InitIInv, IInvStep, PTL DEF Spec

(* For every Corefile, environment and order of changes: the state is well *)
(* formed, docker-cluster's records hold hostnames and addresses only, and *)
(* an A record of either handler carries an IPv4 address.                  *)
THEOREM TypeCorrect == Spec => []TypeOK
<1>1. IInv /\ AskedInv => TypeOK
  <2> SUFFICES ASSUME AskedInv PROVE TypeOK
    BY Zenon
  <2>1. ASSUME NEW n \in DOMAIN records PROVE n \in Seq(STRING) /\ records[n] \in Addresses
    <3>1. phase = "serving"
      <4>1. DOMAIN <<>> = {}
        OBVIOUS
      <4> QED BY Zenon, <4>1 DEF AskedInv, RecordsInv
    <3>2. dc.host_ip \in Addresses
      BY Zenon, <3>1, ClusterAsAsked DEF AskedInv
    <3>3. \A a \in Peers : a \in Addresses
      BY DnsAssumption DEF Peers
    <3>4. \A a \in Served : a \in Addresses
      BY Zenon, <3>2, <3>3 DEF Served
    <3> QED BY Zenon, <3>4 DEF AskedInv, RecordsInv
  <2> QED BY Zenon, <2>1 DEF AskedInv, ConfigInv, RecordsInv, ReplyInv, TypeOK
<1> QED BY <1>1, AskedAlways, PTL

(* For every Corefile, environment and order of changes: a name that       *)
(* docker-cluster does not have and does not pass on gets what the last    *)
(* word of parseConfig's order asked for (handleUnknown), and nothing else.*)
THEOREM HandlesUnknown == Spec => []UnknownAsAsked
<1>1. IInv /\ AskedInv => UnknownAsAsked
  <2> SUFFICES ASSUME AskedInv, Answered, NotStatic, query.cluster = {Unset}, qname(query.name) \notin dc.fallthrough
               PROVE  query.reply = IF WantedAction = "drop" THEN "none" ELSE "nxdomain"
    BY Zenon DEF UnknownAsAsked
  <2>1. phase = "serving" /\ query.at = "done" /\ query.name # <<>> /\ query.reply # "failed"
    BY Zenon DEF Answered
  <2>2. query.reply = IF dc.unknown_action = "nxdomain" THEN "nxdomain" ELSE "none"
    BY Zenon, <2>1 DEF AskedInv, UnknownInv, Unknown
  <2>3. dc.unknown_action = WantedAction /\ dc.unknown_action \in {"drop", "nxdomain"}
    BY Zenon, <2>1, ClusterAsAsked DEF AskedInv
  <2> QED BY SMTT(30), <2>2, <2>3
<1> QED BY <1>1, AskedAlways, PTL

(* For every Corefile, environment and order of changes: an A record       *)
(* carries the address that HOSTIP or else the last host_ip directive of   *)
(* one of the blocks asked for, or, only where clustering is on, a peer's. *)
THEOREM AnswersAsAsked == Spec => []AddressAsAsked
<1>1. IInv /\ AskedInv => AddressAsAsked
  <2> SUFFICES ASSUME AskedInv, query.reply = "A"
               PROVE  query.ip \in {WantedAddress(setup.cluster), WantedAddress(setup.externals)}
                                    \cup (IF WantsCluster THEN Peers ELSE {})
    BY Zenon DEF AddressAsAsked, Peers
  <2>1. phase = "serving" /\ (query.ip \in Served \/ (te # Unset /\ query.ip = te.host_ip))
    BY Zenon DEF AskedInv, ReplyInv
  <2>2. dc.host_ip = WantedAddress(setup.cluster) /\ dc.cluster_enabled = WantsCluster
    BY Zenon, <2>1, ClusterAsAsked DEF AskedInv
  <2>3. te # Unset => te.host_ip = WantedAddress(setup.externals)
    BY Zenon, ExternalsAsAsked DEF AskedInv
  <2> QED BY Zenon, <2>1, <2>2, <2>3 DEF Served
<1> QED BY <1>1, AskedAlways, PTL

=============================================================================
