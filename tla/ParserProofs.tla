---------------------------- MODULE ParserProofs ----------------------------
(***************************************************************************)
(* What parser.go does with a text, for texts of any length and for any    *)
(* environment: what ParseFile returns are hostnames, a file read too      *)
(* early only misses some, and ParseContent returns exactly what the file  *)
(* declares.                                                               *)
(*                                                                         *)
(* The scanners are folds, so all of it is induction over data.  The       *)
(* argument is always that of the least counterexample: Induction is       *)
(* about a set of numbers, and each proof names the set of the lengths or  *)
(* positions for which its claim holds.                                    *)
(***************************************************************************)
EXTENDS Parser, FiniteSetTheorems, SequenceTheorems, WellFoundedInduction, TLAPS

(* Induction over the naturals, by the least number that is not in S.      *)
LEMMA Induction ==
  ASSUME NEW S, 0 \in S, \A n \in Nat : n \in S => n + 1 \in S
  PROVE  \A n \in Nat : n \in S
<1> DEFINE T == Nat \ S
           R == OpToRel(<, Nat)
<1> SUFFICES ASSUME T # {} PROVE FALSE
  BY Zenon
<1>1. IsWellFoundedOn(R, Nat) /\ T \subseteq Nat
  BY Zenon, NatLessThanWellFounded
<1> HIDE DEF R, T
<1>2. PICK x \in T : \A y \in T : ~(<<y, x>> \in R)
  BY Zenon, <1>1, WFMin
<1>3. x \in Nat /\ x # 0
  BY DEF T
<1>4. x - 1 \in Nat /\ (x - 1) + 1 = x
  BY <1>3
<1>5. x - 1 \in T
  BY <1>4 DEF T
<1>6. <<x - 1, x>> \in R
  BY <1>3, <1>4 DEF R, OpToRel
<1> QED BY Zenon, <1>2, <1>5, <1>6

(* The same for sequences, one element at a time.                          *)
LEMMA SequenceInduction ==
  ASSUME NEW S, NEW P, <<>> \in P, \A c \in Seq(S) : \A t \in S : c \in P => Append(c, t) \in P
  PROVE  \A c \in Seq(S) : c \in P
<1> DEFINE T == {n \in Nat : \A c \in Seq(S) : Len(c) = n => c \in P}
<1>1. 0 \in T
  <2>1. \A c \in Seq(S) : Len(c) = 0 => c = <<>>
    OBVIOUS
  <2> QED BY <2>1
<1>2. ASSUME NEW n \in Nat, n \in T PROVE n + 1 \in T
  <2> SUFFICES ASSUME NEW c \in Seq(S), Len(c) = n + 1 PROVE c \in P
    OBVIOUS
  <2> DEFINE d == SubSeq(c, 1, n)
             t == c[n + 1]
  <2>1. d \in Seq(S) /\ t \in S /\ Len(d) = n
    OBVIOUS
  <2>2. c = Append(d, t)
    OBVIOUS
  <2>3. d \in P
    BY Zenon, <1>2, <2>1
  <2> QED BY Zenon, <2>1, <2>2, <2>3
<1> HIDE DEF T
<1>3. \A n \in Nat : n \in T
  BY Zenon, <1>1, <1>2, Induction
<1> SUFFICES ASSUME NEW c \in Seq(S) PROVE c \in P
  OBVIOUS
<1>4. Len(c) \in Nat
  OBVIOUS
<1> QED BY Zenon, <1>3, <1>4 DEF T

(* Max is the greatest element, if there is one.                           *)
LEMMA MaxIs ==
  ASSUME NEW S \in SUBSET Int, NEW x \in S, \A y \in S : y <= x
  PROVE  Max(S) = x
<1>1. \A y \in S : x >= y
  OBVIOUS
<1> DEFINE m == Max(S)
<1>2. m \in S /\ \A y \in S : m >= y
  BY Zenon, <1>1 DEF Max
<1> HIDE DEF m
<1>3. m \in Int /\ x \in Int /\ m >= x /\ x >= m
  BY Zenon, <1>1, <1>2
<1>4. m = x
  BY <1>3
<1> QED BY Zenon, <1>4 DEF m

-----------------------------------------------------------------------------
(* The scanners.  FoldLeft is a recursive function on the sets of indices; *)
(* for the step of every scanner it exists and does what it says.          *)

(* The tokens of a text. The proofs keep the name folded: that a token is  *)
(* a string matters to them only where a scanner compares it with one.     *)
Token == STRING

Step(scanner, s, t) ==
  CASE scanner = "strip" -> stripToken(s, t)
    [] scanner = "quote" -> quoteToken(s, t)
    [] scanner = "env" -> envToken(s, t)
    [] OTHER -> hostToken(scanner, s, t)

IsScan(scanner, base, seq, n, f) ==
  f = [I \in SUBSET (1 .. n) |-> IF I = {} THEN base ELSE Step(scanner, f[I \ {Max(I)}], seq[Max(I)])]

(* A scan of the first n tokens exists, whatever the scanner.              *)
LEMMA ScanExists ==
  ASSUME NEW scanner, NEW base, NEW seq, NEW n \in Nat
  PROVE  \E f : IsScan(scanner, base, seq, n, f)
<1> DEFINE T == {k \in Nat : \E f : IsScan(scanner, base, seq, k, f)}
<1>1. 0 \in T
  <2> DEFINE f == [I \in SUBSET (1 .. 0) |-> base]
  <2>1. \A I \in SUBSET (1 .. 0) : I = {}
    OBVIOUS
  <2>2. IsScan(scanner, base, seq, 0, f)
    BY Zenon, <2>1 DEF IsScan
  <2> QED BY <2>2
<1>2. ASSUME NEW k \in Nat, k \in T PROVE k + 1 \in T
  <2>1. PICK f : IsScan(scanner, base, seq, k, f)
    BY Zenon, <1>2
  <2> DEFINE g == [I \in SUBSET (1 .. (k + 1)) |->
                    IF k + 1 \in I THEN Step(scanner, f[I \ {k + 1}], seq[k + 1]) ELSE f[I]]
  <2>2. ASSUME NEW I \in SUBSET (1 .. (k + 1))
        PROVE  g[I] = IF I = {} THEN base ELSE Step(scanner, g[I \ {Max(I)}], seq[Max(I)])
    <3>1. CASE k + 1 \in I
      <4>1. I \in SUBSET Int /\ \A y \in I : y <= k + 1
        OBVIOUS
      <4>2. Max(I) = k + 1
        BY Zenon, <3>1, <4>1, MaxIs
      <4>3. I \ {k + 1} \in SUBSET (1 .. (k + 1)) /\ k + 1 \notin I \ {k + 1} /\ I # {}
        BY Zenon, <3>1
      <4>4. g[I \ {k + 1}] = f[I \ {k + 1}]
        BY Zenon, <4>3
      <4> QED BY Zenon, <3>1, <4>2, <4>3, <4>4
    <3>2. CASE k + 1 \notin I
      <4>1. I \in SUBSET (1 .. k)
        BY <3>2
      <4>2. I \ {Max(I)} \in SUBSET (1 .. (k + 1)) /\ k + 1 \notin I \ {Max(I)}
        BY Zenon, <3>2
      <4>3. g[I] = f[I] /\ g[I \ {Max(I)}] = f[I \ {Max(I)}]
        BY Zenon, <3>2, <4>2
      <4>4. f[I] = IF I = {} THEN base ELSE Step(scanner, f[I \ {Max(I)}], seq[Max(I)])
        BY Zenon, <2>1, <4>1 DEF IsScan
      <4> QED BY Zenon, <4>3, <4>4
    <3> QED BY Zenon, <3>1, <3>2
  <2> HIDE DEF g
  <2>3. IsScan(scanner, base, seq, k + 1, g)
    <3>1. g = [I \in SUBSET (1 .. (k + 1)) |-> g[I]]
      BY Zenon DEF g
    <3> QED BY Zenon, <2>2, <3>1 DEF IsScan
  <2>4. k + 1 \in Nat
    OBVIOUS
  <2> QED BY Zenon, <2>3, <2>4
<1> HIDE DEF T
<1>3. n \in T
  BY Zenon, <1>1, <1>2, Induction
<1> QED BY Zenon, <1>3 DEF T
Runs(scanner, base, seq, n, f) ==
  /\ f[1 .. 0] = base
  /\ \A k \in 1 .. n : f[1 .. k] = Step(scanner, f[1 .. (k - 1)], seq[k])

LEMMA ScanAt ==
  ASSUME NEW scanner, NEW base, NEW seq, NEW n \in Nat, NEW f, IsScan(scanner, base, seq, n, f)
  PROVE  Runs(scanner, base, seq, n, f)
<1>1. f[1 .. 0] = base
  <2>1. 1 .. 0 = {}
    OBVIOUS
  <2> QED BY Zenon, <2>1 DEF IsScan
<1>2. ASSUME NEW k \in 1 .. n PROVE f[1 .. k] = Step(scanner, f[1 .. (k - 1)], seq[k])
  <2> DEFINE I == 1 .. k
  <2>1. I \in SUBSET Int /\ k \in I /\ (\A y \in I : y <= k) /\ I \ {k} = 1 .. (k - 1) /\ I \in SUBSET (1 .. n)
    OBVIOUS
  <2> HIDE DEF I
  <2>2. Max(I) = k /\ I # {}
    BY Zenon, <2>1, MaxIs
  <2>3. f[I] = Step(scanner, f[I \ {Max(I)}], seq[Max(I)])
    BY Zenon, <2>1, <2>2 DEF IsScan
  <2>4. f[I] = Step(scanner, f[1 .. (k - 1)], seq[k])
    BY Zenon, <2>1, <2>2, <2>3
  <2> QED BY Zenon, <2>4 DEF I
<1> QED BY Zenon, <1>1, <1>2 DEF Runs

(* Two scans agree as far as their sequences do.                           *)
LEMMA ScanAgree ==
  ASSUME NEW scanner, NEW base, NEW s, NEW t, NEW n \in Nat, NEW m \in Nat, n <= m,
         \A k \in 1 .. n : s[k] = t[k],
         NEW f, IsScan(scanner, base, s, n, f),
         NEW g, IsScan(scanner, base, t, m, g)
  PROVE  f[1 .. n] = g[1 .. n]
<1> DEFINE T == {k \in Nat : k <= n => f[1 .. k] = g[1 .. k]}
<1>1. f[1 .. 0] = base /\ \A k \in 1 .. n : f[1 .. k] = Step(scanner, f[1 .. (k - 1)], s[k])
  <2>1. Runs(scanner, base, s, n, f)
    BY Zenon, ScanAt
  <2> QED BY Zenon, <2>1 DEF Runs
<1>2. g[1 .. 0] = base /\ \A k \in 1 .. m : g[1 .. k] = Step(scanner, g[1 .. (k - 1)], t[k])
  <2>1. Runs(scanner, base, t, m, g)
    BY Zenon, ScanAt
  <2> QED BY Zenon, <2>1 DEF Runs
<1>3. 0 \in T
  BY <1>1, <1>2
<1>4. ASSUME NEW k \in Nat, k \in T PROVE k + 1 \in T
  <2> SUFFICES ASSUME k + 1 <= n PROVE f[1 .. (k + 1)] = g[1 .. (k + 1)]
    OBVIOUS
  <2>1. k + 1 \in 1 .. n /\ k + 1 \in 1 .. m /\ (k + 1) - 1 = k /\ k <= n
    OBVIOUS
  <2> QED BY Zenon, <1>1, <1>2, <1>4, <2>1
<1> HIDE DEF T
<1>5. n \in T
  BY Zenon, <1>3, <1>4, Induction
<1> QED BY <1>5 DEF T

(* What a scanner makes of a text: at first its initial state, and with    *)
(* every further token one more step.                                      *)
Scan(scanner, base, c) == (CHOOSE f : IsScan(scanner, base, c, Len(c), f))[1 .. Len(c)]

(* The scan is unique.                                                     *)
LEMMA ScanIs ==
  ASSUME NEW scanner, NEW base, NEW c \in Seq(Token),
         NEW f, IsScan(scanner, base, c, Len(c), f)
  PROVE  Scan(scanner, base, c) = f[1 .. Len(c)]
<1> DEFINE g == CHOOSE g : IsScan(scanner, base, c, Len(c), g)
<1>1. IsScan(scanner, base, c, Len(c), g)
  BY Zenon
<1>2. Len(c) \in Nat /\ Len(c) <= Len(c)
  OBVIOUS
<1>3. Scan(scanner, base, c) = g[1 .. Len(c)]
  BY Zenon DEF Scan
<1> HIDE DEF g
<1> QED BY <1>1, <1>2, <1>3, ScanAgree

LEMMA ScanEmpty ==
  ASSUME NEW scanner, NEW base
  PROVE  Scan(scanner, base, <<>>) = base
<1>1. Len(<<>>) = 0 /\ 0 \in Nat /\ <<>> \in Seq(Token)
  OBVIOUS
<1>2. PICK f : IsScan(scanner, base, <<>>, 0, f)
  BY Zenon, <1>1, ScanExists
<1>3. f[1 .. 0] = base
  <2>1. Runs(scanner, base, <<>>, 0, f)
    BY Zenon, <1>1, <1>2, ScanAt
  <2> QED BY Zenon, <2>1 DEF Runs
<1>4. Scan(scanner, base, <<>>) = f[1 .. Len(<<>>)]
  BY Zenon, <1>1, <1>2, ScanIs
<1> QED BY Zenon, <1>1, <1>3, <1>4

LEMMA ScanAppend ==
  ASSUME NEW scanner, NEW base, NEW c \in Seq(Token), NEW t \in Token
  PROVE  Scan(scanner, base, Append(c, t)) = Step(scanner, Scan(scanner, base, c), t)
<1> DEFINE n == Len(c)
           long == Append(c, t)
<1>1. n \in Nat /\ Len(long) = n + 1 /\ long \in Seq(Token) /\ long[n + 1] = t
  OBVIOUS
<1>2. \A k \in 1 .. n : c[k] = long[k]
  OBVIOUS
<1> HIDE DEF n, long
<1>3. n + 1 \in Nat /\ n <= n + 1 /\ n + 1 \in 1 .. (n + 1) /\ (n + 1) - 1 = n
  BY <1>1
<1>4. PICK f : IsScan(scanner, base, c, n, f)
  BY Zenon, <1>1, ScanExists
<1>5. PICK g : IsScan(scanner, base, long, n + 1, g)
  BY Zenon, <1>3, ScanExists
<1>6. f[1 .. n] = g[1 .. n]
  BY SMTT(30), <1>1, <1>2, <1>3, <1>4, <1>5, ScanAgree
<1>7. g[1 .. (n + 1)] = Step(scanner, g[1 .. n], t)
  <2>1. Runs(scanner, base, long, n + 1, g)
    BY Zenon, <1>3, <1>5, ScanAt
  <2> QED BY Zenon, <1>1, <1>3, <2>1 DEF Runs
<1>8. Scan(scanner, base, c) = f[1 .. n]
  BY <1>4, ScanIs DEF n
<1>9. Scan(scanner, base, long) = g[1 .. (n + 1)]
  BY <1>1, <1>5, ScanIs
<1> QED BY Zenon, <1>6, <1>7, <1>8, <1>9 DEF long

NoText == [out |-> <<>>, inBacktick |-> FALSE, cut |-> FALSE]
NoRule == [open |-> FALSE, inner |-> <<>>, found |-> {}]
NoQuote == [open |-> FALSE, quoted |-> <<>>, found |-> {}]

stripScan(c) == Scan("strip", NoText, c)
hostScan(opener, c) == Scan(opener, NoRule, c)
quoteScan(c) == Scan("quote", NoQuote, c)
envScan(c) == Scan("env", <<>>, c)

Openers == {"Host(", "HostSNI("}

LEMMA StripScan ==
  ASSUME NEW c \in Seq(Token)
  PROVE  stripComments(c) = stripScan(c).out
<1> DEFINE Is(f) ==
             f = [I \in SUBSET (1 .. Len(c)) |-> IF I = {} THEN NoText ELSE stripToken(f[I \ {Max(I)}], c[Max(I)])]
<1>1. \A f : IsScan("strip", NoText, c, Len(c), f) <=> Is(f)
  BY Zenon DEF IsScan, Step
<1>2. \E f : IsScan("strip", NoText, c, Len(c), f)
  <2>1. Len(c) \in Nat
    OBVIOUS
  <2> QED BY Zenon, <2>1, ScanExists
<1>3. Is(CHOOSE f : Is(f))
  BY Zenon, <1>1, <1>2
<1>4. Scan("strip", NoText, c) = (CHOOSE f : Is(f))[1 .. Len(c)]
  BY Zenon, <1>1, <1>3, ScanIs
<1>5. DOMAIN c = 1 .. Len(c)
  OBVIOUS
<1> QED BY Zenon, <1>4, <1>5 DEF stripScan, stripComments, NoText, FoldLeft, MapThenFoldSet

LEMMA HostScan ==
  ASSUME NEW opener \in Openers, NEW c \in Seq(Token)
  PROVE  hostPattern(opener, c) = hostScan(opener, c).found
<1> DEFINE Is(f) ==
             f = [I \in SUBSET (1 .. Len(c)) |-> IF I = {} THEN NoRule ELSE hostToken(opener, f[I \ {Max(I)}], c[Max(I)])]
<1>1. \A f : IsScan(opener, NoRule, c, Len(c), f) <=> Is(f)
  BY Zenon DEF IsScan, Step, Openers
<1>2. \E f : IsScan(opener, NoRule, c, Len(c), f)
  <2>1. Len(c) \in Nat
    OBVIOUS
  <2> QED BY Zenon, <2>1, ScanExists
<1>3. Is(CHOOSE f : Is(f))
  BY Zenon, <1>1, <1>2
<1>4. Scan(opener, NoRule, c) = (CHOOSE f : Is(f))[1 .. Len(c)]
  BY Zenon, <1>1, <1>3, ScanIs
<1>5. DOMAIN c = 1 .. Len(c)
  OBVIOUS
<1> QED BY Zenon, <1>4, <1>5 DEF hostScan, hostPattern, NoRule, FoldLeft, MapThenFoldSet

LEMMA QuoteScan ==
  ASSUME NEW c \in Seq(Token)
  PROVE  backtickPattern(c) = quoteScan(c).found
<1> DEFINE Is(f) ==
             f = [I \in SUBSET (1 .. Len(c)) |-> IF I = {} THEN NoQuote ELSE quoteToken(f[I \ {Max(I)}], c[Max(I)])]
<1>1. \A f : IsScan("quote", NoQuote, c, Len(c), f) <=> Is(f)
  BY Zenon DEF IsScan, Step
<1>2. \E f : IsScan("quote", NoQuote, c, Len(c), f)
  <2>1. Len(c) \in Nat
    OBVIOUS
  <2> QED BY Zenon, <2>1, ScanExists
<1>3. Is(CHOOSE f : Is(f))
  BY Zenon, <1>1, <1>2
<1>4. Scan("quote", NoQuote, c) = (CHOOSE f : Is(f))[1 .. Len(c)]
  BY Zenon, <1>1, <1>3, ScanIs
<1>5. DOMAIN c = 1 .. Len(c)
  OBVIOUS
<1> QED BY Zenon, <1>4, <1>5 DEF quoteScan, backtickPattern, NoQuote, FoldLeft, MapThenFoldSet

LEMMA EnvScan ==
  ASSUME NEW c \in Seq(Token)
  PROVE  FoldLeft(envToken, <<>>, c) = envScan(c)
<1> DEFINE Is(f) ==
             f = [I \in SUBSET (1 .. Len(c)) |-> IF I = {} THEN <<>> ELSE envToken(f[I \ {Max(I)}], c[Max(I)])]
<1>1. \A f : IsScan("env", <<>>, c, Len(c), f) <=> Is(f)
  BY Zenon DEF IsScan, Step
<1>2. \E f : IsScan("env", <<>>, c, Len(c), f)
  <2>1. Len(c) \in Nat
    OBVIOUS
  <2> QED BY Zenon, <2>1, ScanExists
<1>3. Is(CHOOSE f : Is(f))
  BY Zenon, <1>1, <1>2
<1>4. Scan("env", <<>>, c) = (CHOOSE f : Is(f))[1 .. Len(c)]
  BY Zenon, <1>1, <1>3, ScanIs
<1>5. DOMAIN c = 1 .. Len(c)
  OBVIOUS
<1> QED BY Zenon, <1>4, <1>5 DEF envScan, FoldLeft, MapThenFoldSet

-----------------------------------------------------------------------------
(* What each scanner does with one more token, and the shape of its state. *)

LEMMA StripStep ==
  /\ stripScan(<<>>) = NoText
  /\ \A c \in Seq(Token) : \A t \in Token : stripScan(Append(c, t)) = stripToken(stripScan(c), t)
BY ZenonT(60), ScanEmpty, ScanAppend DEF stripScan, Step

LEMMA HostStep ==
  ASSUME NEW opener \in Openers
  PROVE  /\ hostScan(opener, <<>>) = NoRule
         /\ \A c \in Seq(Token) : \A t \in Token :
              hostScan(opener, Append(c, t)) = hostToken(opener, hostScan(opener, c), t)
<1>1. \A s, t : Step(opener, s, t) = hostToken(opener, s, t)
  BY Zenon DEF Step, Openers
<1>2. hostScan(opener, <<>>) = NoRule
  BY Zenon, ScanEmpty DEF hostScan
<1>3. ASSUME NEW c \in Seq(Token), NEW t \in Token
      PROVE  hostScan(opener, Append(c, t)) = hostToken(opener, hostScan(opener, c), t)
  <2>1. hostScan(opener, Append(c, t)) = Step(opener, hostScan(opener, c), t)
    BY Zenon, ScanAppend DEF hostScan
  <2> QED BY Zenon, <1>1, <2>1
<1> QED BY Zenon, <1>2, <1>3

LEMMA QuoteStep ==
  /\ quoteScan(<<>>) = NoQuote
  /\ \A c \in Seq(Token) : \A t \in Token : quoteScan(Append(c, t)) = quoteToken(quoteScan(c), t)
BY Zenon, ScanEmpty, ScanAppend DEF quoteScan, Step

LEMMA EnvStep ==
  /\ envScan(<<>>) = <<>>
  /\ \A c \in Seq(Token) : \A t \in Token : envScan(Append(c, t)) = envToken(envScan(c), t)
BY ZenonT(60), ScanEmpty, ScanAppend DEF envScan, Step

StripStates == [out : Seq(Token), inBacktick : BOOLEAN, cut : BOOLEAN]
RuleStates == [open : BOOLEAN, inner : Seq(Token), found : SUBSET Seq(Token)]
QuoteStates == [open : BOOLEAN, quoted : Seq(Token), found : SUBSET Seq(Token)]

LEMMA StripType == \A c \in Seq(Token) : stripScan(c) \in StripStates
<1> DEFINE P == {c \in Seq(Token) : stripScan(c) \in StripStates}
<1>1. <<>> \in P
  <2>1. <<>> \in Seq(Token)
    OBVIOUS
  <2>2. NoText \in StripStates
    BY <2>1 DEF NoText, StripStates
  <2> QED BY Zenon, <2>1, <2>2, StripStep
<1>2. ASSUME NEW c \in Seq(Token), NEW t \in Token, c \in P PROVE Append(c, t) \in P
  <2>1. stripScan(Append(c, t)) = stripToken(stripScan(c), t) /\ Append(c, t) \in Seq(Token)
    BY Zenon, StripStep, AppendProperties
  <2>2. ASSUME NEW s \in StripStates PROVE stripToken(s, t) \in StripStates
    <3>1. s.out \in Seq(Token) /\ Append(s.out, t) \in Seq(Token) /\ <<>> \in Seq(Token)
      BY DEF StripStates
    <3> QED BY Zenon, <3>1 DEF stripToken, StripStates
  <2> QED BY Zenon, <1>2, <2>1, <2>2
<1> HIDE DEF P
<1>3. \A c \in Seq(Token) : c \in P
  BY Zenon, <1>1, <1>2, SequenceInduction
<1> QED BY Zenon, <1>3 DEF P

LEMMA HostType ==
  ASSUME NEW opener \in Openers
  PROVE  \A c \in Seq(Token) : hostScan(opener, c) \in RuleStates
<1> DEFINE P == {c \in Seq(Token) : hostScan(opener, c) \in RuleStates}
<1>1. <<>> \in P
  <2>1. <<>> \in Seq(Token)
    OBVIOUS
  <2>2. NoRule \in RuleStates
    BY <2>1 DEF NoRule, RuleStates
  <2> QED BY Zenon, <2>1, <2>2, HostStep
<1>2. ASSUME NEW c \in Seq(Token), NEW t \in Token, c \in P PROVE Append(c, t) \in P
  <2>1. hostScan(opener, Append(c, t)) = hostToken(opener, hostScan(opener, c), t) /\ Append(c, t) \in Seq(Token)
    BY Zenon, HostStep, AppendProperties
  <2>2. ASSUME NEW s \in RuleStates PROVE hostToken(opener, s, t) \in RuleStates
    <3>1. s.inner \in Seq(Token) /\ Append(s.inner, t) \in Seq(Token) /\ <<>> \in Seq(Token)
      BY DEF RuleStates
    <3> QED BY Zenon, <3>1 DEF hostToken, RuleStates
  <2> QED BY Zenon, <1>2, <2>1, <2>2
<1> HIDE DEF P
<1>3. \A c \in Seq(Token) : c \in P
  BY Zenon, <1>1, <1>2, SequenceInduction
<1> QED BY Zenon, <1>3 DEF P

LEMMA QuoteType == \A c \in Seq(Token) : quoteScan(c) \in QuoteStates
<1> DEFINE P == {c \in Seq(Token) : quoteScan(c) \in QuoteStates}
<1>1. <<>> \in P
  <2>1. <<>> \in Seq(Token)
    OBVIOUS
  <2>2. NoQuote \in QuoteStates
    BY SMTT(30), <2>1 DEF NoQuote, QuoteStates
  <2> QED BY Zenon, <2>1, <2>2, QuoteStep
<1>2. ASSUME NEW c \in Seq(Token), NEW t \in Token, c \in P PROVE Append(c, t) \in P
  <2>1. quoteScan(Append(c, t)) = quoteToken(quoteScan(c), t) /\ Append(c, t) \in Seq(Token)
    BY Zenon, QuoteStep, AppendProperties
  <2>2. ASSUME NEW s \in QuoteStates PROVE quoteToken(s, t) \in QuoteStates
    <3>1. s.quoted \in Seq(Token) /\ Append(s.quoted, t) \in Seq(Token) /\ <<>> \in Seq(Token)
      BY DEF QuoteStates
    <3> QED BY Zenon, <3>1 DEF quoteToken, QuoteStates
  <2> QED BY Zenon, <1>2, <2>1, <2>2
<1> HIDE DEF P
<1>3. \A c \in Seq(Token) : c \in P
  BY Zenon, <1>1, <1>2, SequenceInduction
<1> QED BY Zenon, <1>3 DEF P

LEMMA EnvType == \A c \in Seq(Token) : envScan(c) \in Seq(Token)
<1> DEFINE P == {c \in Seq(Token) : envScan(c) \in Seq(Token)}
<1>1. <<>> \in P
  <2>1. <<>> \in Seq(Token)
    OBVIOUS
  <2> QED BY Zenon, <2>1, EnvStep
<1>2. ASSUME NEW c \in Seq(Token), NEW t \in Token, c \in P PROVE Append(c, t) \in P
  <2>1. envScan(Append(c, t)) = envToken(envScan(c), t) /\ Append(c, t) \in Seq(Token)
    BY Zenon, EnvStep, AppendProperties
  <2>2. t \in Vars => envVars[t] \in Seq(Token)
    BY Zenon, ParserAssumption DEF Token
  <2>3. \A s \in Seq(Token) : envToken(s, t) \in Seq(Token)
    BY SMTT(30), <2>2 DEF envToken
  <2> QED BY Zenon, <1>2, <2>1, <2>3
<1> HIDE DEF P
<1>3. \A c \in Seq(Token) : c \in P
  BY Zenon, <1>1, <1>2, SequenceInduction
<1> QED BY Zenon, <1>3 DEF P

-----------------------------------------------------------------------------
(* The hostnames of a text are texts, and a longer text has them too.      *)

Names == Seq(Token) \ {<<>>}

LEMMA ResolveType == \A q \in Seq(Token) : resolveEnvTemplate(q) \in Seq(Token)
<1> SUFFICES ASSUME NEW q \in Seq(Token) PROVE resolveEnvTemplate(q) \in Seq(Token)
  OBVIOUS
<1>1. FoldLeft(envToken, <<>>, q) \in Seq(Token) /\ <<>> \in Seq(Token)
  BY Zenon, EnvScan, EnvType, EmptySeq
<1> QED BY Zenon, <1>1 DEF resolveEnvTemplate

LEMMA ToLowerType == \A name \in Seq(Token) : ToLower(name) \in Seq(Token)
<1> SUFFICES ASSUME NEW name \in Seq(Token) PROVE ToLower(name) \in Seq(Token)
  OBVIOUS
<1>1. \A x \in Token : (IF x \in DOMAIN Lower THEN Lower[x] ELSE x) \in Token
  BY Zenon, ParserAssumption DEF Token
<1> QED BY <1>1 DEF ToLower

LEMMA ParseContentType == \A c \in Seq(Token) : ParseContent(c) \subseteq Names
<1> SUFFICES ASSUME NEW c \in Seq(Token), NEW h \in ParseContent(c) PROVE h \in Names
  BY Zenon
<1> DEFINE clean == stripComments(c)
<1>1. clean \in Seq(Token)
  BY StripScan, StripType DEF StripStates
<1> HIDE DEF clean
<1>2. \A o \in Openers : hostPattern(o, clean) \subseteq Seq(Token)
  BY <1>1, HostScan, HostType DEF RuleStates
<1>3. \A m \in Seq(Token) : backtickPattern(m) \subseteq Seq(Token)
  BY QuoteScan, QuoteType DEF QuoteStates
<1>4. PICK m \in hostPattern("Host(", clean) \cup hostPattern("HostSNI(", clean) :
        \E q \in backtickPattern(m) : h = ToLower(resolveEnvTemplate(q)) /\ h # <<>>
  BY Zenon DEF ParseContent, extractHostsFromMatches, clean
<1>5. m \in Seq(Token)
  BY Zenon, <1>2, <1>4 DEF Openers
<1>6. PICK q \in Seq(Token) : h = ToLower(resolveEnvTemplate(q)) /\ h # <<>>
  BY Zenon, <1>3, <1>4, <1>5
<1> QED BY Zenon, <1>6, ResolveType, ToLowerType DEF Names

(* What is found stays found.                                              *)
LEMMA HostGrows ==
  ASSUME NEW opener \in Openers, NEW c \in Seq(Token), NEW t \in Token
  PROVE  hostPattern(opener, c) \subseteq hostPattern(opener, Append(c, t))
<1>1. hostScan(opener, Append(c, t)) = hostToken(opener, hostScan(opener, c), t) /\ Append(c, t) \in Seq(Token)
  BY Zenon, HostStep, AppendProperties
<1>2. hostScan(opener, c) \in RuleStates
  BY Zenon, HostType
<1>3. \A s \in RuleStates : s.found \subseteq hostToken(opener, s, t).found
  BY DEF hostToken, RuleStates
<1> QED BY Zenon, <1>1, <1>2, <1>3, HostScan

LEMMA ParseGrowsByOne ==
  ASSUME NEW c \in Seq(Token), NEW t \in Token
  PROVE  ParseContent(c) \subseteq ParseContent(Append(c, t))
<1> DEFINE s == stripScan(c)
           before == stripComments(c)
           after == stripComments(Append(c, t))
<1>1. stripScan(Append(c, t)) = stripToken(s, t) /\ Append(c, t) \in Seq(Token)
  BY Zenon, StripStep, AppendProperties
<1>2. s \in StripStates
  BY Zenon, StripType
<1>3. before = s.out /\ after = stripToken(s, t).out
  BY Zenon, <1>1, StripScan
<1> HIDE DEF s
<1>4. before \in Seq(Token) /\ (after = before \/ after = Append(before, t))
  BY <1>2, <1>3 DEF stripToken, StripStates
<1> HIDE DEF before, after
<1>5. \A o \in Openers : hostPattern(o, before) \subseteq hostPattern(o, after)
  BY Zenon, <1>4, HostGrows
<1>6. hostPattern("Host(", before) \cup hostPattern("HostSNI(", before)
        \subseteq hostPattern("Host(", after) \cup hostPattern("HostSNI(", after)
  BY Zenon, <1>5 DEF Openers
<1> QED BY Zenon, <1>6 DEF ParseContent, extractHostsFromMatches, before, after

LEMMA ParseGrows ==
  ASSUME NEW c \in Seq(Token)
  PROVE  \A d \in Seq(Token) : ParseContent(c) \subseteq ParseContent(c \o d)
<1> DEFINE P == {d \in Seq(Token) : ParseContent(c) \subseteq ParseContent(c \o d)}
<1>1. <<>> \in P
  <2>1. c \o <<>> = c /\ <<>> \in Seq(Token)
    OBVIOUS
  <2> QED BY Zenon, <2>1
<1>2. ASSUME NEW d \in Seq(Token), NEW t \in Token, d \in P PROVE Append(d, t) \in P
  <2>1. c \o d \in Seq(Token) /\ Append(d, t) \in Seq(Token)
    OBVIOUS
  <2>2. c \o Append(d, t) = Append(c \o d, t)
    OBVIOUS
  <2>3. ParseContent(c \o d) \subseteq ParseContent(Append(c \o d, t))
    BY Zenon, <2>1, ParseGrowsByOne
  <2> QED BY Zenon, <1>2, <2>1, <2>2, <2>3
<1> HIDE DEF P
<1>3. \A d \in Seq(Token) : d \in P
  BY Zenon, <1>1, <1>2, SequenceInduction
<1> QED BY Zenon, <1>3 DEF P

-----------------------------------------------------------------------------
(* The tokens at a set of positions, and what a later position adds.       *)

Rank(S, i) == Cardinality({j \in S : j <= i})

(* Every rank is that of one position.                                     *)
Ranked(S) ==
  \A n \in 1 .. Cardinality(S) : \E i \in S : Rank(S, i) = n /\ \A h \in S : Rank(S, h) = n => h = i

(* A set of positions is finite.                                           *)
LEMMA Finite ==
  ASSUME NEW n \in Nat, NEW S \in SUBSET (1 .. n)
  PROVE  IsFiniteSet(S) /\ Cardinality(S) \in Nat /\ S \in SUBSET Nat /\ (Cardinality(S) = 0 <=> S = {})
<1>1. S \in SUBSET Nat /\ \A s \in S : s <= n
  OBVIOUS
<1>2. IsFiniteSet(S)
  BY Zenon, <1>1, FS_BoundedSetOfNaturals
<1> QED BY Zenon, <1>1, <1>2, FS_CardinalityType, FS_EmptySet

(* A later position ranks last and leaves the other ranks alone.           *)
LEMMA RankAdd ==
  ASSUME NEW S \in SUBSET Nat, IsFiniteSet(S), NEW k \in Nat, \A j \in S : j < k
  PROVE  /\ Cardinality(S \cup {k}) = Cardinality(S) + 1
         /\ Rank(S \cup {k}, k) = Cardinality(S) + 1
         /\ \A i \in S : Rank(S \cup {k}, i) = Rank(S, i) /\ Rank(S, i) \in 0 .. Cardinality(S)
<1>1. k \notin S /\ {j \in S \cup {k} : j <= k} = S \cup {k}
  <2>1. \A j \in S \cup {k} : j <= k
    OBVIOUS
  <2>2. k \notin S
    OBVIOUS
  <2> QED BY Zenon, <2>1, <2>2
<1>2. Cardinality(S \cup {k}) = Cardinality(S) + 1
  BY Zenon, <1>1, FS_AddElement
<1>3. ASSUME NEW i \in S PROVE Rank(S \cup {k}, i) = Rank(S, i) /\ Rank(S, i) \in 0 .. Cardinality(S)
  <2> DEFINE U == {j \in S : j <= i}
  <2>1. {j \in S \cup {k} : j <= i} = U /\ U \in SUBSET S
    OBVIOUS
  <2>2. IsFiniteSet(U) /\ Cardinality(U) <= Cardinality(S) /\ Cardinality(U) \in Nat /\ Cardinality(S) \in Nat
    BY Zenon, <2>1, FS_Subset, FS_CardinalityType
  <2> HIDE DEF U
  <2>3. Cardinality(U) \in 0 .. Cardinality(S)
    BY <2>2
  <2> QED BY Zenon, <2>1, <2>3 DEF Rank, U
<1> QED BY Zenon, <1>1, <1>2, <1>3 DEF Rank

LEMMA RankedAdd ==
  ASSUME NEW S \in SUBSET Nat, IsFiniteSet(S), Ranked(S), NEW k \in Nat, \A j \in S : j < k
  PROVE  Ranked(S \cup {k})
<1> DEFINE c == Cardinality(S)
           U == S \cup {k}
<1>1. c \in Nat
  BY Zenon, FS_CardinalityType
<1>2. Cardinality(U) = c + 1 /\ Rank(U, k) = c + 1
      /\ \A i \in S : Rank(U, i) = Rank(S, i) /\ Rank(S, i) \in 0 .. c
  BY Zenon, RankAdd
<1>3. \A n \in 1 .. c : \E i \in S : Rank(S, i) = n /\ \A h \in S : Rank(S, h) = n => h = i
  BY Zenon DEF Ranked
<1>4. \A i \in U : i \in S \/ i = k
  OBVIOUS
<1>5. S \subseteq U /\ k \in U
  OBVIOUS
<1> HIDE DEF c, U
<1> SUFFICES ASSUME NEW n \in 1 .. (c + 1)
             PROVE  \E i \in U : Rank(U, i) = n /\ \A h \in U : Rank(U, h) = n => h = i
  BY Zenon, <1>2 DEF Ranked, U
<1>6. CASE n = c + 1
  <2>1. \A h \in S : Rank(U, h) # n
    BY <1>1, <1>2, <1>6
  <2> QED BY Zenon, <1>2, <1>4, <1>5, <1>6, <2>1
<1>7. CASE n # c + 1
  <2>1. n \in 1 .. c /\ Rank(U, k) # n
    BY SMTT(30), <1>1, <1>2, <1>7
  <2> QED BY Zenon, <1>2, <1>3, <1>4, <1>5, <2>1
<1> QED BY Zenon, <1>6, <1>7

(* In a set of positions every rank is taken, by one position.             *)
LEMMA AllRanked ==
  ASSUME NEW n \in Nat, NEW S \in SUBSET (1 .. n)
  PROVE  Ranked(S)
<1> DEFINE T == {m \in Nat : \A U \in SUBSET (1 .. m) : Ranked(U)}
<1>1. 0 \in T
  <2>1. \A U \in SUBSET (1 .. 0) : U = {}
    OBVIOUS
  <2>2. \A m \in 1 .. 0 : FALSE
    OBVIOUS
  <2>3. Ranked({})
    BY Zenon, <2>2, FS_EmptySet DEF Ranked
  <2> QED BY Zenon, <2>1, <2>3
<1>2. ASSUME NEW m \in Nat, m \in T PROVE m + 1 \in T
  <2> SUFFICES ASSUME NEW U \in SUBSET (1 .. (m + 1)) PROVE Ranked(U)
    OBVIOUS
  <2> DEFINE V == U \ {m + 1}
  <2>1. V \in SUBSET (1 .. m) /\ (\A j \in V : j < m + 1) /\ m + 1 \in Nat
    OBVIOUS
  <2>2. U = V \/ U = V \cup {m + 1}
    OBVIOUS
  <2> HIDE DEF V
  <2>3. Ranked(V) /\ IsFiniteSet(V) /\ V \in SUBSET Nat
    BY Zenon, <1>2, <2>1, Finite
  <2> QED BY Zenon, <2>1, <2>2, <2>3, RankedAdd
<1> HIDE DEF T
<1>3. \A m \in Nat : m \in T
  BY Zenon, <1>1, <1>2, Induction
<1> QED BY Zenon, <1>3 DEF T

(* Tokens lists a set's tokens by their rank, ...                          *)
LEMMA TokensAt ==
  ASSUME NEW t \in Seq(Token), NEW S \in SUBSET (1 .. Len(t))
  PROVE  /\ Tokens(t, S) \in Seq(Token)
         /\ Len(Tokens(t, S)) = Cardinality(S)
         /\ \A n \in 1 .. Cardinality(S) : \A i \in S : Rank(S, i) = n => Tokens(t, S)[n] = t[i]
<1> DEFINE at(n) == CHOOSE i \in S : Rank(S, i) = n
           c == Cardinality(S)
<1>1. c \in Nat /\ Len(t) \in Nat /\ t \in [1 .. Len(t) -> Token]
  BY Zenon, Finite, LenProperties
<1>2. Ranked(S)
  BY Zenon, <1>1, AllRanked
<1>3. ASSUME NEW n \in 1 .. c PROVE at(n) \in S /\ t[at(n)] \in Token /\ \A i \in S : Rank(S, i) = n => at(n) = i
  BY Zenon, <1>1, <1>2 DEF Ranked
<1>4. Tokens(t, S) = [n \in 1 .. c |-> t[at(n)]]
  BY Zenon DEF Tokens, Rank
<1> HIDE DEF at, c
<1>5. [n \in 1 .. c |-> t[at(n)]] \in Seq(Token) /\ Len([n \in 1 .. c |-> t[at(n)]]) = c
  BY <1>1, <1>3
<1> QED BY Zenon, <1>3, <1>4, <1>5 DEF c

(* ... is empty for the empty set only, ...                                *)
LEMMA TokensEmpty ==
  ASSUME NEW t \in Seq(Token), NEW S \in SUBSET (1 .. Len(t))
  PROVE  Tokens(t, S) = <<>> <=> S = {}
<1>1. Tokens(t, S) \in Seq(Token) /\ Len(Tokens(t, S)) = Cardinality(S)
  BY Zenon, TokensAt
<1>2. Len(t) \in Nat
  OBVIOUS
<1>3. Cardinality(S) = 0 <=> S = {}
  BY Zenon, <1>2, Finite
<1> QED BY <1>1, <1>3

(* ... and one more, later position adds its token at the end.             *)
LEMMA TokensAdd ==
  ASSUME NEW t \in Seq(Token), NEW k \in 1 .. Len(t), NEW S \in SUBSET (1 .. (k - 1))
  PROVE  Tokens(t, S \cup {k}) = Append(Tokens(t, S), t[k])
<1> DEFINE U == S \cup {k}
           c == Cardinality(S)
           before == Tokens(t, S)
           after == Tokens(t, U)
<1>1. S \in SUBSET (1 .. Len(t)) /\ U \in SUBSET (1 .. Len(t)) /\ (\A j \in S : j < k) /\ k \in Nat
      /\ Len(t) \in Nat /\ S \subseteq U /\ k \in U
  OBVIOUS
<1>2. IsFiniteSet(S) /\ S \in SUBSET Nat /\ c \in Nat
  BY Zenon, <1>1, Finite
<1>3. Cardinality(U) = c + 1 /\ Rank(U, k) = c + 1 
      /\ \A i \in S : Rank(U, i) = Rank(S, i) /\ Rank(S, i) \in 0 .. c
  BY Zenon, <1>1, <1>2, RankAdd
<1>4. before \in Seq(Token) /\ Len(before) = c
      /\ \A n \in 1 .. c : \A i \in S : Rank(S, i) = n => before[n] = t[i]
  BY Zenon, <1>1, TokensAt
<1>5. after \in Seq(Token) /\ Len(after) = c + 1
      /\ \A n \in 1 .. (c + 1) : \A i \in U : Rank(U, i) = n => after[n] = t[i]
  <2>1. after \in Seq(Token) /\ Len(after) = Cardinality(U)
        /\ \A n \in 1 .. Cardinality(U) : \A i \in U : Rank(U, i) = n => after[n] = t[i]
    BY Zenon, <1>1, TokensAt
  <2> QED BY Zenon, <1>3, <2>1
<1>6. Ranked(S)
  BY Zenon, <1>1, AllRanked
<1>7. t[k] \in Token
  OBVIOUS
<1>8. ASSUME NEW n \in 1 .. c PROVE after[n] = before[n]
  <2>1. PICK i \in S : Rank(S, i) = n
    BY Zenon, <1>6 DEF Ranked
  <2>2. n \in 1 .. (c + 1)
    BY <1>2
  <2> QED BY Zenon, <1>1, <1>3, <1>4, <1>5, <2>1, <2>2
<1>9. after[c + 1] = t[k]
  <2>1. c + 1 \in 1 .. (c + 1)
    BY <1>2
  <2> QED BY Zenon, <1>1, <1>3, <1>5, <2>1
<1> HIDE DEF U, c, before, after
<1>10. after = Append(before, t[k])
  BY SMTT(30), <1>2, <1>4, <1>5, <1>7, <1>8, <1>9
<1> QED BY Zenon, <1>10 DEF before, after, U

-----------------------------------------------------------------------------
(* What stripComments keeps.                                               *)

Even(S) == Cardinality(S) % 2 = 0

(* The backticks before position i on its line, and the "#"s that start a  *)
(* comment there.                                                          *)
TicksBefore(t, i) == {j \in LineUpTo(t, i) : j < i /\ t[j] = "tick"}
HashesBefore(t, i) == {j \in LineUpTo(t, i) : j < i /\ t[j] = "#" /\ Even(TicksBefore(t, j))}

LEMMA EvenEmpty == Even({})
<1>1. 0 % 2 = 0
  OBVIOUS
<1> QED BY Zenon, <1>1, FS_EmptySet DEF Even

(* One more element changes the parity.                                    *)
LEMMA EvenAdd ==
  ASSUME NEW S, IsFiniteSet(S), NEW x, x \notin S
  PROVE  Even(S \cup {x}) <=> ~Even(S)
<1>1. Cardinality(S \cup {x}) = Cardinality(S) + 1 /\ Cardinality(S) \in Nat
  BY Zenon, FS_AddElement, FS_CardinalityType
<1>2. \A n \in Nat : (n + 1) % 2 = 0 <=> ~(n % 2 = 0)
  OBVIOUS
<1> QED BY Zenon, <1>1, <1>2 DEF Even

(* A line grows by one position until its newline.                         *)
LEMMA LineNext ==
  ASSUME NEW t, NEW k \in Nat \ {0}
  PROVE  /\ \A j : j \in LineUpTo(t, k + 1) /\ j < k + 1 <=> t[k] # "newline" /\ j \in LineUpTo(t, k)
         /\ \A j : j \in LineUpTo(t, k) <=> j = k \/ (j \in LineUpTo(t, k) /\ j < k)
<1>1. \A j : j \in LineUpTo(t, k + 1) /\ j < k + 1 <=> j \in 1 .. k /\ \A h \in j .. k : t[h] # "newline"
  BY DEF LineUpTo
<1>2. \A j : j \in LineUpTo(t, k) <=> j \in 1 .. k /\ \A h \in j .. (k - 1) : t[h] # "newline"
  BY Zenon DEF LineUpTo
<1>3. \A j \in 1 .. k : (\A h \in j .. k : t[h] # "newline") <=> (t[k] # "newline" /\ \A h \in j .. (k - 1) : t[h] # "newline")
  <2> SUFFICES ASSUME NEW j \in 1 .. k
               PROVE  (\A h \in j .. k : t[h] # "newline") <=> (t[k] # "newline" /\ \A h \in j .. (k - 1) : t[h] # "newline")
    OBVIOUS
  <2>1. j .. k = (j .. (k - 1)) \cup {k}
    OBVIOUS
  <2> QED BY Zenon, <2>1
<1>4. k \in LineUpTo(t, k) /\ \A j \in LineUpTo(t, k) : j < k \/ j = k
  BY DEF LineUpTo
<1> QED BY Zenon, <1>1, <1>2, <1>3, <1>4

LEMMA TicksNext ==
  ASSUME NEW t, NEW k \in Nat \ {0}
  PROVE  /\ t[k] = "newline" => TicksBefore(t, k + 1) = {}
         /\ t[k] = "tick" => TicksBefore(t, k + 1) = TicksBefore(t, k) \cup {k}
         /\ t[k] \notin {"newline", "tick"} => TicksBefore(t, k + 1) = TicksBefore(t, k)
         /\ k \notin TicksBefore(t, k) /\ IsFiniteSet(TicksBefore(t, k))
<1>1. "tick" # "newline"
  OBVIOUS
<1>2. TicksBefore(t, k) \subseteq 1 .. k /\ k \notin TicksBefore(t, k)
  BY DEF TicksBefore, LineUpTo
<1>3. IsFiniteSet(TicksBefore(t, k))
  BY Zenon, <1>2, Finite
<1>4. \A j : j \in LineUpTo(t, k + 1) /\ j < k + 1 <=> t[k] # "newline" /\ j \in LineUpTo(t, k)
  BY Zenon, LineNext
<1>5. \A j : j \in LineUpTo(t, k) <=> j = k \/ (j \in LineUpTo(t, k) /\ j < k)
  BY Zenon, LineNext
<1>6. \A j : j \in TicksBefore(t, k + 1) <=> t[k] # "newline" /\ ((j = k /\ t[k] = "tick") \/ j \in TicksBefore(t, k))
  BY Zenon, <1>4, <1>5 DEF TicksBefore
<1> QED BY Zenon, <1>1, <1>2, <1>3, <1>6

LEMMA HashesNext ==
  ASSUME NEW t, NEW k \in Nat \ {0}
  PROVE  /\ t[k] = "newline" => HashesBefore(t, k + 1) = {}
         /\ t[k] = "#" /\ Even(TicksBefore(t, k)) => HashesBefore(t, k + 1) = HashesBefore(t, k) \cup {k}
         /\ t[k] # "newline" /\ ~(t[k] = "#" /\ Even(TicksBefore(t, k))) => HashesBefore(t, k + 1) = HashesBefore(t, k)
<1>1. "#" # "newline"
  OBVIOUS
<1>2. \A j : j \in LineUpTo(t, k + 1) /\ j < k + 1 <=> t[k] # "newline" /\ j \in LineUpTo(t, k)
  BY Zenon, LineNext
<1>3. \A j : j \in LineUpTo(t, k) <=> j = k \/ (j \in LineUpTo(t, k) /\ j < k)
  BY Zenon, LineNext
<1>4. \A j : j \in HashesBefore(t, k + 1) <=>
             t[k] # "newline" /\ ((j = k /\ t[k] = "#" /\ Even(TicksBefore(t, k))) \/ j \in HashesBefore(t, k))
  BY Zenon, <1>2, <1>3 DEF HashesBefore
<1> QED BY Zenon, <1>1, <1>4

(* Position i is in a comment if one began before it on its line, or at it.*)
LEMMA CommentedIs ==
  ASSUME NEW t \in Seq(Token), NEW i \in 1 .. Len(t)
  PROVE  Commented(t, i) <=> t[i] # "newline" /\ (HashesBefore(t, i) # {} \/ (t[i] = "#" /\ Even(TicksBefore(t, i))))
<1>1. ASSUME NEW j \in 1 .. Len(t), t[j] = "#"
      PROVE  {k \in LineUpTo(t, j) : t[k] = "tick"} = TicksBefore(t, j)
  <2>1. \A k \in LineUpTo(t, j) : t[k] = "tick" => k < j
    BY <1>1 DEF LineUpTo
  <2> QED BY Zenon, <2>1 DEF TicksBefore
<1>2. i \in Nat \ {0} /\ LineUpTo(t, i) \subseteq 1 .. Len(t)
  BY DEF LineUpTo
<1>3. Commented(t, i) <=> t[i] # "newline" /\ \E j \in LineUpTo(t, i) : t[j] = "#" /\ Even(TicksBefore(t, j))
  BY Zenon, <1>1, <1>2 DEF Commented, Even
<1>4. \A j : j \in LineUpTo(t, i) <=> j = i \/ (j \in LineUpTo(t, i) /\ j < i)
  BY Zenon, <1>2, LineNext
<1> QED BY Zenon, <1>3, <1>4 DEF HashesBefore

StripInv(t, k) ==
  LET s == stripScan(SubSeq(t, 1, k))
  IN  /\ s.out = Tokens(t, Live(t) \cap (1 .. k))
      /\ s.cut <=> HashesBefore(t, k + 1) # {}
      /\ ~s.cut => (s.inBacktick <=> ~Even(TicksBefore(t, k + 1)))

(* A live position adds its token to the stripped text, another nothing.   *)
LEMMA LiveAdd ==
  ASSUME NEW t \in Seq(Token), NEW k \in Nat, k + 1 <= Len(t)
  PROVE  /\ k + 1 \in Live(t) <=> ~Commented(t, k + 1)
         /\ k + 1 \in Live(t) => Tokens(t, Live(t) \cap (1 .. (k + 1))) = Append(Tokens(t, Live(t) \cap (1 .. k)), t[k + 1])
         /\ k + 1 \notin Live(t) => Live(t) \cap (1 .. (k + 1)) = Live(t) \cap (1 .. k)
<1>1. k + 1 \in 1 .. Len(t) /\ (k + 1) - 1 = k /\ 1 .. (k + 1) = (1 .. k) \cup {k + 1} /\ DOMAIN t = 1 .. Len(t)
  OBVIOUS
<1>2. k + 1 \in Live(t) <=> ~Commented(t, k + 1)
  BY Zenon, <1>1 DEF Live
<1>3. ASSUME k + 1 \in Live(t)
      PROVE  Tokens(t, Live(t) \cap (1 .. (k + 1))) = Append(Tokens(t, Live(t) \cap (1 .. k)), t[k + 1])
  <2> DEFINE S == Live(t) \cap (1 .. k)
  <2>1. Live(t) \cap (1 .. (k + 1)) = S \cup {k + 1}
    BY Zenon, <1>1, <1>3
  <2>2. S \in SUBSET (1 .. ((k + 1) - 1))
    BY Zenon, <1>1
  <2> HIDE DEF S
  <2>3. Tokens(t, S \cup {k + 1}) = Append(Tokens(t, S), t[k + 1])
    BY Zenon, <1>1, <2>2, TokensAdd
  <2> QED BY Zenon, <2>1, <2>3 DEF S
<1> QED BY Zenon, <1>1, <1>2, <1>3

(* stripComments keeps the tokens at the live positions.                   *)
LEMMA StripIs ==
  ASSUME NEW t \in Seq(Token)
  PROVE  \A k \in Nat : k <= Len(t) => StripInv(t, k)
<1> DEFINE T == {k \in Nat : k <= Len(t) => StripInv(t, k)}
<1>1. 0 \in T
  <2>1. SubSeq(t, 1, 0) = <<>> /\ 1 .. 0 = {} /\ 0 + 1 = 1
    OBVIOUS
  <2>2. TicksBefore(t, 1) = {} /\ HashesBefore(t, 1) = {}
    BY DEF TicksBefore, HashesBefore, LineUpTo
  <2>3. Tokens(t, {}) = <<>>
    BY Zenon, TokensEmpty
  <2>4. NoText.out = <<>> /\ NoText.inBacktick = FALSE /\ NoText.cut = FALSE
    BY DEF NoText
  <2>5. Live(t) \cap {} = {}
    OBVIOUS
  <2> QED BY Zenon, <2>1, <2>2, <2>3, <2>4, <2>5, StripStep, EvenEmpty DEF StripInv
<1>2. ASSUME NEW k \in Nat, k \in T PROVE k + 1 \in T
  <2> SUFFICES ASSUME k + 1 <= Len(t) PROVE StripInv(t, k + 1)
    OBVIOUS
  <2> DEFINE s == stripScan(SubSeq(t, 1, k))
             x == t[k + 1]
             next == stripToken(s, x)
             out == Tokens(t, Live(t) \cap (1 .. k))
             ticks == TicksBefore(t, k + 1)
             hashes == HashesBefore(t, k + 1)
  <2>1. SubSeq(t, 1, k) \in Seq(Token) /\ x \in Token /\ k <= Len(t) /\ k + 1 \in Nat \ {0} /\ k + 1 \in 1 .. Len(t)
    OBVIOUS
  <2>2. SubSeq(t, 1, k + 1) = Append(SubSeq(t, 1, k), x)
    OBVIOUS
  <2>3. stripScan(SubSeq(t, 1, k + 1)) = next /\ s \in StripStates
    BY Zenon, <2>1, <2>2, StripStep, StripType
  <2>4. s.out = out /\ (s.cut <=> hashes # {}) /\ (~s.cut => (s.inBacktick <=> ~Even(ticks)))
    BY Zenon, <1>2, <2>1 DEF StripInv
  <2>5. k + 1 \in Live(t) <=> ~(x # "newline" /\ (hashes # {} \/ (x = "#" /\ Even(ticks))))
    BY Zenon, <2>1, CommentedIs, LiveAdd
  <2>6. /\ k + 1 \in Live(t) => Tokens(t, Live(t) \cap (1 .. (k + 1))) = Append(out, x)
        /\ k + 1 \notin Live(t) => Tokens(t, Live(t) \cap (1 .. (k + 1))) = out
    BY Zenon, LiveAdd
  <2> SUFFICES /\ next.out = Tokens(t, Live(t) \cap (1 .. (k + 1)))
               /\ next.cut <=> HashesBefore(t, (k + 1) + 1) # {}
               /\ ~next.cut => (next.inBacktick <=> ~Even(TicksBefore(t, (k + 1) + 1)))
    BY Zenon, <2>3 DEF StripInv
  <2> HIDE DEF s, out, ticks, hashes
  <2>7. CASE x = "newline"
    <3>1. next.out = Append(s.out, x) /\ ~next.cut /\ ~next.inBacktick
      BY SMTT(30), <2>3, <2>7 DEF stripToken, StripStates
    <3>2. TicksBefore(t, (k + 1) + 1) = {} /\ HashesBefore(t, (k + 1) + 1) = {}
      BY Zenon, <2>1, <2>7, TicksNext, HashesNext
    <3> HIDE DEF next, x
    <3> QED BY Zenon, <2>4, <2>5, <2>6, <2>7, <3>1, <3>2, EvenEmpty
  <2>8. CASE x # "newline" /\ s.cut
    <3>1. next = s
      BY Zenon, <2>8 DEF stripToken
    <3>2. HashesBefore(t, (k + 1) + 1) # {}
      BY Zenon, <2>1, <2>4, <2>8, HashesNext DEF hashes
    <3> HIDE DEF next, x
    <3> QED BY Zenon, <2>4, <2>5, <2>6, <2>8, <3>1, <3>2
  <2>9. CASE x = "tick" /\ ~s.cut
    <3>1. "tick" # "newline" /\ "tick" # "#"
      OBVIOUS
    <3>2. next.out = Append(s.out, x) /\ next.cut = s.cut /\ next.inBacktick = ~s.inBacktick
      BY Zenon, <2>3, <2>9, <3>1 DEF stripToken, StripStates
    <3>3. TicksBefore(t, (k + 1) + 1) = ticks \cup {k + 1} /\ k + 1 \notin ticks /\ IsFiniteSet(ticks)
      BY Zenon, <2>1, <2>9, TicksNext DEF ticks
    <3>4. HashesBefore(t, (k + 1) + 1) = hashes
      BY Zenon, <2>1, <2>9, <3>1, HashesNext DEF hashes
    <3>5. Even(ticks \cup {k + 1}) <=> ~Even(ticks)
      BY Zenon, <3>3, EvenAdd
    <3> HIDE DEF next, x
    <3> QED BY Zenon, <2>4, <2>5, <2>6, <2>9, <3>1, <3>2, <3>3, <3>4, <3>5
  <2>10. CASE x = "#" /\ ~s.cut /\ ~s.inBacktick
    <3>1. "#" # "newline" /\ "#" # "tick"
      OBVIOUS
    <3>2. next.out = s.out /\ next.cut
      BY Zenon, <2>3, <2>10, <3>1 DEF stripToken, StripStates
    <3>3. HashesBefore(t, (k + 1) + 1) = hashes \cup {k + 1}
      BY Zenon, <2>1, <2>4, <2>10, HashesNext DEF hashes, ticks
    <3> HIDE DEF next, x
    <3> QED BY Zenon, <2>4, <2>5, <2>6, <2>10, <3>1, <3>2, <3>3
  <2>11. CASE x \notin {"newline", "tick"} /\ ~s.cut /\ ~(x = "#" /\ ~s.inBacktick)
    <3>1. next.out = Append(s.out, x) /\ next.cut = s.cut /\ next.inBacktick = s.inBacktick
      BY Zenon, <2>3, <2>11 DEF stripToken, StripStates
    <3>2. TicksBefore(t, (k + 1) + 1) = ticks
      BY Zenon, <2>1, <2>11, TicksNext DEF ticks
    <3>3. HashesBefore(t, (k + 1) + 1) = hashes
      BY Zenon, <2>1, <2>4, <2>11, HashesNext DEF hashes, ticks
    <3> HIDE DEF next, x
    <3> QED BY Zenon, <2>4, <2>5, <2>6, <2>11, <3>1, <3>2, <3>3
  <2> QED BY Zenon, <2>7, <2>8, <2>9, <2>10, <2>11
<1> HIDE DEF T
<1>3. \A k \in Nat : k \in T
  BY Zenon, <1>1, <1>2, Induction
<1> QED BY Zenon, <1>3 DEF T

-----------------------------------------------------------------------------
(* What the Host patterns find.                                            *)

(* Every rule opened before position o is closed before it.                *)
FirstOpen(t, opener, o) == \A i \in At(t, 1 .. (o - 1), opener) : At(t, Between(i, o), ")") # {}

(* The opener at which a rule is open after position k.                    *)
OpenAt(t, opener, k) ==
  {o \in At(t, 1 .. k, opener) :
     /\ At(t, (o + 1) .. k, ")") = {}
     /\ FirstOpen(t, opener, o)}

AllClosed(t, opener, k) == \A i \in At(t, 1 .. k, opener) : At(t, (i + 1) .. k, ")") # {}

RulesTo(t, opener, k) == {r \in Rules(t, opener) : r[2] <= k}

Text(t, r) == Tokens(t, Live(t) \cap Between(r[1], r[2]))

(* What makes a pair of positions a rule.                                  *)
LEMMA RuleIs ==
  ASSUME NEW t \in Seq(Token), NEW opener, NEW r \in Rules(t, opener)
  PROVE  /\ r = <<r[1], r[2]>> /\ r[1] \in At(t, 1 .. Len(t), opener) /\ r[2] \in At(t, 1 .. Len(t), ")")
         /\ r[1] \in Nat /\ r[2] \in Nat /\ r[1] < r[2] /\ At(t, Between(r[1], r[2]), ")") = {}
         /\ FirstOpen(t, opener, r[1])
<1>1. DOMAIN t = 1 .. Len(t)
  OBVIOUS
<1>2. \A tok : At(t, 1 .. Len(t), tok) \subseteq Nat
  BY DEF At
<1> QED BY <1>1, <1>2 DEF Rules, FirstOpen

LEMMA IsRule ==
  ASSUME NEW t \in Seq(Token), NEW opener,
         NEW o \in At(t, 1 .. Len(t), opener), NEW c \in At(t, 1 .. Len(t), ")"),
         o < c, At(t, Between(o, c), ")") = {},
         FirstOpen(t, opener, o)
  PROVE  <<o, c>> \in Rules(t, opener)
<1>1. DOMAIN t = 1 .. Len(t)
  OBVIOUS
<1> QED BY <1>1 DEF Rules, FirstOpen

(* A closer that closes nothing, and any other token, ends no rule; ...    *)
LEMMA RulesSame ==
  ASSUME NEW t \in Seq(Token), NEW opener, NEW k \in Nat,
         (k + 1 \in Live(t) /\ t[k + 1] = ")") => AllClosed(t, opener, k)
  PROVE  RulesTo(t, opener, k + 1) = RulesTo(t, opener, k)
<1> SUFFICES ASSUME NEW r \in Rules(t, opener), r[2] = k + 1 PROVE FALSE
  <2>1. ASSUME NEW r \in Rules(t, opener) PROVE r[2] <= k + 1 <=> r[2] <= k \/ r[2] = k + 1
    <3>1. r[2] \in Nat
      BY Zenon, RuleIs
    <3> QED BY <3>1
  <2> QED BY Zenon, <2>1 DEF RulesTo
<1>1. /\ r[1] \in At(t, 1 .. Len(t), opener) /\ r[2] \in At(t, 1 .. Len(t), ")")
      /\ r[1] \in Nat /\ r[1] < r[2] /\ At(t, Between(r[1], r[2]), ")") = {}
  BY Zenon, RuleIs
<1>2. k + 1 \in Live(t) /\ t[k + 1] = ")"
  BY Zenon, <1>1 DEF At
<1>3. r[1] \in At(t, 1 .. k, opener)
  BY <1>1 DEF At
<1>4. Between(r[1], r[2]) = (r[1] + 1) .. k
  BY DEF Between
<1> QED BY Zenon, <1>1, <1>2, <1>3, <1>4 DEF AllClosed

(* ... a closer ends the rule that is open, and only that.                 *)
LEMMA RulesAdd ==
  ASSUME NEW t \in Seq(Token), NEW opener, NEW k \in Nat, k + 1 \in Live(t), t[k + 1] = ")",
         NEW o \in OpenAt(t, opener, k)
  PROVE  RulesTo(t, opener, k + 1) = RulesTo(t, opener, k) \cup {<<o, k + 1>>}
<1>1. /\ o \in At(t, 1 .. k, opener) /\ At(t, (o + 1) .. k, ")") = {}
      /\ FirstOpen(t, opener, o)
  BY Zenon DEF OpenAt
<1>2. k + 1 \in 1 .. Len(t) /\ Len(t) \in Nat
  BY DEF Live
<1>3. o \in 1 .. k /\ o \in At(t, 1 .. Len(t), opener) /\ k + 1 \in At(t, 1 .. Len(t), ")") /\ o < k + 1
  BY <1>1, <1>2 DEF At
<1>4. Between(o, k + 1) = (o + 1) .. k
  BY <1>3 DEF Between
<1>5. <<o, k + 1>> \in Rules(t, opener)
  BY Zenon, <1>1, <1>3, <1>4, IsRule
<1>6. ASSUME NEW r \in Rules(t, opener), r[2] = k + 1 PROVE r = <<o, k + 1>>
  <2>1. /\ r = <<r[1], r[2]>> /\ r[1] \in At(t, 1 .. Len(t), opener)
        /\ r[1] \in Nat /\ r[1] < r[2] /\ At(t, Between(r[1], r[2]), ")") = {} /\ FirstOpen(t, opener, r[1])
    BY Zenon, RuleIs
  <2>2. CASE r[1] < o
    <3>1. r[1] \in At(t, 1 .. (o - 1), opener)
      BY SMTT(30), <1>3, <2>1, <2>2 DEF At
    <3>2. Between(r[1], o) \subseteq Between(r[1], r[2])
      BY SMTT(30), <1>3, <1>6, <2>1 DEF Between
    <3> QED BY Zenon, <1>1, <2>1, <3>1, <3>2 DEF At, FirstOpen
  <2>3. CASE o < r[1]
    <3>1. o \in At(t, 1 .. (r[1] - 1), opener)
      BY <1>3, <2>1, <2>3 DEF At
    <3>2. Between(o, r[1]) \subseteq (o + 1) .. k
      BY <1>3, <1>6, <2>1 DEF Between
    <3> QED BY Zenon, <1>1, <2>1, <3>1, <3>2 DEF At, FirstOpen
  <2>4. r[1] = o \/ r[1] < o \/ o < r[1]
    BY <1>3, <2>1
  <2> QED BY Zenon, <1>6, <2>1, <2>2, <2>3, <2>4
<1>7. ASSUME NEW r \in Rules(t, opener) PROVE r[2] <= k + 1 <=> r[2] <= k \/ r[2] = k + 1
  <2>1. r[2] \in Nat
    BY Zenon, RuleIs
  <2> QED BY <2>1
<1>8. <<o, k + 1>>[2] = k + 1
  OBVIOUS
<1> QED BY Zenon, <1>5, <1>6, <1>7, <1>8 DEF RulesTo

(* A live position adds its token to the text after an earlier one.        *)
LEMMA TextAdd ==
  ASSUME NEW t \in Seq(Token), NEW k \in Nat, NEW o \in 1 .. k, k + 1 \in Live(t)
  PROVE  Tokens(t, Live(t) \cap ((o + 1) .. (k + 1))) = Append(Tokens(t, Live(t) \cap ((o + 1) .. k)), t[k + 1])
<1> DEFINE S == Live(t) \cap ((o + 1) .. k)
<1>1. k + 1 \in 1 .. Len(t)
  BY DEF Live
<1>2. (o + 1) .. (k + 1) = ((o + 1) .. k) \cup {k + 1} /\ (o + 1) .. k \subseteq 1 .. ((k + 1) - 1)
  OBVIOUS
<1>3. Live(t) \cap ((o + 1) .. (k + 1)) = S \cup {k + 1} /\ S \in SUBSET (1 .. ((k + 1) - 1))
  BY Zenon, <1>2
<1> HIDE DEF S
<1>4. Tokens(t, S \cup {k + 1}) = Append(Tokens(t, S), t[k + 1])
  BY Zenon, <1>1, <1>3, TokensAdd
<1> QED BY Zenon, <1>3, <1>4 DEF S

HostInv(t, opener, k) ==
  LET s == hostScan(opener, Tokens(t, Live(t) \cap (1 .. k)))
  IN  /\ s.open => \E o \in OpenAt(t, opener, k) : s.inner = Tokens(t, Live(t) \cap ((o + 1) .. k))
      /\ ~s.open => s.inner = <<>> /\ AllClosed(t, opener, k)
      /\ s.found = {Text(t, r) : r \in RulesTo(t, opener, k)} \ {<<>>}

(* How one more position opens and closes rules.                           *)
LEMMA OpenNext ==
  ASSUME NEW t \in Seq(Token), NEW opener \in Openers, NEW k \in Nat
  PROVE  /\ ~(k + 1 \in Live(t) /\ t[k + 1] = ")") => OpenAt(t, opener, k) \subseteq OpenAt(t, opener, k + 1)
         /\ ~(k + 1 \in Live(t) /\ t[k + 1] = opener) /\ AllClosed(t, opener, k) => AllClosed(t, opener, k + 1)
         /\ k + 1 \in Live(t) /\ t[k + 1] = ")" => AllClosed(t, opener, k + 1)
         /\ k + 1 \in Live(t) /\ t[k + 1] = opener /\ AllClosed(t, opener, k) => k + 1 \in OpenAt(t, opener, k + 1)
<1>1. opener # ")"
  BY DEF Openers
<1>2. /\ At(t, 1 .. k, opener) \subseteq At(t, 1 .. (k + 1), opener)
      /\ At(t, 1 .. (k + 1), opener) \subseteq At(t, 1 .. k, opener) \cup {i \in {k + 1} : k + 1 \in Live(t) /\ t[k + 1] = opener}
  <2>1. 1 .. (k + 1) = (1 .. k) \cup {k + 1}
    OBVIOUS
  <2> QED BY Zenon, <2>1 DEF At
<1>3. \A i \in At(t, 1 .. k, opener) : i \in 1 .. k
  BY DEF At
<1>4. ASSUME NEW i \in At(t, 1 .. k, opener)
      PROVE  /\ ~(k + 1 \in Live(t) /\ t[k + 1] = ")") => At(t, (i + 1) .. (k + 1), ")") = At(t, (i + 1) .. k, ")")
             /\ k + 1 \in Live(t) /\ t[k + 1] = ")" => k + 1 \in At(t, (i + 1) .. (k + 1), ")")
             /\ Between(i, k + 1) = (i + 1) .. k
  <2>1. Between(i, k + 1) = (i + 1) .. k
    BY <1>3 DEF Between
  <2>2. (i + 1) .. (k + 1) = ((i + 1) .. k) \cup {k + 1}
    BY <1>3
  <2> QED BY Zenon, <2>1, <2>2 DEF At
<1>5. ASSUME ~(k + 1 \in Live(t) /\ t[k + 1] = ")") PROVE OpenAt(t, opener, k) \subseteq OpenAt(t, opener, k + 1)
  BY Zenon, <1>2, <1>4, <1>5 DEF OpenAt
<1>6. ASSUME ~(k + 1 \in Live(t) /\ t[k + 1] = opener), AllClosed(t, opener, k) PROVE AllClosed(t, opener, k + 1)
  <2>1. ASSUME NEW i \in At(t, 1 .. k, opener) PROVE At(t, (i + 1) .. (k + 1), ")") # {}
    BY Zenon, <1>4, <1>6 DEF AllClosed
  <2> QED BY Zenon, <1>2, <1>6, <2>1 DEF AllClosed
<1>7. ASSUME k + 1 \in Live(t), t[k + 1] = ")" PROVE AllClosed(t, opener, k + 1)
  BY Zenon, <1>1, <1>2, <1>4, <1>7 DEF AllClosed
<1>8. ASSUME k + 1 \in Live(t), t[k + 1] = opener, AllClosed(t, opener, k) PROVE k + 1 \in OpenAt(t, opener, k + 1)
  <2>1. ((k + 1) + 1) .. (k + 1) = {} /\ 1 .. ((k + 1) - 1) = 1 .. k /\ k + 1 \in 1 .. (k + 1)
    OBVIOUS
  <2>2. At(t, ((k + 1) + 1) .. (k + 1), ")") = {} /\ k + 1 \in At(t, 1 .. (k + 1), opener)
    BY Zenon, <1>8, <2>1 DEF At
  <2>3. \A i \in At(t, 1 .. k, opener) : At(t, Between(i, k + 1), ")") # {}
    BY Zenon, <1>4, <1>8 DEF AllClosed
  <2> QED BY Zenon, <2>1, <2>2, <2>3 DEF OpenAt, FirstOpen
<1> QED BY Zenon, <1>5, <1>6, <1>7, <1>8

(* After k positions the Host pattern has found the rules that end by then.*)
LEMMA HostIs ==
  ASSUME NEW t \in Seq(Token), NEW opener \in Openers
  PROVE  \A k \in Nat : k <= Len(t) => HostInv(t, opener, k)
<1> DEFINE T == {k \in Nat : k <= Len(t) => HostInv(t, opener, k)}
<1>1. 0 \in T
  <2>1. 1 .. 0 = {} /\ \A r \in Rules(t, opener) : ~(r[2] <= 0)
    <3>1. ASSUME NEW r \in Rules(t, opener) PROVE r[1] \in Nat /\ r[2] \in Nat /\ r[1] < r[2]
      BY Zenon, RuleIs
    <3>2. 1 .. 0 = {}
      OBVIOUS
    <3>3. \A a, b \in Nat : a < b => ~(b <= 0)
      OBVIOUS
    <3> QED BY Zenon, <3>1, <3>2, <3>3
  <2>2. Live(t) \cap {} = {} /\ {} \in SUBSET (1 .. Len(t))
    BY Zenon
  <2>3. Tokens(t, {}) = <<>>
    BY Zenon, <2>2, TokensEmpty
  <2>4. NoRule.open = FALSE /\ NoRule.inner = <<>> /\ NoRule.found = {}
    BY DEF NoRule
  <2>5. AllClosed(t, opener, 0) /\ RulesTo(t, opener, 0) = {}
    BY Zenon, <2>1 DEF AllClosed, At, RulesTo
  <2> QED BY Zenon, <2>1, <2>2, <2>3, <2>4, <2>5, HostStep DEF HostInv
<1>2. ASSUME NEW k \in Nat, k \in T PROVE k + 1 \in T
  <2> SUFFICES ASSUME k + 1 <= Len(t) PROVE HostInv(t, opener, k + 1)
    OBVIOUS
  <2> DEFINE before == Tokens(t, Live(t) \cap (1 .. k))
             after == Tokens(t, Live(t) \cap (1 .. (k + 1)))
             s == hostScan(opener, before)
             x == t[k + 1]
             next == hostScan(opener, after)
             rules == RulesTo(t, opener, k)
  <2>1. x \in Token /\ k <= Len(t) /\ k + 1 \in 1 .. Len(t) /\ 1 .. k \subseteq 1 .. Len(t)
    OBVIOUS
  <2>2. before \in Seq(Token)
    <3>1. Live(t) \cap (1 .. k) \in SUBSET (1 .. Len(t))
      BY Zenon, <2>1
    <3> QED BY Zenon, <3>1, TokensAt
  <2>3. /\ k + 1 \in Live(t) => next = hostToken(opener, s, x)
        /\ k + 1 \notin Live(t) => next = s
    <3>1. /\ k + 1 \in Live(t) => after = Append(before, x)
          /\ k + 1 \notin Live(t) => after = before
      BY Zenon, LiveAdd
    <3> HIDE DEF before, after, x
    <3> QED BY Zenon, <2>1, <2>2, <3>1, HostStep
  <2>4. s \in RuleStates
    BY Zenon, <2>2, HostType
  <2>5. /\ s.open => \E o \in OpenAt(t, opener, k) : s.inner = Tokens(t, Live(t) \cap ((o + 1) .. k))
        /\ ~s.open => s.inner = <<>> /\ AllClosed(t, opener, k)
        /\ s.found = {Text(t, r) : r \in rules} \ {<<>>}
    BY Zenon, <1>2, <2>1 DEF HostInv
  <2> SUFFICES /\ next.open => \E o \in OpenAt(t, opener, k + 1) : next.inner = Tokens(t, Live(t) \cap ((o + 1) .. (k + 1)))
               /\ ~next.open => next.inner = <<>> /\ AllClosed(t, opener, k + 1)
               /\ next.found = {Text(t, r) : r \in RulesTo(t, opener, k + 1)} \ {<<>>}
    BY Zenon DEF HostInv
  <2> HIDE DEF before, after, s, x, next, rules
  <2>6. opener # ")"
    BY DEF Openers
  <2>7. CASE k + 1 \notin Live(t)
    <3>1. next = s /\ RulesTo(t, opener, k + 1) = rules
      BY Zenon, <2>3, <2>7, RulesSame DEF rules
    <3>2. ASSUME NEW o \in OpenAt(t, opener, k) PROVE Live(t) \cap ((o + 1) .. (k + 1)) = Live(t) \cap ((o + 1) .. k)
      <4>1. o \in 1 .. k
        BY Zenon DEF OpenAt, At
      <4>2. (o + 1) .. (k + 1) = ((o + 1) .. k) \cup {k + 1}
        BY <4>1
      <4> QED BY Zenon, <2>7, <4>2
    <3>3. OpenAt(t, opener, k) \subseteq OpenAt(t, opener, k + 1) /\ (AllClosed(t, opener, k) => AllClosed(t, opener, k + 1))
      BY Zenon, <2>7, OpenNext
    <3> QED BY Zenon, <2>5, <3>1, <3>2, <3>3
  <2>8. CASE k + 1 \in Live(t) /\ ~s.open /\ x = opener
    <3>1. next.open /\ next.inner = s.inner /\ next.found = s.found
      BY Zenon, <2>3, <2>4, <2>8 DEF hostToken, RuleStates
    <3>2. RulesTo(t, opener, k + 1) = rules
      BY Zenon, <2>6, <2>8, RulesSame DEF rules, x
    <3>3. k + 1 \in OpenAt(t, opener, k + 1)
      BY Zenon, <2>5, <2>8, OpenNext DEF x
    <3>4. Live(t) \cap (((k + 1) + 1) .. (k + 1)) = {}
      OBVIOUS
    <3>5. Tokens(t, {}) = <<>>
      BY Zenon, TokensEmpty
    <3> QED BY Zenon, <2>5, <2>8, <3>1, <3>2, <3>3, <3>4, <3>5
  <2>9. CASE k + 1 \in Live(t) /\ ~s.open /\ x # opener
    <3>1. ~next.open /\ next.inner = s.inner /\ next.found = s.found
      BY Zenon, <2>3, <2>4, <2>9 DEF hostToken, RuleStates
    <3>2. RulesTo(t, opener, k + 1) = rules
      BY Zenon, <2>5, <2>9, RulesSame DEF rules
    <3>3. AllClosed(t, opener, k + 1)
      BY Zenon, <2>5, <2>9, OpenNext DEF x
    <3> QED BY Zenon, <2>5, <2>9, <3>1, <3>2, <3>3
  <2>10. CASE k + 1 \in Live(t) /\ s.open /\ x # ")"
    <3>1. next.open /\ next.inner = Append(s.inner, x) /\ next.found = s.found
      BY Zenon, <2>3, <2>4, <2>10 DEF hostToken, RuleStates
    <3>2. RulesTo(t, opener, k + 1) = rules
      BY Zenon, <2>10, RulesSame DEF rules, x
    <3>3. PICK o \in OpenAt(t, opener, k) : s.inner = Tokens(t, Live(t) \cap ((o + 1) .. k))
      BY Zenon, <2>5, <2>10
    <3>4. o \in 1 .. k /\ o \in OpenAt(t, opener, k + 1)
      <4>1. o \in 1 .. k
        BY Zenon DEF OpenAt, At
      <4> QED BY Zenon, <2>10, <4>1, OpenNext DEF x
    <3>5. Tokens(t, Live(t) \cap ((o + 1) .. (k + 1))) = Append(s.inner, x)
      BY Zenon, <2>10, <3>3, <3>4, TextAdd DEF x
    <3> QED BY Zenon, <2>5, <3>1, <3>2, <3>4, <3>5
  <2>11. CASE k + 1 \in Live(t) /\ s.open /\ x = ")"
    <3>1. ~next.open /\ next.inner = <<>> /\ next.found = (IF s.inner = <<>> THEN s.found ELSE s.found \cup {s.inner})
      <4>1. next = [open |-> FALSE, inner |-> <<>>, found |-> IF s.inner = <<>> THEN s.found ELSE s.found \cup {s.inner}]
        BY Zenon, <2>3, <2>11 DEF hostToken
      <4> QED BY <4>1
    <3>2. PICK o \in OpenAt(t, opener, k) : s.inner = Tokens(t, Live(t) \cap ((o + 1) .. k))
      BY Zenon, <2>5, <2>11
    <3>3. RulesTo(t, opener, k + 1) = rules \cup {<<o, k + 1>>}
      BY <2>11, RulesAdd DEF rules, x
    <3>4. AllClosed(t, opener, k + 1)
      BY Zenon, <2>11, OpenNext DEF x
    <3>5. Text(t, <<o, k + 1>>) = s.inner
      <4>1. o \in 1 .. k
        BY Zenon DEF OpenAt, At
      <4>2. Between(<<o, k + 1>>[1], <<o, k + 1>>[2]) = (o + 1) .. k
        BY <4>1 DEF Between
      <4> QED BY Zenon, <3>2, <4>2 DEF Text
    <3> QED BY ZenonT(60), <2>5, <3>1, <3>3, <3>4, <3>5
  <2> QED BY Zenon, <2>7, <2>8, <2>9, <2>10, <2>11
<1> HIDE DEF T
<1>3. \A k \in Nat : k \in T
  BY Zenon, <1>1, <1>2, Induction
<1> QED BY Zenon, <1>3 DEF T

-----------------------------------------------------------------------------
(* What the backtick pattern finds in a rule.                              *)

Ticks(t, o, k) == At(t, (o + 1) .. k, "tick")

LastTick(t, o, k) == {p \in Ticks(t, o, k) : Ticks(t, p, k) = {}}

QuotesTo(t, r, k) == {q \in Quotes(t, r) : q[2] <= k}

LEMMA TickIn ==
  ASSUME NEW t \in Seq(Token), NEW o \in Nat, NEW k \in Nat
  PROVE  /\ \A p \in Ticks(t, o, k) : p \in Nat /\ p \in 1 .. k /\ o < p /\ p <= k /\ p \in Live(t) /\ t[p] = "tick"
         /\ \A p \in Live(t) : p \in Nat /\ t[p] = "tick" /\ o < p /\ p <= k => p \in Ticks(t, o, k)
         /\ IsFiniteSet(Ticks(t, o, k))
<1>1. \A p \in (o + 1) .. k : p \in Nat /\ p \in 1 .. k /\ o < p /\ p <= k
  OBVIOUS
<1>2. \A p \in Nat : o < p /\ p <= k => p \in (o + 1) .. k
  OBVIOUS
<1>3. Ticks(t, o, k) \in SUBSET (1 .. k)
  BY Zenon, <1>1 DEF Ticks, At
<1>4. IsFiniteSet(Ticks(t, o, k))
  BY Zenon, <1>3, Finite
<1> QED BY Zenon, <1>1, <1>2, <1>4 DEF Ticks, At

(* A backtick changes the parity of those of the rule, other tokens do not.*)
LEMMA TicksAdd ==
  ASSUME NEW t \in Seq(Token), NEW o \in Nat, NEW k \in Nat, o <= k, k + 1 \in Live(t), t[k + 1] = "tick"
  PROVE  Ticks(t, o, k + 1) = Ticks(t, o, k) \cup {k + 1} /\ (Even(Ticks(t, o, k + 1)) <=> ~Even(Ticks(t, o, k)))
<1>1. (o + 1) .. (k + 1) = ((o + 1) .. k) \cup {k + 1} /\ k + 1 \notin 1 .. k
  OBVIOUS
<1>2. Ticks(t, o, k + 1) = Ticks(t, o, k) \cup {k + 1}
  BY Zenon, <1>1 DEF Ticks, At
<1>3. k + 1 \notin Ticks(t, o, k) /\ IsFiniteSet(Ticks(t, o, k))
  BY Zenon, <1>1, TickIn
<1>4. Even(Ticks(t, o, k) \cup {k + 1}) <=> ~Even(Ticks(t, o, k))
  BY Zenon, <1>3, EvenAdd
<1> QED BY Zenon, <1>2, <1>4

LEMMA TicksSame ==
  ASSUME NEW t \in Seq(Token), NEW o \in Nat, NEW k \in Nat, o <= k, ~(k + 1 \in Live(t) /\ t[k + 1] = "tick")
  PROVE  Ticks(t, o, k + 1) = Ticks(t, o, k)
<1>1. (o + 1) .. (k + 1) = ((o + 1) .. k) \cup {k + 1}
  OBVIOUS
<1> QED BY Zenon, <1>1 DEF Ticks, At

(* The last backtick closes a quote if the ones before it pair up.         *)
LEMMA LastTickParity ==
  ASSUME NEW t \in Seq(Token), NEW o \in Nat, NEW k \in Nat, NEW p \in LastTick(t, o, k)
  PROVE  Even(At(t, Between(o, p), "tick")) <=> ~Even(Ticks(t, o, k))
<1>1. p \in Ticks(t, o, k) /\ Ticks(t, p, k) = {}
  BY Zenon DEF LastTick
<1>2. p \in Nat /\ o < p /\ p <= k /\ p \in Live(t) /\ t[p] = "tick"
  BY Zenon, <1>1, TickIn
<1>3. p - 1 \in Nat /\ o <= p - 1 /\ (p - 1) + 1 = p /\ Between(o, p) = (o + 1) .. (p - 1)
  BY <1>2 DEF Between
<1>4. Even(Ticks(t, o, p)) <=> ~Even(Ticks(t, o, p - 1))
  <2> DEFINE h == p - 1
  <2>1. h \in Nat /\ o <= h /\ h + 1 = p /\ h + 1 \in Live(t) /\ t[h + 1] = "tick"
    BY Zenon, <1>2, <1>3
  <2> HIDE DEF h
  <2>2. Even(Ticks(t, o, h + 1)) <=> ~Even(Ticks(t, o, h))
    BY Zenon, <2>1, TicksAdd
  <2> QED BY Zenon, <2>1, <2>2 DEF h
<1>5. Ticks(t, o, k) = Ticks(t, o, p)
  <2>1. (o + 1) .. k = ((o + 1) .. p) \cup ((p + 1) .. k)
    BY <1>2
  <2>2. \A i \in (p + 1) .. k : ~(i \in Live(t) /\ t[i] = "tick")
    BY Zenon, <1>1 DEF Ticks, At
  <2> QED BY Zenon, <2>1, <2>2 DEF Ticks, At
<1> QED BY Zenon, <1>3, <1>4, <1>5 DEF Ticks

(* What makes a pair of backticks a quote.                                 *)
LEMMA QuoteIs ==
  ASSUME NEW t \in Seq(Token), NEW r, NEW q \in Quotes(t, r), r[1] \in Nat, r[2] \in Nat
  PROVE  /\ q = <<q[1], q[2]>> /\ q[1] \in Nat /\ q[2] \in Nat /\ r[1] < q[1] /\ q[1] < q[2] /\ q[2] < r[2]
         /\ q[1] \in Live(t) /\ t[q[1]] = "tick" /\ q[2] \in Live(t) /\ t[q[2]] = "tick"
         /\ At(t, Between(q[1], q[2]), "tick") = {} /\ Even(At(t, Between(r[1], q[1]), "tick"))
<1>1. \A i \in At(t, Between(r[1], r[2]), "tick") : i \in Nat /\ r[1] < i /\ i < r[2] /\ i \in Live(t) /\ t[i] = "tick"
  BY DEF At, Between
<1>2. /\ q = <<q[1], q[2]>> /\ q[1] \in At(t, Between(r[1], r[2]), "tick") /\ q[2] \in At(t, Between(r[1], r[2]), "tick")
      /\ q[1] < q[2] /\ At(t, Between(q[1], q[2]), "tick") = {}
  BY DEF Quotes
<1>3. Even(At(t, Between(r[1], q[1]), "tick"))
  BY Zenon DEF Quotes, Even
<1> QED BY Zenon, <1>1, <1>2, <1>3

LEMMA IsQuote ==
  ASSUME NEW t \in Seq(Token), NEW r, r[1] \in Nat, r[2] \in Nat, NEW p \in Nat, NEW q \in Nat, r[1] < p, p < q, q < r[2],
         p \in Live(t), t[p] = "tick", q \in Live(t), t[q] = "tick",
         At(t, Between(p, q), "tick") = {}, Even(At(t, Between(r[1], p), "tick"))
  PROVE  <<p, q>> \in Quotes(t, r)
<1>1. p \in At(t, Between(r[1], r[2]), "tick") /\ q \in At(t, Between(r[1], r[2]), "tick")
  BY DEF At, Between
<1>2. <<p, q>>[1] = p /\ <<p, q>>[2] = q
  OBVIOUS
<1> QED BY Zenon, <1>1, <1>2 DEF Quotes, Even

(* A quote ends at the backtick after its first, which is an odd one.      *)
LEMMA QuoteLast ==
  ASSUME NEW t \in Seq(Token), NEW r, r[1] \in Nat, r[2] \in Nat, NEW k \in Nat, NEW q \in Quotes(t, r), q[2] = k + 1
  PROVE  q[1] \in LastTick(t, r[1], k) /\ ~Even(Ticks(t, r[1], k))
<1>1. /\ q[1] \in Nat /\ q[2] \in Nat /\ r[1] < q[1] /\ q[1] < q[2] /\ q[1] \in Live(t) /\ t[q[1]] = "tick"
      /\ At(t, Between(q[1], q[2]), "tick") = {} /\ Even(At(t, Between(r[1], q[1]), "tick"))
  BY Zenon, QuoteIs
<1>2. q[1] <= k /\ Between(q[1], q[2]) = (q[1] + 1) .. k
  BY <1>1 DEF Between
<1>3. q[1] \in Ticks(t, r[1], k)
  BY Zenon, <1>1, <1>2, TickIn
<1>4. Ticks(t, q[1], k) = {}
  BY Zenon, <1>1, <1>2 DEF Ticks
<1>5. q[1] \in LastTick(t, r[1], k)
  BY Zenon, <1>3, <1>4 DEF LastTick
<1> QED BY Zenon, <1>1, <1>5, LastTickParity

LEMMA QuotesToNext ==
  ASSUME NEW t \in Seq(Token), NEW r, r[1] \in Nat, r[2] \in Nat, NEW k \in Nat
  PROVE  \A q : q \in QuotesTo(t, r, k + 1) <=> q \in QuotesTo(t, r, k) \/ (q \in Quotes(t, r) /\ q[2] = k + 1)
<1>1. ASSUME NEW q \in Quotes(t, r) PROVE q[2] <= k + 1 <=> q[2] <= k \/ q[2] = k + 1
  <2>1. q[2] \in Nat
    BY Zenon, QuoteIs
  <2> QED BY <2>1
<1> QED BY Zenon, <1>1 DEF QuotesTo

(* No quote ends at an odd backtick or at another token; ...               *)
LEMMA QuotesSame ==
  ASSUME NEW t \in Seq(Token), NEW r, r[1] \in Nat, r[2] \in Nat, NEW k \in Nat,
         (k + 1 \in Live(t) /\ t[k + 1] = "tick") => Even(Ticks(t, r[1], k))
  PROVE  QuotesTo(t, r, k + 1) = QuotesTo(t, r, k)
<1>1. ASSUME NEW q \in Quotes(t, r), q[2] = k + 1 PROVE FALSE
  <2>1. q[2] \in Live(t) /\ t[q[2]] = "tick"
    BY Zenon, QuoteIs
  <2>2. Even(Ticks(t, r[1], k))
    BY Zenon, <1>1, <2>1
  <2> QED BY Zenon, <1>1, <2>2, QuoteLast
<1>2. \A q : q \in QuotesTo(t, r, k + 1) <=> q \in QuotesTo(t, r, k) \/ (q \in Quotes(t, r) /\ q[2] = k + 1)
  BY Zenon, QuotesToNext
<1> QED BY Zenon, <1>1, <1>2

(* ... at an even one ends the quote that the last backtick opened.        *)
LEMMA QuotesAdd ==
  ASSUME NEW t \in Seq(Token), NEW r, r[1] \in Nat, r[2] \in Nat, NEW k \in Nat, k + 1 < r[2],
         k + 1 \in Live(t), t[k + 1] = "tick", ~Even(Ticks(t, r[1], k)), NEW p \in LastTick(t, r[1], k)
  PROVE  \A q : q \in QuotesTo(t, r, k + 1) <=> q \in QuotesTo(t, r, k) \/ q = <<p, k + 1>>
<1>1. p \in Ticks(t, r[1], k) /\ Ticks(t, p, k) = {}
  BY Zenon DEF LastTick
<1>2. p \in Nat /\ r[1] < p /\ p <= k /\ p \in Live(t) /\ t[p] = "tick"
  BY Zenon, <1>1, TickIn
<1>3. p < k + 1 /\ k + 1 \in Nat /\ Between(p, k + 1) = (p + 1) .. k
  BY <1>2 DEF Between
<1>4. Even(At(t, Between(r[1], p), "tick")) /\ At(t, Between(p, k + 1), "tick") = {}
  BY Zenon, <1>1, <1>3, LastTickParity DEF Ticks
<1>5. <<p, k + 1>> \in Quotes(t, r) /\ <<p, k + 1>>[2] = k + 1
  BY Zenon, <1>2, <1>3, <1>4, IsQuote
<1>6. ASSUME NEW q \in Quotes(t, r), q[2] = k + 1 PROVE q = <<p, k + 1>>
  <2>1. q[1] \in Ticks(t, r[1], k) /\ Ticks(t, q[1], k) = {}
    BY Zenon, <1>6, QuoteLast DEF LastTick
  <2>2. q[1] \in Nat /\ q[1] <= k /\ q[1] \in Live(t) /\ t[q[1]] = "tick"
    BY Zenon, <2>1, TickIn
  <2>3. ~(q[1] < p) /\ ~(p < q[1])
    BY Zenon, <1>1, <1>2, <2>1, <2>2, TickIn
  <2>4. q[1] = p
    BY <1>2, <2>2, <2>3
  <2>5. q = <<q[1], q[2]>>
    BY Zenon, QuoteIs
  <2> QED BY Zenon, <1>6, <2>4, <2>5
<1>7. \A q : q \in QuotesTo(t, r, k + 1) <=> q \in QuotesTo(t, r, k) \/ (q \in Quotes(t, r) /\ q[2] = k + 1)
  BY Zenon, QuotesToNext
<1> QED BY Zenon, <1>5, <1>6, <1>7

QuoteInv(t, r, k) ==
  LET s == quoteScan(Tokens(t, Live(t) \cap ((r[1] + 1) .. k)))
  IN  /\ s.open <=> ~Even(Ticks(t, r[1], k))
      /\ s.open => \E p \in LastTick(t, r[1], k) : s.quoted = Tokens(t, Live(t) \cap ((p + 1) .. k))
      /\ ~s.open => s.quoted = <<>>
      /\ s.found = {Text(t, q) : q \in QuotesTo(t, r, k)}

(* Where the rule opens no quote is open or found, ...                     *)
LEMMA QuoteFirst ==
  ASSUME NEW t \in Seq(Token), NEW r, r[1] \in Nat, r[2] \in Nat
  PROVE  QuoteInv(t, r, r[1])
<1>1. (r[1] + 1) .. r[1] = {}
  OBVIOUS
<1>2. Live(t) \cap {} = {}
  BY Zenon
<1>3. Tokens(t, {}) = <<>>
  BY Zenon, TokensEmpty
<1>4. NoQuote.open = FALSE /\ NoQuote.quoted = <<>> /\ NoQuote.found = {}
  BY DEF NoQuote
<1>5. Ticks(t, r[1], r[1]) = {}
  BY Zenon, <1>1 DEF Ticks, At
<1>6. QuotesTo(t, r, r[1]) = {}
  <2> SUFFICES ASSUME NEW q \in Quotes(t, r), q[2] <= r[1] PROVE FALSE
    BY Zenon DEF QuotesTo
  <2>1. q[1] \in Nat /\ q[2] \in Nat /\ r[1] < q[1] /\ q[1] < q[2]
    BY Zenon, QuoteIs
  <2> QED BY <2>1
<1> QED BY Zenon, <1>1, <1>2, <1>3, <1>4, <1>5, <1>6, QuoteStep, EvenEmpty DEF QuoteInv

(* ... and with every position of the rule the scanner stays right.        *)
LEMMA QuoteNext ==
  ASSUME NEW t \in Seq(Token), NoEmptyQuotes(t), NEW r, r[1] \in Nat \ {0}, r[2] \in 1 .. Len(t),
         NEW k \in Nat, r[1] <= k, k + 1 < r[2], QuoteInv(t, r, k)
  PROVE  QuoteInv(t, r, k + 1)
<1> DEFINE o == r[1]
           before == Tokens(t, Live(t) \cap ((o + 1) .. k))
           after == Tokens(t, Live(t) \cap ((o + 1) .. (k + 1)))
           s == quoteScan(before)
           x == t[k + 1]
           next == quoteScan(after)
           quotes == QuotesTo(t, r, k)
<1>1. /\ x \in Token /\ k + 1 \in 1 .. Len(t) /\ r[1] \in 1 .. k /\ r[1] \in Nat /\ r[2] \in Nat
      /\ (o + 1) .. k \subseteq 1 .. Len(t) /\ (o + 1) .. (k + 1) = ((o + 1) .. k) \cup {k + 1}
  OBVIOUS
<1>2. before \in Seq(Token)
  <2>1. Live(t) \cap ((o + 1) .. k) \in SUBSET (1 .. Len(t))
    BY Zenon, <1>1
  <2> QED BY Zenon, <2>1, TokensAt
<1>3. /\ k + 1 \in Live(t) => next = quoteToken(s, x)
      /\ k + 1 \notin Live(t) => next = s
  <2>1. k + 1 \in Live(t) => after = Append(before, x)
    BY Zenon, <1>1, TextAdd
  <2>2. k + 1 \notin Live(t) => after = before
    <3>1. k + 1 \notin Live(t) => Live(t) \cap ((o + 1) .. (k + 1)) = Live(t) \cap ((o + 1) .. k)
      BY Zenon, <1>1
    <3> QED BY Zenon, <3>1
  <2> HIDE DEF before, after, x
  <2> QED BY Zenon, <1>1, <1>2, <2>1, <2>2, QuoteStep
<1>4. s \in QuoteStates
  BY Zenon, <1>2, QuoteType
<1>5. /\ s.open <=> ~Even(Ticks(t, o, k))
      /\ s.open => \E p \in LastTick(t, o, k) : s.quoted = Tokens(t, Live(t) \cap ((p + 1) .. k))
      /\ ~s.open => s.quoted = <<>>
      /\ s.found = {Text(t, q) : q \in quotes}
  BY Zenon DEF QuoteInv
<1> SUFFICES /\ next.open <=> ~Even(Ticks(t, o, k + 1))
             /\ next.open => \E p \in LastTick(t, o, k + 1) : next.quoted = Tokens(t, Live(t) \cap ((p + 1) .. (k + 1)))
             /\ ~next.open => next.quoted = <<>>
             /\ next.found = {Text(t, q) : q \in QuotesTo(t, r, k + 1)}
  BY Zenon DEF QuoteInv
<1> HIDE DEF before, after, s, x, next, quotes
<1>6. ASSUME NEW p \in LastTick(t, o, k)
      PROVE  p \in Nat /\ p \in 1 .. k /\ p <= k /\ p \in Live(t) /\ t[p] = "tick" /\ o < p
  BY Zenon, <1>1, TickIn DEF LastTick
<1>7. ASSUME NEW p \in LastTick(t, o, k), ~(k + 1 \in Live(t) /\ x = "tick") PROVE p \in LastTick(t, o, k + 1)
  <2>1. p \in Ticks(t, o, k) /\ Ticks(t, p, k) = {} /\ p \in Nat /\ p <= k
    BY Zenon, <1>6 DEF LastTick
  <2>2. Ticks(t, o, k + 1) = Ticks(t, o, k)
    BY Zenon, <1>1, <1>7, TicksSame DEF x
  <2>3. Ticks(t, p, k + 1) = Ticks(t, p, k)
    BY Zenon, <1>7, <2>1, TicksSame DEF x
  <2> QED BY Zenon, <2>1, <2>2, <2>3 DEF LastTick
<1>8. CASE k + 1 \notin Live(t)
  <2>1. next = s /\ QuotesTo(t, r, k + 1) = quotes
    BY Zenon, <1>1, <1>3, <1>8, QuotesSame DEF quotes
  <2>2. Ticks(t, o, k + 1) = Ticks(t, o, k)
    BY Zenon, <1>1, <1>8, TicksSame
  <2>3. ASSUME NEW p \in LastTick(t, o, k) PROVE Live(t) \cap ((p + 1) .. (k + 1)) = Live(t) \cap ((p + 1) .. k)
    <3>1. p \in 1 .. k
      BY Zenon, <1>6
    <3>2. (p + 1) .. (k + 1) = ((p + 1) .. k) \cup {k + 1}
      BY <3>1
    <3> QED BY Zenon, <1>8, <3>2
  <2> QED BY Zenon, <1>5, <1>7, <1>8, <2>1, <2>2, <2>3
<1>9. CASE k + 1 \in Live(t) /\ ~s.open /\ x = "tick"
  <2>1. next.open /\ next.quoted = s.quoted /\ next.found = s.found
    BY Zenon, <1>3, <1>4, <1>9 DEF quoteToken, QuoteStates
  <2>2. QuotesTo(t, r, k + 1) = quotes
    BY Zenon, <1>1, <1>5, <1>9, QuotesSame DEF quotes
  <2>3. Ticks(t, o, k + 1) = Ticks(t, o, k) \cup {k + 1} /\ ~Even(Ticks(t, o, k + 1))
    BY Zenon, <1>1, <1>5, <1>9, TicksAdd DEF x
  <2>4. ((k + 1) + 1) .. (k + 1) = {}
    OBVIOUS
  <2>5. Ticks(t, k + 1, k + 1) = {}
    BY Zenon, <2>4 DEF Ticks, At
  <2>6. k + 1 \in LastTick(t, o, k + 1)
    BY Zenon, <2>3, <2>5 DEF LastTick
  <2>7. Tokens(t, Live(t) \cap (((k + 1) + 1) .. (k + 1))) = <<>>
    <3>1. Live(t) \cap {} = {}
      BY Zenon
    <3> QED BY Zenon, <2>4, <3>1, TokensEmpty
  <2> QED BY Zenon, <1>5, <1>9, <2>1, <2>2, <2>3, <2>6, <2>7
<1>10. CASE k + 1 \in Live(t) /\ ~s.open /\ x # "tick"
  <2>1. ~next.open /\ next.quoted = s.quoted /\ next.found = s.found
    BY Zenon, <1>3, <1>4, <1>10 DEF quoteToken, QuoteStates
  <2>2. QuotesTo(t, r, k + 1) = quotes
    BY Zenon, <1>1, <1>10, QuotesSame DEF quotes, x
  <2>3. Ticks(t, o, k + 1) = Ticks(t, o, k)
    BY Zenon, <1>1, <1>10, TicksSame DEF x
  <2> QED BY Zenon, <1>5, <1>10, <2>1, <2>2, <2>3
<1>11. CASE k + 1 \in Live(t) /\ s.open /\ x # "tick"
  <2>1. next.open /\ next.quoted = Append(s.quoted, x) /\ next.found = s.found
    BY Zenon, <1>3, <1>4, <1>11 DEF quoteToken, QuoteStates
  <2>2. QuotesTo(t, r, k + 1) = quotes
    BY Zenon, <1>1, <1>11, QuotesSame DEF quotes, x
  <2>3. Ticks(t, o, k + 1) = Ticks(t, o, k)
    BY Zenon, <1>1, <1>11, TicksSame DEF x
  <2>4. PICK p \in LastTick(t, o, k) : s.quoted = Tokens(t, Live(t) \cap ((p + 1) .. k))
    BY Zenon, <1>5, <1>11
  <2>5. p \in LastTick(t, o, k + 1) /\ p \in 1 .. k
    BY Zenon, <1>6, <1>7, <1>11
  <2>6. Tokens(t, Live(t) \cap ((p + 1) .. (k + 1))) = Append(s.quoted, x)
    BY Zenon, <1>11, <2>4, <2>5, TextAdd DEF x
  <2> QED BY Zenon, <1>5, <1>11, <2>1, <2>2, <2>3, <2>5, <2>6
<1>12. CASE k + 1 \in Live(t) /\ s.open /\ x = "tick"
  <2>1. PICK p \in LastTick(t, o, k) : s.quoted = Tokens(t, Live(t) \cap ((p + 1) .. k))
    BY Zenon, <1>5, <1>12
  <2>2. p \in Nat /\ p <= k /\ p \in Live(t) /\ t[p] = "tick" /\ p \in 1 .. k
    BY Zenon, <1>6
  <2>3. p < k + 1 /\ Between(p, k + 1) = (p + 1) .. k /\ 1 .. k \subseteq 1 .. Len(t) /\ (p + 1) .. k \subseteq 1 .. Len(t)
        /\ DOMAIN t = 1 .. Len(t)
    BY SMTT(30), <1>1, <2>2 DEF Between
  <2>4. Live(t) \cap ((p + 1) .. k) # {}
    <3>1. p \in At(t, DOMAIN t, "tick") /\ k + 1 \in At(t, DOMAIN t, "tick")
      BY Zenon, <1>1, <1>12, <2>2, <2>3 DEF At, x
    <3> QED BY Zenon, <2>3, <3>1 DEF NoEmptyQuotes
  <2>5. s.quoted # <<>>
    <3>1. Live(t) \cap ((p + 1) .. k) \in SUBSET (1 .. Len(t))
      BY Zenon, <2>3
    <3> QED BY Zenon, <2>1, <2>4, <3>1, TokensEmpty
  <2>6. ~next.open /\ next.quoted = <<>> /\ next.found = s.found \cup {s.quoted}
    <3>1. next = [open |-> FALSE, quoted |-> <<>>, found |-> s.found \cup {s.quoted}]
      BY Zenon, <1>3, <1>12, <2>5 DEF quoteToken
    <3> QED BY SMTT(30), <3>1
  <2>7. QuotesTo(t, r, k + 1) = quotes \cup {<<p, k + 1>>}
    <3>1. r[1] \in Nat /\ r[2] \in Nat /\ k + 1 < r[2] /\ k + 1 \in Live(t) /\ t[k + 1] = "tick" /\ ~Even(Ticks(t, r[1], k))
      BY Zenon, <1>1, <1>5, <1>12 DEF x
    <3>2. \A q : q \in QuotesTo(t, r, k + 1) <=> q \in QuotesTo(t, r, k) \/ q = <<p, k + 1>>
      BY Zenon, <3>1, QuotesAdd
    <3> QED BY Zenon, <3>2 DEF quotes
  <2>8. Even(Ticks(t, o, k + 1))
    BY Zenon, <1>1, <1>5, <1>12, TicksAdd DEF x
  <2>9. Text(t, <<p, k + 1>>) = s.quoted
    <3>1. <<p, k + 1>>[1] = p /\ <<p, k + 1>>[2] = k + 1
      OBVIOUS
    <3> QED BY Zenon, <2>1, <2>3, <3>1 DEF Text
  <2>10. {Text(t, q) : q \in quotes \cup {<<p, k + 1>>}} = {Text(t, q) : q \in quotes} \cup {Text(t, <<p, k + 1>>)}
    BY Zenon
  <2> QED BY Zenon, <1>5, <2>6, <2>7, <2>8, <2>9, <2>10
<1> QED BY Zenon, <1>8, <1>9, <1>10, <1>11, <1>12

(* The backtick pattern finds the quotes of a rule, ...                    *)
LEMMA QuotesOf ==
  ASSUME NEW t \in Seq(Token), NoEmptyQuotes(t), NEW r, r[1] \in Nat \ {0}, r[2] \in 1 .. Len(t), r[1] < r[2]
  PROVE  backtickPattern(Text(t, r)) = {Text(t, q) : q \in Quotes(t, r)}
<1> DEFINE T == {k \in Nat : r[1] <= k /\ k < r[2] => QuoteInv(t, r, k)}
<1>1. 0 \in T
  OBVIOUS
<1>2. ASSUME NEW k \in Nat, k \in T PROVE k + 1 \in T
  <2> SUFFICES ASSUME r[1] <= k + 1, k + 1 < r[2] PROVE QuoteInv(t, r, k + 1)
    OBVIOUS
  <2>1. r[1] \in Nat /\ r[2] \in Nat /\ (r[1] = k + 1 \/ (r[1] <= k /\ k < r[2]))
    OBVIOUS
  <2>2. CASE r[1] = k + 1
    <3>1. QuoteInv(t, r, r[1])
      BY Zenon, <2>1, QuoteFirst
    <3> QED BY Zenon, <2>2, <3>1
  <2>3. CASE r[1] <= k /\ k < r[2]
    <3>1. QuoteInv(t, r, k)
      BY Zenon, <1>2, <2>3
    <3> QED BY Zenon, <2>3, <3>1, QuoteNext
  <2> QED BY Zenon, <2>1, <2>2, <2>3
<1> HIDE DEF T
<1>3. \A k \in Nat : k \in T
  BY Zenon, <1>1, <1>2, Induction
<1> DEFINE last == r[2] - 1
<1>4. last \in Nat /\ r[1] <= last /\ last < r[2] /\ Between(r[1], r[2]) = (r[1] + 1) .. last
      /\ Between(r[1], r[2]) \subseteq 1 .. Len(t) /\ r[1] \in Nat /\ r[2] \in Nat
  BY SMTT(30) DEF Between
<1> HIDE DEF last
<1>5. QuoteInv(t, r, last)
  BY Zenon, <1>3, <1>4 DEF T
<1>6. Text(t, r) = Tokens(t, Live(t) \cap ((r[1] + 1) .. last))
  BY Zenon, <1>4 DEF Text
<1>7. Text(t, r) \in Seq(Token)
  <2>1. Live(t) \cap Between(r[1], r[2]) \in SUBSET (1 .. Len(t))
    BY Zenon, <1>4
  <2> QED BY Zenon, <2>1, TokensAt DEF Text
<1>8. QuotesTo(t, r, last) = Quotes(t, r)
  <2>1. ASSUME NEW q \in Quotes(t, r) PROVE q[2] <= last
    <3>1. q[2] \in Nat /\ q[2] < r[2]
      BY Zenon, <1>4, QuoteIs
    <3> QED BY SMTT(30), <1>4, <3>1 DEF last
  <2> QED BY Zenon, <2>1 DEF QuotesTo
<1>9. quoteScan(Text(t, r)).found = {Text(t, q) : q \in QuotesTo(t, r, last)}
  BY Zenon, <1>5, <1>6 DEF QuoteInv
<1> QED BY Zenon, <1>7, <1>8, <1>9, QuoteScan

(* ... and the Host patterns the rules of the text.                        *)
LEMMA RulesOf ==
  ASSUME NEW t \in Seq(Token), NEW opener \in Openers
  PROVE  hostPattern(opener, stripComments(t)) = {Text(t, r) : r \in Rules(t, opener)} \ {<<>>}
<1> DEFINE n == Len(t)
           clean == Tokens(t, Live(t) \cap (1 .. n))
<1>1. n \in Nat /\ n <= Len(t) /\ SubSeq(t, 1, n) = t
  OBVIOUS
<1>2. stripComments(t) = clean
  <2>1. StripInv(t, n)
    BY Zenon, <1>1, StripIs
  <2> QED BY Zenon, <1>1, <2>1, StripScan DEF StripInv
<1>3. clean \in Seq(Token)
  <2>1. Live(t) \cap (1 .. n) \in SUBSET (1 .. Len(t))
    BY Zenon
  <2> QED BY Zenon, <2>1, TokensAt
<1>4. HostInv(t, opener, n)
  BY Zenon, <1>1, HostIs
<1>5. RulesTo(t, opener, n) = Rules(t, opener)
  <2>1. ASSUME NEW r \in Rules(t, opener) PROVE r[2] <= n
    <3>1. r[2] \in At(t, 1 .. Len(t), ")")
      BY Zenon, RuleIs
    <3> QED BY <3>1 DEF At
  <2> QED BY Zenon, <2>1 DEF RulesTo
<1>6. hostScan(opener, clean).found = {Text(t, r) : r \in RulesTo(t, opener, n)} \ {<<>>}
  BY Zenon, <1>4 DEF HostInv
<1> QED BY Zenon, <1>2, <1>3, <1>5, <1>6, HostScan

(* For every text without empty quotes, the scanning parser finds what the *)
(* text declares.                                                          *)
LEMMA ParseIsDeclared ==
  ASSUME NEW t \in Seq(Token), NoEmptyQuotes(t)
  PROVE  ParseContent(t) = Declared(t)
<1> DEFINE rules == Rules(t, "Host(") \cup Rules(t, "HostSNI(")
           matches == hostPattern("Host(", stripComments(t)) \cup hostPattern("HostSNI(", stripComments(t))
           quotes == UNION {Quotes(t, r) : r \in rules}
           found == UNION {backtickPattern(m) : m \in matches}
<1>1. matches = {Text(t, r) : r \in rules} \ {<<>>}
  <2>1. "Host(" \in Openers /\ "HostSNI(" \in Openers
    BY Zenon DEF Openers
  <2>2. hostPattern("Host(", stripComments(t)) = {Text(t, r) : r \in Rules(t, "Host(")} \ {<<>>}
    BY Zenon, <2>1, RulesOf
  <2>3. hostPattern("HostSNI(", stripComments(t)) = {Text(t, r) : r \in Rules(t, "HostSNI(")} \ {<<>>}
    BY Zenon, <2>1, RulesOf
  <2> QED BY Zenon, <2>2, <2>3
<1>2. ASSUME NEW r \in rules
      PROVE  /\ backtickPattern(Text(t, r)) = {Text(t, q) : q \in Quotes(t, r)}
             /\ Text(t, r) = <<>> => Quotes(t, r) = {}
  <2>1. PICK opener \in Openers : r \in Rules(t, opener)
    BY Zenon DEF Openers
  <2>2. /\ r[1] \in At(t, 1 .. Len(t), opener) /\ r[2] \in At(t, 1 .. Len(t), ")")
        /\ r[1] \in Nat /\ r[2] \in Nat /\ r[1] < r[2]
    BY Zenon, <2>1, RuleIs
  <2>3. r[1] \in Nat \ {0} /\ r[2] \in 1 .. Len(t) /\ r[1] < r[2] /\ Between(r[1], r[2]) \subseteq 1 .. Len(t)
    BY <2>2 DEF At, Between
  <2>4. ASSUME Text(t, r) = <<>> PROVE Quotes(t, r) = {}
    <3>1. Live(t) \cap Between(r[1], r[2]) \in SUBSET (1 .. Len(t))
      BY Zenon, <2>3
    <3>2. Live(t) \cap Between(r[1], r[2]) = {}
      BY Zenon, <2>4, <3>1, TokensEmpty DEF Text
    <3>3. At(t, Between(r[1], r[2]), "tick") = {}
      BY Zenon, <3>2 DEF At
    <3> QED BY Zenon, <3>3 DEF Quotes
  <2>5. backtickPattern(Text(t, r)) = {Text(t, q) : q \in Quotes(t, r)}
    BY Zenon, <2>3, QuotesOf
  <2> QED BY Zenon, <2>4, <2>5
<1>3. found = {Text(t, q) : q \in quotes}
  <2> HIDE DEF rules, matches
  <2>1. ASSUME NEW x \in found PROVE x \in {Text(t, q) : q \in quotes}
    <3>1. PICK m \in matches : x \in backtickPattern(m)
      BY Zenon
    <3>2. PICK r \in rules : m = Text(t, r)
      BY Zenon, <1>1
    <3>3. PICK q \in Quotes(t, r) : x = Text(t, q)
      <4>1. backtickPattern(Text(t, r)) = {Text(t, q) : q \in Quotes(t, r)}
        BY Zenon, <1>2
      <4>2. x \in backtickPattern(Text(t, r))
        BY Zenon, <3>1, <3>2
      <4> QED BY Zenon, <4>1, <4>2
    <3> QED BY Zenon, <3>3
  <2>2. ASSUME NEW q \in quotes PROVE Text(t, q) \in found
    <3>1. PICK r \in rules : q \in Quotes(t, r)
      BY Zenon, <2>2
    <3>2. Text(t, r) \in matches
      BY Zenon, <1>1, <1>2, <3>1
    <3>3. Text(t, q) \in backtickPattern(Text(t, r))
      BY Zenon, <1>2, <3>1
    <3> QED BY Zenon, <3>2, <3>3
  <2> QED BY Zenon, <2>1, <2>2
<1>4. ParseContent(t) = {ToLower(resolveEnvTemplate(q)) : q \in found} \ {<<>>}
  BY Zenon DEF ParseContent, extractHostsFromMatches
<1>5. Declared(t) = {ToLower(resolveEnvTemplate(Text(t, q))) : q \in quotes} \ {<<>>}
  BY Zenon DEF Declared, Text
<1> HIDE DEF found, quotes
<1>6. {ToLower(resolveEnvTemplate(q)) : q \in found} = {ToLower(resolveEnvTemplate(Text(t, q))) : q \in quotes}
  BY Zenon, <1>3
<1> QED BY Zenon, <1>4, <1>5, <1>6

-----------------------------------------------------------------------------

(* Whatever the file's writer does between two reads, the file holds a     *)
(* text and ParseFile returned nonempty texts.                             *)
THEOREM TypeCorrect == Spec => []TypeOK
<1>1. Init => TypeOK
  BY SMTT(30), ParserAssumption DEF Init, TypeOK
<1>2. TypeOK /\ [Next]_vars => TypeOK'
  <2> SUFFICES ASSUME TypeOK, [Next]_vars PROVE TypeOK'
    OBVIOUS
  <2>1. ASSUME Write PROVE TypeOK'
    <3>1. PICK c \in Chunks : writes < MaxWrites /\ writes' = writes + 1 /\ text' = text \o c /\ hosts' = hosts
      BY Zenon, <2>1 DEF Write
    <3>2. c \in Seq(Token) /\ text \in Seq(Token) /\ MaxWrites \in Nat /\ writes \in 0 .. MaxWrites
      BY Zenon, ParserAssumption DEF TypeOK, Token
    <3>3. text' \in Seq(Token) /\ writes' \in 0 .. MaxWrites
      BY SMTT(30), <3>1, <3>2
    <3> QED BY Zenon, <3>1, <3>3 DEF TypeOK, Token
  <2>2. ASSUME Read PROVE TypeOK'
    <3>1. ParseContent(text) \subseteq Names
      BY Zenon, ParseContentType DEF TypeOK, Token
    <3> QED BY Zenon, <2>2, <3>1 DEF Read, ParseFile, TypeOK, Names, Token
  <2> QED BY Zenon, <2>1, <2>2 DEF Next, vars, TypeOK
<1> QED BY <1>1, <1>2, PTL DEF Spec

(* ParseFile on a file that is still being written never returns a         *)
(* hostname that the parser would not also find in every longer version of *)
(* the file.                                                               *)
THEOREM PartialReadsAreSafe == Spec => []PartialReadIsSafe
<1>1. Init => PartialReadIsSafe
  BY Zenon DEF Init, PartialReadIsSafe
<1>2. TypeOK /\ PartialReadIsSafe /\ [Next]_vars => PartialReadIsSafe'
  <2> SUFFICES ASSUME TypeOK, PartialReadIsSafe, [Next]_vars PROVE PartialReadIsSafe'
    OBVIOUS
  <2>1. ASSUME Write PROVE PartialReadIsSafe'
    <3>1. PICK c \in Chunks : text' = text \o c /\ hosts' = hosts
      BY Zenon, <2>1 DEF Write
    <3>2. c \in Seq(Token) /\ text \in Seq(Token)
      BY Zenon, ParserAssumption DEF TypeOK, Token
    <3>3. ParseContent(text) \subseteq ParseContent(text \o c)
      BY Zenon, <3>2, ParseGrows
    <3> QED BY Zenon, <3>1, <3>3 DEF PartialReadIsSafe
  <2>2. ASSUME Read PROVE PartialReadIsSafe'
    BY Zenon, <2>2 DEF Read, ParseFile, PartialReadIsSafe
  <2> QED BY ZenonT(60), <2>1, <2>2 DEF Next, vars, PartialReadIsSafe
<1> QED BY <1>1, <1>2, TypeCorrect, PTL DEF Spec

(* Whatever a file holds, without empty quotes ParseContent takes exactly  *)
(* the hostnames its live rules declare.                                   *)
THEOREM ParsesWhatIsDeclared == Spec => []ParsesRules
<1>1. TypeOK => ParsesRules
  BY Zenon, ParseIsDeclared DEF TypeOK, ParsesRules, Token
<1> QED BY <1>1, TypeCorrect, PTL

=============================================================================
