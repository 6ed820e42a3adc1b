------------------------------- MODULE Parser -------------------------------
(***************************************************************************)
(* The parser of traefik-externals (parser.go): which hostnames it takes   *)
(* out of a Traefik file, and out of the part of a file that is on disk    *)
(* while somebody is still writing it.                                     *)
(*                                                                         *)
(* A text is a sequence of tokens: the openers "Host(" and "HostSNI(", the *)
(* closer ")", "tick" for a backtick, "#", "newline", the templates        *)
(* {{env V}} in Vars, and any other piece of text.  A hostname is a        *)
(* sequence of tokens.                                                     *)
(* The three regular expressions are modelled by what FindAllStringSubmatch*)
(* returns for them: the leftmost matches, none overlapping another.       *)
(***************************************************************************)
EXTENDS Naturals, Sequences, FiniteSets, SequencesExt

CONSTANTS
  Chunks,       \* what one write to the file may append, sequences of tokens
  Vars,         \* the tokens {{env V}}
  envVars,      \* the environment NewParser captured: Vars -> Seq(tokens), <<>> if unset or empty
  Lower,        \* strings.ToLower, for the tokens it changes
  maxFileSize,  \* the size above which a file is rejected, in tokens
  MaxWrites     \* bound: writes to the file

ASSUME ParserAssumption ==
  /\ Chunks \subseteq Seq(STRING)
  /\ envVars \in [Vars -> Seq(STRING)]
  /\ \A t \in DOMAIN Lower : Lower[t] \in STRING
  /\ maxFileSize \in Nat /\ MaxWrites \in Nat

VARIABLES
  text,         \* the content of the file
  writes,       \* the number of writes so far
  hosts         \* what the last ParseFile returned

vars == <<text, writes, hosts>>

(* For comparison: a line's backticks are not closed by its end.           *)
stripCommentsAcrossLines(content) ==
  FoldLeft(LAMBDA s, t :
             LET kept == [s EXCEPT !.out = Append(@, t)]
             IN  IF t = "newline" THEN [kept EXCEPT !.cut = FALSE]
                 ELSE IF s.cut THEN s
                 ELSE IF t = "tick" THEN [kept EXCEPT !.inBacktick = ~@]
                 ELSE IF t = "#" /\ ~s.inBacktick THEN [s EXCEPT !.cut = TRUE]
                 ELSE kept,
           [out |-> <<>>, inBacktick |-> FALSE, cut |-> FALSE], content).out

(* For comparison: a comment is cut only once its line has ended.          *)
stripCommentsTerminated(content) ==
  LET s == FoldLeft(LAMBDA s, t :
             IF t = "newline" THEN [out |-> Append(s.out, t), inBacktick |-> FALSE, cut |-> FALSE, rest |-> <<>>]
             ELSE IF s.cut THEN [s EXCEPT !.rest = Append(@, t)]
             ELSE IF t = "#" /\ ~s.inBacktick THEN [s EXCEPT !.cut = TRUE]
             ELSE [s EXCEPT !.out = Append(@, t), !.inBacktick = IF t = "tick" THEN ~@ ELSE @],
           [out |-> <<>>, inBacktick |-> FALSE, cut |-> FALSE, rest |-> <<>>], content)
  IN  s.out \o s.rest

(* The line's "#" outside backticks, and what follows it, is cut; the      *)
(* newline stays and ends both the comment and an open backtick.           *)
stripToken(s, t) ==
  LET kept == [s EXCEPT !.out = Append(@, t)]
  IN  IF t = "newline" THEN [kept EXCEPT !.inBacktick = FALSE, !.cut = FALSE]
      ELSE IF s.cut THEN s
      ELSE IF t = "tick" THEN [kept EXCEPT !.inBacktick = ~@]
      ELSE IF t = "#" /\ ~s.inBacktick THEN [s EXCEPT !.cut = TRUE]
      ELSE kept

stripComments(content) ==
  FoldLeft(stripToken, [out |-> <<>>, inBacktick |-> FALSE, cut |-> FALSE], content).out

(* Host\(([^)]+)\) and HostSNI\(([^)]+)\): the contents of the matches.    *)
(* An opener inside an open rule belongs to its contents; an empty pair of *)
(* parentheses is no match.                                                *)
hostToken(opener, s, t) ==
  IF ~s.open THEN [s EXCEPT !.open = (t = opener)]
  ELSE IF t # ")" THEN [s EXCEPT !.inner = Append(@, t)]
  ELSE [open |-> FALSE, inner |-> <<>>,
        found |-> IF s.inner = <<>> THEN s.found ELSE s.found \cup {s.inner}]

hostPattern(opener, content) ==
  FoldLeft(LAMBDA s, t : hostToken(opener, s, t),
           [open |-> FALSE, inner |-> <<>>, found |-> {}], content).found

(* The backtick pattern: the quoted strings.  Of two adjacent backticks    *)
(* the second is tried as an opening one.                                  *)
quoteToken(s, t) ==
  IF ~s.open THEN [s EXCEPT !.open = (t = "tick")]
  ELSE IF t # "tick" THEN [s EXCEPT !.quoted = Append(@, t)]
  ELSE IF s.quoted = <<>> THEN s
  ELSE [open |-> FALSE, quoted |-> <<>>, found |-> s.found \cup {s.quoted}]

backtickPattern(inner) ==
  FoldLeft(quoteToken, [open |-> FALSE, quoted |-> <<>>, found |-> {}], inner).found

(* {{env V}} replaced by V's value; the empty name if one has none.        *)
envToken(s, t) == s \o (IF t \in Vars THEN envVars[t] ELSE <<t>>)

resolveEnvTemplate(template) ==
  IF \E v \in Vars : Contains(template, v) /\ envVars[v] = <<>> THEN <<>>
  ELSE FoldLeft(envToken, <<>>, template)

ToLower(name) == [i \in DOMAIN name |-> IF name[i] \in DOMAIN Lower THEN Lower[name[i]] ELSE name[i]]

(* For comparison: a host whose variables are unset is kept.               *)
extractKeepsEmpty(matches) ==
  {ToLower(resolveEnvTemplate(q)) : q \in UNION {backtickPattern(m) : m \in matches}}

(* The hosts list without its order: no caller depends on it.              *)
extractHostsFromMatches(matches) ==
  {ToLower(resolveEnvTemplate(q)) : q \in UNION {backtickPattern(m) : m \in matches}} \ {<<>>}

ParseContent(content) ==
  LET clean == stripComments(content)
  IN  extractHostsFromMatches(hostPattern("Host(", clean) \cup hostPattern("HostSNI(", clean))

(* The file is read whole, or rejected for its size and skipped.           *)
ParseFile(content) == IF Len(content) > maxFileSize THEN {} ELSE ParseContent(content)

-----------------------------------------------------------------------------

Init == text = <<>> /\ writes = 0 /\ hosts = {}

(* An editor or a deployment tool writes the file piece by piece.          *)
Write == \E c \in Chunks :
  /\ writes < MaxWrites
  /\ writes' = writes + 1
  /\ text' = text \o c
  /\ UNCHANGED hosts

(* The file watcher reads the file, at whatever point the writer has       *)
(* reached.                                                                *)
Read ==
  /\ hosts' = ParseFile(text)
  /\ UNCHANGED <<text, writes>>

Next == Write \/ Read

Spec == Init /\ [][Next]_vars

-----------------------------------------------------------------------------
(* What a file declares, said by positions instead of by scanning.         *)

Between(i, j) == (i + 1) .. (j - 1)

(* The positions of i's line up to i.                                      *)
LineUpTo(t, i) == {j \in 1 .. i : \A k \in j .. (i - 1) : t[k] # "newline"}

(* Position i is in a comment: a "#" before it on its line, or at it, has  *)
(* an even number of backticks before it on the line.                      *)
Commented(t, i) ==
  /\ t[i] # "newline"
  /\ \E j \in LineUpTo(t, i) :
       t[j] = "#" /\ Cardinality({k \in LineUpTo(t, j) : t[k] = "tick"}) % 2 = 0

Live(t) == {i \in DOMAIN t : ~Commented(t, i)}

At(t, S, tok) == {i \in S \cap Live(t) : t[i] = tok}

(* The rules of the file: an opener that no earlier rule contains, and the *)
(* next closer.                                                            *)
Rules(t, opener) ==
  {r \in At(t, DOMAIN t, opener) \X At(t, DOMAIN t, ")") :
     /\ r[1] < r[2]
     /\ At(t, Between(r[1], r[2]), ")") = {}
     /\ \A i \in At(t, 1 .. (r[1] - 1), opener) : At(t, Between(i, r[1]), ")") # {}}

(* The quoted strings of a rule: every odd backtick and the next one.      *)
Quotes(t, r) ==
  {q \in At(t, Between(r[1], r[2]), "tick") \X At(t, Between(r[1], r[2]), "tick") :
     /\ q[1] < q[2]
     /\ At(t, Between(q[1], q[2]), "tick") = {}
     /\ Cardinality(At(t, Between(r[1], q[1]), "tick")) % 2 = 0}

(* The tokens at the positions in S, in their order.                       *)
Tokens(t, S) ==
  [n \in 1 .. Cardinality(S) |-> t[CHOOSE i \in S : Cardinality({j \in S : j <= i}) = n]]

Declared(t) ==
  LET quotes == UNION {Quotes(t, r) : r \in Rules(t, "Host(") \cup Rules(t, "HostSNI(")}
      name(q) == Tokens(t, Live(t) \cap Between(q[1], q[2]))
  IN  {ToLower(resolveEnvTemplate(name(q))) : q \in quotes} \ {<<>>}

(* No empty quotes: with two adjacent backticks the regular expression     *)
(* pairs the second with the next one.                                     *)
NoEmptyQuotes(t) ==
  \A p, q \in At(t, DOMAIN t, "tick") : p < q => Live(t) \cap Between(p, q) # {}

-----------------------------------------------------------------------------

(* The file's content is a text and the hostnames are those of some text.  *)
TypeOK ==
  /\ text \in Seq(STRING)
  /\ writes \in 0 .. MaxWrites
  /\ \A h \in hosts : h \in Seq(STRING) \ {<<>>}

(* ParseContent takes exactly the hostnames the file declares: those in    *)
(* backticks inside a rule that is not commented out, whose variables are  *)
(* set, whatever precedes, follows or is commented out around them.        *)
ParsesRules == NoEmptyQuotes(text) => ParseContent(text) = Declared(text)

(* ParseFile on a file that is still being written returns no hostname     *)
(* that the file, as it grows, does not declare: a load that comes too     *)
(* early may miss names and never invents one.                             *)
PartialReadIsSafe == hosts \subseteq ParseContent(text)

=============================================================================
