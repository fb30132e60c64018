------------------------------ MODULE HostGlob ------------------------------
(***************************************************************************)
(* The host globs of the network policy, matched twice: by the sidecar     *)
(* (proxy/policy.rs, a backtracking matcher) and by the BEAM               *)
(* (network_policy/hosts.ex, through a regular expression).  Strings are   *)
(* sequences of characters, hosts and patterns already in lower case.      *)
(***************************************************************************)
EXTENDS Integers, Sequences, FiniteSets, SequencesExt

CONSTANTS
    Letters,     \* the characters of labels
    MaxPattern,  \* bound on the length of a pattern
    MaxHost      \* bound on the length of a host

ASSUME GlobAssumption == {".", "*", "**"} \cap Letters = {} /\ MaxPattern \in Nat /\ MaxHost \in Nat

VARIABLES pattern, host

Suffix(s, i) == SubSeq(s, i, Len(s))

(* A host is dot-separated labels, none empty. *)
IsHost(s) ==
    /\ s # <<>> /\ s[1] # "." /\ Last(s) # "."
    /\ \A i \in 1..Len(s) - 1 : ~(s[i] = "." /\ s[i + 1] = ".")

Patterns == SeqOf(Letters \cup {".", "*"}, MaxPattern)
HostsOf  == {s \in SeqOf(Letters \cup {"."}, MaxHost) : IsHost(s)}

RECURSIVE Compile(_)
(* compile of policy.rs and tokenize/3 of hosts.ex: two stars in a row are one token *)
Compile(chars) ==
    IF chars = <<>> THEN <<>>
    ELSE IF Len(chars) > 1 /\ chars[1] = "*" /\ chars[2] = "*"
         THEN <<"**">> \o Compile(Suffix(chars, 3))
         ELSE <<Head(chars)>> \o Compile(Tail(chars))

(* What may be left of the input after a token, as the two matchers see it. *)
LiteralRests(ch, input) == IF input # <<>> /\ Head(input) = ch THEN {Tail(input)} ELSE {}

(* Mutant: a double star stays within its label. *)
DoubleStarRestsLabel(input) ==
    {Suffix(input, i) : i \in {n \in 2..Len(input) + 1 : \A k \in 1..n - 1 : input[k] # "."}}

DoubleStarRests(input) == {Suffix(input, i) : i \in 2..Len(input) + 1}

(* [^.]+ gives back characters until the rest matches. *)
BeamStarRests(input) ==
    {Suffix(input, i + 1) : i \in {n \in 1..Len(input) : \A k \in 1..n : input[k] # "."}}

(* Mutant: a star matches an empty label. *)
StarRestsEmpty(input) ==
    LET dots == {i \in 1..Len(input) : input[i] = "."}
    IN  {IF dots = {} THEN <<>> ELSE Suffix(input, CHOOSE i \in dots : \A k \in dots : i <= k)}

(* Token::Star takes the whole label, up to the next dot or the end. *)
StarRests(input) ==
    LET dots == {i \in 1..Len(input) : input[i] = "."}
    IN  IF input = <<>> \/ Head(input) = "." THEN {}
        ELSE {IF dots = {} THEN <<>> ELSE Suffix(input, CHOOSE i \in dots : \A k \in dots : i <= k)}

RECURSIVE MatchTokens(_, _)
(* match_tokens *)
MatchTokens(tokens, input) ==
    IF tokens = <<>> THEN input = <<>>
    ELSE \E rest \in CASE Head(tokens) = "*"  -> StarRests(input)
                       [] Head(tokens) = "**" -> DoubleStarRests(input)
                       [] OTHER               -> LiteralRests(Head(tokens), input) :
            MatchTokens(Tail(tokens), rest)

RECURSIVE RegexMatches(_, _)
(* What the regular expression of compile_pattern/1 matches, anchored at both ends. *)
RegexMatches(tokens, input) ==
    IF tokens = <<>> THEN input = <<>>
    ELSE \E rest \in CASE Head(tokens) = "*"  -> BeamStarRests(input)
                       [] Head(tokens) = "**" -> DoubleStarRests(input)
                       [] OTHER               -> LiteralRests(Head(tokens), input) :
            RegexMatches(Tail(tokens), rest)

SidecarMatches == MatchTokens(Compile(pattern), host)
BeamMatches    == RegexMatches(Compile(pattern), host)

-----------------------------------------------------------------------------
(* Every pattern is asked about every host. *)
FirstHost == <<Head(SetToSeq(Letters))>>

GlobInit == pattern \in Patterns /\ host = FirstHost

Ask == host = FirstHost /\ host' \in HostsOf /\ UNCHANGED pattern

-----------------------------------------------------------------------------
RECURSIVE Labels(_)
(* A string cut at its dots. *)
Labels(s) ==
    IF "." \notin Range(s) THEN <<s>>
    ELSE LET i == CHOOSE n \in DOMAIN s : s[n] = "." /\ \A k \in 1..n - 1 : s[k] # "."
         IN  <<SubSeq(s, 1, i - 1)>> \o Labels(Suffix(s, i + 1))

RECURSIVE LabelsMatch(_, _)
(* The documented meaning of a glob: * is one label, ** one or more. *)
LabelsMatch(ps, hs) ==
    IF ps = <<>> THEN hs = <<>>
    ELSE IF Head(ps) = <<"*", "*">> THEN \E n \in 1..Len(hs) : LabelsMatch(Tail(ps), Suffix(hs, n + 1))
    ELSE hs # <<>> /\ Head(ps) \in {Head(hs), <<"*">>} /\ LabelsMatch(Tail(ps), Tail(hs))

(* A pattern in the documented form: a star stands for whole labels, and there are no
   empty labels. *)
Aligned ==
    \A l \in Range(Labels(pattern)) : l # <<>> /\ ("*" \in Range(l) => l \in {<<"*">>, <<"*", "*">>})

(* On patterns in the documented form the sidecar's matcher (policy.rs match_tokens) and
   the BEAM's (hosts.ex matches?) both accept exactly the hosts the moduledoc of hosts.ex
   says: "* matches a single DNS label", "** matches one or more dot-separated labels". *)
AlignedGlobsAgree ==
    Aligned => LET documented == LabelsMatch(Labels(pattern), Labels(host))
               IN  SidecarMatches = documented /\ BeamMatches = documented

(* The sidecar never lets a pattern reach further than the BEAM's regular expression
   does, whatever the pattern. *)
SidecarNarrower == SidecarMatches => BeamMatches
=============================================================================
