---------------------------- MODULE RoutingRules ----------------------------
(***************************************************************************)
(* The routing rules of the desktop (desktop/internal/services/routing.go):*)
(* how a list of rules is read, normalised, ordered, validated and saved.  *)
(*                                                                         *)
(* An address has AddressBits bits, so that masks and prefixes are         *)
(* computed.  The name of a process or a domain is a number, whose order   *)
(* is the order of the lower-case text, and `form` tells the spellings     *)
(* that normalisation makes equal ("*.Example.com.", "STEAM.exe", an       *)
(* address without its prefix).                                            *)
(***************************************************************************)
EXTENDS Integers, Sequences, FiniteSets, FiniteSetsExt, SequencesExt

CONSTANTS AddressBits, RawRules, MaxRules   \* MaxRules bounds a list

ASSUME RulesAssumption == {AddressBits, MaxRules} \subseteq Nat \ {0}

MatchTypes == {"process", "domain", "ip"}

\* A rule of a file, and how it is spelled; a name has no prefix, and len 0.
RawRule ==
    [type : MatchTypes \cup {"other"}, value : Nat, len : 0..AddressBits,
     form : {"plain", "upper", "wild", "bare", "invalid"}, outbound : STRING]

ASSUME RawAssumption == RawRules \subseteq RawRule

VARIABLES
    read,       \* the list in the file that was imported last
    draft,      \* the rules the page shows
    saved,      \* settings.RoutingRules
    disk,       \* the same in settings.json
    usable      \* whether the adapter that rules name is selected and up

rulesVars == <<read, draft, saved, disk, usable>>

\* Equal rules are told apart by their spelling or their outbound.
RawLists == {rules \in UNION {[1..n -> RawRules] : n \in 0..MaxRules} :
                IsInjective(rules)}

RulesInit ==
    read = <<>> /\ draft = <<>> /\ saved = <<>> /\ disk = <<>> /\ usable = TRUE

-----------------------------------------------------------------------------

Rank(rule) == CASE rule.type = "process" -> 0
                [] rule.type = "domain" -> 1
                [] rule.type = "ip" -> 2

\* An unknown type, a value that does not parse.
Valid(rule) == rule.type \in MatchTypes /\ rule.form # "invalid"

Mask(addr, len) ==
    LET block == 2 ^ (AddressBits - len)
    IN addr - (addr % block)

\* A process keeps its spelling, a domain becomes lower case without "*." and
\* an address gets its prefix and loses the bits behind it.
NormalizeRule(rule) ==
    CASE rule.type = "process" -> rule
      [] rule.type = "domain" -> [rule EXCEPT !.form = "plain"]
      [] rule.type = "ip" ->
            LET len == IF rule.form = "bare" THEN AddressBits ELSE rule.len
            IN [rule EXCEPT !.form = "plain", !.len = len,
                            !.value = Mask(rule.value, len)]

\* ruleIdentity is blind to case.
Identity(rule) == <<rule.type, rule.value, rule.len>>

\* The order of sortRules: process, domain, ip, and the longer prefix first.
Before(a, b) ==
    \/ Rank(a) < Rank(b)
    \/ Rank(a) = Rank(b) /\ a.len > b.len
    \/ Rank(a) = Rank(b) /\ a.len = b.len /\ a.value < b.value

\* The rules of a list that normalizeRule accepts.
Kept(rules) == {i \in DOMAIN rules : Valid(rules[i])}

SameRule(rules, i, j) ==
    Identity(NormalizeRule(rules[i])) = Identity(NormalizeRule(rules[j]))

\* A fault: the last of several equal rules wins.
LastOfEach(rules) ==
    {NormalizeRule(rules[i]) : i \in {i \in Kept(rules) :
        \A j \in Kept(rules) : j > i => ~SameRule(rules, i, j)}}

\* The first of several equal rules wins.
FirstOfEach(rules) ==
    {NormalizeRule(rules[i]) : i \in {i \in Kept(rules) :
        \A j \in Kept(rules) : j < i => ~SameRule(rules, i, j)}}

SortRules(rules) ==
    CHOOSE s \in [1..Cardinality(rules) -> rules] :
        \A i, j \in DOMAIN s : i < j => Before(s[i], s[j])

\* normalizeRules drops what normalizeRulesStrict refuses; for rules that are
\* all valid they are the same.
NormalizeRules(rules) == SortRules(FirstOfEach(rules))

AllValid(rules) == Kept(rules) = DOMAIN rules

\* validateRoutingOutbounds
Reachable(rules) ==
    \A i \in DOMAIN rules : rules[i].outbound = "nic" => usable

-----------------------------------------------------------------------------

\* Import, and the migration of an older configuration: one rule that is
\* invalid refuses the file, and the page is left as it was.
Import(rules) ==
    /\ IF AllValid(rules)
         THEN read' = rules /\ draft' = NormalizeRules(rules)
         ELSE read' = <<>> /\ UNCHANGED draft
    /\ UNCHANGED <<saved, disk, usable>>

\* Validate: the page adds a rule that no other rule equals.
AddRule(rule) ==
    /\ Len(draft) < MaxRules
    /\ Valid(rule)
    /\ Reachable(<<NormalizeRule(rule)>>)
    /\ \A i \in DOMAIN draft : Identity(draft[i]) # Identity(NormalizeRule(rule))
    /\ draft' = Append(draft, NormalizeRule(rule))
    /\ read' = <<>>
    /\ UNCHANGED <<saved, disk, usable>>

RemoveRule(i) ==
    /\ draft' = RemoveAt(draft, i)
    /\ read' = <<>>
    /\ UNCHANGED <<saved, disk, usable>>

\* Save, and the Snapshot it returns; after a save that fails the rules are in
\* memory, and the page shows what it did.
SaveRules ==
    /\ AllValid(draft) /\ Reachable(NormalizeRules(draft))
    /\ saved' = NormalizeRules(draft)
    /\ \/ disk' = saved' /\ draft' = NormalizeRules(saved')
       \/ UNCHANGED <<disk, draft>>
    /\ UNCHANGED <<read, usable>>

\* Snapshot: the page is opened again.
OpenRules ==
    /\ draft' = NormalizeRules(saved)
    /\ read' = <<>>
    /\ UNCHANGED <<saved, disk, usable>>

\* The adapter is unplugged or comes back.
AdapterToggles ==
    /\ usable' = ~usable
    /\ UNCHANGED <<read, draft, saved, disk>>

\* The page of a new program, which has read the file.
RulesRestart ==
    /\ saved' = disk
    /\ draft' = NormalizeRules(disk)
    /\ read' = <<>>
    /\ UNCHANGED <<disk, usable>>

\* Three bounds: an import replaces what the page shows, so it is tried on saved
\* rules only, and on no more than one; after a save that failed the page is not
\* edited until one succeeds or the program is started again.
RulesNext ==
    \/ /\ draft = saved /\ saved = disk /\ Len(saved) <= 1
       /\ \E rules \in RawLists : Import(rules)
    \/ saved = disk /\ \E rule \in RawRules : AddRule(rule)
    \/ saved = disk /\ \E i \in DOMAIN draft : RemoveRule(i)
    \/ SaveRules \/ OpenRules \/ AdapterToggles

-----------------------------------------------------------------------------
(* Properties                                                              *)

Addresses == 0..(2 ^ AddressBits - 1)

Covers(rule, addr) ==
    rule.type = "ip" /\ Mask(addr, rule.len) = rule.value

\* The rules that apply to a host, before normalisation, as the user wrote them.
Meant(rule, addr) ==
    LET len == IF rule.form = "bare" THEN AddressBits ELSE rule.len
        block == 2 ^ (AddressBits - len)
    IN rule.type = "ip" /\ rule.value \div block = addr \div block

\* An import changes no rule's meaning: an address is covered by the rules of
\* the page just when one of the file covers it, and of rules that are equal
\* the first has its way.
ImportKeepsMeaning ==
    read # <<>> =>
        \A addr \in Addresses :
            LET before == {i \in DOMAIN read : Meant(read[i], addr)}
                after == {i \in DOMAIN draft : Covers(draft[i], addr)}
            IN /\ before = {} <=> after = {}
               /\ before # {} =>
                    LET len(i) == IF read[i].form = "bare" THEN AddressBits
                                                           ELSE read[i].len
                        longest == Max({len(i) : i \in before})
                        first == Min({i \in before : len(i) = longest})
                    IN draft[Min(after)].outbound = read[first].outbound

=============================================================================
