---------------------------- MODULE BlockedStore ----------------------------
(***************************************************************************)
(* The quarantined domains that the desktop remembers                      *)
(* (desktop/internal/services/blocked_domains.go): the copy in memory and  *)
(* blocked_domains.json.  The telemetry of the core replaces the entries,  *)
(* the user removes them.                                                  *)
(*                                                                         *)
(* A call holds s.mu throughout; its save renames a whole file, or fails.  *)
(* An entry is the time at which it expires, 0 if there is none; a version *)
(* before this one kept a list without times.                              *)
(***************************************************************************)
EXTENDS Naturals

CONSTANTS Domains, EntryTTL, LastTime

ASSUME TimesAssumption == {EntryTTL, LastTime} \subseteq Nat \ {0}

VARIABLES
    entries,    \* s.entries
    stored,     \* blocked_domains.json
    expiry,     \* settings.BlockedDomainExpiry
    clock,      \* s.now()
    removed     \* history: what the user has removed, and no core has named since

blockedVars == <<entries, stored, expiry, clock, removed>>

Entries == [Domains -> 0..(LastTime + EntryTTL)]

Nothing == [d \in Domains |-> 0]

BlockedTypeOK ==
    /\ entries \in Entries
    /\ stored \in [list : BOOLEAN, entries : Entries]
    /\ expiry \in BOOLEAN
    /\ clock \in 1..LastTime
    /\ removed \in SUBSET Domains

\* purgeExpiredLocked
Purged(e) == IF expiry THEN [d \in Domains |-> IF e[d] <= clock THEN 0 ELSE e[d]]
                       ELSE e

\* load: the entries of an older list get a time.
LoadedEntries ==
    Purged(IF stored.list
             THEN [d \in Domains |->
                     IF stored.entries[d] > 0 THEN clock + EntryTTL ELSE 0]
             ELSE stored.entries)

BlockedInit ==
    /\ stored \in [list : BOOLEAN, entries : {Nothing, [d \in Domains |-> 1]}]
    /\ expiry \in BOOLEAN
    /\ clock = 1
    /\ entries = LoadedEntries
    /\ removed = {}

-----------------------------------------------------------------------------

\* A fault: the change stays in memory.
SaveEntriesNot == UNCHANGED stored

SaveEntries == stored' = [list |-> FALSE, entries |-> entries']

\* List saves what is left after a purge, and does not mind if it cannot.
List ==
    /\ entries' = Purged(entries)
    /\ IF entries' = entries THEN UNCHANGED stored
                             ELSE SaveEntries \/ UNCHANGED stored
    /\ UNCHANGED <<expiry, clock, removed>>

\* Remove and Clear; what has not been saved has not been removed.
RemoveDomains(domains) ==
    /\ entries' = [d \in Domains |-> IF d \in domains THEN 0 ELSE entries[d]]
    /\ \/ SaveEntries /\ removed' = removed \cup domains
       \/ UNCHANGED <<stored, removed>>
    /\ UNCHANGED <<expiry, clock>>

\* ReplaceRuntime: without a change nothing is saved.
ReplaceRuntime(told) ==
    /\ entries' = [d \in Domains |-> IF told[d] > clock THEN told[d] ELSE 0]
    /\ removed' = {d \in removed : entries'[d] = 0}
    /\ IF entries' = entries THEN UNCHANGED stored
                             ELSE SaveEntries \/ UNCHANGED stored
    /\ UNCHANGED <<expiry, clock>>

\* The setting is changed.
ToggleExpiry ==
    /\ expiry' = ~expiry
    /\ UNCHANGED <<entries, stored, clock, removed>>

BlockedTick ==
    /\ clock < LastTime
    /\ clock' = clock + 1
    /\ UNCHANGED <<entries, stored, expiry, removed>>

BlockedNext ==
    \/ List
    \/ \E domains \in {Domains} \cup {{d} : d \in Domains} : RemoveDomains(domains)
    \/ \E told \in [Domains -> {0, clock, clock + EntryTTL}] : ReplaceRuntime(told)
    \/ ToggleExpiry \/ BlockedTick

BlockedRestart ==
    /\ entries' = LoadedEntries
    /\ UNCHANGED <<stored, expiry, clock, removed>>

-----------------------------------------------------------------------------
(* Properties                                                              *)

\* A domain that the user has removed stays away, from the memory, from the
\* file and so from the next start, through polls, purges and saves that fail,
\* until the core names it again.
RemovedStaysAway ==
    \A d \in removed : entries[d] = 0 /\ stored.entries[d] = 0

=============================================================================
