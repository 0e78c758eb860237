--------------------------- MODULE SettingsStore ---------------------------
(***************************************************************************)
(* The settings of the desktop (desktop/internal/services/settings.go):    *)
(* the copy in memory, settings.json, the backup of a migration and the    *)
(* entry of the desktop that launches the program at login.                *)
(*                                                                         *)
(* A call holds s.mu from the change of the memory to the end of its save, *)
(* so it is two steps: the program may die between them, and a save that   *)
(* fails keeps the change in memory.  Of a document the model keeps the    *)
(* fields that calls treat differently; the others follow the page.        *)
(***************************************************************************)
VARIABLES
    mem,        \* s.settings
    file,       \* settings.json
    backup,     \* what a rollback would read
    migration,  \* s.migration: applied, and whether it has a backup
    legacy,     \* the trial in the configuration of v2.x, if one is valid
    seen,       \* the snapshot that the settings page holds
    startup,    \* whether the desktop launches the program at login
    asked,      \* calls between a look at startup and s.mu
    saving,     \* the call that holds s.mu
    saved_ok,   \* what the last save has returned
    verdict     \* history: the result of the WFP trial that is to be kept

settingsVars == <<mem, file, backup, migration, legacy, seen, startup, asked,
                  saving, saved_ok, verdict>>

\* The result of the WFP trial ("fine" is none or "healthy", "odd" one that only
\* another program writes), Autostart, AutoStartEngine, and whether another field
\* is missing or out of range, as in a file of an older version.
Doc == [wfp : {"fine", "failed", "odd"}, launch : BOOLEAN, engine : BOOLEAN,
        raw : BOOLEAN]

DefaultSettings ==
    [wfp |-> "fine", launch |-> FALSE, engine |-> FALSE, raw |-> FALSE]

\* What is migrated is validated, but for the result of the trial.
MigratedSettings == [DefaultSettings EXCEPT !.wfp = legacy]

\* A file of an older version.
OlderSettings == [DefaultSettings EXCEPT !.raw = TRUE, !.wfp = "odd"]

NoFile == [state |-> "none", doc |-> DefaultSettings]

Corrupt == [state |-> "corrupt", doc |-> DefaultSettings]

Holds(doc) == [state |-> "whole", doc |-> doc]

Files == {NoFile, Corrupt} \cup {Holds(doc) : doc \in Doc}

SettingsTypeOK ==
    /\ mem \in Doc
    /\ file \in Files /\ backup \in Files
    /\ migration \in [applied : BOOLEAN, backed : BOOLEAN]
    /\ legacy \in {"none", "failed", "odd"}
    /\ seen \in Doc
    /\ startup \in BOOLEAN
    /\ asked \in SUBSET {"on", "off", "engine"}
    /\ saving \in {"no", "plain", "migrate", "rollback"}
    /\ saved_ok \in BOOLEAN
    /\ verdict \in {"unknown", "failed", "healthy"}

NotMigrated == [applied |-> FALSE, backed |-> FALSE]

\* A fault: a result that is not "healthy" is dropped.
AcceptedNoFailure(doc) == [doc EXCEPT !.raw = FALSE, !.wfp = "fine"]

\* reload fills in what is missing, replaces what is out of range and drops a
\* result that it does not know.
Accepted(doc) ==
    [doc EXCEPT !.raw = FALSE, !.wfp = IF @ = "odd" THEN "fine" ELSE @]

\* reload: what is in memory after the start of the program, and in the file.
Loaded(f) ==
    CASE f.state = "whole" -> {[mem |-> Accepted(f.doc), file |-> f]}
      [] f.state = "none" /\ legacy # "none" ->
            {[mem |-> MigratedSettings, file |-> g] :
                g \in {f, Holds(MigratedSettings)}}
      [] OTHER -> {[mem |-> DefaultSettings, file |-> f]}

SettingsInit ==
    /\ legacy \in {"none", "failed", "odd"}
    /\ \E f \in {NoFile, Corrupt, Holds(DefaultSettings), Holds(OlderSettings)} :
          \E loaded \in Loaded(f) :
              /\ mem = loaded.mem
              /\ file = loaded.file
              /\ migration = [NotMigrated EXCEPT
                                !.applied = (f.state = "none" /\ legacy # "none")]
    /\ backup = NoFile
    /\ seen = mem
    /\ startup = FALSE
    /\ asked = {}
    /\ saving = "no"
    /\ saved_ok = FALSE
    /\ verdict = "unknown"

-----------------------------------------------------------------------------

\* The call changes the memory and goes on to saveLocked.
Change(doc, kind) ==
    /\ mem' = doc
    /\ saving' = kind
    /\ UNCHANGED <<file, legacy, seen, startup, saved_ok>>

Ordinary(doc) ==
    /\ saving = "no"
    /\ Change(doc, "plain")
    /\ UNCHANGED <<backup, migration>>

\* Get shows what the desktop says of the launch at login.
Get ==
    /\ saving = "no"
    /\ seen' = [mem EXCEPT !.launch = startup, !.engine = mem.engine /\ startup]
    /\ UNCHANGED <<mem, file, backup, migration, legacy, startup, asked, saving,
                   saved_ok, verdict>>

\* validateSettings
ValidSettings(doc) == ~doc.raw /\ (doc.engine => doc.launch)

\* A fault: the result in the snapshot of the page is taken.
UpdateAll(next, retry) ==
    /\ ValidSettings(next)
    /\ Ordinary(next)
    /\ verdict' = IF retry THEN "unknown" ELSE verdict
    /\ UNCHANGED asked

\* Update replaces everything by what the page has, which may be old, but for
\* the result of the WFP trial, which a strict route switched on (retry) wipes
\* out.
Update(next, retry) ==
    /\ ValidSettings(next)
    /\ Ordinary([next EXCEPT !.wfp = IF retry THEN "fine" ELSE mem.wfp])
    /\ verdict' = IF retry THEN "unknown" ELSE verdict
    /\ UNCHANGED asked

\* UpdateHome and saveRoutingRules replace other fields of what is in memory,
\* which may be those that were out of range.
UpdatePart ==
    /\ \E raw \in {mem.raw, FALSE} : Ordinary([mem EXCEPT !.raw = raw])
    /\ UNCHANGED <<asked, verdict>>

\* RememberWFPCompatibilityFailure and ClearWFPCompatibilityFailure
SetFailed(failed) ==
    /\ Ordinary([mem EXCEPT !.wfp = IF failed THEN "failed" ELSE "fine"])
    /\ verdict' = IF failed THEN "failed" ELSE "healthy"
    /\ UNCHANGED asked

\* SetAutostart and SetAutoStartEngine ask the desktop before they lock.
SetAutostart(enabled) ==
    /\ startup' = enabled
    /\ asked' = asked \cup {IF enabled THEN "on" ELSE "off"}
    /\ UNCHANGED <<mem, file, backup, migration, legacy, seen, saving, saved_ok,
                   verdict>>

AskEngine ==
    /\ startup
    /\ asked' = asked \cup {"engine"}
    /\ UNCHANGED <<mem, file, backup, migration, legacy, seen, startup, saving,
                   saved_ok, verdict>>

AutostartLocked(call) ==
    /\ call \in asked
    /\ asked' = asked \ {call}
    /\ Ordinary(CASE call = "on" -> [mem EXCEPT !.launch = TRUE]
                  [] call = "off" -> [mem EXCEPT !.launch = FALSE, !.engine = FALSE]
                  [] call = "engine" -> [mem EXCEPT !.launch = TRUE,
                                                    !.engine = TRUE])
    /\ UNCHANGED verdict

\* SetAutoStartEngine(false) asks nothing.
StopAutoEngine ==
    /\ Ordinary([mem EXCEPT !.engine = FALSE])
    /\ UNCHANGED <<asked, verdict>>

\* A file that exists is copied, whatever it holds; the copy may fail, and the
\* call then ends without a change.
MigrateLegacy ==
    /\ saving = "no" /\ legacy # "none"
    /\ IF file.state # "none"
         THEN backup' = file /\ migration' = [migration EXCEPT !.backed = TRUE]
         ELSE UNCHANGED <<backup, migration>>
    /\ Change(MigratedSettings, "migrate")
    /\ verdict' = "unknown"
    /\ UNCHANGED asked

\* A backup that does not parse is an error; one that does is taken as it is.
RollbackLegacyMigration ==
    /\ saving = "no" /\ migration.applied
    /\ migration.backed => backup.state = "whole"
    /\ Change(IF migration.backed THEN backup.doc ELSE DefaultSettings, "rollback")
    /\ verdict' = "unknown"
    /\ UNCHANGED <<backup, migration, asked>>

\* saveLocked: the rename puts the whole document in place.
SaveOk ==
    /\ saving # "no"
    /\ file' = Holds(mem)
    /\ migration' = CASE saving = "migrate" -> [migration EXCEPT !.applied = TRUE]
                      [] saving = "rollback" -> [migration EXCEPT !.applied = FALSE]
                      [] OTHER -> migration
    /\ saving' = "no"
    /\ saved_ok' = TRUE
    /\ UNCHANGED <<mem, backup, legacy, seen, startup, asked, verdict>>

SaveFails ==
    /\ saving # "no"
    /\ saving' = "no"
    /\ saved_ok' = FALSE
    /\ UNCHANGED <<mem, file, backup, migration, legacy, seen, startup, asked,
                   verdict>>

\* The program ends, or dies, and NewSettingsService runs again.
SettingsRestart ==
    /\ \E loaded \in Loaded(file) : mem' = loaded.mem /\ file' = loaded.file
    /\ migration' = [NotMigrated EXCEPT
                        !.applied = (file.state = "none" /\ legacy # "none")]
    /\ seen' = mem'
    /\ asked' = {}
    /\ saving' = "no"
    /\ verdict' = IF saving = "no" /\ saved_ok THEN verdict ELSE "unknown"
    /\ backup' = NoFile
    /\ UNCHANGED <<legacy, startup, saved_ok>>

\* What the page may send: what it shows, or a switch or a bad field changed.
Edits == {seen, [seen EXCEPT !.engine = ~seen.engine], [seen EXCEPT !.raw = FALSE]}

SettingsNext ==
    \/ Get
    \/ \E next \in Edits, retry \in BOOLEAN : Update(next, retry)
    \/ UpdatePart
    \/ \E failed \in BOOLEAN : SetFailed(failed)
    \/ \E enabled \in BOOLEAN : SetAutostart(enabled)
    \/ AskEngine
    \/ \E call \in asked : AutostartLocked(call)
    \/ StopAutoEngine
    \/ MigrateLegacy \/ RollbackLegacyMigration
    \/ SaveOk \/ SaveFails

-----------------------------------------------------------------------------
(* Properties                                                              *)

\* "Ordinary settings writes must not erase or forge it": the result of the
\* last WFP trial outlives saves of a page that was opened before it, other
\* calls and restarts, until the user asks for a strict route again or the
\* settings are migrated.
VerdictKept == verdict # "unknown" => (mem.wfp = "failed") = (verdict = "failed")

\* What a call has reported as saved is what the next start of the program
\* brings back, but for what reload repairs: a result of the trial that it does
\* not know, which a migration may have brought, and fields that are missing or
\* out of range.  Only a rollback, which takes its backup as it is, brings such
\* fields into memory.
RestartKeeps ==
    [][/\ SettingsRestart /\ saving = "no" /\ saved_ok =>
             mem' = [mem EXCEPT !.raw = FALSE,
                                !.wfp = IF @ = "odd" THEN "fine" ELSE @]
       /\ mem'.raw => mem.raw \/ saving' = "rollback"]_settingsVars

=============================================================================
