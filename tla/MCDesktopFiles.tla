--------------------------- MODULE MCDesktopFiles ---------------------------
EXTENDS DesktopFiles

Rule(t, v, l, f, o) ==
    [type |-> t, value |-> v, len |-> l, form |-> f, outbound |-> o]

MCRules ==
    {Rule("process", 1, 0, "plain", "direct"), Rule("process", 1, 0, "upper", "nic"),
     Rule("domain", 1, 0, "wild", "direct"),
     Rule("ip", 3, 0, "bare", "direct"), Rule("ip", 3, 1, "plain", "nic"),
     Rule("ip", 2, 1, "plain", "direct"), Rule("ip", 0, 0, "plain", "nic"),
     Rule("other", 0, 0, "plain", "nic")}

ProxyAtRest ==
    /\ platform = "linux" /\ at = "idle" /\ marker = NoMarker
    /\ os = [switch |-> "on", address |-> "user"] /\ wish = {os}

SettingsAtRest ==
    /\ SettingsInit
    /\ legacy = "none" /\ file = Holds(DefaultSettings)

BlockedAtRest == BlockedInit /\ expiry /\ ~stored.list /\ stored.entries = Nothing

AtRest(c) == CASE c = "proxy" -> ProxyAtRest
               [] c = "settings" -> SettingsAtRest
               [] c = "appearance" -> AppearanceInit
               [] c = "blocked" -> BlockedAtRest
               [] c = "rules" -> RulesInit

Stores == {"proxy", "settings", "appearance", "blocked", "rules"}

\* The five share no variable and every property is about one of them, so that
\* it is enough to let one at a time leave its place.
Turn(c) == \A d \in Stores \ {c} : AtRest(d)

\* A bound: the launch at login is switched only where there is no configuration
\* of v2.x to migrate; no property is about the two together.
LaunchOrMigrate == legacy = "none" \/ UNCHANGED <<startup, asked>>

MCInit == FilesInit /\ \E c \in Stores : Turn(c)

MCNext ==
    \/ Turn("proxy") /\ ProxyMoves
    \/ Turn("settings") /\ SettingsMoves /\ LaunchOrMigrate
    \/ Turn("appearance") /\ AppearanceMoves
    \/ Turn("blocked") /\ BlockedMoves
    \/ Turn("rules") /\ RulesMoves
    \/ Restart

MCSpec == MCInit /\ [][MCNext]_filesVars

=============================================================================
