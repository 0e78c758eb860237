---------------------------- MODULE DesktopFiles ----------------------------
(***************************************************************************)
(* What the desktop keeps on disk, composed: the system proxy and its      *)
(* marker, the settings, the routing rules, the appearance and the         *)
(* quarantined domains.  Each has a mutex and files of its own; what they  *)
(* share is the program, which may die at any step of any of them.         *)
(***************************************************************************)
EXTENDS SystemProxy, SettingsStore, AppearanceStore, BlockedStore, RoutingRules

filesVars == <<proxyVars, settingsVars, appearanceVars, blockedVars, rulesVars>>

FilesTypeOK ==
    /\ ProxyTypeOK
    /\ SettingsTypeOK
    /\ AppearanceTypeOK
    /\ BlockedTypeOK

FilesInit ==
    /\ ProxyInit
    /\ SettingsInit
    /\ AppearanceInit
    /\ BlockedInit
    /\ RulesInit

\* The program dies and is started again.
Restart ==
    /\ ProxyCrash
    /\ SettingsRestart
    /\ AppearanceRestart
    /\ BlockedRestart
    /\ RulesRestart

ProxyMoves ==
    /\ EnableBegin \/ RestoreBegin \/ ProxyStep \/ UserEdits
    /\ UNCHANGED <<settingsVars, appearanceVars, blockedVars, rulesVars>>

SettingsMoves ==
    SettingsNext /\ UNCHANGED <<proxyVars, appearanceVars, blockedVars, rulesVars>>

AppearanceMoves ==
    AppearanceNext /\ UNCHANGED <<proxyVars, settingsVars, blockedVars, rulesVars>>

BlockedMoves ==
    BlockedNext /\ UNCHANGED <<proxyVars, settingsVars, appearanceVars, rulesVars>>

RulesMoves ==
    RulesNext /\ UNCHANGED <<proxyVars, settingsVars, appearanceVars, blockedVars>>

FilesNext ==
    \/ ProxyMoves \/ SettingsMoves \/ AppearanceMoves \/ BlockedMoves
    \/ RulesMoves \/ Restart

FilesSpec == FilesInit /\ [][FilesNext]_filesVars

=============================================================================
