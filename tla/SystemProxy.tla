---------------------------- MODULE SystemProxy ----------------------------
(***************************************************************************)
(* The system proxy (desktop/internal/services/system_proxy_*.go): the     *)
(* settings of the desktop, the marker file that holds the ones to bring   *)
(* back, enableSystemProxy and restoreSystemProxyDetailed.                 *)
(*                                                                         *)
(* A step is one write of a file or of a setting, and each may fail.  The  *)
(* settings are a switch (ProxyEnable, or gsettings mode) and an address   *)
(* (the other keys, which no decision tells apart).  A crash drops `at`    *)
(* and keeps the rest.                                                     *)
(***************************************************************************)
CONSTANT Platforms

ASSUME PlatformsAssumption == Platforms \subseteq {"windows", "linux"}

VARIABLES
    platform,   \* the build that runs
    os,         \* the settings of the desktop
    marker,     \* the file proxy-owned
    copy,       \* whether a corrupt marker was set aside
    at,         \* where the function that runs stands
    purpose,    \* why it runs
    target,     \* the settings it writes
    todo,       \* the keys it has yet to write
    result,     \* what the last call has returned
    ready,      \* whether the restore at the launch of the program succeeded
    wish        \* history: the settings the user is to get back, if known

proxyVars == <<platform, os, marker, copy, at, purpose, target, todo, result,
               ready, wish>>

Keys == {"switch", "address"}

Setting == [switch : {"on", "off"}, address : {"user", "edited", "ours", ""}]

Ours == [switch |-> "on", address |-> "ours"]

Off == [switch |-> "off", address |-> ""]

NoMarker == [state |-> "none", saved |-> Off]

ProxyTypeOK ==
    /\ platform \in Platforms
    /\ os \in Setting
    /\ marker \in [state : {"none", "corrupt", "prepared", "active"},
                   saved : Setting]
    /\ copy \in BOOLEAN
    /\ at \in {"idle", "read", "write", "remove", "snapshot", "commit"}
    /\ purpose \in {"enable", "first", "restore", "launch", "undo"}
    /\ target \in Setting
    /\ todo \in SUBSET Keys
    /\ result \in {"ok", "error"}
    /\ ready \in BOOLEAN
    /\ wish \in SUBSET Setting

\* A program is launched over the settings of the user, or over a marker that
\* is no JSON.
ProxyInit ==
    /\ platform \in Platforms
    /\ \/ /\ os \in [switch : {"on", "off"}, address : {"user"}]
          /\ marker = NoMarker
          /\ wish = {os}
          /\ at = "idle" /\ purpose = "restore" /\ ready = TRUE
       \/ /\ os = Ours
          /\ marker = [NoMarker EXCEPT !.state = "corrupt"]
          /\ wish = {}
          /\ at = "read" /\ purpose = "launch" /\ ready = FALSE
    /\ copy = FALSE
    /\ target = Off
    /\ todo = {}
    /\ result = "ok"

-----------------------------------------------------------------------------

\* Start is refused when the restore at the launch has failed.
EnableBegin ==
    /\ at = "idle" /\ ready
    /\ \/ platform = "windows" /\ at' = "read" /\ purpose' = "first"
       \/ platform = "linux" /\ at' = "snapshot" /\ purpose' = "enable"
    /\ UNCHANGED <<platform, os, marker, copy, target, todo, result, ready, wish>>

RestoreBegin ==
    /\ at = "idle"
    /\ at' = "read"
    /\ purpose' = "restore"
    /\ UNCHANGED <<platform, os, marker, copy, target, todo, result, ready, wish>>

\* What the call held is gone.
Return(r) ==
    /\ at' = "idle"
    /\ result' = r
    /\ ready' = IF purpose = "launch" THEN r = "ok" ELSE ready
    /\ purpose' = "restore"
    /\ target' = Off
    /\ todo' = {}

Proceed(place) ==
    at' = place /\ UNCHANGED <<purpose, target, todo, result, ready>>

\* restoreSystemProxyDetailed returns to its caller.
RestoreReturns(r) ==
    IF purpose = "first" /\ r = "ok"
      THEN /\ at' = "snapshot"
           /\ purpose' = "enable"
           /\ UNCHANGED <<target, todo, result, ready>>
      ELSE Return(IF purpose \in {"restore", "launch"} THEN r ELSE "error")

Write(setting) ==
    /\ at' = "write"
    /\ target' = setting
    /\ todo' = Keys
    /\ UNCHANGED <<purpose, result, ready>>

\* The user, or another program, has changed the proxy since.
Edited == os.switch # Ours.switch \/ os.address # Ours.address

ReadMarker ==
    /\ at = "read"
    /\ \/ /\ marker.state = "none"
          /\ RestoreReturns("ok")
          /\ UNCHANGED <<marker, copy>>
       \/ \* the marker cannot be read, parsed or set aside, or no settings
          /\ marker.state # "none"
          /\ RestoreReturns("error")
          /\ UNCHANGED <<marker, copy>>
       \/ /\ marker.state = "active" /\ Edited
          /\ Proceed("remove")
          /\ UNCHANGED <<marker, copy>>
       \/ /\ marker.state \in {"prepared", "active"}
          /\ ~(marker.state = "active" /\ Edited)
          /\ Write(marker.saved)
          /\ UNCHANGED <<marker, copy>>
       \/ /\ marker.state = "corrupt" /\ platform = "windows"
          /\ marker' = NoMarker
          /\ copy' = TRUE
          /\ IF os.address = "ours" THEN Write(Off) ELSE RestoreReturns("ok")
    /\ UNCHANGED os

\* A setting cannot be written, or the desktop cannot be told.
WriteFails ==
    /\ at = "write"
    /\ IF platform = "linux" /\ purpose = "enable"
         THEN /\ at' = "read"
              /\ purpose' = "undo"
              /\ UNCHANGED <<target, todo, result, ready>>
         ELSE Return("error")
    /\ UNCHANGED <<os, marker, copy>>

\* Windows writes the switch first; gsettings are written in any order.
WriteSetting(k) ==
    /\ at = "write" /\ k \in todo
    /\ platform = "windows" /\ k = "address" => "switch" \notin todo
    /\ os' = [os EXCEPT ![k] = target[k]]
    /\ todo' = todo \ {k}
    /\ UNCHANGED <<marker, copy, at, purpose, target, result, ready>>

Written ==
    /\ at = "write" /\ todo = {}
    /\ \/ purpose # "enable" /\ marker # NoMarker /\ Proceed("remove")
       \/ purpose # "enable" /\ marker = NoMarker /\ RestoreReturns("ok")
       \/ purpose = "enable" /\ platform = "linux" /\ Return("ok")
       \/ purpose = "enable" /\ platform = "windows" /\ Proceed("commit")
    /\ UNCHANGED <<os, marker, copy>>

RemoveMarker ==
    /\ at = "remove"
    /\ \/ marker' = NoMarker /\ RestoreReturns("ok")
       \/ marker' = marker /\ RestoreReturns("error")
    /\ UNCHANGED <<os, copy>>

\* A fault: the proxy is switched before its marker is written.
TakeSnapshotLate ==
    /\ at = "snapshot"
    /\ os' = Ours
    /\ \/ marker' = [state |-> "prepared", saved |-> os] /\ Write(Ours)
       \/ Return("error") /\ UNCHANGED marker
    /\ UNCHANGED copy

\* gsettings has no states: a marker is always obeyed.
TakeSnapshot ==
    /\ at = "snapshot"
    /\ \/ marker' = [state |-> "prepared", saved |-> os] /\ Write(Ours)
       \/ Return("error") /\ UNCHANGED marker
    /\ UNCHANGED <<os, copy>>

Commit ==
    /\ at = "commit"
    /\ \/ marker' = [marker EXCEPT !.state = "active"] /\ Return("ok")
       \/ Return("error") /\ UNCHANGED marker
    /\ UNCHANGED <<os, copy>>

\* The settings to bring back are replaced by those in place.
Overwrites == at = "snapshot" /\ marker.state # "none"

\* A restore ends between the switch and the address.
CutShort == at = "write" /\ purpose # "enable" /\ todo = {"address"}

ProxyStep ==
    /\ \/ ReadMarker
       \/ WriteFails
       \/ \E k \in Keys : WriteSetting(k)
       \/ Written
       \/ RemoveMarker
       \/ TakeSnapshot
       \/ Commit
    /\ wish' = IF \/ CutShort /\ at' # "write"
                  \/ Overwrites /\ at' = "write"
                 THEN {} ELSE wish
    /\ UNCHANGED platform

\* The program dies, and the next one begins with a restore.
ProxyCrash ==
    /\ result' = "error"
    /\ IF marker = NoMarker
         THEN at' = "idle" /\ purpose' = "restore" /\ ready' = TRUE
         ELSE at' = "read" /\ purpose' = "launch" /\ ready' = FALSE
    /\ target' = Off
    /\ todo' = {}
    /\ wish' = IF CutShort THEN {} ELSE wish
    /\ UNCHANGED <<platform, os, marker, copy>>

\* The user switches the proxy off, or sets another one, though not in the
\* instant in which settings are being written.  An edit after an enabling
\* that was never committed is taken for the program's own.
UserEdits ==
    /\ at = "idle"
    /\ os' \in {[os EXCEPT !.switch = "off"],
                [switch |-> "on", address |-> "edited"]}
    /\ wish' = IF marker.state \in {"none", "active"} THEN {os'} ELSE {}
    /\ UNCHANGED <<platform, marker, copy, at, purpose, target, todo, result, ready>>

-----------------------------------------------------------------------------
(* Properties                                                              *)

InEffect == os = Ours

RestoreOk ==
    /\ at # "idle" /\ at' = "idle"
    /\ purpose \in {"restore", "launch"}
    /\ result' = "ok"

\* A restore that reports success leaves the very settings the user had or has
\* made since, however many attempts failed before.  Nothing is said of three
\* cases in which the code loses them: a restore was cut short between two
\* settings, the marker was overwritten, or the user edited the settings under a
\* marker that no Commit made active: on Linux, which has no such state, that is
\* every edit while the proxy is the program's.
RestoreIsExact == [][RestoreOk => wish \subseteq {os'}]_proxyVars

\* "restores the user proxy snapshot captured before HypoMux took ownership":
\* a restore that reports success never leaves this program's proxy in effect.
RestoredIsNotOurs == [][RestoreOk /\ ~copy => ~InEffect']_proxyVars

=============================================================================
