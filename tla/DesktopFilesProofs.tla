------------------------- MODULE DesktopFilesProofs -------------------------
(***************************************************************************)
(* What the desktop keeps on disk, for any platforms, pictures, domains    *)
(* and rules, with all of its parts at work at once.                       *)
(*                                                                         *)
(* Each part has an invariant of its own, kept by its own steps and by the *)
(* death of the program; the others leave its variables alone.  What a     *)
(* document has in common with its file, or the marker of the proxy with   *)
(* the settings, holds only between the steps of a call: each invariant    *)
(* says what is still to be done while one is under way.                   *)
(***************************************************************************)
EXTENDS DesktopFiles, Induction

\* A restore has what it needs to give the user's settings back.  A program
\* that has written part of them knows where it stands.
Restores == purpose # "enable"

\* Where the settings are to be found that the user is to get back.
Source == IF marker.state = "none" \/ (marker.state = "active" /\ Edited)
            THEN os ELSE marker.saved

\* The settings and their marker.
MarkerInv ==
    /\ marker.state = "none" => marker = NoMarker
    /\ marker.state = "corrupt" => wish = {}
    /\ marker.state = "active" => platform = "windows"
    /\ at = "read" => Restores
    /\ at = "snapshot" =>
         /\ purpose = "enable"
         /\ platform = "windows" => marker.state = "none"
    /\ at = "commit" =>
         /\ os = Ours /\ marker.state = "prepared"
         /\ purpose = "enable" /\ platform = "windows"
    /\ at = "remove" => Restores /\ wish \subseteq {os}
    /\ at # "write" => wish \subseteq {Source}

\* While settings are written: which, and what is already in place.
WritingInv ==
    at = "write" =>
        /\ marker.state # "corrupt"
        /\ todo \subseteq Keys
        /\ \A k \in Keys \ todo : os[k] = target[k]
        /\ platform = "windows" /\ "switch" \in todo => "address" \in todo
        /\ ~Restores => target = Ours /\ marker.state = "prepared"
                        /\ wish \subseteq {marker.saved}
        /\ Restores /\ marker.state = "none" => wish = {}
        /\ Restores /\ marker.state # "none" =>
             target = marker.saved /\ wish \subseteq {marker.saved}
        /\ marker.state = "active" /\ todo = Keys => os = Ours

\* Where a function goes when it returns, goes on or begins to write.
Places == {"idle", "read", "write", "remove", "snapshot", "commit"}
Purposes == {"enable", "first", "restore", "launch", "undo"}

\* The types of what a function has for itself, and of what it shares.
OwnType ==
    /\ at \in Places
    /\ purpose \in Purposes
    /\ target \in Setting
    /\ todo \in SUBSET Keys
    /\ result \in {"ok", "error"}
    /\ ready \in BOOLEAN

SharedType ==
    /\ platform \in Platforms
    /\ os \in Setting
    /\ marker \in [state : {"none", "corrupt", "prepared", "active"},
                   saved : Setting]
    /\ copy \in BOOLEAN
    /\ wish \in SUBSET Setting

ProxyInv == OwnType /\ SharedType /\ MarkerInv /\ WritingInv

\* The result of the trial is the one to be kept, and what was reported as
\* saved is in the file: the two are the same to a start of the program, which
\* may have repaired the one in memory.
VerdictInv ==
    /\ verdict = "failed" => mem.wfp = "failed"
    /\ verdict = "healthy" => mem.wfp # "failed"

SettingsInv ==
    /\ VerdictInv
    /\ saved_ok => /\ file.state = "whole"
                   /\ saving = "no" => Accepted(file.doc) = Accepted(mem)

\* The picture that a document names, or is to name.
PictureInv ==
    /\ BackgroundExists
    /\ painting = "picture" => chosen # NoPicture
    /\ painting = "picture" /\ ~torn /\ look # NoPicture =>
         pictures[look.type] = look.sha
    /\ painting = "document" /\ chosen # NoPicture =>
         /\ pictures[chosen.type] # Absent
         /\ pictures[chosen.type] = chosen.sha \/ (torn /\ chosen = look)
    /\ painting = "document" /\ ~torn /\ look # NoPicture =>
         \/ pictures[look.type] = look.sha
         \/ chosen.type = look.type /\ chosen # look
    /\ painting = "remove" => look = NoPicture /\ chosen # NoPicture

\* The times an entry may have.
Times == 0..(LastTime + EntryTTL)

\* The types, of which those of the entries matter.
BlockedType ==
    /\ entries \in [Domains -> Times]
    /\ stored \in [list : BOOLEAN, entries : [Domains -> Times]]
    /\ expiry \in BOOLEAN
    /\ clock \in 1..LastTime
    /\ removed \in SUBSET Domains

\* A list has the rules of T, in order.
Arranged(s, T) ==
    /\ s \in [1..Cardinality(T) -> T]
    /\ \A i, j \in DOMAIN s : i < j => Before(s[i], s[j])

\* What the page shows after an import: the rules of the file, arranged.
RulesInv ==
    read # <<>> =>
        /\ read \in RawLists /\ AllValid(read)
        /\ Arranged(draft, FirstOfEach(read))

FInv ==
    /\ ProxyInv
    /\ SettingsTypeOK /\ SettingsInv
    /\ AppearanceTypeOK /\ PictureInv
    /\ BlockedType /\ RemovedStaysAway
    /\ RulesInv

-----------------------------------------------------------------------------
(* The system proxy                                                        *)

USE PlatformsAssumption

\* Two settings are the same if their keys are.
LEMMA SameSetting ==
    ASSUME NEW a \in Setting, NEW b \in Setting,
           \A k \in Keys : a[k] = b[k]
    PROVE  a = b
<1>1. a["switch"] = b["switch"] /\ a["address"] = b["address"]
  BY DEF Keys
<1>2. /\ a = [switch |-> a.switch, address |-> a.address]
      /\ b = [switch |-> b.switch, address |-> b.address]
  BY DEF Setting
<1> QED BY <1>1, <1>2

\* One key of a setting is replaced by that of another.
LEMMA KeyWritten ==
    ASSUME NEW a \in Setting, NEW b \in Setting, NEW k \in Keys
    PROVE  /\ [a EXCEPT ![k] = b[k]] \in Setting
           /\ [a EXCEPT ![k] = b[k]][k] = b[k]
           /\ \A j \in Keys \ {k} : [a EXCEPT ![k] = b[k]][j] = a[j]
<1>1. CASE k = "switch"
  BY <1>1 DEF Setting, Keys
<1>2. CASE k = "address"
  BY <1>2 DEF Setting, Keys
<1> QED BY <1>1, <1>2 DEF Keys

LEMMA SettingsKnown ==
    Ours \in Setting /\ Off \in Setting /\ NoMarker.state = "none"
  BY DEF Ours, Off, Setting, NoMarker

\* A function that returns, goes on or begins to write keeps its types.
LEMMA OwnTypes ==
    ASSUME OwnType
    PROVE  /\ \A r \in {"ok", "error"} :
                /\ Return(r) => OwnType'
                /\ RestoreReturns(r) => OwnType'
           /\ \A p \in Places : Proceed(p) => OwnType'
           /\ \A s \in Setting : Write(s) => OwnType'
<1>1. ASSUME NEW r \in {"ok", "error"}, Return(r) PROVE OwnType'
  <2>1. ready' \in BOOLEAN
    BY <1>1 DEF Return, OwnType
  <2>2. at' \in Places /\ purpose' \in Purposes /\ todo' \in SUBSET Keys
    BY <1>1 DEF Return, Places, Purposes
  <2>3. target' \in Setting /\ result' \in {"ok", "error"}
    BY <1>1, SettingsKnown DEF Return
  <2> QED BY <2>1, <2>2, <2>3, Zenon DEF OwnType
<1>2. ASSUME NEW r \in {"ok", "error"}, RestoreReturns(r) PROVE OwnType'
  <2>1. CASE purpose = "first" /\ r = "ok"
    <3>1. at' \in Places /\ purpose' \in Purposes
      BY <1>2, <2>1 DEF RestoreReturns, Places, Purposes
    <3> QED BY <1>2, <2>1, <3>1, Zenon DEF RestoreReturns, OwnType
  <2>2. CASE ~(purpose = "first" /\ r = "ok")
    <3>1. PICK e \in {"ok", "error"} : Return(e)
      BY <1>2, <2>2 DEF RestoreReturns
    <3> QED BY <1>1, <3>1
  <2> QED BY <2>1, <2>2
<1>3. ASSUME NEW p \in Places, Proceed(p) PROVE OwnType'
  BY <1>3, Zenon DEF Proceed, OwnType
<1>4. ASSUME NEW s \in Setting, Write(s) PROVE OwnType'
  <2>1. at' \in Places /\ todo' \in SUBSET Keys
    BY <1>4 DEF Write, Places
  <2> QED BY <1>4, <2>1, Zenon DEF Write, OwnType
<1> QED BY <1>1, <1>2, <1>3, <1>4

\* Together they are the type invariant.
LEMMA ProxyTypeParts == ProxyTypeOK <=> OwnType /\ SharedType
  BY Zenon DEF ProxyTypeOK, OwnType, SharedType, Places, Purposes

\* What is known of a marker without settings, and of one that has them.
LEMMA MarkersKnown ==
    ASSUME NEW s \in Setting
    PROVE  \A st \in {"none", "corrupt", "prepared", "active"} :
             LET m == [state |-> st, saved |-> s]
             IN /\ m \in [state : {"none", "corrupt", "prepared", "active"},
                          saved : Setting]
                /\ m.state = st /\ m.saved = s
  OBVIOUS

\* What the user makes of the settings.
LEMMA EditedSettings ==
    ASSUME NEW a \in Setting,
           NEW b \in {[a EXCEPT !.switch = "off"],
                      [switch |-> "on", address |-> "edited"]}
    PROVE  b \in Setting /\ (b.switch # Ours.switch \/ b.address # Ours.address)
<1>1. CASE b = [a EXCEPT !.switch = "off"]
  <2>1. b.switch = "off" /\ b \in Setting
    BY <1>1 DEF Setting
  <2> QED BY <2>1 DEF Ours
<1>2. CASE b = [switch |-> "on", address |-> "edited"]
  BY <1>2 DEF Setting, Ours
<1> QED BY <1>1, <1>2

\* A function is called, the user edits, or the program dies.
LEMMA ProxyCallKeeps ==
    ASSUME ProxyInv, EnableBegin \/ RestoreBegin \/ UserEdits \/ ProxyCrash
    PROVE  ProxyInv'
<1> OwnType /\ SharedType /\ MarkerInv /\ WritingInv
  BY DEF ProxyInv
<1>1. OwnType'
  <2>1. ready' \in BOOLEAN
    BY Zenon DEF EnableBegin, RestoreBegin, UserEdits, ProxyCrash, OwnType
  <2>2. at' \in Places /\ purpose' \in Purposes
    BY DEF EnableBegin, RestoreBegin, UserEdits, ProxyCrash, OwnType, Places,
           Purposes
  <2>3. target' \in Setting /\ todo' \in SUBSET Keys
    BY SettingsKnown
    DEF EnableBegin, RestoreBegin, UserEdits, ProxyCrash, OwnType
  <2>4. result' \in {"ok", "error"}
    BY DEF EnableBegin, RestoreBegin, UserEdits, ProxyCrash, OwnType
  <2> QED BY <2>1, <2>2, <2>3, <2>4, Zenon DEF OwnType
<1>2. SharedType'
  <2>1. os' \in Setting
    <3>1. CASE UserEdits
      BY <3>1, EditedSettings DEF UserEdits, SharedType
    <3>2. CASE ~UserEdits
      BY <3>2 DEF EnableBegin, RestoreBegin, ProxyCrash, SharedType
    <3> QED BY <3>1, <3>2
  <2>2. wish' \in SUBSET Setting
    BY <2>1 DEF EnableBegin, RestoreBegin, UserEdits, ProxyCrash, SharedType
  <2>3. UNCHANGED <<platform, marker, copy>>
    BY DEF EnableBegin, RestoreBegin, UserEdits, ProxyCrash
  <2> QED BY <2>1, <2>2, <2>3, Zenon DEF SharedType
<1>3. MarkerInv' /\ WritingInv'
  <2>1. CASE EnableBegin
    <3>1. /\ at = "idle" /\ UNCHANGED <<platform, os, marker, wish>>
          /\ \/ platform = "windows" /\ at' = "read" /\ purpose' = "first"
             \/ platform = "linux" /\ at' = "snapshot" /\ purpose' = "enable"
      BY <2>1 DEF EnableBegin
    <3> QED BY <3>1 DEF MarkerInv, WritingInv, Source, Restores, Edited
  <2>2. CASE RestoreBegin
    <3>1. /\ at = "idle" /\ UNCHANGED <<platform, os, marker, wish>>
          /\ at' = "read" /\ purpose' = "restore"
      BY <2>2 DEF RestoreBegin
    <3> QED BY <3>1 DEF MarkerInv, WritingInv, Source, Restores, Edited
  <2>3. CASE UserEdits
    <3>1. at' = "idle" /\ UNCHANGED <<platform, marker>>
      BY <2>3 DEF UserEdits
    <3>2. Edited'
      BY <2>3, EditedSettings DEF UserEdits, Edited, SharedType
    <3>3. /\ marker.state \in {"none", "active"} => wish' = {os'}
          /\ marker.state \notin {"none", "active"} => wish' = {}
      BY <2>3, Zenon DEF UserEdits
    <3>4. MarkerInv'
      BY <3>1, <3>2, <3>3 DEF MarkerInv, Source
    <3> QED BY <3>1, <3>4 DEF WritingInv
  <2>4. CASE ProxyCrash
    <3>1. /\ UNCHANGED <<platform, os, marker>>
          /\ wish' = IF CutShort THEN {} ELSE wish
          /\ at' \in {"idle", "read"}
          /\ at' = "read" => purpose' # "enable"
      BY <2>4 DEF ProxyCrash
    <3>2. wish' \subseteq {Source}
      <4>1. CASE at # "write" \/ CutShort
        BY <3>1, <4>1 DEF MarkerInv
      <4>2. CASE at = "write" /\ ~CutShort /\ marker.state # "active"
        BY <3>1, <4>2 DEF WritingInv, Source
      <4>3. CASE at = "write" /\ ~CutShort /\ marker.state = "active"
        <5>1. Restores /\ target = marker.saved /\ wish \subseteq {target}
          BY <4>3 DEF WritingInv
        <5>2. todo = Keys \/ todo = {}
          <6>1. platform = "windows" /\ todo # {"address"}
            BY <4>3, <5>1 DEF MarkerInv, CutShort, Restores
          <6> QED BY <4>3, <6>1 DEF WritingInv, Keys
        <5>3. CASE todo = Keys
          <6>1. ~Edited
            BY <4>3, <5>3 DEF WritingInv, Edited
          <6> QED BY <3>1, <4>3, <5>1, <6>1 DEF Source
        <5>4. CASE todo = {}
          <6>1. os = target
            BY <4>3, <5>4, SameSetting DEF WritingInv, OwnType, SharedType
          <6> QED BY <3>1, <4>3, <5>1, <6>1 DEF Source
        <5> QED BY <5>2, <5>3, <5>4
      <4> QED BY <4>1, <4>2, <4>3
    <3>3. Source' = Source
      BY <3>1 DEF Source, Edited
    <3>4. marker'.state = "corrupt" => wish' = {}
      BY <3>1 DEF MarkerInv
    <3>5. MarkerInv'
      BY <3>1, <3>2, <3>3, <3>4 DEF MarkerInv, Restores
    <3> QED BY <3>1, <3>5 DEF WritingInv
  <2> QED BY <2>1, <2>2, <2>3, <2>4
<1> QED BY <1>1, <1>2, <1>3 DEF ProxyInv

\* What a function that does not write leaves behind.
LEMMA RestKeeps ==
    ASSUME at' \in {"idle", "read", "remove", "snapshot"},
           at' \in {"read", "remove"} => Restores',
           at' = "snapshot" =>
               purpose' = "enable"
                 /\ (platform' = "windows" => marker'.state = "none"),
           at' = "remove" => wish' \subseteq {os'},
           marker'.state = "none" => marker' = NoMarker,
           marker'.state = "corrupt" => wish' = {},
           marker'.state = "active" => platform' = "windows",
           wish' \subseteq {Source'}
    PROVE  MarkerInv' /\ WritingInv'
  BY DEF MarkerInv, WritingInv

\* Where a restore goes when it returns.
LEMMA RestoreGoes ==
    ASSUME NEW r \in {"ok", "error"}, RestoreReturns(r)
    PROVE  \/ at' = "idle"
           \/ at' = "snapshot" /\ purpose' = "enable" /\ r = "ok"
  BY DEF RestoreReturns, Return

\* The marker is read, and decides.
LEMMA ReadMarkerKeeps ==
    ASSUME ProxyInv, ReadMarker, wish' = wish, UNCHANGED platform
    PROVE  ProxyInv'
<1> OwnType /\ SharedType /\ MarkerInv /\ WritingInv
  BY DEF ProxyInv
<1>0. /\ at = "read" /\ Restores /\ os' = os
      /\ wish \subseteq {Source}
      /\ marker.saved \in Setting
  BY DEF ReadMarker, MarkerInv, SharedType
<1>1. CASE UNCHANGED <<marker, copy>>
  <2>1. SharedType'
    BY <1>0, <1>1, Zenon DEF SharedType
  <2>2. Source' = Source
    BY <1>0, <1>1 DEF Source, Edited
  <2>3. CASE \E r \in {"ok", "error"} :
                RestoreReturns(r) /\ (r = "ok" => marker.state = "none")
    <3>1. OwnType'
      BY <2>3, OwnTypes
    <3>2. \/ at' = "idle"
          \/ at' = "snapshot" /\ purpose' = "enable" /\ marker.state = "none"
      BY <2>3, RestoreGoes
    <3> QED BY <1>0, <1>1, <2>1, <2>2, <3>1, <3>2, RestKeeps
            DEF MarkerInv, ProxyInv
  <2>4. CASE marker.state = "active" /\ Edited /\ Proceed("remove")
    <3>1. OwnType'
      BY <2>4, OwnTypes DEF Places
    <3>2. at' = "remove" /\ purpose' = purpose
      BY <2>4 DEF Proceed
    <3>3. wish \subseteq {os}
      BY <1>0, <2>4 DEF Source
    <3> QED BY <1>0, <1>1, <2>1, <2>2, <3>1, <3>2, <3>3, RestKeeps
            DEF MarkerInv, ProxyInv, Restores
  <2>5. CASE /\ marker.state \in {"prepared", "active"}
             /\ ~(marker.state = "active" /\ Edited)
             /\ Write(marker.saved)
    <3>1. OwnType'
      BY <1>0, <2>5, OwnTypes
    <3>2. /\ at' = "write" /\ target' = marker.saved /\ todo' = Keys
          /\ purpose' = purpose
      BY <2>5 DEF Write
    <3>3. wish \subseteq {marker.saved}
      BY <1>0, <2>5 DEF Source
    <3>4. MarkerInv'
      BY <1>0, <1>1, <2>5, <3>2 DEF MarkerInv
    <3>5. marker.state = "active" => os = Ours
      <4>1. marker.state = "active" =>
              os.switch = Ours.switch /\ os.address = Ours.address
        BY <2>5 DEF Edited
      <4> QED BY <4>1, SameSetting, SettingsKnown DEF SharedType, Keys
    <3>6. WritingInv'
      BY <1>0, <1>1, <2>5, <3>2, <3>3, <3>5 DEF WritingInv, Restores, Keys
    <3> QED BY <2>1, <3>1, <3>4, <3>6 DEF ProxyInv
  <2> QED BY <1>1, <2>3, <2>4, <2>5 DEF ReadMarker, NoMarker
<1>2. CASE /\ marker.state = "corrupt" /\ platform = "windows"
           /\ marker' = NoMarker
           /\ copy' = TRUE
           /\ IF os.address = "ours" THEN Write(Off) ELSE RestoreReturns("ok")
  <2>1. SharedType'
    <3>1. /\ NoMarker \in [state : {"none", "corrupt", "prepared", "active"},
                           saved : Setting]
      BY SettingsKnown DEF NoMarker
    <3>2. copy' \in BOOLEAN
      BY <1>2
    <3> QED BY <1>0, <1>2, <3>1, <3>2, Zenon DEF SharedType
  <2>2. wish' = {} /\ marker'.state = "none"
    BY <1>2, SettingsKnown DEF MarkerInv
  <2>3. CASE Write(Off)
    <3>1. OwnType'
      BY <2>3, OwnTypes, SettingsKnown
    <3>2. at' = "write" /\ todo' = Keys /\ purpose' = purpose
      BY <2>3 DEF Write
    <3>3. MarkerInv'
      BY <1>2, <2>2, <3>2 DEF MarkerInv
    <3>4. WritingInv'
      BY <1>0, <2>2, <3>2 DEF WritingInv, Restores, Keys
    <3> QED BY <2>1, <3>1, <3>3, <3>4 DEF ProxyInv
  <2>4. CASE RestoreReturns("ok")
    <3>1. OwnType'
      BY <2>4, OwnTypes
    <3>2. \/ at' = "idle"
          \/ at' = "snapshot" /\ purpose' = "enable"
      BY <2>4, RestoreGoes
    <3> QED BY <1>2, <2>1, <2>2, <3>1, <3>2, RestKeeps DEF ProxyInv
  <2> QED BY <1>2, <2>3, <2>4
<1> QED BY <1>1, <1>2 DEF ReadMarker

\* The settings are written, or are not.
LEMMA WritingKeeps ==
    ASSUME ProxyInv, UNCHANGED platform,
           WriteFails \/ (\E k \in Keys : WriteSetting(k)) \/ Written,
           wish' = IF CutShort /\ at' # "write" THEN {} ELSE wish
    PROVE  ProxyInv'
<1> OwnType /\ SharedType /\ MarkerInv /\ WritingInv
  BY DEF ProxyInv
<1>0. at = "write" /\ marker.state # "corrupt" /\ UNCHANGED <<marker, copy>>
  BY DEF WriteFails, WriteSetting, Written, WritingInv
<1>1. ASSUME NEW k \in Keys, WriteSetting(k) PROVE ProxyInv'
  <2>1. /\ os' = [os EXCEPT ![k] = target[k]] /\ todo' = todo \ {k}
        /\ UNCHANGED <<at, purpose, target, result, ready, wish>>
        /\ k \in todo
        /\ platform = "windows" /\ k = "address" => "switch" \notin todo
    BY <1>0, <1>1 DEF WriteSetting
  <2>2. /\ os' \in Setting /\ os'[k] = target[k]
        /\ \A j \in Keys \ {k} : os'[j] = os[j]
    <3>1. os \in Setting /\ target \in Setting
      BY DEF OwnType, SharedType
    <3>2. /\ [os EXCEPT ![k] = target[k]] \in Setting
          /\ [os EXCEPT ![k] = target[k]][k] = target[k]
          /\ \A j \in Keys \ {k} : [os EXCEPT ![k] = target[k]][j] = os[j]
      BY <1>1, <3>1, KeyWritten
    <3> QED BY <2>1, <3>2, Zenon
  <2>3. SharedType'
    BY <1>0, <2>1, <2>2, Zenon DEF SharedType
  <2>4. OwnType'
    <3>1. todo' \in SUBSET Keys
      BY <2>1 DEF OwnType
    <3> QED BY <2>1, <3>1, Zenon DEF OwnType
  <2>5. MarkerInv'
    BY <1>0, <2>1 DEF MarkerInv
  <2>6. WritingInv'
    <3>1. \A j \in Keys \ todo' : os'[j] = target'[j]
      BY <1>0, <2>1, <2>2 DEF WritingInv
    <3>2. platform' = "windows" /\ "switch" \in todo' => "address" \in todo'
      BY <1>0, <2>1 DEF WritingInv, Keys
    <3>3. todo' # Keys
      BY <2>1
    <3> QED BY <1>0, <2>1, <2>4, <3>1, <3>2, <3>3
            DEF WritingInv, OwnType, Restores
  <2> QED BY <2>3, <2>4, <2>5, <2>6 DEF ProxyInv
<1>2. CASE WriteFails
  <2>1. os' = os
    BY <1>2 DEF WriteFails
  <2>2. wish' \in {wish, {}} /\ at' # "write"
    BY <1>2 DEF WriteFails, Return
  <2>3. SharedType'
    <3>1. wish' \in SUBSET Setting
      BY <2>2 DEF SharedType
    <3> QED BY <1>0, <2>1, <3>1, Zenon DEF SharedType
  <2>4. OwnType'
    <3>1. CASE platform = "linux" /\ purpose = "enable"
      <4>1. at' \in Places /\ purpose' \in Purposes
        BY <1>2, <3>1 DEF WriteFails, Places, Purposes
      <4> QED BY <1>2, <3>1, <4>1, Zenon DEF WriteFails, OwnType
    <3>2. CASE ~(platform = "linux" /\ purpose = "enable")
      BY <1>2, <3>2, OwnTypes DEF WriteFails
    <3> QED BY <3>1, <3>2
  <2>5. at' = "idle" \/ (at' = "read" /\ purpose' = "undo")
    BY <1>2 DEF WriteFails, Return
  <2>6. wish' \subseteq {Source}
    <3>1. CASE CutShort
      BY <2>2, <3>1
    <3>2. CASE ~CutShort /\ marker.state # "active"
      BY <1>0, <2>2, <3>2 DEF WritingInv, Source
    <3>3. CASE ~CutShort /\ marker.state = "active"
      <4>1. Restores /\ target = marker.saved /\ wish \subseteq {target}
        BY <1>0, <3>3 DEF WritingInv
      <4>2. todo = Keys \/ todo = {}
        <5>1. platform = "windows" /\ todo # {"address"}
          BY <1>0, <3>3, <4>1 DEF MarkerInv, CutShort, Restores
        <5> QED BY <1>0, <5>1 DEF WritingInv, Keys
      <4>3. CASE todo = Keys
        <5>1. ~Edited
          BY <1>0, <3>3, <4>3 DEF WritingInv, Edited
        <5> QED BY <2>2, <3>3, <4>1, <5>1 DEF Source
      <4>4. CASE todo = {}
        <5>1. os = target
          BY <1>0, <4>4, SameSetting DEF WritingInv, OwnType, SharedType
        <5> QED BY <2>2, <3>3, <4>1, <5>1 DEF Source
      <4> QED BY <4>2, <4>3, <4>4
    <3> QED BY <3>1, <3>2, <3>3
  <2>7. Source' = Source
    BY <1>0, <2>1 DEF Source, Edited
  <2>8. MarkerInv' /\ WritingInv'
    BY <1>0, <2>2, <2>5, <2>6, <2>7, RestKeeps DEF MarkerInv, Restores
  <2> QED BY <2>3, <2>4, <2>8 DEF ProxyInv
<1>3. CASE Written
  <2>0. UNCHANGED <<os, wish>> /\ todo = {}
    BY <1>3 DEF Written, CutShort
  <2>1. SharedType'
    BY <1>0, <2>0, Zenon DEF SharedType
  <2>2. os = target
    BY <1>0, <2>0, SameSetting DEF WritingInv, OwnType, SharedType
  <2>3. Source' = Source
    BY <1>0, <2>0 DEF Source, Edited
  <2>4. CASE purpose # "enable" /\ marker # NoMarker /\ Proceed("remove")
    <3>1. OwnType'
      BY <2>4, OwnTypes DEF Places
    <3>2. at' = "remove" /\ purpose' = purpose
      BY <2>4 DEF Proceed
    <3>3. marker.state # "none" /\ marker.saved = os /\ wish \subseteq {os}
      BY <1>0, <2>2, <2>4 DEF MarkerInv, WritingInv, Restores
    <3>4. wish' \subseteq {Source'}
      BY <2>0, <2>3, <3>3 DEF Source
    <3> QED BY <1>0, <2>0, <2>1, <2>4, <3>1, <3>2, <3>3, <3>4, RestKeeps
            DEF MarkerInv, ProxyInv, Restores
  <2>5. CASE purpose # "enable" /\ marker = NoMarker /\ RestoreReturns("ok")
    <3>1. OwnType'
      BY <2>5, OwnTypes
    <3>2. \/ at' = "idle"
          \/ at' = "snapshot" /\ purpose' = "enable"
      BY <2>5, RestoreGoes
    <3>3. marker.state = "none"
      BY <2>5, SettingsKnown
    <3>4. wish = {}
      BY <1>0, <2>5, <3>3 DEF WritingInv, Restores
    <3> QED BY <1>0, <2>0, <2>1, <2>5, <3>1, <3>2, <3>3, <3>4, RestKeeps
            DEF ProxyInv
  <2>6. ASSUME purpose = "enable" PROVE ProxyInv'
    <3>1. target = Ours /\ marker.state = "prepared"
          /\ wish \subseteq {marker.saved}
      BY <1>0, <2>6 DEF WritingInv, Restores
    <3>2. wish' \subseteq {Source'}
      BY <2>0, <2>3, <3>1 DEF Source
    <3>3. CASE Return("ok")
      <4>1. OwnType' /\ at' = "idle"
        BY <3>3, OwnTypes DEF Return
      <4> QED BY <1>0, <2>1, <3>1, <3>2, <4>1, RestKeeps DEF ProxyInv
    <3>4. CASE Proceed("commit") /\ platform = "windows"
      <4>1. OwnType'
        BY <3>4, OwnTypes DEF Places
      <4>2. at' = "commit" /\ purpose' = "enable"
        BY <2>6, <3>4 DEF Proceed
      <4>3. MarkerInv'
        BY <1>0, <2>0, <2>2, <3>1, <3>2, <3>4, <4>2 DEF MarkerInv
      <4> QED BY <2>1, <4>1, <4>2, <4>3 DEF ProxyInv, WritingInv
    <3> QED BY <1>3, <2>6, <3>3, <3>4 DEF Written
  <2> QED BY <1>3, <2>4, <2>5, <2>6 DEF Written
<1> QED BY <1>1, <1>2, <1>3

\* The marker is removed, written or committed.
LEMMA MarkerKeeps ==
    ASSUME ProxyInv, UNCHANGED platform,
           RemoveMarker \/ TakeSnapshot \/ Commit,
           wish' = IF Overwrites /\ at' = "write" THEN {} ELSE wish
    PROVE  ProxyInv'
<1> OwnType /\ SharedType /\ MarkerInv /\ WritingInv
  BY DEF ProxyInv
<1>0. /\ at \in {"remove", "snapshot", "commit"} /\ UNCHANGED <<os, copy>>
      /\ wish' \in {wish, {}} /\ wish \subseteq {Source}
  BY DEF RemoveMarker, TakeSnapshot, Commit, MarkerInv
<1>1. /\ copy' \in BOOLEAN
      /\ wish' \in SUBSET Setting /\ os' \in Setting /\ platform' \in Platforms
  <2>1. copy' \in BOOLEAN
    BY <1>0, Zenon DEF SharedType
  <2> QED BY <1>0, <2>1 DEF SharedType
<1>2. CASE /\ marker' = marker
           /\ (Return("error") /\ at # "remove") \/ RestoreReturns("error")
  <2>1. OwnType'
    BY <1>2, OwnTypes
  <2>2. at' = "idle"
    BY <1>2, RestoreGoes DEF Return
  <2>3. SharedType'
    BY <1>1, <1>2, Zenon DEF SharedType
  <2>4. Source' = Source
    BY <1>0, <1>2 DEF Source, Edited
  <2> QED BY <1>0, <1>2, <2>1, <2>2, <2>3, <2>4, RestKeeps
          DEF MarkerInv, ProxyInv
<1>3. CASE at = "remove" /\ marker' = NoMarker /\ RestoreReturns("ok")
  <2>1. OwnType'
    BY <1>3, OwnTypes
  <2>2. \/ at' = "idle"
        \/ at' = "snapshot" /\ purpose' = "enable"
    BY <1>3, RestoreGoes
  <2>3. NoMarker \in [state : {"none", "corrupt", "prepared", "active"},
                      saved : Setting]
    BY SettingsKnown DEF NoMarker
  <2>4. SharedType'
    BY <1>1, <1>3, <2>3, Zenon DEF SharedType
  <2>5. wish' \subseteq {Source'}
    BY <1>0, <1>3, SettingsKnown DEF Source, MarkerInv
  <2> QED BY <1>3, <2>1, <2>2, <2>4, <2>5, SettingsKnown, RestKeeps
          DEF ProxyInv
<1>4. CASE /\ at = "snapshot"
           /\ marker' = [state |-> "prepared", saved |-> os] /\ Write(Ours)
  <2>1. OwnType'
    BY <1>4, OwnTypes, SettingsKnown
  <2>2. /\ marker' \in [state : {"none", "corrupt", "prepared", "active"},
                        saved : Setting]
        /\ marker'.state = "prepared" /\ marker'.saved = os
    BY <1>4, MarkersKnown DEF SharedType
  <2>3. SharedType'
    BY <1>1, <2>2, Zenon DEF SharedType
  <2>4. /\ at' = "write" /\ target' = Ours /\ todo' = Keys
        /\ purpose' = "enable"
    BY <1>4 DEF Write, MarkerInv
  <2>5. MarkerInv'
    BY <2>2, <2>4 DEF MarkerInv
  <2>6. wish' \subseteq {marker'.saved}
    BY <1>0, <1>4, <2>2, <2>4 DEF Overwrites, Source
  <2>7. WritingInv'
    BY <2>2, <2>4, <2>6 DEF WritingInv, Restores, Keys
  <2> QED BY <2>1, <2>3, <2>5, <2>7 DEF ProxyInv
<1>5. CASE /\ at = "commit"
           /\ marker' = [marker EXCEPT !.state = "active"] /\ Return("ok")
  <2>0. platform = "windows"
    BY <1>5 DEF MarkerInv
  <2>1. OwnType'
    BY <1>5, OwnTypes
  <2>2. /\ marker' \in [state : {"none", "corrupt", "prepared", "active"},
                        saved : Setting]
        /\ marker'.state = "active" /\ marker'.saved = marker.saved
    BY <1>5 DEF SharedType
  <2>3. SharedType'
    BY <1>1, <2>2, Zenon DEF SharedType
  <2>4. at' = "idle"
    BY <1>5 DEF Return
  <2>5. ~Edited' /\ marker.state = "prepared"
    BY <1>0, <1>5 DEF Edited, MarkerInv
  <2>6. wish' \subseteq {Source'}
    BY <1>0, <2>2, <2>5 DEF Source
  <2> QED BY <2>0, <2>1, <2>2, <2>3, <2>4, <2>6, RestKeeps DEF ProxyInv
<1> QED BY <1>2, <1>3, <1>4, <1>5 DEF RemoveMarker, TakeSnapshot, Commit

\* A step of whichever function is under way.
LEMMA ProxyStepKeeps ==
    ASSUME ProxyInv, ProxyStep
    PROVE  ProxyInv'
<1>1. UNCHANGED platform
  BY DEF ProxyStep
<1>2. CASE ReadMarker
  <2>1. wish' = wish
    BY <1>2 DEF ProxyStep, ReadMarker, CutShort, Overwrites
  <2> QED BY <1>1, <1>2, <2>1, ReadMarkerKeeps
<1>3. CASE WriteFails \/ (\E k \in Keys : WriteSetting(k)) \/ Written
  <2>1. at = "write"
    BY <1>3 DEF WriteFails, WriteSetting, Written
  <2>2. wish' = IF CutShort /\ at' # "write" THEN {} ELSE wish
    BY <2>1 DEF ProxyStep, Overwrites
  <2> QED BY <1>1, <1>3, <2>2, WritingKeeps
<1>4. CASE RemoveMarker \/ TakeSnapshot \/ Commit
  <2>1. at # "write"
    BY <1>4 DEF RemoveMarker, TakeSnapshot, Commit
  <2>2. wish' = IF Overwrites /\ at' = "write" THEN {} ELSE wish
    BY <2>1 DEF ProxyStep, CutShort
  <2> QED BY <1>1, <1>4, <2>2, MarkerKeeps
<1> QED BY <1>2, <1>3, <1>4 DEF ProxyStep

LEMMA ProxyInvInit == ProxyInit => ProxyInv
<1> SUFFICES ASSUME ProxyInit PROVE ProxyInv
  OBVIOUS
<1>1. OwnType
  <2>1. ready \in BOOLEAN
    BY DEF ProxyInit
  <2>2. at \in Places /\ purpose \in Purposes
    BY DEF ProxyInit, Places, Purposes
  <2> QED BY <2>1, <2>2, SettingsKnown DEF ProxyInit, OwnType
<1>2. /\ os \in Setting /\ wish \in SUBSET Setting
      /\ marker \in [state : {"none", "corrupt", "prepared", "active"},
                     saved : Setting]
      /\ marker.state \in {"none", "corrupt"}
      /\ marker.state = "none" => marker = NoMarker /\ wish = {os}
      /\ marker.state = "corrupt" => wish = {}
      /\ at \in {"idle", "read"} /\ Restores
  <2>1. CASE marker = NoMarker /\ wish = {os} /\ at = "idle"
               /\ os \in [switch : {"on", "off"}, address : {"user"}]
               /\ purpose = "restore"
    BY <2>1 DEF Setting, NoMarker, Off, Restores
  <2>2. CASE marker = [NoMarker EXCEPT !.state = "corrupt"] /\ wish = {}
               /\ os = Ours /\ at = "read" /\ purpose = "launch"
    BY <2>2 DEF Setting, NoMarker, Off, Ours, Restores
  <2> QED BY <2>1, <2>2 DEF ProxyInit
<1>3. SharedType
  <2>1. copy \in BOOLEAN
    BY DEF ProxyInit
  <2> QED BY <1>2, <2>1, Zenon DEF ProxyInit, SharedType
<1>4. MarkerInv
  BY <1>2 DEF MarkerInv, Source
<1>5. WritingInv
  BY <1>2 DEF WritingInv
<1> QED BY <1>1, <1>3, <1>4, <1>5 DEF ProxyInv

\* A restore that reports success has put the user's settings in place.
LEMMA RestoreExactStep ==
    ASSUME ProxyInv, ProxyStep \/ EnableBegin \/ RestoreBegin \/ UserEdits
                       \/ ProxyCrash,
           RestoreOk
    PROVE  wish \subseteq {os'}
<1> SharedType /\ MarkerInv /\ WritingInv
  BY DEF ProxyInv
<1>0. /\ at # "idle" /\ at' = "idle" /\ purpose \in {"restore", "launch"}
      /\ result' = "ok"
  BY DEF RestoreOk
<1>1. ReadMarker \/ Written \/ RemoveMarker
  <2>1. ProxyStep
    BY <1>0 DEF EnableBegin, RestoreBegin, UserEdits, ProxyCrash
  <2>2. ~WriteFails /\ ~TakeSnapshot /\ ~Commit
    <3>1. ~WriteFails
      BY <1>0 DEF WriteFails, Return
    <3>2. at # "snapshot" /\ at # "commit"
      BY <1>0 DEF MarkerInv
    <3> QED BY <3>1, <3>2 DEF TakeSnapshot, Commit
  <2>3. \A k \in Keys : ~WriteSetting(k)
    BY <1>0 DEF WriteSetting
  <2> QED BY <2>1, <2>2, <2>3 DEF ProxyStep
<1>2. CASE ReadMarker
  <2>1. os' = os
    BY <1>2 DEF ReadMarker
  <2>2. marker.state \in {"none", "corrupt"}
    BY <1>0, <1>2 DEF ReadMarker, RestoreReturns, Return, Proceed, Write
  <2> QED BY <1>2, <2>1, <2>2 DEF ReadMarker, MarkerInv, Source
<1>3. CASE Written
  <2>1. marker = NoMarker
    BY <1>0, <1>3 DEF Written, Proceed
  <2>2. at = "write" /\ Restores
    BY <1>0, <1>3 DEF Written, Restores
  <2> QED BY <2>1, <2>2, SettingsKnown DEF WritingInv
<1>4. CASE RemoveMarker
  BY <1>4 DEF RemoveMarker, MarkerInv
<1> QED BY <1>1, <1>2, <1>3, <1>4

-----------------------------------------------------------------------------
(* The settings                                                            *)

Results == {"fine", "failed", "odd"}
Legacies == {"none", "failed", "odd"}

\* A document of which one field is changed.
LEMMA DocChanged ==
    ASSUME NEW d \in Doc, NEW b \in BOOLEAN
    PROVE  /\ [d EXCEPT !.launch = b] \in Doc
           /\ [d EXCEPT !.launch = b].wfp = d.wfp
           /\ [d EXCEPT !.launch = b].raw = d.raw
           /\ [d EXCEPT !.engine = b] \in Doc
           /\ [d EXCEPT !.engine = b].wfp = d.wfp
           /\ [d EXCEPT !.engine = b].raw = d.raw
  BY DEF Doc

LEMMA RawChanged ==
    ASSUME NEW d \in Doc, NEW b \in BOOLEAN
    PROVE  /\ [d EXCEPT !.raw = b] \in Doc
           /\ [d EXCEPT !.raw = b].wfp = d.wfp
           /\ [d EXCEPT !.raw = b].raw = b
  BY DEF Doc

\* A document of which the result of the trial is.
LEMMA ResultChanged ==
    ASSUME NEW d \in Doc, NEW w \in Results
    PROVE  /\ [d EXCEPT !.wfp = w] \in Doc
           /\ [d EXCEPT !.wfp = w].wfp = w
           /\ [d EXCEPT !.wfp = w].raw = d.raw
  BY DEF Doc, Results

\* A document of which two fields are.
LEMMA DocChangedTwice ==
    ASSUME NEW d \in Doc, NEW b \in BOOLEAN, NEW e \in BOOLEAN
    PROVE  /\ [d EXCEPT !.launch = b, !.engine = e] \in Doc
           /\ [d EXCEPT !.launch = b, !.engine = e].wfp = d.wfp
           /\ [d EXCEPT !.launch = b, !.engine = e].raw = d.raw
  BY DEF Doc

LEMMA DocFields ==
    ASSUME NEW d \in Doc
    PROVE  /\ d.wfp \in Results /\ d.launch \in BOOLEAN
           /\ d.engine \in BOOLEAN /\ d.raw \in BOOLEAN
  BY DEF Doc, Results

\* What reload makes of a document: it stays as it is the next time, and a
\* trial that failed is still one.
LEMMA AcceptedKnown ==
    ASSUME NEW d \in Doc
    PROVE  /\ Accepted(d) \in Doc
           /\ ~Accepted(d).raw
           /\ Accepted(d).wfp = "failed" <=> d.wfp = "failed"
           /\ Accepted(Accepted(d)) = Accepted(d)
<1> DEFINE w == IF d.wfp = "odd" THEN "fine" ELSE d.wfp
           a == [d EXCEPT !.raw = FALSE, !.wfp = w]
<1>1. w \in Results /\ w # "odd" /\ (w = "failed" <=> d.wfp = "failed")
  BY DocFields DEF Results
<1> HIDE DEF w
<1>2. Accepted(d) = a
  BY DEF Accepted, w
<1>3. a \in Doc /\ ~a.raw /\ a.wfp = w
  BY <1>1 DEF Doc, Results
<1>4. [a EXCEPT !.raw = FALSE, !.wfp = w] = a
  BY <1>1 DEF Doc, Results
<1>5. Accepted(a) = [a EXCEPT !.raw = FALSE, !.wfp = w]
  <2> HIDE DEF a
  <2> QED BY <1>1, <1>3 DEF Accepted
<1> HIDE DEF a
<1> QED BY <1>1, <1>2, <1>3, <1>4, <1>5

LEMMA DocsKnown ==
    /\ DefaultSettings \in Doc /\ ~DefaultSettings.raw
    /\ OlderSettings \in Doc
    /\ legacy \in Legacies /\ legacy # "none" =>
          MigratedSettings \in Doc /\ ~MigratedSettings.raw
<1>1. DefaultSettings \in Doc /\ ~DefaultSettings.raw
  BY DEF DefaultSettings, Doc
<1>2. OlderSettings \in Doc
  BY DEF DefaultSettings, OlderSettings, Doc
<1>3. ASSUME legacy \in Legacies, legacy # "none"
      PROVE  MigratedSettings \in Doc /\ ~MigratedSettings.raw
  <2>1. legacy \in Results
    BY <1>3 DEF Legacies, Results
  <2> QED BY <1>1, <2>1, ResultChanged DEF MigratedSettings
<1> QED BY <1>1, <1>2, <1>3

\* The files there may be.
LEMMA FilesKnown ==
    /\ NoFile \in Files /\ Corrupt \in Files
    /\ \A d \in Doc : /\ Holds(d) \in Files
                      /\ Holds(d).state = "whole" /\ Holds(d).doc = d
    /\ \A f \in Files : /\ f.doc \in Doc
                        /\ f.state \in {"none", "corrupt", "whole"}
<1>1. ASSUME NEW d \in Doc
      PROVE  Holds(d).state = "whole" /\ Holds(d).doc = d
  BY DEF Holds
<1>2. ASSUME NEW f \in Files
      PROVE  /\ f.doc \in Doc
             /\ f.state \in {"none", "corrupt", "whole"}
  <2>1. CASE f = NoFile \/ f = Corrupt
    BY <2>1, DocsKnown DEF NoFile, Corrupt
  <2>2. ASSUME NEW d \in Doc, f = Holds(d)
        PROVE  /\ f.doc \in Doc
               /\ f.state \in {"none", "corrupt", "whole"}
    BY <1>1, <2>2
  <2> QED BY <2>1, <2>2 DEF Files
<1> QED BY <1>1, <1>2 DEF Files

\* What a start of the program makes of the file.
LEMMA LoadedKnown ==
    ASSUME legacy \in Legacies, NEW f \in Files, NEW loaded \in Loaded(f)
    PROVE  /\ loaded.mem \in Doc /\ loaded.file \in Files
           /\ ~loaded.mem.raw
           /\ f.state = "whole" => /\ loaded.mem = Accepted(f.doc)
                                   /\ loaded.file = f
<1>0. f.doc \in Doc
  BY FilesKnown
<1>1. CASE f.state = "whole"
  <2>1. loaded.mem = Accepted(f.doc) /\ loaded.file = f
    BY <1>1 DEF Loaded
  <2> QED BY <1>0, <2>1, AcceptedKnown
<1>2. CASE f.state # "whole" /\ f.state = "none" /\ legacy # "none"
  BY <1>2, FilesKnown, DocsKnown DEF Loaded
<1>3. CASE f.state # "whole" /\ ~(f.state = "none" /\ legacy # "none")
  BY <1>3, DocsKnown DEF Loaded
<1> QED BY <1>1, <1>2, <1>3

Saves == {"plain", "migrate", "rollback"}
Migrations == [applied : BOOLEAN, backed : BOOLEAN]
Verdicts == {"unknown", "failed", "healthy"}
Requests == {"on", "off", "engine"}

LEMMA SettingsTypeParts ==
    SettingsTypeOK <=>
        /\ mem \in Doc /\ seen \in Doc /\ file \in Files /\ backup \in Files
        /\ migration \in Migrations /\ legacy \in Legacies
        /\ startup \in BOOLEAN /\ asked \in SUBSET Requests
        /\ saving \in {"no"} \cup Saves
        /\ saved_ok \in BOOLEAN /\ verdict \in Verdicts
<1>1. {"no"} \cup Saves = {"no", "plain", "migrate", "rollback"}
  BY DEF Saves
<1> QED BY <1>1, Zenon DEF SettingsTypeOK, Migrations, Legacies, Verdicts, Requests

\* A call that changes the memory and has yet to save it.
LEMMA ChangeKeeps ==
    ASSUME SettingsTypeOK, SettingsInv,
           NEW doc \in Doc, NEW kind \in Saves, Change(doc, kind),
           backup' \in Files, migration' \in Migrations,
           asked' \in SUBSET Requests, verdict' \in Verdicts,
           \/ verdict' = verdict /\ doc.wfp = mem.wfp
           \/ verdict' = "unknown"
           \/ verdict' = "failed" /\ doc.wfp = "failed"
           \/ verdict' = "healthy" /\ doc.wfp # "failed"
    PROVE  SettingsTypeOK' /\ SettingsInv'
<1>1. SettingsTypeOK'
  <2>1. mem' \in Doc /\ saving' \in {"no"} \cup Saves
    BY DEF Change
  <2>2. UNCHANGED <<file, legacy, seen, startup, saved_ok>>
    BY DEF Change
  <2> QED BY <2>1, <2>2, SettingsTypeParts, Zenon
          DEF SettingsTypeOK, Migrations, Legacies, Verdicts, Requests, Saves
<1>2. SettingsInv'
  <2>1. mem' = doc /\ saving' # "no" /\ UNCHANGED <<file, saved_ok>>
    BY DEF Change, Saves
  <2>2. VerdictInv'
    BY <2>1 DEF SettingsInv, VerdictInv
  <2> QED BY <2>1, <2>2 DEF SettingsInv
<1> QED BY <1>1, <1>2

\* The calls that change the settings.
LEMMA SettingsCallsKeep ==
    ASSUME SettingsTypeOK, SettingsInv,
           \/ \E next \in Edits, retry \in BOOLEAN : Update(next, retry)
           \/ UpdatePart
           \/ \E failed \in BOOLEAN : SetFailed(failed)
           \/ \E call \in asked : AutostartLocked(call)
           \/ StopAutoEngine
           \/ MigrateLegacy \/ RollbackLegacyMigration
    PROVE  SettingsTypeOK' /\ SettingsInv'
<1>0. /\ mem \in Doc /\ seen \in Doc /\ file \in Files /\ backup \in Files
      /\ migration \in Migrations /\ legacy \in Legacies
      /\ asked \in SUBSET Requests /\ verdict \in Verdicts
  BY SettingsTypeParts
<1>1. \A doc : Ordinary(doc) =>
        Change(doc, "plain") /\ backup' \in Files /\ migration' \in Migrations
  BY <1>0 DEF Ordinary
<1> USE DEF Saves
<1>2. ASSUME NEW next \in Edits, NEW retry \in BOOLEAN, Update(next, retry)
      PROVE  SettingsTypeOK' /\ SettingsInv'
  <2>1. next \in Doc
    <3>1. (~seen.engine) \in BOOLEAN
      OBVIOUS
    <3>2. [seen EXCEPT !.engine = ~seen.engine] \in Doc
      BY <1>0, <3>1, DocChanged
    <3>3. [seen EXCEPT !.raw = FALSE] \in Doc
      BY <1>0, RawChanged
    <3> QED BY <1>0, <3>2, <3>3 DEF Edits
  <2> DEFINE w == IF retry THEN "fine" ELSE mem.wfp
             doc == [next EXCEPT !.wfp = w]
  <2>2. w \in Results
    BY <1>0, DocFields DEF Results
  <2>3. doc \in Doc /\ doc.wfp = w
    <3> HIDE DEF w
    <3> QED BY <2>1, <2>2, ResultChanged
  <2>4. Change(doc, "plain") /\ backup' \in Files /\ migration' \in Migrations
    BY <1>1, <1>2 DEF Update
  <2>5. /\ asked' = asked
        /\ verdict' = IF retry THEN "unknown" ELSE verdict
    BY <1>2, Zenon DEF Update
  <2> HIDE DEF doc
  <2>6. verdict' = "unknown" \/ (verdict' = verdict /\ doc.wfp = mem.wfp)
    BY <2>3, <2>5
  <2>7. verdict' \in Verdicts
    BY <1>0, <2>6 DEF Verdicts
  <2> QED BY <1>0, <2>3, <2>4, <2>5, <2>6, <2>7, ChangeKeeps
<1>3. CASE UpdatePart
  <2>1. PICK raw \in {mem.raw, FALSE} : Ordinary([mem EXCEPT !.raw = raw])
    BY <1>3 DEF UpdatePart
  <2> DEFINE doc == [mem EXCEPT !.raw = raw]
  <2>2. doc \in Doc /\ doc.wfp = mem.wfp
    <3>1. raw \in BOOLEAN
      BY <1>0, DocFields
    <3>2. mem \in Doc
      BY <1>0
    <3> QED BY ONLY <3>1, <3>2, RawChanged
  <2> HIDE DEF doc
  <2>3. /\ Change(doc, "plain") /\ backup' \in Files /\ migration' \in Migrations
        /\ UNCHANGED <<asked, verdict>>
    BY <1>1, <1>3, <2>1 DEF UpdatePart, doc
  <2> QED BY <1>0, <2>2, <2>3, ChangeKeeps
<1>4. ASSUME NEW failed \in BOOLEAN, SetFailed(failed)
      PROVE  SettingsTypeOK' /\ SettingsInv'
  <2> DEFINE w == IF failed THEN "failed" ELSE "fine"
             doc == [mem EXCEPT !.wfp = w]
  <2>1. doc \in Doc /\ doc.wfp = w
    <3>1. w \in Results
      BY DEF Results
    <3> HIDE DEF w
    <3> QED BY <1>0, <3>1, ResultChanged
  <2>2. Change(doc, "plain") /\ backup' \in Files /\ migration' \in Migrations
    BY <1>1, <1>4 DEF SetFailed
  <2>3. /\ asked' = asked
        /\ failed => verdict' = "failed"
        /\ ~failed => verdict' = "healthy"
    BY <1>4, Zenon DEF SetFailed
  <2>4. verdict' \in Verdicts
    BY <2>3 DEF Verdicts
  <2> HIDE DEF doc
  <2> QED BY <1>0, <2>1, <2>2, <2>3, <2>4, ChangeKeeps
<1>5. ASSUME NEW call \in asked, AutostartLocked(call)
      PROVE  SettingsTypeOK' /\ SettingsInv'
  <2>1. PICK doc \in Doc : Ordinary(doc) /\ doc.wfp = mem.wfp
    <3>1. CASE call = "on"
      BY <1>0, <1>5, <3>1, DocChanged DEF AutostartLocked
    <3>2. CASE call = "off"
      BY <1>0, <1>5, <3>2, DocChangedTwice DEF AutostartLocked
    <3>3. CASE call = "engine"
      BY <1>0, <1>5, <3>3, DocChangedTwice DEF AutostartLocked
    <3> QED BY <1>0, <3>1, <3>2, <3>3 DEF Requests
  <2>2. asked' \in SUBSET Requests /\ verdict' = verdict
    BY <1>0, <1>5 DEF AutostartLocked
  <2> QED BY <1>0, <1>1, <2>1, <2>2, ChangeKeeps
<1>6. CASE StopAutoEngine
  <2>1. PICK doc \in Doc : Ordinary(doc) /\ doc.wfp = mem.wfp
    BY <1>0, <1>6, DocChanged DEF StopAutoEngine
  <2>2. UNCHANGED <<asked, verdict>>
    BY <1>6 DEF StopAutoEngine
  <2> QED BY <1>0, <1>1, <2>1, <2>2, ChangeKeeps
<1>7. CASE MigrateLegacy
  <2>1. /\ Change(MigratedSettings, "migrate") /\ verdict' = "unknown"
        /\ asked' = asked /\ backup' \in {backup, file}
    BY <1>7 DEF MigrateLegacy
  <2>2. migration' \in Migrations
    BY <1>0, <1>7 DEF MigrateLegacy, Migrations
  <2>3. verdict' \in Verdicts /\ backup' \in Files
    BY <1>0, <2>1 DEF Verdicts
  <2>4. MigratedSettings \in Doc
    BY <1>0, <1>7, DocsKnown DEF MigrateLegacy
  <2> QED BY <1>0, <2>1, <2>2, <2>3, <2>4, ChangeKeeps
<1>8. CASE RollbackLegacyMigration
  <2>1. PICK doc \in {backup.doc, DefaultSettings} : Change(doc, "rollback")
    BY <1>8 DEF RollbackLegacyMigration
  <2>2. doc \in Doc
    BY <1>0, DocsKnown, FilesKnown
  <2>3. verdict' = "unknown" /\ UNCHANGED <<asked, backup, migration>>
    BY <1>8 DEF RollbackLegacyMigration
  <2>4. verdict' \in Verdicts
    BY <2>3 DEF Verdicts
  <2> QED BY <1>0, <2>1, <2>2, <2>3, <2>4, ChangeKeeps
<1> QED BY <1>2, <1>3, <1>4, <1>5, <1>6, <1>7, <1>8

\* The others, and the death of the program.
LEMMA SettingsOthersKeep ==
    ASSUME SettingsTypeOK, SettingsInv,
           \/ Get
           \/ \E enabled \in BOOLEAN : SetAutostart(enabled)
           \/ AskEngine
           \/ SaveOk \/ SaveFails
           \/ SettingsRestart
           \/ UNCHANGED settingsVars
    PROVE  SettingsTypeOK' /\ SettingsInv'
<1>0. /\ mem \in Doc /\ seen \in Doc /\ file \in Files /\ backup \in Files
      /\ migration \in Migrations /\ legacy \in Legacies
      /\ startup \in BOOLEAN /\ asked \in SUBSET Requests
      /\ saving \in {"no"} \cup Saves
      /\ saved_ok \in BOOLEAN /\ verdict \in Verdicts
  BY SettingsTypeParts
<1>1. ASSUME UNCHANGED <<mem, file, backup, migration, legacy, saving, saved_ok,
                         verdict>>,
             seen' \in Doc, startup' \in BOOLEAN, asked' \in SUBSET Requests
      PROVE  SettingsTypeOK' /\ SettingsInv'
  <2>1. SettingsTypeOK'
    BY <1>0, <1>1, Zenon
    DEF SettingsTypeOK, Migrations, Legacies, Verdicts, Requests, Saves
  <2> QED BY <1>1, <2>1 DEF SettingsInv, VerdictInv
<1>2. CASE Get
  <2>1. (mem.engine /\ startup) \in BOOLEAN
    OBVIOUS
  <2>2. seen' = [[mem EXCEPT !.launch = startup]
                    EXCEPT !.engine = mem.engine /\ startup]
    BY <1>0, <1>2 DEF Get, Doc
  <2>3. seen' \in Doc
    BY <1>0, <2>1, <2>2, DocChanged
  <2> QED BY <1>0, <1>1, <1>2, <2>3 DEF Get
<1>3. ASSUME NEW enabled \in BOOLEAN, SetAutostart(enabled)
      PROVE  SettingsTypeOK' /\ SettingsInv'
  <2>1. startup' \in BOOLEAN
    BY <1>3, Zenon DEF SetAutostart
  <2>2. asked' \in SUBSET Requests
    BY <1>0, <1>3 DEF SetAutostart, Requests
  <2> QED BY <1>0, <1>1, <1>3, <2>1, <2>2 DEF SetAutostart
<1>4. CASE AskEngine
  <2>1. asked' \in SUBSET Requests
    BY <1>0, <1>4 DEF AskEngine, Requests
  <2> QED BY <1>0, <1>1, <1>4, <2>1, Zenon DEF AskEngine
<1>5. CASE UNCHANGED settingsVars
  BY <1>0, <1>1, <1>5, Zenon DEF settingsVars
<1>6. CASE SaveFails
  <2>1. /\ saving' = "no" /\ saved_ok' = FALSE
        /\ UNCHANGED <<mem, file, backup, migration, legacy, seen, startup>>
        /\ UNCHANGED <<asked, verdict>>
    BY <1>6 DEF SaveFails
  <2>2. saving' \in {"no", "plain", "migrate", "rollback"}
    BY <2>1
  <2>3. SettingsTypeOK'
    BY <1>0, <2>1, <2>2, Zenon
    DEF SettingsTypeOK, Migrations, Legacies, Verdicts, Requests
  <2> QED BY <2>1, <2>3 DEF SettingsInv, VerdictInv
<1>7. CASE SaveOk
  <2>1. /\ saving' = "no" /\ saved_ok' = TRUE /\ file' = Holds(mem)
        /\ UNCHANGED <<mem, backup, legacy, seen, startup, asked, verdict>>
    BY <1>7 DEF SaveOk
  <2>2. saving' \in {"no", "plain", "migrate", "rollback"}
    BY <2>1
  <2>3. migration' \in Migrations
    <3>1. /\ [migration EXCEPT !.applied = TRUE] \in Migrations
          /\ [migration EXCEPT !.applied = FALSE] \in Migrations
      BY <1>0 DEF Migrations
    <3>2. migration' \in {migration, [migration EXCEPT !.applied = TRUE],
                          [migration EXCEPT !.applied = FALSE]}
      BY <1>7 DEF SaveOk
    <3> QED BY <1>0, <3>1, <3>2
  <2>4. file' \in Files /\ file'.state = "whole" /\ file'.doc = mem
    BY <1>0, <2>1, FilesKnown
  <2>5. SettingsTypeOK'
    BY <1>0, <2>1, <2>2, <2>3, <2>4, Zenon
    DEF SettingsTypeOK, Migrations, Legacies, Verdicts, Requests
  <2> QED BY <2>1, <2>4, <2>5 DEF SettingsInv, VerdictInv
<1>8. CASE SettingsRestart
  <2>1. PICK loaded \in Loaded(file) : mem' = loaded.mem /\ file' = loaded.file
    BY <1>8 DEF SettingsRestart
  <2>2. /\ mem' \in Doc /\ file' \in Files
        /\ file.state = "whole" => mem' = Accepted(file.doc) /\ file' = file
    BY <1>0, <2>1, LoadedKnown
  <2>3. /\ seen' = mem' /\ asked' = {} /\ saving' = "no" /\ backup' = NoFile
        /\ verdict' = IF saving = "no" /\ saved_ok THEN verdict ELSE "unknown"
        /\ UNCHANGED <<legacy, startup, saved_ok>>
    BY <1>8 DEF SettingsRestart
  <2>4. migration' \in Migrations
    <3>1. (file.state = "none" /\ legacy # "none") \in BOOLEAN
      OBVIOUS
    <3>2. \A b \in BOOLEAN : [NotMigrated EXCEPT !.applied = b] \in Migrations
      BY DEF NotMigrated, Migrations
    <3> QED BY <1>8, <3>1, <3>2 DEF SettingsRestart
  <2>5. saving' \in {"no", "plain", "migrate", "rollback"} /\ verdict' \in Verdicts
    BY <1>0, <2>3 DEF Verdicts
  <2>6. asked' \in SUBSET Requests /\ backup' \in Files
    BY <2>3, FilesKnown
  <2>7. SettingsTypeOK'
    BY <1>0, <2>2, <2>3, <2>4, <2>5, <2>6, Zenon
    DEF SettingsTypeOK, Migrations, Legacies, Verdicts, Requests
  <2>8. ASSUME saved_ok
        PROVE  /\ file'.state = "whole"
               /\ Accepted(file'.doc) = Accepted(mem')
               /\ saving = "no" => (mem'.wfp = "failed" <=> mem.wfp = "failed")
    <3>1. file.state = "whole" /\ file.doc \in Doc
      BY <1>0, <2>8, FilesKnown DEF SettingsInv
    <3>2. mem' = Accepted(file.doc) /\ file' = file
      BY <2>2, <3>1
    <3>3. Accepted(mem') = Accepted(file.doc)
      BY <3>1, <3>2, AcceptedKnown
    <3>4. saving = "no" => Accepted(file.doc) = Accepted(mem)
      BY <2>8 DEF SettingsInv
    <3>5. Accepted(mem).wfp = "failed" <=> mem.wfp = "failed"
      BY <1>0, AcceptedKnown
    <3> QED BY <3>1, <3>2, <3>3, <3>4, <3>5
  <2>9. VerdictInv'
    BY <2>3, <2>8 DEF SettingsInv, VerdictInv
  <2>10. SettingsInv'
    BY <2>3, <2>8, <2>9 DEF SettingsInv
  <2> QED BY <2>7, <2>10
<1> QED BY <1>2, <1>3, <1>4, <1>5, <1>6, <1>7, <1>8

\* A restart after a save that went well brings back what was saved, but for
\* what reload repairs.
LEMMA RestartKeepsStep ==
    ASSUME SettingsTypeOK, SettingsInv, SettingsRestart,
           saving = "no", saved_ok
    PROVE  mem' = [mem EXCEPT !.raw = FALSE,
                              !.wfp = IF @ = "odd" THEN "fine" ELSE @]
<1>1. PICK loaded \in Loaded(file) : mem' = loaded.mem
  BY DEF SettingsRestart
<1>2. file \in Files /\ legacy \in Legacies
  BY SettingsTypeParts
<1>3. file.state = "whole" /\ Accepted(file.doc) = Accepted(mem)
  BY DEF SettingsInv
<1>4. mem' = Accepted(mem)
  BY <1>1, <1>2, <1>3, LoadedKnown
<1> QED BY <1>4 DEF Accepted

\* Only a rollback brings a document into memory that reload would repair.
LEMMA RawStep ==
    ASSUME SettingsTypeOK,
           SettingsNext \/ SettingsRestart \/ UNCHANGED settingsVars
    PROVE  mem'.raw => mem.raw \/ saving' = "rollback"
<1>0. /\ mem \in Doc /\ seen \in Doc /\ file \in Files
      /\ legacy \in Legacies /\ asked \in SUBSET Requests
  BY SettingsTypeParts
<1>1. ASSUME NEW next \in Edits, NEW retry \in BOOLEAN, Update(next, retry)
      PROVE  ~mem'.raw
  <2> DEFINE w == IF retry THEN "fine" ELSE mem.wfp
             doc == [next EXCEPT !.wfp = w]
  <2>1. next \in Doc
    <3>1. (~seen.engine) \in BOOLEAN
      OBVIOUS
    <3>2. /\ [seen EXCEPT !.engine = ~seen.engine] \in Doc
          /\ [seen EXCEPT !.raw = FALSE] \in Doc
      BY <1>0, <3>1, DocChanged, RawChanged
    <3> QED BY <1>0, <3>2 DEF Edits
  <2>2. w \in Results
    BY <1>0, DocFields DEF Results
  <2>3. mem' = doc /\ ~next.raw
    BY <1>1 DEF Update, Ordinary, Change, ValidSettings
  <2>4. doc.raw = next.raw
    <3> HIDE DEF w
    <3> QED BY <2>1, <2>2, ResultChanged
  <2> HIDE DEF doc
  <2> QED BY <2>3, <2>4
<1>2. ASSUME UpdatePart PROVE mem'.raw => mem.raw
  <2>1. PICK raw \in {mem.raw, FALSE} : mem' = [mem EXCEPT !.raw = raw]
    BY <1>2 DEF UpdatePart, Ordinary, Change
  <2>2. raw \in BOOLEAN
    BY <1>0, DocFields
  <2>3. mem'.raw = raw
    BY <1>0, <2>1, <2>2, RawChanged
  <2> QED BY <2>1, <2>3
<1>3. ASSUME NEW failed \in BOOLEAN, SetFailed(failed) PROVE mem'.raw = mem.raw
  <2> DEFINE w == IF failed THEN "failed" ELSE "fine"
  <2>1. w \in Results
    BY DEF Results
  <2>2. mem' = [mem EXCEPT !.wfp = w]
    BY <1>3 DEF SetFailed, Ordinary, Change
  <2> HIDE DEF w
  <2> QED BY <1>0, <2>1, <2>2, ResultChanged
<1>4. ASSUME NEW call \in asked, AutostartLocked(call) PROVE mem'.raw = mem.raw
  <2> USE DEF AutostartLocked, Ordinary, Change
  <2>1. CASE call = "on"
    BY <1>0, <1>4, <2>1, DocChanged
  <2>2. CASE call = "off"
    BY <1>0, <1>4, <2>2, DocChangedTwice
  <2>3. CASE call = "engine"
    BY <1>0, <1>4, <2>3, DocChangedTwice
  <2> QED BY <1>0, <2>1, <2>2, <2>3 DEF Requests
<1>5. ASSUME StopAutoEngine PROVE mem'.raw = mem.raw
  BY <1>0, <1>5, DocChanged DEF StopAutoEngine, Ordinary, Change
<1>6. ASSUME MigrateLegacy PROVE ~mem'.raw
  BY <1>0, <1>6, DocsKnown DEF MigrateLegacy, Change
<1>7. ASSUME RollbackLegacyMigration PROVE saving' = "rollback"
  BY <1>7 DEF RollbackLegacyMigration, Change
<1>8. ASSUME SettingsRestart PROVE ~mem'.raw
  <2>1. PICK loaded \in Loaded(file) : mem' = loaded.mem
    BY <1>8 DEF SettingsRestart
  <2> QED BY <1>0, <2>1, LoadedKnown
<1>9. ASSUME \/ Get \/ AskEngine \/ SaveOk \/ SaveFails
             \/ \E enabled \in BOOLEAN : SetAutostart(enabled)
             \/ UNCHANGED settingsVars
      PROVE  mem' = mem
  BY <1>9 DEF Get, AskEngine, SaveOk, SaveFails, SetAutostart, settingsVars
<1> QED BY <1>1, <1>2, <1>3, <1>4, <1>5, <1>6, <1>7, <1>8, <1>9
        DEF SettingsNext

LEMMA SettingsInvInit == SettingsInit => SettingsTypeOK /\ SettingsInv
<1> SUFFICES ASSUME SettingsInit PROVE SettingsTypeOK /\ SettingsInv
  OBVIOUS
<1>0. legacy \in Legacies
  BY DEF SettingsInit, Legacies
<1>1. PICK f \in {NoFile, Corrupt, Holds(DefaultSettings), Holds(OlderSettings)} :
         \E loaded \in Loaded(f) :
            /\ mem = loaded.mem /\ file = loaded.file
            /\ migration = [NotMigrated EXCEPT
                              !.applied = (f.state = "none" /\ legacy # "none")]
  BY DEF SettingsInit
<1>2. PICK loaded \in Loaded(f) : mem = loaded.mem /\ file = loaded.file
  BY <1>1
<1>3. mem \in Doc /\ file \in Files
  BY <1>0, <1>1, <1>2, FilesKnown, DocsKnown, LoadedKnown
<1>4. migration \in Migrations
  <2>1. (f.state = "none" /\ legacy # "none") \in BOOLEAN
    OBVIOUS
  <2>2. \A b \in BOOLEAN : [NotMigrated EXCEPT !.applied = b] \in Migrations
    BY DEF NotMigrated, Migrations
  <2> QED BY <1>1, <2>1, <2>2
<1>5. SettingsTypeOK
  BY <1>0, <1>3, <1>4, FilesKnown, SettingsTypeParts
  DEF SettingsInit, Saves, Verdicts
<1> QED BY <1>5 DEF SettingsInit, SettingsInv, VerdictInv

-----------------------------------------------------------------------------
(* The appearance                                                          *)

USE PicturesAssumption

\* What a document says, if it names a picture.
LEMMA LooksKnown ==
    ASSUME NEW d \in Looks
    PROVE  d # NoPicture => d.type \in PictureTypes /\ d.sha \in Contents
  BY DEF Looks

LEMMA PicturesKnown ==
    ASSUME NEW p \in [PictureTypes -> Contents \cup {Absent}],
           NEW t \in PictureTypes, NEW x \in Contents \cup {Absent}
    PROVE  /\ [p EXCEPT ![t] = x] \in [PictureTypes -> Contents \cup {Absent}]
           /\ [p EXCEPT ![t] = x][t] = x
           /\ \A u \in PictureTypes \ {t} : [p EXCEPT ![t] = x][u] = p[u]
  OBVIOUS

LEMMA AppearanceKeeps ==
    ASSUME AppearanceTypeOK, PictureInv,
           AppearanceNext \/ AppearanceRestart \/ UNCHANGED appearanceVars
    PROVE  AppearanceTypeOK' /\ PictureInv'
<1>0. /\ look \in Looks /\ chosen \in Looks
      /\ pictures \in [PictureTypes -> Contents \cup {Absent}]
      /\ look # NoPicture => look.type \in PictureTypes /\ look.sha \in Contents
      /\ chosen # NoPicture =>
            chosen.type \in PictureTypes /\ chosen.sha \in Contents
      /\ NoPicture \in Looks
      /\ torn \in BOOLEAN
  BY LooksKnown DEF AppearanceTypeOK, Looks
<1>1. ASSUME NEW place \in {"picture", "document"}, NEW document \in Looks,
             painting = "no", Paint(place, document),
             place = "picture" => document # NoPicture,
             place = "document" => document = look \/ document = NoPicture
      PROVE  AppearanceTypeOK' /\ PictureInv'
  <2>1. painting' = place /\ chosen' = document
        /\ UNCHANGED <<look, pictures, torn>>
    BY <1>1 DEF Paint
  <2>2. AppearanceTypeOK'
    BY <1>1, <2>1 DEF AppearanceTypeOK
  <2>3. PictureInv'
    BY <1>1, <2>1 DEF PictureInv, BackgroundExists
  <2> QED BY <2>2, <2>3
<1>2. ASSUME NEW type \in PictureTypes, NEW sha \in Contents,
             SavePicture(type, sha)
      PROVE  AppearanceTypeOK' /\ PictureInv'
  <2> DEFINE document == [type |-> type, sha |-> sha]
  <2>1. document \in Looks /\ document # NoPicture
    <3>1. document.sha = sha /\ NoPicture.sha = Absent
      BY DEF NoPicture
    <3> QED BY <3>1 DEF Looks
  <2>2. painting = "no"
        /\ Paint(IF look = document THEN "document" ELSE "picture", document)
    BY <1>2 DEF SavePicture
  <2> HIDE DEF document
  <2> QED BY <1>1, <2>1, <2>2
<1>3. CASE SaveOther \/ SaveSystem
  BY <1>0, <1>1, <1>3 DEF SaveOther, SaveSystem
<1>4. CASE WritePicture
  <2>1. /\ painting = "picture" /\ painting' = "document"
        /\ pictures' = [pictures EXCEPT ![chosen.type] = chosen.sha]
        /\ UNCHANGED <<look, chosen, torn>>
    BY <1>4 DEF WritePicture
  <2>2. chosen # NoPicture
    BY <2>1 DEF PictureInv
  <2>3. /\ pictures' \in [PictureTypes -> Contents \cup {Absent}]
        /\ pictures'[chosen.type] = chosen.sha
        /\ \A u \in PictureTypes \ {chosen.type} : pictures'[u] = pictures[u]
    BY <1>0, <2>1, <2>2, PicturesKnown
  <2>4. AppearanceTypeOK'
    BY <2>1, <2>3 DEF AppearanceTypeOK
  <2>5. BackgroundExists'
    BY <1>0, <2>1, <2>2, <2>3 DEF PictureInv, BackgroundExists
  <2>6. chosen.sha # Absent
    BY <1>0, <2>2
  <2>7. ~torn /\ look # NoPicture => \/ pictures'[look.type] = look.sha
                                     \/ chosen.type = look.type /\ chosen # look
    BY <1>0, <2>1, <2>2, <2>3 DEF PictureInv
  <2> QED BY <2>1, <2>3, <2>4, <2>5, <2>6, <2>7 DEF PictureInv
<1>5. CASE WriteDocument
  <2>1. /\ painting = "document" /\ look' = chosen
        /\ UNCHANGED <<pictures, torn>>
        /\ \/ /\ look # NoPicture /\ chosen = NoPicture
              /\ painting' = "remove" /\ chosen' = look
           \/ painting' = "no" /\ chosen' = NoPicture
    BY <1>5 DEF WriteDocument
  <2>2. AppearanceTypeOK'
    BY <1>0, <2>1 DEF AppearanceTypeOK
  <2>3. PictureInv'
    BY <1>0, <2>1 DEF PictureInv, BackgroundExists
  <2> QED BY <2>2, <2>3
<1>6. CASE RemovePicture
  <2>1. /\ painting = "remove" /\ painting' = "no" /\ chosen' = NoPicture
        /\ UNCHANGED <<look, torn>>
        /\ pictures' \in {pictures, [pictures EXCEPT ![chosen.type] = Absent]}
    BY <1>6 DEF RemovePicture
  <2>2. look = NoPicture /\ chosen # NoPicture
    BY <2>1 DEF PictureInv
  <2>3. pictures' \in [PictureTypes -> Contents \cup {Absent}]
    BY <1>0, <2>1, <2>2, PicturesKnown
  <2>4. AppearanceTypeOK'
    BY <1>0, <2>1, <2>3 DEF AppearanceTypeOK
  <2> QED BY <2>1, <2>2, <2>4 DEF PictureInv, BackgroundExists
<1>7. CASE PaintingEnds
  <2>1. /\ painting' = "no" /\ chosen' = NoPicture
        /\ UNCHANGED <<look, pictures>>
        /\ torn' <=> \/ torn
                     \/ painting = "document" /\ chosen # look
                          /\ chosen.type = look.type
        /\ torn' \in BOOLEAN
    BY <1>7 DEF PaintingEnds
  <2>2. AppearanceTypeOK'
    BY <1>0, <2>1 DEF AppearanceTypeOK
  <2>3. BackgroundExists'
    <3>1. painting \in {"no", "picture", "document", "remove"}
      BY DEF AppearanceTypeOK
    <3> QED BY <2>1, <3>1 DEF PictureInv, BackgroundExists
  <2> QED BY <2>1, <2>2, <2>3 DEF PictureInv
<1>8. CASE UNCHANGED appearanceVars
  BY <1>8
  DEF appearanceVars, AppearanceTypeOK, PictureInv, BackgroundExists
<1> QED BY <1>2, <1>3, <1>4, <1>5, <1>6, <1>7, <1>8
        DEF AppearanceNext, AppearanceRestart, PaintingFails

LEMMA AppearanceInvInit == AppearanceInit => AppearanceTypeOK /\ PictureInv
  BY DEF AppearanceInit, AppearanceTypeOK, PictureInv, BackgroundExists, Looks

-----------------------------------------------------------------------------
(* The quarantined domains                                                 *)

LEMMA TimesKnown ==
    ASSUME clock \in 1..LastTime
    PROVE  /\ 0 \in Times /\ 1 \in Times
           /\ clock \in Times /\ clock + EntryTTL \in Times
           /\ clock < LastTime => clock + 1 \in 1..LastTime
<1>1. EntryTTL \in Nat \ {0} /\ LastTime \in Nat \ {0}
  BY TimesAssumption
<1> QED BY <1>1 DEF Times

\* Purging gives entries, and none that was not there.
LEMMA PurgedKnown ==
    ASSUME clock \in 1..LastTime, NEW e \in [Domains -> Times]
    PROVE  /\ Purged(e) \in [Domains -> Times]
           /\ \A d \in Domains : e[d] = 0 => Purged(e)[d] = 0
<1>1. CASE expiry
  <2>1. Purged(e) = [d \in Domains |-> IF e[d] <= clock THEN 0 ELSE e[d]]
    BY <1>1 DEF Purged
  <2>2. 0 \in Times
    BY TimesKnown
  <2> QED BY <2>1, <2>2
<1>2. CASE ~expiry
  BY <1>2 DEF Purged
<1> QED BY <1>1, <1>2

\* So does loading what is stored.
LEMMA LoadedEntriesKnown ==
    ASSUME clock \in 1..LastTime, stored.entries \in [Domains -> Times]
    PROVE  /\ LoadedEntries \in [Domains -> Times]
           /\ \A d \in Domains : stored.entries[d] = 0 => LoadedEntries[d] = 0
<1> DEFINE dated == [d \in Domains |->
                       IF stored.entries[d] > 0 THEN clock + EntryTTL ELSE 0]
<1>1. dated \in [Domains -> Times]
  <2>1. 0 \in Times /\ clock + EntryTTL \in Times
    BY TimesKnown
  <2> QED BY <2>1
<1>2. \A d \in Domains : stored.entries[d] = 0 => dated[d] = 0
  OBVIOUS
<1>3. LoadedEntries = Purged(IF stored.list THEN dated ELSE stored.entries)
  BY DEF LoadedEntries
<1> HIDE DEF dated
<1> QED BY <1>1, <1>2, <1>3, PurgedKnown

LEMMA BlockedTypeParts == BlockedTypeOK <=> BlockedType
  BY Zenon DEF BlockedTypeOK, BlockedType, Entries, Times

\* What is stored after a save, or without one.
LEMMA StoredKnown ==
    ASSUME stored \in [list : BOOLEAN, entries : [Domains -> Times]],
           entries' \in [Domains -> Times],
           SaveEntries \/ UNCHANGED stored
    PROVE  /\ stored' \in [list : BOOLEAN, entries : [Domains -> Times]]
           /\ stored'.entries = entries' \/ stored' = stored
<1>1. CASE SaveEntries
  <2>1. stored' = [list |-> FALSE, entries |-> entries']
    BY <1>1 DEF SaveEntries
  <2>2. stored' \in [list : BOOLEAN, entries : [Domains -> Times]]
    BY <2>1
  <2>3. stored'.entries = entries'
    BY <2>1
  <2> QED BY <2>2, <2>3
<1>2. CASE UNCHANGED stored
  BY <1>2
<1> QED BY <1>1, <1>2

LEMMA BlockedKeeps ==
    ASSUME BlockedType, RemovedStaysAway,
           BlockedNext \/ BlockedRestart \/ UNCHANGED blockedVars
    PROVE  BlockedType' /\ RemovedStaysAway'
<1>0. /\ entries \in [Domains -> Times]
      /\ stored \in [list : BOOLEAN, entries : [Domains -> Times]]
      /\ stored.entries \in [Domains -> Times]
      /\ clock \in 1..LastTime /\ removed \in SUBSET Domains
      /\ expiry \in BOOLEAN
  BY DEF BlockedType
\* A call that leaves what is away out of the memory, and saves it or not.
<1>1. ASSUME entries' \in [Domains -> Times],
             SaveEntries \/ UNCHANGED stored,
             UNCHANGED <<expiry, clock>>,
             removed' \in SUBSET Domains,
             \A d \in removed' : entries'[d] = 0,
             removed' \subseteq removed \/ SaveEntries
      PROVE  BlockedType' /\ RemovedStaysAway'
  <2>1. /\ stored' \in [list : BOOLEAN, entries : [Domains -> Times]]
        /\ stored'.entries = entries' \/ stored' = stored
    BY <1>0, <1>1, StoredKnown
  <2>2. BlockedType'
    BY <1>0, <1>1, <2>1, Zenon DEF BlockedType
  <2>3. SaveEntries => stored'.entries = entries'
    BY DEF SaveEntries
  <2>4. RemovedStaysAway'
    BY <1>1, <2>1, <2>3 DEF RemovedStaysAway
  <2> QED BY <2>2, <2>4
<1>2. CASE List
  <2>1. /\ entries' = Purged(entries)
        /\ SaveEntries \/ UNCHANGED stored
        /\ UNCHANGED <<expiry, clock, removed>>
    BY <1>2 DEF List
  <2>2. /\ entries' \in [Domains -> Times]
        /\ \A d \in Domains : entries[d] = 0 => entries'[d] = 0
    <3>1. /\ Purged(entries) \in [Domains -> Times]
          /\ \A d \in Domains : entries[d] = 0 => Purged(entries)[d] = 0
      BY <1>0, PurgedKnown
    <3>2. entries' = Purged(entries)
      BY <2>1
    <3> QED BY <3>1, <3>2
  <2> QED BY <1>0, <1>1, <2>1, <2>2 DEF RemovedStaysAway
<1>3. ASSUME NEW domains \in SUBSET Domains, RemoveDomains(domains)
      PROVE  BlockedType' /\ RemovedStaysAway'
  <2>1. /\ entries' = [d \in Domains |->
                          IF d \in domains THEN 0 ELSE entries[d]]
        /\ UNCHANGED <<expiry, clock>>
        /\ \/ SaveEntries /\ removed' = removed \cup domains
           \/ UNCHANGED <<stored, removed>>
    BY <1>3 DEF RemoveDomains
  <2>2. entries' \in [Domains -> Times]
    BY <1>0, <2>1, TimesKnown
  <2>3. \A d \in removed' : entries'[d] = 0
    BY <1>0, <2>1 DEF RemovedStaysAway
  <2> QED BY <1>0, <1>1, <2>1, <2>2, <2>3
<1>4. ASSUME NEW told \in [Domains -> {0, clock, clock + EntryTTL}],
             ReplaceRuntime(told)
      PROVE  BlockedType' /\ RemovedStaysAway'
  <2>1. /\ entries' = [d \in Domains |->
                          IF told[d] > clock THEN told[d] ELSE 0]
        /\ removed' = {d \in removed : entries'[d] = 0}
        /\ UNCHANGED <<expiry, clock>>
        /\ SaveEntries \/ UNCHANGED stored
    BY <1>4 DEF ReplaceRuntime
  <2>2. entries' \in [Domains -> Times]
    <3>1. 0 \in Times /\ clock \in Times /\ clock + EntryTTL \in Times
      BY <1>0, TimesKnown
    <3> QED BY <2>1, <3>1
  <2> QED BY <1>0, <1>1, <2>1, <2>2
<1>5. CASE ToggleExpiry
  BY <1>0, <1>5 DEF ToggleExpiry, BlockedType, RemovedStaysAway
<1>6. CASE BlockedTick
  <2>1. clock' \in 1..LastTime
    BY <1>0, <1>6, TimesKnown DEF BlockedTick
  <2> QED BY <1>0, <1>6, <2>1 DEF BlockedTick, BlockedType, RemovedStaysAway
<1>7. CASE BlockedRestart
  <2>1. /\ entries' \in [Domains -> Times]
        /\ \A d \in Domains : stored.entries[d] = 0 => entries'[d] = 0
        /\ UNCHANGED <<stored, expiry, clock, removed>>
    BY <1>0, <1>7, LoadedEntriesKnown DEF BlockedRestart
  <2> QED BY <1>0, <1>1, <2>1 DEF RemovedStaysAway
<1>8. CASE UNCHANGED blockedVars
  BY <1>0, <1>8 DEF blockedVars, BlockedType, RemovedStaysAway
<1> QED BY <1>2, <1>3, <1>4, <1>5, <1>6, <1>7, <1>8 DEF BlockedNext

LEMMA BlockedInvInit == BlockedInit => BlockedType /\ RemovedStaysAway
<1> SUFFICES ASSUME BlockedInit PROVE BlockedType /\ RemovedStaysAway
  OBVIOUS
<1>1. clock \in 1..LastTime
  <2>1. LastTime \in Nat \ {0}
    BY TimesAssumption
  <2> QED BY <2>1 DEF BlockedInit
<1>2. 0 \in Times /\ 1 \in Times
  BY <1>1, TimesKnown
<1>3. stored \in [list : BOOLEAN, entries : [Domains -> Times]]
  BY <1>2 DEF BlockedInit, Nothing
<1>4. entries \in [Domains -> Times]
  <2>1. stored.entries \in [Domains -> Times]
    BY <1>3
  <2> QED BY <1>1, <2>1, LoadedEntriesKnown DEF BlockedInit
<1>5. removed = {} /\ expiry \in BOOLEAN
  BY DEF BlockedInit
<1> QED BY <1>1, <1>3, <1>4, <1>5 DEF BlockedType, RemovedStaysAway

-----------------------------------------------------------------------------
(* The routing rules                                                       *)

\* A rule that normalizeRule has passed.
Normal(r) == r \in RawRule /\ Valid(r) /\ NormalizeRule(r) = r

\* The prefix that is meant.
Length(r) == IF r.form = "bare" THEN AddressBits ELSE r.len

LEMMA BitsKnown ==
    /\ AddressBits \in Nat
    /\ \A n \in 0..AddressBits : 2 ^ (AddressBits - n) \in Nat \ {0}
<1>1. AddressBits \in Nat
  BY RulesAssumption
<1>2. ASSUME NEW n \in 0..AddressBits
      PROVE  2 ^ (AddressBits - n) \in Nat \ {0}
  <2> DEFINE k == AddressBits - n
             S == 1..k
  <2>1. k \in Nat
    BY <1>1
  <2> HIDE DEF k
  <2>2. 1 \in Int /\ k \in Int
    BY <2>1
  <2>3. IsFiniteSet(1..k) /\ Cardinality(1..k) = IF 1 > k THEN 0 ELSE k - 1 + 1
    BY <2>2, FS_Interval
  <2>4. IsFiniteSet(S) /\ Cardinality(S) = k
    BY <2>1, <2>3
  <2> HIDE DEF S
  <2>5. IsFiniteSet(SUBSET S) /\ Cardinality(SUBSET S) = 2 ^ k
    BY <2>4, FS_SUBSET
  <2>6. SUBSET S # {}
    OBVIOUS
  <2>7. Cardinality(SUBSET S) \in Nat /\ Cardinality(SUBSET S) # 0
    <3> DEFINE P == SUBSET S
    <3>1. IsFiniteSet(P) /\ P # {}
      BY <2>5, <2>6
    <3> HIDE DEF P
    <3>2. Cardinality(P) \in Nat /\ Cardinality(P) # 0
      BY <3>1, FS_CardinalityType, FS_EmptySet
    <3> QED BY <3>2 DEF P
  <2> QED BY <2>5, <2>7 DEF k
<1> QED BY <1>1, <1>2

\* What a mask does: it is done once, and equal for addresses that have the
\* prefix in common.
LEMMA MaskKnown ==
    ASSUME NEW a \in Nat, NEW len \in 0..AddressBits
    PROVE  /\ Mask(a, len) \in Nat
           /\ Mask(Mask(a, len), len) = Mask(a, len)
           /\ \A b \in Nat :
                 LET block == 2 ^ (AddressBits - len)
                 IN Mask(a, len) = Mask(b, len) <=> a \div block = b \div block
<1> DEFINE block == 2 ^ (AddressBits - len)
<1>1. block \in Nat \ {0}
  BY BitsKnown
<1>2. \A x : Mask(x, len) = x - (x % block)
  BY DEF Mask
<1> HIDE DEF block
<1>3. /\ Mask(a, len) \in Nat
      /\ \A b \in Nat : Mask(a, len) = Mask(b, len) <=> a \div block = b \div block
  <2>1. a - (a % block) \in Nat
    BY <1>1
  <2>2. ASSUME NEW b \in Nat
        PROVE  a - (a % block) = b - (b % block) <=> a \div block = b \div block
    BY <1>1
  <2> QED BY <1>2, <2>1, <2>2
<1>4. Mask(a, len) % block = 0
  <2> DEFINE q == a \div block
  <2>1. q \in Nat /\ a - (a % block) = block * q
    BY <1>1
  <2> HIDE DEF q
  <2>2. (block * q) % block = 0
    BY <1>1, <2>1
  <2> QED BY <1>2, <2>1, <2>2
<1>5. Mask(Mask(a, len), len) = Mask(a, len)
  BY <1>2, <1>3, <1>4
<1> QED BY <1>3, <1>5 DEF block

\* What normalizeRule makes of a rule.
LEMMA NormalizedKnown ==
    ASSUME NEW r \in RawRule, Valid(r)
    PROVE  /\ Normal(NormalizeRule(r))
           /\ NormalizeRule(r).type = r.type
           /\ NormalizeRule(r).outbound = r.outbound
           /\ r.type = "ip" => /\ NormalizeRule(r).len = Length(r)
                               /\ NormalizeRule(r).value = Mask(r.value, Length(r))
<1> DEFINE n == NormalizeRule(r)
           len == Length(r)
<1>0. /\ r.type \in MatchTypes /\ r.form # "invalid"
      /\ r.value \in Nat /\ r.len \in 0..AddressBits
  BY DEF Valid, RawRule
<1>1. CASE r.type = "process"
  <2>1. n = r
    BY <1>1 DEF NormalizeRule
  <2> QED BY <1>1, <2>1 DEF Normal
<1>2. CASE r.type = "domain"
  <2>1. n = [r EXCEPT !.form = "plain"]
    BY <1>2 DEF NormalizeRule
  <2>2. /\ n \in RawRule /\ n.type = "domain" /\ n.form = "plain"
        /\ n.outbound = r.outbound
    <3> HIDE DEF n
    <3> QED BY <1>2, <2>1 DEF RawRule
  <2>3. Valid(n)
    BY <2>2 DEF Valid, MatchTypes
  <2>4. [n EXCEPT !.form = "plain"] = n
    <3> HIDE DEF n
    <3> QED BY <2>2 DEF RawRule
  <2>5. NormalizeRule(n) = [n EXCEPT !.form = "plain"]
    <3> HIDE DEF n
    <3> QED BY <2>2 DEF NormalizeRule
  <2> QED BY <1>2, <2>2, <2>3, <2>4, <2>5 DEF Normal
<1>3. CASE r.type = "ip"
  <2>1. len \in 0..AddressBits
    BY <1>0, BitsKnown DEF Length
  <2>2. n = [r EXCEPT !.form = "plain", !.len = len, !.value = Mask(r.value, len)]
    BY <1>3 DEF NormalizeRule, Length
  <2> HIDE DEF len, n
  <2>3. /\ Mask(r.value, len) \in Nat
        /\ Mask(Mask(r.value, len), len) = Mask(r.value, len)
    BY <1>0, <2>1, MaskKnown
  <2>4. /\ n \in RawRule /\ n.type = "ip" /\ n.form = "plain"
        /\ n.len = len /\ n.value = Mask(r.value, len)
        /\ n.outbound = r.outbound
    BY <1>3, <2>1, <2>2, <2>3 DEF RawRule
  <2>5. Valid(n)
    BY <2>4 DEF Valid, MatchTypes
  <2>6. NormalizeRule(n) = [n EXCEPT !.form = "plain", !.len = n.len,
                                     !.value = Mask(n.value, n.len)]
    BY <2>4 DEF NormalizeRule
  <2>7. [n EXCEPT !.form = "plain", !.len = n.len,
                  !.value = Mask(n.value, n.len)] = n
    BY <2>3, <2>4 DEF RawRule
  <2> QED BY <1>3, <2>4, <2>5, <2>6, <2>7 DEF Normal, len, n
<1> QED BY <1>0, <1>1, <1>2, <1>3 DEF MatchTypes

\* The order of sortRules tells rules apart that are not the same.
LEMMA RulesOrdered ==
    ASSUME NEW T, \A x \in T : Normal(x),
           \A x, y \in T : Identity(x) = Identity(y) => x = y
    PROVE  LET R == {p \in T \X T : Before(p[1], p[2])}
           IN /\ \A x, y \in T : <<x, y>> \in R <=> Before(x, y)
              /\ StrictOrder(T, R)
<1> DEFINE R == {p \in T \X T : Before(p[1], p[2])}
<1>1. \A x, y \in T : <<x, y>> \in R <=> Before(x, y)
  OBVIOUS
<1>2. \A x \in T : x.type \in MatchTypes /\ x.value \in Nat /\ x.len \in Nat
  BY BitsKnown DEF Normal, RawRule, Valid
<1>3. \A x \in T : Rank(x) \in Nat
  BY <1>2 DEF Rank, MatchTypes
<1>4. \A x, y \in T : Rank(x) = Rank(y) => x.type = y.type
  BY <1>2 DEF Rank, MatchTypes
<1>5. \A x \in T : ~Before(x, x)
  BY <1>2, <1>3 DEF Before
<1>6. \A x, y, z \in T : Before(x, y) /\ Before(y, z) => Before(x, z)
  BY <1>2, <1>3 DEF Before
<1>7. \A x, y \in T : x # y => Before(x, y) \/ Before(y, x)
  <2> SUFFICES ASSUME NEW x \in T, NEW y \in T, x # y
               PROVE  Before(x, y) \/ Before(y, x)
    OBVIOUS
  <2>1. x.type # y.type \/ x.value # y.value \/ x.len # y.len
    BY DEF Identity
  <2> QED BY <1>2, <1>3, <1>4, <2>1 DEF Before
<1> HIDE DEF R
<1>8. StrictOrder(T, R)
  BY <1>1, <1>5, <1>6, <1>7 DEF StrictOrder
<1> QED BY <1>1, <1>8 DEF R

LEMMA SortArranges ==
    ASSUME NEW T, IsFiniteSet(T), \A x \in T : Normal(x),
           \A x, y \in T : Identity(x) = Identity(y) => x = y
    PROVE  Arranged(SortRules(T), T)
<1> DEFINE R == {p \in T \X T : Before(p[1], p[2])}
           n == Cardinality(T)
           rank(x) == Cardinality(Below(T, R, x))
           s == [i \in 1..n |-> CHOOSE x \in T : rank(x) = i - 1]
<1>1. /\ \A x, y \in T : <<x, y>> \in R <=> Before(x, y)
      /\ StrictOrder(T, R)
  BY RulesOrdered
<1> HIDE DEF R
<1>2. n \in Nat
  BY FS_CardinalityType
<1>3. ASSUME NEW i \in 1..n PROVE s[i] \in T /\ rank(s[i]) = i - 1
  <2>1. i - 1 \in 0..(n - 1)
    BY <1>2
  <2>2. \E x \in T : rank(x) = i - 1
    BY <1>1, <2>1, RanksOnto
  <2> HIDE DEF rank
  <2> QED BY <2>2
<1>4. ASSUME NEW i \in 1..n, NEW j \in 1..n, i < j PROVE Before(s[i], s[j])
  <2>1. s[i] \in T /\ s[j] \in T /\ rank(s[i]) = i - 1 /\ rank(s[j]) = j - 1
    BY <1>3
  <2> HIDE DEF s
  <2>2. s[i] # s[j]
    <3> HIDE DEF rank
    <3> QED BY <1>2, <1>4, <2>1
  <2>3. <<s[j], s[i]>> \in R => rank(s[j]) < rank(s[i])
    BY <1>1, <2>1, RanksRise
  <2>4. <<s[j], s[i]>> \notin R
    <3> HIDE DEF rank
    <3> QED BY <1>2, <1>4, <2>1, <2>3
  <2> QED BY <1>1, <2>1, <2>2, <2>4 DEF StrictOrder
<1>5. s \in [1..n -> T] /\ \A i, j \in DOMAIN s : i < j => Before(s[i], s[j])
  <2>1. s \in [1..n -> T]
    <3> HIDE DEF rank
    <3> QED BY <1>3
  <2>2. DOMAIN s = 1..n
    OBVIOUS
  <2> HIDE DEF s
  <2> QED BY <1>4, <2>1, <2>2
<1>6. SortRules(T) = CHOOSE t \in [1..n -> T] :
                         \A i, j \in DOMAIN t : i < j => Before(t[i], t[j])
  BY DEF SortRules
<1> HIDE DEF s
<1>7. /\ SortRules(T) \in [1..n -> T]
      /\ \A i, j \in DOMAIN SortRules(T) :
            i < j => Before(SortRules(T)[i], SortRules(T)[j])
  <2> DEFINE Good(t) == \A i, j \in DOMAIN t : i < j => Before(t[i], t[j])
             F == [1..n -> T]
  <2>1. s \in F /\ Good(s)
    BY <1>5
  <2>2. SortRules(T) = CHOOSE t \in F : Good(t)
    BY <1>6
  <2> HIDE DEF F, Good
  <2>3. SortRules(T) \in F /\ Good(SortRules(T))
    BY <2>1, <2>2, Zenon
  <2> QED BY <2>3 DEF F, Good
<1> QED BY <1>7 DEF Arranged

\* An arranged list has every rule of T, once.
LEMMA ArrangedHasAll ==
    ASSUME NEW T, IsFiniteSet(T), \A x \in T : Normal(x),
           \A x, y \in T : Identity(x) = Identity(y) => x = y,
           NEW s, Arranged(s, T)
    PROVE  /\ \A x \in T : \E i \in DOMAIN s : s[i] = x
           /\ \A i, j \in DOMAIN s : s[i] = s[j] => i = j
           /\ DOMAIN s = 1..Cardinality(T)
<1> DEFINE n == Cardinality(T)
<1>0. n \in Nat /\ s \in [1..n -> T]
  BY FS_CardinalityType DEF Arranged
<1>1. \A x \in T : ~Before(x, x)
  BY RulesOrdered DEF StrictOrder
<1>2. \A i, j \in 1..n : s[i] = s[j] => i = j
  BY <1>0, <1>1 DEF Arranged
<1>3. s \in Injection(1..n, T)
  BY <1>0, <1>2 DEF Injection, IsInjective
<1>4. Cardinality(1..n) = n
  <2> HIDE DEF n
  <2>1. 1 \in Int /\ n \in Int
    BY <1>0
  <2>2. Cardinality(1..n) = IF 1 > n THEN 0 ELSE n - 1 + 1
    BY <2>1, FS_Interval
  <2> QED BY <1>0, <2>2
<1>5. s \in Surjection(1..n, T)
  BY <1>3, <1>4, FS_Injection
<1> QED BY <1>0, <1>2, <1>5 DEF Surjection

\* The rules that are left when of equal ones the first is kept.
LEMMA FirstKnown ==
    ASSUME NEW n \in Nat, NEW rules \in [1..n -> RawRule]
    PROVE  LET T == FirstOfEach(rules)
           IN /\ IsFiniteSet(T)
              /\ \A x \in T : Normal(x)
              /\ \A x, y \in T : Identity(x) = Identity(y) => x = y
<1> DEFINE K == Kept(rules)
           norm(i) == NormalizeRule(rules[i])
           First == {i \in K : \A j \in K : j < i => ~SameRule(rules, i, j)}
           T == FirstOfEach(rules)
<1>1. K \subseteq 1..n /\ \A i \in K : rules[i] \in RawRule /\ Valid(rules[i])
  BY DEF Kept
<1>2. T = {norm(i) : i \in First}
  BY DEF FirstOfEach
<1>3. \A x \in T : Normal(x)
  <2>1. \A i \in K : Normal(norm(i))
    BY <1>1, NormalizedKnown
  <2> HIDE DEF norm, K
  <2> QED BY <1>2, <2>1
<1>4. \A x, y \in T : Identity(x) = Identity(y) => x = y
  <2> SUFFICES ASSUME NEW i \in First, NEW j \in First,
                      Identity(norm(i)) = Identity(norm(j))
               PROVE  norm(i) = norm(j)
    <3> HIDE DEF norm, First, T
    <3> QED BY <1>2
  <2>1. i \in Int /\ j \in Int /\ i \in K /\ j \in K
    BY <1>1
  <2>2. SameRule(rules, i, j) /\ SameRule(rules, j, i)
    BY DEF SameRule
  <2>3. ~(i < j) /\ ~(j < i)
    <3> HIDE DEF K
    <3> QED BY <2>1, <2>2
  <2> QED BY <2>1, <2>3
<1>5. IsFiniteSet(T)
  <2> DEFINE f == [i \in First |-> norm(i)]
  <2>1. IsFiniteSet(First)
    <3>1. First \in SUBSET (1..n)
      BY <1>1
    <3>2. IsFiniteSet(1..n)
      BY FS_Interval
    <3> HIDE DEF First
    <3> QED BY <3>1, <3>2, FS_Subset
  <2>2. f \in Surjection(First, T)
    <3> HIDE DEF First, norm, T
    <3> QED BY <1>2 DEF Surjection
  <2> HIDE DEF f, First, T
  <2> QED BY <2>1, <2>2, FS_Surjection
<1> HIDE DEF T
<1> QED BY <1>3, <1>4, <1>5 DEF T

\* What is arranged is left as it is when it is normalised again.
LEMMA ArrangedIsNormal ==
    ASSUME NEW T, IsFiniteSet(T), \A x \in T : Normal(x),
           \A x, y \in T : Identity(x) = Identity(y) => x = y,
           NEW s, Arranged(s, T)
    PROVE  FirstOfEach(s) = T
<1> DEFINE K == Kept(s)
<1>1. /\ \A x \in T : \E i \in DOMAIN s : s[i] = x
      /\ \A i, j \in DOMAIN s : s[i] = s[j] => i = j
      /\ DOMAIN s = 1..Cardinality(T) /\ Cardinality(T) \in Nat
  BY ArrangedHasAll, FS_CardinalityType
<1>2. \A i \in DOMAIN s : s[i] \in T
  BY <1>1 DEF Arranged
<1>3. K = DOMAIN s
  BY <1>2 DEF Kept, Normal
<1>4. \A i \in DOMAIN s : NormalizeRule(s[i]) = s[i]
  BY <1>2 DEF Normal
<1>5. \A i, j \in DOMAIN s : j < i => ~SameRule(s, i, j)
  <2> SUFFICES ASSUME NEW i \in DOMAIN s, NEW j \in DOMAIN s, j < i,
                      SameRule(s, i, j)
               PROVE  FALSE
    OBVIOUS
  <2>1. Identity(s[i]) = Identity(s[j])
    BY <1>4 DEF SameRule
  <2>2. i = j
    BY <1>1, <1>2, <2>1
  <2> QED BY <1>1, <2>2
<1>6. FirstOfEach(s) = {NormalizeRule(s[i]) : i \in {i \in K :
                          \A j \in K : j < i => ~SameRule(s, i, j)}}
  BY DEF FirstOfEach
<1>7. FirstOfEach(s) = {s[i] : i \in DOMAIN s}
  BY <1>3, <1>4, <1>5, <1>6
<1> QED BY <1>1, <1>2, <1>7

LEMMA ListsKnown ==
    ASSUME NEW rules \in RawLists
    PROVE  \E n \in Nat : rules \in [1..n -> RawRule]
<1>1. PICK n \in 0..MaxRules : rules \in [1..n -> RawRules]
  BY DEF RawLists
<1>2. n \in Nat
  BY RulesAssumption
<1>3. rules \in [1..n -> RawRule]
  BY <1>1, RawAssumption
<1> QED BY <1>2, <1>3

LEMMA NormalizeArranges ==
    ASSUME NEW rules \in RawLists
    PROVE  Arranged(NormalizeRules(rules), FirstOfEach(rules))
<1> DEFINE T == FirstOfEach(rules)
<1>1. PICK n \in Nat : rules \in [1..n -> RawRule]
  BY ListsKnown
<1>2. /\ IsFiniteSet(T) /\ \A x \in T : Normal(x)
      /\ \A x, y \in T : Identity(x) = Identity(y) => x = y
  BY <1>1, FirstKnown
<1> HIDE DEF T
<1>3. Arranged(SortRules(T), T)
  BY <1>2, SortArranges
<1> QED BY <1>3 DEF NormalizeRules, T

LEMMA RulesKeep ==
    ASSUME RulesInv, RulesNext \/ RulesRestart \/ UNCHANGED rulesVars
    PROVE  RulesInv'
<1>1. CASE read' = <<>>
  BY <1>1 DEF RulesInv
<1>2. CASE read' = read /\ draft' = draft
  BY <1>2 DEF RulesInv
<1>3. ASSUME NEW rules \in RawLists, Import(rules) PROVE RulesInv'
  <2>1. CASE AllValid(rules)
    <3>1. read' = rules /\ draft' = NormalizeRules(rules)
      BY <1>3, <2>1 DEF Import
    <3> QED BY <2>1, <3>1, NormalizeArranges DEF RulesInv
  <2>2. CASE ~AllValid(rules)
    BY <1>1, <1>3, <2>2 DEF Import
  <2> QED BY <2>1, <2>2
<1>4. ASSUME SaveRules, read # <<>> PROVE RulesInv'
  <2> DEFINE T == FirstOfEach(read)
  <2>1. read \in RawLists /\ AllValid(read) /\ Arranged(draft, T)
    BY <1>4 DEF RulesInv
  <2>2. PICK n \in Nat : read \in [1..n -> RawRule]
    BY <2>1, ListsKnown
  <2>3. /\ IsFiniteSet(T) /\ \A x \in T : Normal(x)
        /\ \A x, y \in T : Identity(x) = Identity(y) => x = y
    BY <2>2, FirstKnown
  <2>4. /\ saved' = SortRules(FirstOfEach(draft))
        /\ draft' = draft \/ draft' = SortRules(FirstOfEach(saved'))
        /\ read' = read
    BY <1>4 DEF SaveRules, NormalizeRules
  <2> HIDE DEF T
  <2>5. FirstOfEach(draft) = T
    BY <2>1, <2>3, ArrangedIsNormal
  <2> DEFINE s == SortRules(T)
  <2>6. Arranged(s, T)
    BY <2>3, SortArranges
  <2>7. FirstOfEach(s) = T
    <3> HIDE DEF s
    <3> QED BY <2>3, <2>6, ArrangedIsNormal
  <2>8. draft' = draft \/ draft' = s
    BY <2>4, <2>5, <2>7
  <2> HIDE DEF s
  <2> QED BY <2>1, <2>4, <2>6, <2>8 DEF RulesInv, T, AllValid
<1>5. ASSUME SaveRules, read = <<>> PROVE read' = <<>>
  BY <1>5 DEF SaveRules
<1>6. ASSUME \/ \E rule \in RawRules : AddRule(rule)
             \/ \E i \in DOMAIN draft : RemoveRule(i)
             \/ OpenRules
             \/ RulesRestart
      PROVE  read' = <<>>
  BY <1>6 DEF AddRule, RemoveRule, OpenRules, RulesRestart
<1>7. AdapterToggles \/ UNCHANGED rulesVars => read' = read /\ draft' = draft
  BY DEF AdapterToggles, rulesVars
<1> QED BY <1>1, <1>2, <1>3, <1>4, <1>5, <1>6, <1>7 DEF RulesNext

\* A rule of the file and what normalizeRule makes of it are about the same
\* addresses.
LEMMA SameMeaning ==
    ASSUME NEW r \in RawRule, Valid(r), NEW addr \in Nat
    PROVE  Meant(r, addr) <=> Covers(NormalizeRule(r), addr)
<1> DEFINE n == NormalizeRule(r)
           len == Length(r)
           block == 2 ^ (AddressBits - len)
<1>1. /\ n.type = r.type
      /\ r.type = "ip" => n.len = len /\ n.value = Mask(r.value, len)
  BY NormalizedKnown
<1>2. len \in 0..AddressBits /\ r.value \in Nat
  BY BitsKnown DEF Length, RawRule
<1>3. Mask(addr, len) = Mask(r.value, len) <=> addr \div block = r.value \div block
  <2> HIDE DEF len
  <2> QED BY <1>2, MaskKnown
<1>4. Meant(r, addr) <=> r.type = "ip" /\ r.value \div block = addr \div block
  BY DEF Meant, Length
<1>5. Covers(n, addr) <=> n.type = "ip" /\ Mask(addr, n.len) = n.value
  BY DEF Covers
<1> HIDE DEF n, len, block
<1>6. Meant(r, addr) <=> Covers(n, addr)
  BY <1>1, <1>3, <1>4, <1>5
<1> QED BY <1>6 DEF n

\* Every rule of the file has its first equal among those that are left.
LEMMA FirstExists ==
    ASSUME NEW n \in Nat, NEW rules \in [1..n -> RawRule], AllValid(rules),
           NEW i \in 1..n
    PROVE  \E x \in FirstOfEach(rules) :
               Identity(x) = Identity(NormalizeRule(rules[i]))
<1> DEFINE norm(j) == NormalizeRule(rules[j])
           Same == {j \in 1..n : Identity(norm(j)) = Identity(norm(i))}
<1>1. Same \in SUBSET Int /\ Same # {}
  OBVIOUS
<1>2. IsFiniteSet(Same)
  <2>1. IsFiniteSet(1..n) /\ Same \in SUBSET (1..n)
    BY FS_Interval
  <2> HIDE DEF Same
  <2> QED BY <2>1, FS_Subset
<1>3. PICK f \in Same : \A j \in Same : f <= j
  <2> HIDE DEF Same
  <2> QED BY <1>1, <1>2, HasLeast
<1>4. \A j \in 1..n : j < f => ~SameRule(rules, f, j)
  <2> SUFFICES ASSUME NEW j \in 1..n, j < f, SameRule(rules, f, j) PROVE FALSE
    OBVIOUS
  <2>1. j \in Same
    BY DEF SameRule
  <2> QED BY <1>3, <2>1
<1>5. Kept(rules) = 1..n
  BY DEF AllValid
<1>6. norm(f) \in FirstOfEach(rules)
  BY <1>3, <1>4, <1>5 DEF FirstOfEach
<1> QED BY <1>3, <1>6

\* A set of indices has a least one, and Min finds it.
LEMMA MinKnown ==
    ASSUME NEW n \in Nat, NEW S \in SUBSET (1..n), S # {}
    PROVE  Min(S) \in S /\ \A y \in S : Min(S) <= y
<1>1. S \in SUBSET Int /\ IsFiniteSet(S)
  <2>1. 1 \in Int /\ n \in Int
    OBVIOUS
  <2>2. IsFiniteSet(1..n)
    BY <2>1, FS_Interval
  <2> DEFINE I == 1..n
  <2>3. IsFiniteSet(I) /\ S \in SUBSET I
    BY <2>2
  <2>4. IsFiniteSet(S)
    <3> HIDE DEF I
    <3> QED BY <2>3, FS_Subset
  <2>5. S \in SUBSET Int
    OBVIOUS
  <2> QED BY <2>4, <2>5
<1>2. \E x \in S : \A y \in S : x <= y
  BY <1>1, HasLeast
<1>3. Min(S) = CHOOSE x \in S : \A y \in S : x <= y
  BY DEF Min
<1> QED BY <1>2, <1>3

LEMMA MaxKnown ==
    ASSUME NEW n \in Nat, NEW S \in SUBSET (0..n), S # {}
    PROVE  Max(S) \in S /\ \A y \in S : y <= Max(S)
<1>1. S \in SUBSET Int /\ IsFiniteSet(S)
  <2>1. 0 \in Int /\ n \in Int
    OBVIOUS
  <2>2. IsFiniteSet(0..n)
    BY <2>1, FS_Interval
  <2> DEFINE I == 0..n
  <2>3. IsFiniteSet(I) /\ S \in SUBSET I
    BY <2>2
  <2>4. IsFiniteSet(S)
    <3> HIDE DEF I
    <3> QED BY <2>3, FS_Subset
  <2>5. S \in SUBSET Int
    OBVIOUS
  <2> QED BY <2>4, <2>5
<1>2. \E x \in S : \A y \in S : x >= y
  BY <1>1, HasLargest
<1>3. Max(S) = CHOOSE x \in S : \A y \in S : x >= y
  BY DEF Max
<1>4. Max(S) \in S /\ \A y \in S : Max(S) >= y
  BY <1>2, <1>3
<1> QED BY <1>1, <1>4

\* The first rule of the page that covers an address is the first of the file
\* among those with the longest prefix.
LEMMA ArrangedMeans == RulesInv => ImportKeepsMeaning
<1> SUFFICES ASSUME RulesInv, read # <<>>, NEW addr \in Addresses
             PROVE  LET before == {i \in DOMAIN read : Meant(read[i], addr)}
                        after == {i \in DOMAIN draft : Covers(draft[i], addr)}
                    IN /\ before = {} <=> after = {}
                       /\ before # {} =>
                            LET len(i) == IF read[i].form = "bare" THEN AddressBits
                                                                   ELSE read[i].len
                                longest == Max({len(i) : i \in before})
                                first == Min({i \in before : len(i) = longest})
                            IN draft[Min(after)].outbound = read[first].outbound
  BY DEF ImportKeepsMeaning
<1> DEFINE T == FirstOfEach(read)
           norm(i) == NormalizeRule(read[i])
           before == {i \in DOMAIN read : Meant(read[i], addr)}
           after == {i \in DOMAIN draft : Covers(draft[i], addr)}
<1>1. read \in RawLists /\ AllValid(read) /\ Arranged(draft, T)
  BY DEF RulesInv
<1>2. PICK n \in Nat : read \in [1..n -> RawRule]
  BY <1>1, ListsKnown
<1>3. /\ IsFiniteSet(T) /\ \A x \in T : Normal(x)
      /\ \A x, y \in T : Identity(x) = Identity(y) => x = y
  BY <1>2, FirstKnown
<1>4. addr \in Nat
  <2>1. 2 ^ AddressBits \in Int
    BY BitsKnown
  <2> QED BY <2>1 DEF Addresses
<1>5. /\ \A i \in 1..n : read[i] \in RawRule /\ Valid(read[i])
      /\ DOMAIN read = 1..n /\ Kept(read) = 1..n
  BY <1>1, <1>2 DEF AllValid, Kept
<1>6. \A i \in 1..n : Meant(read[i], addr) <=> Covers(norm(i), addr)
  BY <1>4, <1>5, SameMeaning
<1>7. \A x, y : Identity(x) = Identity(y) => (Covers(x, addr) <=> Covers(y, addr))
  BY DEF Identity, Covers
<1>8. /\ \A x \in T : \E i \in DOMAIN draft : draft[i] = x
      /\ \A i \in DOMAIN draft : draft[i] \in T
      /\ DOMAIN draft = 1..Cardinality(T) /\ Cardinality(T) \in Nat
  <2> HIDE DEF T
  <2> QED BY <1>1, <1>3, ArrangedHasAll, FS_CardinalityType DEF Arranged
<1>9. /\ \A x \in T : \E i \in 1..n : x = norm(i)
      /\ \A i \in 1..n : \E x \in T : Identity(x) = Identity(norm(i))
  <2>1. \A x \in T : \E i \in 1..n : x = norm(i)
    BY <1>5 DEF FirstOfEach
  <2>2. \A i \in 1..n : \E x \in T : Identity(x) = Identity(norm(i))
    BY <1>1, <1>2, FirstExists
  <2> QED BY <2>1, <2>2
<1> HIDE DEF T, norm
<1>10. before = {} <=> after = {}
  <2>1. ASSUME NEW i \in before PROVE after # {}
    <3>1. PICK x \in T : Identity(x) = Identity(norm(i))
      BY <1>5, <1>9
    <3>2. Covers(x, addr)
      BY <1>5, <1>6, <1>7, <3>1
    <3>3. PICK k \in DOMAIN draft : draft[k] = x
      BY <1>8, <3>1
    <3> QED BY <3>2, <3>3
  <2>2. ASSUME NEW k \in after PROVE before # {}
    <3>1. PICK i \in 1..n : draft[k] = norm(i)
      BY <1>8, <1>9
    <3> QED BY <1>5, <1>6, <3>1
  <2> HIDE DEF before, after
  <2> QED BY <2>1, <2>2
<1>11. ASSUME before # {}
       PROVE  LET len(i) == IF read[i].form = "bare" THEN AddressBits
                                                     ELSE read[i].len
                  longest == Max({len(i) : i \in before})
                  first == Min({i \in before : len(i) = longest})
              IN draft[Min(after)].outbound = read[first].outbound
  <2> DEFINE len(i) == Length(read[i])
             longest == Max({len(i) : i \in before})
             first == Min({i \in before : len(i) = longest})
             m == Min(after)
  <2>1. \A i \in 1..n : len(i) \in 0..AddressBits
    BY <1>5, BitsKnown DEF Length, RawRule
  <2>2. \A i \in before : norm(i).type = "ip" /\ norm(i).len = len(i)
    <3>1. \A i \in before : read[i].type = "ip"
      BY DEF Meant
    <3> QED BY <1>5, <3>1, NormalizedKnown DEF norm
  <2>3. \A i \in 1..n : norm(i).outbound = read[i].outbound
    BY <1>5, NormalizedKnown DEF norm
  <2> HIDE DEF len
  <2>4. /\ \E i \in before : len(i) = longest
        /\ \A i \in before : len(i) <= longest
    <3> DEFINE L == {len(i) : i \in before}
    <3>1. L \in SUBSET (0..AddressBits) /\ L # {}
      BY <1>5, <1>11, <2>1
    <3>2. AddressBits \in Nat
      BY BitsKnown
    <3>3. Max(L) \in L /\ \A y \in L : y <= Max(L)
      <4> HIDE DEF L
      <4> QED BY <3>1, <3>2, MaxKnown
    <3> QED BY <3>3
  <2> HIDE DEF longest
  <2>5. /\ first \in before /\ len(first) = longest
        /\ \A i \in before : len(i) = longest => first <= i
    <3> DEFINE F == {i \in before : len(i) = longest}
    <3>1. F \in SUBSET (1..n) /\ F # {}
      BY <1>5, <2>4
    <3>2. Min(F) \in F /\ \A y \in F : Min(F) <= y
      <4> HIDE DEF F
      <4> QED BY <3>1, MinKnown
    <3> QED BY <3>2
  <2> HIDE DEF first
  <2>6. m \in after /\ \A i \in after : m <= i
    <3>1. after \in SUBSET (1..Cardinality(T)) /\ after # {}
      BY <1>8, <1>10, <1>11
    <3> HIDE DEF after
    <3> QED BY <1>8, <3>1, MinKnown
  <2> HIDE DEF m
  <2>7. first \in 1..n /\ Covers(norm(first), addr)
    BY <1>5, <1>6, <2>5
  <2>8. norm(first) \in T
    <3>1. ASSUME NEW j \in 1..n, j < first, SameRule(read, first, j) PROVE FALSE
      <4>1. Identity(norm(first)) = Identity(norm(j))
        BY <3>1 DEF SameRule, norm
      <4>2. j \in before
        BY <1>5, <1>6, <1>7, <2>7, <4>1
      <4>3. norm(j).len = norm(first).len
        BY <4>1 DEF Identity
      <4>4. len(j) = longest
        BY <2>2, <2>5, <4>2, <4>3
      <4> QED BY <2>5, <2>7, <3>1, <4>2, <4>4
    <3> QED BY <1>5, <2>7, <3>1 DEF T, norm, FirstOfEach
  <2>9. PICK k \in DOMAIN draft : draft[k] = norm(first)
    BY <1>8, <2>8
  <2>10. m \in DOMAIN draft /\ m <= k /\ Covers(draft[m], addr)
    BY <2>6, <2>7, <2>9
  <2>11. draft[m] = norm(first)
    <3> SUFFICES ASSUME m < k PROVE FALSE
      BY <1>8, <2>9, <2>10
    <3>1. Before(draft[m], norm(first))
      BY <1>1, <2>9, <2>10 DEF Arranged
    <3>2. PICK i \in 1..n : draft[m] = norm(i)
      BY <1>8, <1>9, <2>10
    <3>3. i \in before
      BY <1>5, <1>6, <2>10, <3>2
    <3>4. /\ norm(i).type = "ip" /\ norm(first).type = "ip"
          /\ norm(i).len <= norm(first).len
          /\ norm(i).len \in Int /\ norm(first).len \in Int
      BY <2>1, <2>2, <2>4, <2>5, <2>7, <3>3
    <3>5. norm(i).len = norm(first).len => norm(i).value = norm(first).value
      BY <2>7, <2>10, <3>2 DEF Covers
    <3>6. Rank(norm(i)) = 2 /\ Rank(norm(first)) = 2
      BY <3>4 DEF Rank
    <3>7. norm(first).value \in Nat
      BY <1>3, <2>8 DEF Normal, RawRule
    <3> QED BY <3>1, <3>2, <3>4, <3>5, <3>6, <3>7 DEF Before
  <2>12. draft[m].outbound = read[first].outbound
    BY <2>3, <2>7, <2>11
  <2> QED BY <2>12 DEF m, first, longest, len, Length
<1> QED BY <1>10, <1>11

-----------------------------------------------------------------------------
(* The theorems                                                            *)

LEMMA FilesInvInit == FilesInit => FInv
<1>1. RulesInit => RulesInv
  BY DEF RulesInit, RulesInv
<1> QED BY <1>1, ProxyInvInit, SettingsInvInit, AppearanceInvInit, BlockedInvInit
        DEF FilesInit, FInv

\* A step of one of them, or the death of all.
LEMMA FilesInvStep == FInv /\ [FilesNext]_filesVars => FInv'
<1> SUFFICES ASSUME FInv, [FilesNext]_filesVars PROVE FInv'
  OBVIOUS
<1>0. /\ ProxyInv /\ SettingsTypeOK /\ SettingsInv
      /\ AppearanceTypeOK /\ PictureInv /\ BlockedType /\ RemovedStaysAway
      /\ RulesInv
  BY DEF FInv
<1>1. ProxyInv'
  <2>1. \/ EnableBegin \/ RestoreBegin \/ ProxyStep \/ UserEdits \/ ProxyCrash
        \/ UNCHANGED proxyVars
    BY DEF FilesNext, ProxyMoves, SettingsMoves, AppearanceMoves,
           BlockedMoves, RulesMoves, Restart, filesVars
  <2>2. ASSUME UNCHANGED proxyVars PROVE ProxyInv'
    <3>1. OwnType' /\ SharedType'
      BY <1>0, <2>2, Zenon DEF proxyVars, ProxyInv, OwnType, SharedType
    <3>2. MarkerInv' /\ WritingInv'
      BY <1>0, <2>2
      DEF proxyVars, ProxyInv, MarkerInv, WritingInv, Source, Edited, Restores
    <3> QED BY <3>1, <3>2 DEF ProxyInv
  <2> QED BY <1>0, <2>1, <2>2, ProxyCallKeeps, ProxyStepKeeps
<1>2. SettingsTypeOK' /\ SettingsInv'
  <2>1. SettingsNext \/ SettingsRestart \/ UNCHANGED settingsVars
    BY DEF FilesNext, ProxyMoves, SettingsMoves, AppearanceMoves,
           BlockedMoves, RulesMoves, Restart, filesVars
  <2> QED BY <1>0, <2>1, SettingsCallsKeep, SettingsOthersKeep
          DEF SettingsNext
<1>3. AppearanceTypeOK' /\ PictureInv'
  <2>1. AppearanceNext \/ AppearanceRestart \/ UNCHANGED appearanceVars
    BY DEF FilesNext, ProxyMoves, SettingsMoves, AppearanceMoves,
           BlockedMoves, RulesMoves, Restart, filesVars
  <2> QED BY <1>0, <2>1, AppearanceKeeps
<1>4. BlockedType' /\ RemovedStaysAway'
  <2>1. BlockedNext \/ BlockedRestart \/ UNCHANGED blockedVars
    BY DEF FilesNext, ProxyMoves, SettingsMoves, AppearanceMoves,
           BlockedMoves, RulesMoves, Restart, filesVars
  <2> QED BY <1>0, <2>1, BlockedKeeps
<1>5. RulesInv'
  <2>1. RulesNext \/ RulesRestart \/ UNCHANGED rulesVars
    BY DEF FilesNext, ProxyMoves, SettingsMoves, AppearanceMoves,
           BlockedMoves, RulesMoves, Restart, filesVars
  <2> QED BY <1>0, <2>1, RulesKeep
<1> QED BY <1>1, <1>2, <1>3, <1>4, <1>5 DEF FInv

\* What each of the files has in common with the memory, between the steps of
\* the calls and across the death of the program.
THEOREM FilesInvariance == FilesSpec => []FInv
  BY FilesInvInit, FilesInvStep, PTL DEF FilesSpec

\* Every variable of the proxy, the settings, the appearance and the domains
\* keeps its type.
THEOREM FilesTypeCorrect == FilesSpec => []FilesTypeOK
<1>1. FInv => FilesTypeOK
  BY ProxyTypeParts, BlockedTypeParts DEF FInv, ProxyInv, FilesTypeOK
<1> QED BY <1>1, FilesInvariance, PTL

\* The result of the last WFP trial outlives saves of old pages, other calls,
\* failed saves and restarts.
THEOREM VerdictKeptAlways == FilesSpec => []VerdictKept
<1>1. FInv => VerdictKept
  <2> SUFFICES ASSUME FInv, verdict # "unknown"
               PROVE  (mem.wfp = "failed") = (verdict = "failed")
    BY DEF VerdictKept
  <2>1. verdict \in {"failed", "healthy"}
    BY SettingsTypeParts DEF FInv, Verdicts
  <2>2. CASE verdict = "failed"
    BY <2>1, <2>2 DEF FInv, SettingsInv, VerdictInv
  <2>3. CASE verdict = "healthy"
    BY <2>1, <2>3 DEF FInv, SettingsInv, VerdictInv
  <2> QED BY <2>1, <2>2, <2>3
<1> QED BY <1>1, FilesInvariance, PTL

\* What a call has reported as saved is what the next program starts with, but
\* for what reload repairs, and only a rollback leaves it more to repair.
THEOREM RestartKeepsAlways == FilesSpec => RestartKeeps
<1>1. FInv /\ [FilesNext]_filesVars =>
        [/\ SettingsRestart /\ saving = "no" /\ saved_ok =>
              mem' = [mem EXCEPT !.raw = FALSE,
                                 !.wfp = IF @ = "odd" THEN "fine" ELSE @]
         /\ mem'.raw => mem.raw \/ saving' = "rollback"]_settingsVars
  <2> SUFFICES ASSUME FInv, [FilesNext]_filesVars
               PROVE  /\ SettingsRestart /\ saving = "no" /\ saved_ok =>
                            mem' = [mem EXCEPT !.raw = FALSE,
                                      !.wfp = IF @ = "odd" THEN "fine" ELSE @]
                      /\ mem'.raw => mem.raw \/ saving' = "rollback"
    OBVIOUS
  <2>1. SettingsNext \/ SettingsRestart \/ UNCHANGED settingsVars
    BY DEF FilesNext, ProxyMoves, SettingsMoves, AppearanceMoves,
           BlockedMoves, RulesMoves, Restart, filesVars
  <2> QED BY <2>1, RestartKeepsStep, RawStep DEF FInv
<1> QED BY <1>1, FilesInvariance, PTL DEF FilesSpec, RestartKeeps

\* A document never names a picture that is not there, nor, unless a Save was
\* cut short, one that is not the one it was saved with.
THEOREM BackgroundExistsAlways == FilesSpec => []BackgroundExists
<1>1. FInv => BackgroundExists
  BY DEF FInv, PictureInv
<1> QED BY <1>1, FilesInvariance, PTL

\* A domain that was removed stays away from the memory and the file.
THEOREM RemovedStaysAwayAlways == FilesSpec => []RemovedStaysAway
<1>1. FInv => RemovedStaysAway
  BY DEF FInv
<1> QED BY <1>1, FilesInvariance, PTL

\* Whatever the file of an import holds, an address goes where the first rule
\* of the file with the longest prefix sends it, and after a Save it still
\* does: normalising, dropping what is there twice and sorting keep it.
THEOREM ImportKeepsMeaningAlways == FilesSpec => []ImportKeepsMeaning
<1>1. FInv => ImportKeepsMeaning
  BY ArrangedMeans DEF FInv
<1> QED BY <1>1, FilesInvariance, PTL

\* A restore that reports success has put the settings in place that the user
\* is to get back, however many attempts failed before.
THEOREM RestoreIsExactAlways == FilesSpec => RestoreIsExact
<1>1. FInv /\ [FilesNext]_filesVars =>
        [RestoreOk => wish \subseteq {os'}]_proxyVars
  <2> SUFFICES ASSUME FInv, [FilesNext]_filesVars, RestoreOk,
                      ~UNCHANGED proxyVars
               PROVE  wish \subseteq {os'}
    OBVIOUS
  <2>1. EnableBegin \/ RestoreBegin \/ ProxyStep \/ UserEdits \/ ProxyCrash
    BY DEF FilesNext, ProxyMoves, SettingsMoves, AppearanceMoves,
           BlockedMoves, RulesMoves, Restart, filesVars
  <2> QED BY <2>1, RestoreExactStep DEF FInv
<1> QED BY <1>1, FilesInvariance, PTL DEF FilesSpec, RestoreIsExact

=============================================================================
