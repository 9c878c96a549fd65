----------------------------- MODULE Preferences -----------------------------
(***************************************************************************)
(* The settings of the desktop app, from config.json to the services and   *)
(* back (desktop/internal/settings, app.go, tray.go): Load at launch, the  *)
(* services started as it says, the two toggles of the menu that remember  *)
(* what the user chose, and Save, which truncates the file before it       *)
(* writes it.  The first launch takes over the folder of earlier builds.   *)
(* Clicks run concurrently; the app may end at any point; the user may     *)
(* edit the file.  A setting is "unset" where the file omits it.           *)
(***************************************************************************)
EXTENDS Naturals

CONSTANTS
    Clicks,      \* goroutines of menu clicks
    MaxClicks, MaxLaunches, MaxEdits   \* bounds

ASSUME BoundsAssumption == MaxClicks \in Nat /\ MaxLaunches \in Nat /\ MaxEdits \in Nat

Services == {"proxy", "gateway"}
Settings == [proxy : {"on", "off", "unset"}, gateway : {"on", "off", "unset"},
             port : {"default", "custom", "legacy", "unset"}]
\* What the app works with: every setting has a value.
Filled == [proxy : {"on", "off"}, gateway : {"on", "off"}, port : {"default", "custom"}]
Defaults == [proxy |-> "on", gateway |-> "on", port |-> "default"]

\* The file: in no folder, absent, empty, not JSON, or some settings.
NoFolder == [is |-> "no folder", has |-> Defaults]
NoSettings == [is |-> "missing", has |-> Defaults]
Empty == [is |-> "empty", has |-> Defaults]
Torn == [is |-> "torn", has |-> Defaults]
Stored(settings) == [is |-> "settings", has |-> settings]

\* Mutant of Merge: the defaults win over what is stored.
MergeReversed(stored, d) == d

\* Merge fills what the file left unset.
Merge(stored, d) ==
    [f \in DOMAIN stored |-> IF stored[f] = "unset" THEN d[f] ELSE stored[f]]

\* Mutant of Load: the port of old builds is kept.
LoadKeepsLegacy(f) == IF f.is # "settings" THEN Defaults ELSE Merge(f.has, Defaults)

\* A missing or malformed file stands for the defaults; the port of old builds is
\* not taken for a choice.
Load(f) ==
    IF f.is # "settings" THEN Defaults
    ELSE Merge([f.has EXCEPT !.port = IF @ = "legacy" THEN "unset" ELSE @], Defaults)

Files == [is : {"no folder", "missing", "empty", "torn", "settings"}, has : Settings]

VARIABLES
    file,       \* config.json
    old,        \* the one in the folder of earlier builds
    up,         \* the app runs
    cfg,        \* a.cfg; what it was last, while the app does not run
    startup,    \* StartServices: the service it is at, or "done"
    running,    \* the services that run
    pc,         \* where each click stands
    toggle,     \* the service it toggles and whether it turns it on
    copy,       \* the configuration it saves
    disturbed,  \* history: a Save failed, was cut short, or overlapped another
    edited,     \* history: the port of the user's last edit, until a Save loses it
    clicks, launches, edits

app == <<up, cfg, startup, running>>
click == <<pc, toggle, copy>>
history == <<disturbed, edited>>
counters == <<clicks, launches, edits>>
vars == <<file, old, app, click, history, counters>>

NoToggle == [of |-> "proxy", on |-> FALSE]

Init ==
    /\ \/ /\ old = NoFolder
          /\ file \in {NoFolder, NoSettings} \cup
                {Stored([proxy |-> p, gateway |-> g, port |-> "unset"]) :
                    p, g \in {"off", "unset"}}
       \/ /\ file = NoFolder
          /\ old \in {Stored([proxy |-> p, gateway |-> "on", port |-> port]) :
                p \in {"on", "off"}, port \in {"custom", "legacy"}}
    /\ up = FALSE /\ cfg = Defaults /\ startup = "done" /\ running = {}
    /\ pc = [c \in Clicks |-> "idle"]
    /\ toggle = [c \in Clicks |-> NoToggle]
    /\ copy = [c \in Clicks |-> Defaults]
    /\ disturbed = TRUE /\ edited = IF old = NoFolder THEN "none" ELSE Load(old).port
    /\ clicks = 0 /\ launches = 0 /\ edits = 0

-----------------------------------------------------------------------------
(* Launch and end *)

\* Mutant of Dir: a folder of earlier builds that was copied is copied again.
DirMigratesAgain ==
    IF old # NoFolder THEN file' = old /\ old' \in {NoFolder, old}
    ELSE file' = (IF file = NoFolder THEN NoSettings ELSE file) /\ UNCHANGED old

\* The app's folder, created if it is not there: from the folder of earlier builds,
\* which is renamed, or copied and left behind.
Dir ==
    IF file # NoFolder THEN UNCHANGED <<file, old>>
    ELSE IF old # NoFolder THEN file' = old /\ old' \in {NoFolder, old}
    ELSE file' = NoSettings /\ UNCHANGED old

Launch ==
    /\ ~up /\ launches < MaxLaunches
    /\ Dir
    /\ up' = TRUE /\ cfg' = Load(file') /\ startup' = "proxy"
    /\ disturbed' = FALSE /\ launches' = launches + 1
    /\ UNCHANGED <<running, click, edited, clicks, edits>>

\* The copy of that folder fails, and the launch with it, or the app is killed
\* meanwhile: what it has copied stays, and is not completed later.
CopyStops ==
    /\ ~up /\ launches < MaxLaunches /\ file = NoFolder /\ old # NoFolder
    /\ file' \in {NoSettings, Empty, Torn, old}
    /\ edited' = IF file' = old THEN edited ELSE "none"
    /\ disturbed' = TRUE /\ launches' = launches + 1
    /\ UNCHANGED <<old, app, click, clicks, edits>>

Comes(services) == running' = running \cup services

\* EnsureProxyRunning, if the proxy starts with the app; a failure ends StartServices.
StartProxy ==
    /\ up /\ startup = "proxy"
    /\ IF cfg.proxy = "off" THEN startup' = "gateway" /\ UNCHANGED running
       ELSE \/ startup' = "gateway" /\ Comes({"proxy"})
            \/ startup' = "done" /\ UNCHANGED running
    /\ UNCHANGED <<file, old, up, cfg, click, history, counters>>

\* StartGateway brings the proxy up first.
StartGateway ==
    /\ up /\ startup = "gateway" /\ startup' = "done"
    /\ IF cfg.gateway = "off" THEN UNCHANGED running
       ELSE Comes(Services) \/ Comes({"proxy"}) \/ UNCHANGED running
    /\ UNCHANGED <<file, old, up, cfg, click, history, counters>>

Saving(c) == pc[c] \in {"save", "write"}

\* The app quits, or is killed, and its goroutines with it.
End ==
    /\ up /\ up' = FALSE /\ startup' = "done" /\ running' = {}
    /\ pc' = [c \in Clicks |-> "idle"] /\ toggle' = [c \in Clicks |-> NoToggle]
    /\ copy' = [c \in Clicks |-> Defaults]
    /\ disturbed' = (disturbed \/ \E c \in Clicks : Saving(c))
    /\ edited' = IF \E c \in Clicks : pc[c] = "write" THEN "none" ELSE edited
    /\ UNCHANGED <<file, old, cfg, counters>>

-----------------------------------------------------------------------------
(* A toggle *)

Goes(c, where) == pc' = [pc EXCEPT ![c] = where]

\* The handler of the click returns.
Returns(c) ==
    /\ Goes(c, "idle") /\ toggle' = [toggle EXCEPT ![c] = NoToggle]
    /\ copy' = [copy EXCEPT ![c] = Defaults]

\* A service ends by itself.
Fails(s) ==
    /\ s \in running /\ running' = running \ {s}
    /\ UNCHANGED <<file, old, up, cfg, startup, click, history, counters>>

\* actToggleProxy and actToggleGateway ask for the state of the service.
Click(c, s) ==
    /\ up /\ pc[c] = "idle" /\ clicks < MaxClicks
    /\ toggle' = [toggle EXCEPT ![c] = [of |-> s, on |-> s \notin running]]
    /\ Goes(c, "act") /\ clicks' = clicks + 1
    /\ UNCHANGED <<file, old, app, copy, history, launches, edits>>

\* The service is stopped or started; a failure is shown and remembers nothing.
Act(c) ==
    /\ pc[c] = "act"
    /\ \/ /\ IF toggle[c].on
             THEN Comes(IF toggle[c].of = "gateway" THEN Services ELSE {"proxy"})
             ELSE running' = running \ {toggle[c].of}
          /\ Goes(c, "set") /\ UNCHANGED <<toggle, copy>>
       \/ Returns(c) /\ UNCHANGED running
    /\ UNCHANGED <<file, old, up, cfg, startup, history, counters>>

\* Mutant of Set: the copy is taken before the choice is noted.
SetCopiesFirst(c) ==
    /\ pc[c] = "set"
    /\ cfg' = [cfg EXCEPT ![toggle[c].of] = IF toggle[c].on THEN "on" ELSE "off"]
    /\ copy' = [copy EXCEPT ![c] = cfg]
    /\ disturbed' = (disturbed \/ \E o \in Clicks \ {c} : Saving(o))
    /\ Goes(c, "save")
    /\ UNCHANGED <<file, old, up, startup, running, toggle, edited, counters>>

\* SetProxyAuto and SetGatewayAuto note the choice and copy the configuration
\* under the mutex, and save the copy after it.
Set(c) ==
    /\ pc[c] = "set"
    /\ cfg' = [cfg EXCEPT ![toggle[c].of] = IF toggle[c].on THEN "on" ELSE "off"]
    /\ copy' = [copy EXCEPT ![c] = cfg']
    /\ disturbed' = (disturbed \/ \E o \in Clicks \ {c} : Saving(o))
    /\ Goes(c, "save")
    /\ UNCHANGED <<file, old, up, startup, running, toggle, edited, counters>>

\* os.WriteFile: the file is truncated first ...
Truncate(c) ==
    /\ pc[c] = "save"
    /\ file' = Empty /\ Goes(c, "write")
    /\ edited' = IF copy[c].port = edited THEN edited ELSE "none"
    /\ UNCHANGED <<old, app, toggle, copy, disturbed, counters>>

\* Each "off" is a byte longer than an "on".
Offs(settings) ==
    (IF settings.proxy = "off" THEN 1 ELSE 0) + (IF settings.gateway = "off" THEN 1 ELSE 0)

\* ... and written from its start: what another Save wrote meanwhile shows behind
\* a shorter text.
Write(c) ==
    /\ pc[c] = "write"
    /\ file' \in IF file.is = "torn" THEN {Torn, Stored(copy[c])}
                 ELSE IF file.is = "settings" /\ Offs(copy[c]) < Offs(file.has) THEN {Torn}
                 ELSE {Stored(copy[c])}
    /\ edited' = IF file' = Stored(copy[c]) /\ copy[c].port = edited THEN edited ELSE "none"
    /\ Returns(c)
    /\ UNCHANGED <<old, app, disturbed, counters>>

\* The file cannot be opened, or not be written to its end; the error is ignored.
SaveFails(c) ==
    /\ Saving(c)
    /\ \/ pc[c] = "save" /\ UNCHANGED <<file, edited>>
       \/ pc[c] = "write" /\ file' = Torn /\ edited' = "none"
    /\ disturbed' = TRUE /\ Returns(c)
    /\ UNCHANGED <<old, app, counters>>

-----------------------------------------------------------------------------
\* The user sets the port in a readable file, or in one of his own.
Edit(port) ==
    /\ edits < MaxEdits /\ file.is \in {"missing", "settings"}
    /\ file' = Stored([(IF file.is = "settings" THEN file.has
                        ELSE [proxy |-> "unset", gateway |-> "unset", port |-> "unset"])
                       EXCEPT !.port = port])
    /\ edited' = IF port = "legacy" THEN "default" ELSE port
    /\ edits' = edits + 1
    /\ UNCHANGED <<old, app, click, disturbed, clicks, launches>>

Next ==
    \/ Launch \/ CopyStops \/ StartProxy \/ StartGateway \/ End
    \/ \E s \in Services : Fails(s)
    \/ \E c \in Clicks :
        \/ \E s \in Services : Click(c, s)
        \/ Act(c) \/ Set(c) \/ Truncate(c) \/ Write(c) \/ SaveFails(c)
    \/ \E port \in {"custom", "legacy"} : Edit(port)

Spec == Init /\ [][Next]_vars

-----------------------------------------------------------------------------
\* What the app works with and saves is filled: whatever the file left out, and
\* whatever port an old build left in it, has been replaced when it was loaded.
TypeOK ==
    /\ file \in Files /\ old \in Files
    /\ up \in BOOLEAN /\ cfg \in Filled /\ startup \in {"proxy", "gateway", "done"}
    /\ running \subseteq Services
    /\ pc \in [Clicks -> {"idle", "act", "set", "save", "write"}]
    /\ toggle \in [Clicks -> [of : Services, on : BOOLEAN]]
    /\ copy \in [Clicks -> Filled]
    /\ disturbed \in BOOLEAN /\ edited \in {"none", "default", "custom"}
    /\ clicks \in 0..MaxClicks /\ launches \in 0..MaxLaunches /\ edits \in 0..MaxEdits

\* A restart behaves the way the user left it (tray.go): each service is to start
\* with the app as the user last chose, in whatever order clicks came, unless a
\* Save failed, was cut short by the end of the app, or overlapped another.
RestartAsLeft ==
    [][~up /\ up' /\ ~disturbed =>
        cfg'.proxy = cfg.proxy /\ cfg'.gateway = cfg.gateway]_vars

\* Editors remember the port, so it must not drift (settings.go): the port a user
\* has set is the one every later launch uses, through any toggles and restarts and
\* with any other settings left out, unless a toggle of an app that was up before
\* the edit saved over it, or a Save, or the copy of the folder of earlier builds,
\* was not completed.
PortFollowsEdit ==
    [][~up /\ up' /\ edited # "none" => cfg'.port = edited]_vars
=============================================================================
