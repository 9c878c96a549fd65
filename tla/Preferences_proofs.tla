-------------------------- MODULE Preferences_proofs --------------------------
(***************************************************************************)
(* For any number of concurrent clicks and any bounds on clicks, launches  *)
(* and edits: the app starts the way the user left it, and listens on the  *)
(* port the user has set.                                                  *)
(***************************************************************************)
EXTENDS Preferences, TLAPS

Agree(a, b) == a.proxy = b.proxy /\ a.gateway = b.gateway

NoSaver == \A c \in Clicks : ~Saving(c)

\* No click outlives the app.
Control == ~up => \A c \in Clicks : pc[c] = "idle"

\* While nothing has been disturbed, there is a folder; one click at most saves; it saves what the
\* app works with, into a file it has truncated; and without one, the file and the
\* app agree.
FileFollows ==
    ~disturbed =>
        /\ file # NoFolder
        /\ \A c, o \in Clicks : Saving(c) /\ Saving(o) => c = o
        /\ \A c \in Clicks : Saving(c) => Agree(copy[c], cfg)
        /\ \A c \in Clicks : pc[c] = "write" => file.is = "empty"
        /\ NoSaver => Agree(Load(file), cfg)

\* The port the user has set is in the file, or about to be written to it, or in the
\* folder of earlier builds while there is no other.
PortKept ==
    edited # "none" =>
        \/ file.is = "settings" /\ Load(file).port = edited
        \/ file.is = "empty" /\ \E c \in Clicks : pc[c] = "write" /\ copy[c].port = edited
        \/ file = NoFolder /\ old.is = "settings" /\ Load(old).port = edited

IInv == TypeOK /\ Control /\ FileFollows /\ PortKept

-----------------------------------------------------------------------------
LEMMA DefaultsFilled == NoToggle \in [of : Services, on : BOOLEAN] /\ Defaults \in Filled
  BY DEF NoToggle, Services, Defaults, Filled

\* The file as the app leaves it.
LEMMA FilesLemma ==
    /\ {NoFolder, NoSettings, Empty, Torn} \subseteq Files
    /\ Filled \subseteq Settings
    /\ \A s \in Settings : Stored(s) \in Files /\ Stored(s).is = "settings"
    /\ NoFolder.is = "no folder" /\ NoSettings.is = "missing"
    /\ Empty.is = "empty" /\ Torn.is = "torn"
<1>1. Defaults \in Settings
  BY DEF Defaults, Settings
<1>2. \A s \in Settings : Stored(s) \in Files /\ Stored(s).is = "settings"
  BY DEF Stored, Files
<1>3. Filled \subseteq Settings
  BY DEF Filled, Settings
<1>4. NoFolder \in Files /\ NoFolder.is = "no folder"
  BY <1>1 DEF NoFolder, Files
<1>5. NoSettings \in Files /\ NoSettings.is = "missing"
  BY <1>1 DEF NoSettings, Files
<1>6. Empty \in Files /\ Empty.is = "empty"
  BY <1>1 DEF Empty, Files
<1>7. Torn \in Files /\ Torn.is = "torn"
  BY <1>1 DEF Torn, Files
<1> QED BY <1>2, <1>3, <1>4, <1>5, <1>6, <1>7

\* Load fills every setting.
LEMMA LoadIsFilled == ASSUME NEW f \in Files PROVE Load(f) \in Filled
<1>1. Defaults \in Filled
  BY DEF Defaults, Filled
<1>2. CASE f.is = "settings"
  <2>1. f.has \in Settings
    BY DEF Files
  <2> DEFINE s == [f.has EXCEPT !.port = IF @ = "legacy" THEN "unset" ELSE @]
  <2>2. s \in [proxy : {"on", "off", "unset"}, gateway : {"on", "off", "unset"},
               port : {"default", "custom", "unset"}]
    BY <2>1 DEF Settings
  <2>3. Load(f) = Merge(s, Defaults)
    BY <1>2 DEF Load
  <2> HIDE DEF s
  <2>4. Merge(s, Defaults) \in Filled
    BY <1>1, <2>2 DEF Merge, Filled, Defaults
  <2> QED BY <2>3, <2>4
<1>3. CASE f.is # "settings"
  BY <1>1, <1>3 DEF Load
<1> QED BY <1>2, <1>3

\* What was saved whole is what is loaded.
LEMMA LoadOfStored ==
    ASSUME NEW s \in Filled
    PROVE  Load(Stored(s)) = s /\ Stored(s).is = "settings"
<1>1. Stored(s).is = "settings" /\ Stored(s).has = s
  BY DEF Stored
<1>2. Load(Stored(s)) = Merge([s EXCEPT !.port = IF @ = "legacy" THEN "unset" ELSE @], Defaults)
  BY <1>1 DEF Load
<1>3. [s EXCEPT !.port = IF @ = "legacy" THEN "unset" ELSE @] = s
  BY DEF Filled
<1>4. Merge(s, Defaults) = s
  BY DEF Merge, Filled
<1> QED BY <1>1, <1>2, <1>3, <1>4

LEMMA InitInv == Init => IInv
<1> SUFFICES ASSUME Init PROVE IInv
  OBVIOUS
<1>1. file \in Files /\ old \in Files
  <2>1. \A p, g \in {"on", "off", "unset"}, port \in {"custom", "legacy", "unset"} :
            Stored([proxy |-> p, gateway |-> g, port |-> port]) \in Files
    BY FilesLemma DEF Settings
  <2>2. CASE old = NoFolder
    <3>1. file \in {NoFolder, NoSettings} \/
          \E p, g \in {"off", "unset"} :
            file = Stored([proxy |-> p, gateway |-> g, port |-> "unset"])
      BY <2>2 DEF Init
    <3> QED BY <2>1, <2>2, <3>1, FilesLemma
  <2>3. CASE old # NoFolder
    <3>1. /\ file = NoFolder
          /\ \E p \in {"on", "off"}, port \in {"custom", "legacy"} :
                old = Stored([proxy |-> p, gateway |-> "on", port |-> port])
      BY <2>3 DEF Init
    <3> QED BY <2>1, <3>1, FilesLemma
  <2> QED BY <2>2, <2>3
<1>2. edited = (IF old = NoFolder THEN "none" ELSE Load(old).port) /\ Load(old) \in Filled
  BY <1>1, LoadIsFilled DEF Init
<1>3. TypeOK
  <2>1. cfg \in Filled /\ copy \in [Clicks -> Filled] /\ toggle \in [Clicks -> [of : Services, on : BOOLEAN]]
    BY DefaultsFilled DEF Init
  <2>2. pc \in [Clicks -> {"idle", "act", "set", "save", "write"}] /\ running \subseteq Services
    BY DEF Init
  <2>3. clicks \in 0..MaxClicks /\ launches \in 0..MaxLaunches /\ edits \in 0..MaxEdits
    BY BoundsAssumption DEF Init
  <2>4. up = FALSE /\ startup = "done" /\ disturbed = TRUE
    BY DEF Init
  <2>5. edited \in {"none", "default", "custom"}
    BY <1>2 DEF Filled
  <2> QED BY <1>1, <2>1, <2>2, <2>3, <2>4, <2>5 DEF TypeOK
<1>4. Control /\ FileFollows
  BY DEF Init, Control, FileFollows
<1>5. PortKept
  <2> SUFFICES ASSUME edited # "none" PROVE PortKept
    BY DEF PortKept
  <2>1. old # NoFolder
    BY <1>2
  <2>2. file = NoFolder /\ old.is = "settings"
    BY <2>1 DEF Init, Stored
  <2> QED BY <1>2, <2>1, <2>2 DEF PortKept
<1> QED BY <1>3, <1>4, <1>5 DEF IInv

-----------------------------------------------------------------------------
(* Each action keeps the invariant. *)

\* The folder of earlier builds is taken over whole, and only if there is no other.
LEMMA DirKeeps ==
    ASSUME IInv, Dir, ~up, edited # "none"
    PROVE  Load(file').port = edited /\ file'.is = "settings"
<1>1. \A c \in Clicks : pc[c] # "write"
  BY DEF IInv, Control
<1>2. \/ file.is = "settings" /\ Load(file).port = edited
      \/ file = NoFolder /\ old.is = "settings" /\ Load(old).port = edited
  BY <1>1 DEF IInv, PortKept
<1> QED BY <1>2, FilesLemma DEF Dir

LEMMA LaunchInv == IInv /\ Launch => IInv'
<1> SUFFICES ASSUME IInv, Launch PROVE IInv'
  OBVIOUS
<1>1. file' \in Files /\ old' \in Files
  BY FilesLemma DEF Launch, Dir, IInv, TypeOK
<1>2. cfg' = Load(file') /\ Load(file') \in Filled
  BY <1>1, LoadIsFilled DEF Launch
<1>3. TypeOK'
  <2>1. launches' \in 0..MaxLaunches
    BY BoundsAssumption DEF Launch, IInv, TypeOK
  <2> QED BY <1>1, <1>2, <2>1 DEF Launch, click, IInv, TypeOK
<1>4. Control'
  BY DEF Launch, Control
<1>5. FileFollows'
  <2>1. file' # NoFolder
    BY FilesLemma DEF Launch, Dir
  <2> QED BY <1>2, <2>1 DEF Launch, click, IInv, Control, FileFollows, Saving, Agree
<1>6. PortKept'
  BY DirKeeps DEF Launch, PortKept
<1> QED BY <1>3, <1>4, <1>5, <1>6 DEF IInv

LEMMA CopyStopsInv == IInv /\ CopyStops => IInv'
<1> SUFFICES ASSUME IInv, CopyStops PROVE IInv'
  OBVIOUS
<1>1. TypeOK'
  <2>1. file' \in Files
    BY FilesLemma DEF CopyStops, IInv, TypeOK
  <2>2. launches' \in 0..MaxLaunches
    BY BoundsAssumption DEF CopyStops, IInv, TypeOK
  <2>3. edited' \in {"none", "default", "custom"}
    BY DEF CopyStops, IInv, TypeOK
  <2> QED BY <2>1, <2>2, <2>3 DEF CopyStops, app, click, IInv, TypeOK
<1>2. Control' /\ FileFollows'
  BY DEF CopyStops, app, click, IInv, Control, FileFollows
<1>3. PortKept'
  <2>1. CASE edited' = "none"
    BY <2>1 DEF PortKept
  <2>2. CASE edited' # "none"
    <3>1. file' = old /\ edited' = edited /\ file = NoFolder /\ ~up
      BY <2>2 DEF CopyStops
    <3>2. \A c \in Clicks : pc[c] # "write"
      BY <3>1 DEF IInv, Control
    <3>3. old.is = "settings" /\ Load(old).port = edited
      BY <2>2, <3>1, <3>2 DEF IInv, PortKept, NoFolder
    <3> QED BY <3>1, <3>3 DEF PortKept
  <2> QED BY <2>1, <2>2
<1> QED BY <1>1, <1>2, <1>3 DEF IInv

\* Nothing that the invariant is about changes.
LEMMA ServicesInv ==
    ASSUME IInv, StartProxy \/ StartGateway \/ (\E s \in Services : Fails(s)) \/ UNCHANGED vars
    PROVE  IInv'
<1>1. UNCHANGED <<file, old, up, cfg, click, history, counters>>
  BY DEF StartProxy, StartGateway, Fails, vars, app
<1>2. Load(file') = Load(file)
  BY <1>1
<1>3. TypeOK'
  <2>1. startup' \in {"proxy", "gateway", "done"} /\ running' \subseteq Services
    BY DEF StartProxy, StartGateway, Fails, vars, app, Comes, Services, IInv, TypeOK
  <2> QED BY <1>1, <2>1 DEF IInv, TypeOK, click, history, counters
<1> QED BY <1>1, <1>2, <1>3 DEF IInv, Control, FileFollows, PortKept, NoSaver, Saving, Agree,
        click, history

LEMMA EndInv == IInv /\ End => IInv'
<1> SUFFICES ASSUME IInv, End PROVE IInv'
  OBVIOUS
<1>1. Load(file') = Load(file)
  BY DEF End
<1>2. \A c \in Clicks : pc'[c] = "idle"
  BY DEF End
<1>3. TypeOK'
  <2>1. /\ copy' \in [Clicks -> Filled]
        /\ toggle' \in [Clicks -> [of : Services, on : BOOLEAN]]
        /\ pc' \in [Clicks -> {"idle", "act", "set", "save", "write"}]
    BY DefaultsFilled DEF End
  <2>2. disturbed' \in BOOLEAN /\ edited' \in {"none", "default", "custom"}
    BY DEF End, IInv, TypeOK
  <2> QED BY <2>1, <2>2 DEF End, counters, IInv, TypeOK
<1>4. Control'
  BY <1>2 DEF End, IInv, Control
<1>5. FileFollows'
  BY <1>1, <1>2 DEF End, IInv, FileFollows, NoSaver, Saving, Agree
<1>6. PortKept'
  BY <1>1 DEF End, IInv, PortKept
<1> QED BY <1>3, <1>4, <1>5, <1>6 DEF IInv

\* A click whose copy and position change keeps the types of all clicks.
LEMMA ClickTypes ==
    ASSUME TypeOK, NEW c \in Clicks, NEW where \in {"idle", "act", "set", "save", "write"},
           NEW t \in [of : Services, on : BOOLEAN], NEW s \in Filled
    PROVE  /\ [pc EXCEPT ![c] = where] \in [Clicks -> {"idle", "act", "set", "save", "write"}]
           /\ [toggle EXCEPT ![c] = t] \in [Clicks -> [of : Services, on : BOOLEAN]]
           /\ [copy EXCEPT ![c] = s] \in [Clicks -> Filled]
  BY DEF TypeOK

\* A click that neither saves nor begins to.
LEMMA ClickInv == ASSUME IInv, NEW c \in Clicks, (\E s \in Services : Click(c, s)) \/ Act(c)
                  PROVE  IInv'
<1>1. /\ UNCHANGED <<file, old, up, cfg, startup, history, launches, edits>>
      /\ ~Saving(c) /\ up /\ pc' = [pc EXCEPT ![c] = pc'[c]]
      /\ copy' = [copy EXCEPT ![c] = copy'[c]] /\ copy'[c] \in Filled
      /\ pc'[c] \in {"idle", "act", "set"}
  <2>1. CASE \E s \in Services : Click(c, s)
    BY <2>1 DEF Click, Goes, Saving, IInv, TypeOK, Control, app
  <2>2. CASE Act(c)
    <3>1. pc[c] = "act" /\ up /\ UNCHANGED <<file, old, up, cfg, startup, history, launches, edits>>
      BY <2>2 DEF Act, counters, IInv, Control
    <3>2. CASE Goes(c, "set") /\ UNCHANGED <<toggle, copy>>
      BY <3>1, <3>2 DEF Goes, Saving, IInv, TypeOK, Control
    <3>3. CASE Returns(c)
      BY <3>1, <3>3, DefaultsFilled DEF Goes, Returns, Saving, IInv, TypeOK, Control
    <3> QED BY <2>2, <3>2, <3>3, <3>1 DEF Act
  <2> QED BY <2>1, <2>2
<1>2. Load(file') = Load(file)
  BY <1>1
<1>3. TypeOK'
  <2>1. /\ toggle' \in [Clicks -> [of : Services, on : BOOLEAN]]
        /\ running' \subseteq Services
    <3>1. ASSUME NEW s \in Services, Click(c, s) PROVE <2>1
      BY <3>1 DEF Click, IInv, TypeOK, app
    <3>2. CASE Act(c)
      <4>1. running' \subseteq Services
        BY <3>2 DEF Act, Comes, Services, IInv, TypeOK
      <4>2. toggle' = toggle \/ toggle' = [toggle EXCEPT ![c] = NoToggle]
        BY <3>2 DEF Act, Returns
      <4> QED BY <4>1, <4>2, DefaultsFilled DEF IInv, TypeOK
    <3> QED BY <3>1, <3>2
  <2>2. clicks' \in 0..MaxClicks
    BY BoundsAssumption DEF Click, Act, counters, IInv, TypeOK
  <2>3. /\ pc' \in [Clicks -> {"idle", "act", "set", "save", "write"}]
        /\ copy' \in [Clicks -> Filled]
    <3>1. /\ [pc EXCEPT ![c] = pc'[c]] \in [Clicks -> {"idle", "act", "set", "save", "write"}]
          /\ [copy EXCEPT ![c] = copy'[c]] \in [Clicks -> Filled]
      BY <1>1, ClickTypes, DefaultsFilled DEF IInv
    <3> QED BY <1>1, <3>1
  <2> QED BY <1>1, <2>1, <2>2, <2>3 DEF IInv, TypeOK, history
<1>4. Control'
  BY <1>1 DEF IInv, Control
<1>5. \A o \in Clicks : Saving(o)' => Saving(o) /\ copy'[o] = copy[o] /\ pc'[o] = pc[o]
  BY <1>1 DEF IInv, TypeOK, Saving
<1>6. \A o \in Clicks : Saving(o) => Saving(o)' /\ copy'[o] = copy[o] /\ pc'[o] = pc[o]
  BY <1>1 DEF IInv, TypeOK, Saving
<1>7. FileFollows'
  BY <1>1, <1>2, <1>5, <1>6 DEF IInv, FileFollows, NoSaver, Agree, Saving, history
<1>8. PortKept'
  BY <1>1, <1>2, <1>6 DEF IInv, PortKept, Saving, history
<1> QED BY <1>3, <1>4, <1>7, <1>8 DEF IInv

LEMMA SetInv == ASSUME IInv, NEW c \in Clicks, Set(c) PROVE IInv'
<1>1. cfg' \in Filled /\ copy' = [copy EXCEPT ![c] = cfg'] /\ up
  BY DEF Set, IInv, TypeOK, Control, Filled, Services
<1>2. Load(file') = Load(file)
  BY DEF Set
<1>3. TypeOK'
  <2>1. /\ pc' \in [Clicks -> {"idle", "act", "set", "save", "write"}]
        /\ copy' \in [Clicks -> Filled]
    BY <1>1, ClickTypes, DefaultsFilled DEF Set, Goes, IInv
  <2>2. cfg' \in Filled
    BY <1>1
  <2>3. disturbed' \in BOOLEAN
    BY DEF Set, IInv, TypeOK
  <2> QED BY <2>1, <2>2, <2>3 DEF Set, counters, IInv, TypeOK
<1>4. Control'
  BY <1>1 DEF Set, Goes, IInv, TypeOK, Control
<1>5. \A o \in Clicks \ {c} : pc'[o] = pc[o] /\ copy'[o] = copy[o]
  BY <1>1 DEF Set, Goes, IInv, TypeOK
<1>6. pc[c] = "set" /\ pc'[c] = "save" /\ copy'[c] = cfg'
  BY <1>1 DEF Set, Goes, IInv, TypeOK
<1>7. FileFollows'
  <2> SUFFICES ASSUME ~disturbed' PROVE FileFollows'
    BY DEF FileFollows
  <2>1. ~disturbed /\ \A o \in Clicks \ {c} : ~Saving(o)
    BY DEF Set
  <2>2. \A o \in Clicks : Saving(o)' <=> o = c
    BY <1>5, <1>6, <2>1 DEF Saving
  <2>3. file' # NoFolder
    BY <2>1 DEF Set, IInv, FileFollows
  <2> QED BY <1>6, <2>2, <2>3 DEF FileFollows, NoSaver, Agree, Saving
<1>8. PortKept'
  BY <1>2, <1>5, <1>6 DEF Set, IInv, PortKept
<1> QED BY <1>3, <1>4, <1>7, <1>8 DEF IInv

LEMMA TruncateInv == ASSUME IInv, NEW c \in Clicks, Truncate(c) PROVE IInv'
<1>1. \A o \in Clicks \ {c} : pc'[o] = pc[o]
  BY DEF Truncate, Goes, IInv, TypeOK
<1>2. pc[c] = "save" /\ pc'[c] = "write" /\ file' = Empty /\ file'.is = "empty"
  BY DEF Truncate, Goes, Empty, IInv, TypeOK
<1>3. TypeOK'
  <2>1. file' \in Files
    BY <1>2, FilesLemma
  <2>2. pc' \in [Clicks -> {"idle", "act", "set", "save", "write"}]
    BY DEF Truncate, Goes, IInv, TypeOK
  <2>3. edited' \in {"none", "default", "custom"}
    BY DEF Truncate, IInv, TypeOK
  <2> QED BY <2>1, <2>2, <2>3 DEF Truncate, app, counters, IInv, TypeOK
<1>4. Control'
  BY <1>1, <1>2 DEF Truncate, app, IInv, Control
<1>5. FileFollows'
  BY <1>1, <1>2, FilesLemma, ZenonT(60) DEF Truncate, app, IInv, FileFollows, NoSaver, Saving, Agree
<1>6. PortKept'
  BY <1>2 DEF Truncate, IInv, PortKept
<1> QED BY <1>3, <1>4, <1>5, <1>6 DEF IInv

\* The end of a Save, whole or not: the handler of the click is done.
LEMMA ReturnsKeeps ==
    ASSUME IInv, NEW c \in Clicks, Returns(c)
    PROVE  /\ pc' \in [Clicks -> {"idle", "act", "set", "save", "write"}]
           /\ toggle' \in [Clicks -> [of : Services, on : BOOLEAN]]
           /\ copy' \in [Clicks -> Filled]
           /\ \A o \in Clicks \ {c} : pc'[o] = pc[o] /\ copy'[o] = copy[o]
           /\ pc'[c] = "idle"
<1>1. /\ pc' \in [Clicks -> {"idle", "act", "set", "save", "write"}]
      /\ toggle' \in [Clicks -> [of : Services, on : BOOLEAN]]
      /\ copy' \in [Clicks -> Filled]
  BY ClickTypes, DefaultsFilled DEF Returns, Goes, IInv
<1>2. /\ \A o \in Clicks \ {c} : pc'[o] = pc[o] /\ copy'[o] = copy[o]
      /\ pc'[c] = "idle"
  BY DEF Returns, Goes, IInv, TypeOK
<1> QED BY <1>1, <1>2

LEMMA WriteInv == ASSUME IInv, NEW c \in Clicks, Write(c) PROVE IInv'
<1>1. Returns(c) /\ pc[c] = "write" /\ UNCHANGED <<old, up, cfg, startup, running, disturbed>>
  BY DEF Write, app
<1>2. copy[c] \in Filled
  BY DEF IInv, TypeOK
<1>3. file' = Torn \/ file' = Stored(copy[c])
  BY DEF Write
<1>4. TypeOK'
  <2>1. file' \in Files
    BY <1>2, <1>3, FilesLemma
  <2>2. edited' \in {"none", "default", "custom"}
    BY DEF Write, IInv, TypeOK
  <2> QED BY <1>1, <2>1, <2>2, ReturnsKeeps DEF Write, counters, IInv, TypeOK
<1>5. Control'
  BY <1>1, ReturnsKeeps DEF IInv, Control
<1>6. FileFollows'
  <2> SUFFICES ASSUME ~disturbed' PROVE FileFollows'
    BY DEF FileFollows
  <2>1. /\ ~disturbed /\ file.is = "empty" /\ Agree(copy[c], cfg)
        /\ \A o \in Clicks \ {c} : ~Saving(o)
    BY <1>1 DEF IInv, FileFollows, Saving
  <2>2. file' = Stored(copy[c])
    BY <2>1 DEF Write
  <2>3. Load(file') = copy[c] /\ file' # NoFolder
    BY <1>2, <2>2, LoadOfStored, FilesLemma
  <2>4. \A o \in Clicks : ~Saving(o)'
    BY <1>1, <2>1, ReturnsKeeps DEF Saving
  <2> QED BY <1>1, <2>1, <2>3, <2>4 DEF FileFollows, Saving, Agree
<1>7. PortKept'
  <2>1. CASE edited' = "none"
    BY <2>1 DEF PortKept
  <2>2. CASE edited' # "none"
    <3>1. file' = Stored(copy[c]) /\ copy[c].port = edited /\ edited' = edited
      BY <2>2 DEF Write
    <3> QED BY <1>2, <3>1, LoadOfStored DEF PortKept
  <2> QED BY <2>1, <2>2
<1> QED BY <1>4, <1>5, <1>6, <1>7 DEF IInv

LEMMA SaveFailsInv == ASSUME IInv, NEW c \in Clicks, SaveFails(c) PROVE IInv'
<1>1. Returns(c) /\ UNCHANGED <<old, up, cfg, startup, running, counters>> /\ disturbed' = TRUE
  BY DEF SaveFails, app
<1>2. \/ pc[c] = "save" /\ UNCHANGED <<file, edited>>
      \/ pc[c] = "write" /\ file' = Torn /\ edited' = "none"
  BY DEF SaveFails
<1>3. TypeOK'
  <2>1. file' \in Files
    BY <1>2, FilesLemma DEF IInv, TypeOK
  <2> QED BY <1>1, <1>2, <2>1, ReturnsKeeps DEF counters, IInv, TypeOK
<1>4. Control'
  BY <1>1, ReturnsKeeps DEF IInv, Control
<1>5. FileFollows'
  BY <1>1 DEF FileFollows
<1>6. PortKept'
  <2>1. CASE pc[c] = "save" /\ UNCHANGED <<file, edited>>
    BY <1>1, <2>1, ReturnsKeeps DEF IInv, PortKept
  <2>2. CASE edited' = "none"
    BY <2>2 DEF PortKept
  <2> QED BY <1>2, <2>1, <2>2
<1> QED BY <1>3, <1>4, <1>5, <1>6 DEF IInv

LEMMA EditInv == ASSUME IInv, NEW port \in {"custom", "legacy"}, Edit(port) PROVE IInv'
<1> DEFINE base == IF file.is = "settings" THEN file.has
                   ELSE [proxy |-> "unset", gateway |-> "unset", port |-> "unset"]
           s == [base EXCEPT !.port = port]
<1>1. base \in Settings
  BY DEF Settings, Files, IInv, TypeOK
<1>2. s \in Settings /\ s.proxy = base.proxy /\ s.gateway = base.gateway /\ s.port = port
  BY <1>1 DEF Settings
<1>3. file' = Stored(s) /\ edited' = (IF port = "legacy" THEN "default" ELSE port)
  BY DEF Edit
<1>4. UNCHANGED <<old, up, cfg, startup, running, pc, toggle, copy, disturbed, clicks, launches>>
  BY DEF Edit, app, click
<1> HIDE DEF s
<1>5. /\ file'.is = "settings"
      /\ Load(file') = Merge([s EXCEPT !.port = IF @ = "legacy" THEN "unset" ELSE @], Defaults)
  BY <1>3 DEF Stored, Load
<1>6. /\ Load(file').port = edited'
      /\ Load(file').proxy = (IF base.proxy = "unset" THEN "on" ELSE base.proxy)
      /\ Load(file').gateway = (IF base.gateway = "unset" THEN "on" ELSE base.gateway)
  BY <1>2, <1>3, <1>5 DEF Merge, Defaults, Settings
<1>7. Agree(Load(file'), Load(file))
  <2>1. CASE file.is = "settings"
    <3>1. base = file.has /\ file.has \in Settings
      BY <1>1, <2>1
    <3>2. /\ Load(file).proxy = (IF base.proxy = "unset" THEN "on" ELSE base.proxy)
          /\ Load(file).gateway = (IF base.gateway = "unset" THEN "on" ELSE base.gateway)
      BY <2>1, <3>1 DEF Load, Merge, Defaults, Settings
    <3> QED BY <1>6, <3>2 DEF Agree
  <2>2. CASE file.is # "settings"
    BY <1>6, <2>2 DEF Load, Defaults, Agree
  <2> QED BY <2>1, <2>2
<1>8. TypeOK'
  <2>1. file' \in Files
    BY <1>2, <1>3, FilesLemma
  <2>2. edits' \in 0..MaxEdits
    BY BoundsAssumption DEF Edit, IInv, TypeOK
  <2>3. edited' \in {"none", "default", "custom"}
    BY <1>3
  <2> QED BY <1>4, <2>1, <2>2, <2>3 DEF IInv, TypeOK
<1>9. Control'
  BY <1>4 DEF IInv, Control
<1>10. FileFollows'
  <2>1. file.is # "empty"
    BY DEF Edit
  <2>2. ~disturbed => \A c \in Clicks : pc[c] # "write"
    BY <2>1 DEF IInv, FileFollows
  <2>3. file' # NoFolder
    BY <1>5, FilesLemma
  <2> QED BY <1>4, <1>7, <2>2, <2>3 DEF IInv, FileFollows, NoSaver, Saving, Agree
<1>11. PortKept'
  BY <1>5, <1>6 DEF PortKept
<1> QED BY <1>8, <1>9, <1>10, <1>11 DEF IInv

LEMMA StepInv == IInv /\ [Next]_vars => IInv'
<1> SUFFICES ASSUME IInv, [Next]_vars PROVE IInv'
  OBVIOUS
<1>1. CASE Launch
  BY <1>1, LaunchInv
<1>10. CASE CopyStops
  BY <1>10, CopyStopsInv
<1>2. CASE StartProxy \/ StartGateway \/ (\E s \in Services : Fails(s)) \/ UNCHANGED vars
  BY <1>2, ServicesInv
<1>3. CASE End
  BY <1>3, EndInv
<1>4. ASSUME NEW c \in Clicks, (\E s \in Services : Click(c, s)) \/ Act(c) PROVE IInv'
  BY <1>4, ClickInv
<1>5. ASSUME NEW c \in Clicks, Set(c) PROVE IInv'
  BY <1>5, SetInv
<1>6. ASSUME NEW c \in Clicks, Truncate(c) PROVE IInv'
  BY <1>6, TruncateInv
<1>7. ASSUME NEW c \in Clicks, Write(c) PROVE IInv'
  BY <1>7, WriteInv
<1>8. ASSUME NEW c \in Clicks, SaveFails(c) PROVE IInv'
  BY <1>8, SaveFailsInv
<1>9. ASSUME NEW port \in {"custom", "legacy"}, Edit(port) PROVE IInv'
  BY <1>9, EditInv
<1> QED BY <1>1, <1>2, <1>3, <1>4, <1>5, <1>6, <1>7, <1>8, <1>9, <1>10 DEF Next

-----------------------------------------------------------------------------
\* The file and the app agree in every reachable state, for any number of clicks.
THEOREM PreferencesInvariant == Spec => []IInv
  BY InitInv, StepInv, PTL DEF Spec

\* Type correctness.
THEOREM PreferencesTypeOK == Spec => []TypeOK
<1>1. IInv => TypeOK
  BY DEF IInv
<1> QED BY <1>1, PreferencesInvariant, PTL

\* Only a launch brings the app up, with what Load reads.
LEMMA UpByLaunch ==
    ASSUME IInv, [Next]_vars, ~up, up'
    PROVE  Launch /\ NoSaver /\ \A c \in Clicks : pc[c] = "idle"
<1>1. \A c \in Clicks : pc[c] = "idle"
  BY DEF IInv, Control
<1>2. Launch
  BY <1>1 DEF Next, CopyStops, StartProxy, StartGateway, End, Fails, Click, Act, Set, Truncate, Write,
              SaveFails, Edit, vars, app
<1> QED BY <1>1, <1>2 DEF NoSaver, Saving

\* A restart behaves the way the user left it (tray.go), however many clicks ran
\* at a time, unless a Save failed, was cut short or overlapped another.
THEOREM PreferencesRestartAsLeft == Spec => RestartAsLeft
<1>1. IInv /\ [Next]_vars =>
        [~up /\ up' /\ ~disturbed => cfg'.proxy = cfg.proxy /\ cfg'.gateway = cfg.gateway]_vars
  <2> SUFFICES ASSUME IInv, [Next]_vars, ~up, up', ~disturbed
               PROVE  cfg'.proxy = cfg.proxy /\ cfg'.gateway = cfg.gateway
    OBVIOUS
  <2>1. Launch /\ NoSaver
    BY UpByLaunch
  <2>2. Agree(Load(file), cfg) /\ file # NoFolder
    BY <2>1 DEF IInv, FileFollows
  <2> QED BY <2>1, <2>2 DEF Launch, Dir, Agree
<1> QED BY <1>1, PreferencesInvariant, PTL DEF Spec, RestartAsLeft

\* The port the user has set is the one every later launch uses (settings.go).
THEOREM PreferencesPortFollowsEdit == Spec => PortFollowsEdit
<1>1. IInv /\ [Next]_vars => [~up /\ up' /\ edited # "none" => cfg'.port = edited]_vars
  BY UpByLaunch, DirKeeps DEF Launch
<1> QED BY <1>1, PreferencesInvariant, PTL DEF Spec, PortFollowsEdit
=============================================================================
