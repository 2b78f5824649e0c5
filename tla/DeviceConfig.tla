----------------------------- MODULE DeviceConfig -----------------------------
\* The band the program is set up for: the service that finds bands and writes
\* device.json (device-config-service.ts), and the page of the setup wizard that
\* calls it (LogImportStep.tsx). Both wait: for the list of paired devices and
\* for a scan, while the user goes on choosing. Keeping the existing configuration
\* changes nothing and is left out.
EXTENDS Naturals, FiniteSets

CONSTANTS
  Bands,      \* the bands that may be near or paired
  OtherDevices,     \* other paired devices: headsets, pads
  Nowhere,    \* no device
  Saves,      \* bound: the calls of saveDeviceConfig that can be running at once
  MaxSaves,   \* bound: saves in a run
  MaxScans,   \* bound: scans in a run
  MaxPicks,   \* bound: changes of the user's choice
  MaxCrashes  \* bound: times the program is killed

VARIABLES
  paired,     \* the devices Windows lists as paired
  cache,      \* scannedDevices: the bands the last scan found
  files,       \* device.json and its temporary file
  save,       \* each running saveDeviceConfig
  picker,       \* the mounted LogImportStep
  scan,       \* the running scan, with what its handler saw when it began
  tally       \* the bounds used up

configVars == <<paired, cache, files, save, picker, scan, tally>>

Devices == Bands \cup OtherDevices
\* A device is named by its address and where it was found.
DeviceId(from, d) == [from |-> from, addr |-> d]
NoDevice == DeviceId("none", Nowhere)
DeviceIds == {NoDevice} \cup {DeviceId("scan", b) : b \in Bands} \cup {DeviceId("pnp", d) : d \in Devices}

\* What a log gives: no key, a key, or a key and an address.
Logs == {[key |-> FALSE, addr |-> Nowhere], [key |-> TRUE, addr |-> Nowhere]}
          \cup {[key |-> TRUE, addr |-> b] : b \in Bands}
NoLog == [key |-> FALSE, addr |-> Nowhere]
\* What the user typed: nothing, something that is no address, an address.
Typed == {"nothing", "rubbish"} \cup Bands
\* An empty field is not the address of a band.
ASSUME BandsAssumption == "nothing" \notin Bands

Payload(log, selected, manual) == [log |-> log, selected |-> selected, manual |-> manual]
\* A file, with the bands it could have been meant for.
NoFile == [addr |-> Nowhere, whole |-> TRUE, meant |-> {}]
IdleSave == [at |-> "idle", mine |-> FALSE, payload |-> Payload(NoLog, NoDevice, "nothing"), addr |-> Nowhere, meant |-> {}]
BlankPage == [loaded |-> FALSE, list |-> {}, found |-> {}, selected |-> NoDevice,
              manual |-> "nothing", saving |-> FALSE]
NoScan == [on |-> FALSE, mine |-> FALSE, selected |-> NoDevice, manual |-> "nothing", known |-> {}]

ConfigInit ==
  /\ paired \in {{}, OtherDevices, Bands \cup OtherDevices} \cup {{b} : b \in Bands}
  /\ cache = {} /\ files = [config |-> NoFile, tmp |-> NoFile]
  /\ save = [k \in Saves |-> IdleSave]
  /\ picker = BlankPage /\ scan = NoScan
  /\ tally = [saves |-> 0, scans |-> 0, picks |-> 0, crashes |-> 0]

Has(file) == file.whole /\ file.addr # Nowhere

-----------------------------------------------------------------------------
\* saveDeviceConfig, the service's side.

\* The service's own steps between two awaits are not interleaved.
MainIsFree == \A k \in Saves : save[k].at \notin {"write", "rename"}

\* A save is over: the page that began it, if still there, may save again.
SaveEnds(k) ==
  /\ save' = [save EXCEPT ![k] = IdleSave]
  /\ picker' = IF save[k].mine THEN [picker EXCEPT !.saving = FALSE] ELSE picker

\* The band a save is for: what was typed, else what was picked, else the log's,
\* else the only paired one.
Meant(p, list) ==
  IF p.manual # "nothing" THEN {p.manual}
  ELSE IF p.selected # NoDevice THEN {p.selected.addr}
  ELSE IF p.log.addr # Nowhere THEN {p.log.addr}
  ELSE IF Cardinality(list) = 1 THEN list ELSE {}

Writes(k, addr, list) ==
  /\ save' = [save EXCEPT ![k].at = "write", ![k].addr = addr,
                    ![k].meant = Meant(save[k].payload, list \cap Bands)]
  /\ UNCHANGED picker

\* The part of the choice that needs no list: what was typed, what was picked
\* among the scanned, the address in the log. Rubbish, and a log without a key,
\* end the save.
Choose(k) ==
  /\ save[k].at = "called" /\ MainIsFree
  /\ LET p == save[k].payload IN
     \/ (~p.log.key \/ p.manual = "rubbish") /\ SaveEnds(k)
     \/ p.log.key /\ p.manual \in Bands /\ Writes(k, p.manual, {})
     \/ /\ p.log.key /\ p.manual = "nothing"
        /\ \/ p.selected.from = "scan" /\ p.selected.addr \in cache /\ Writes(k, p.selected.addr, {})
           \/ /\ p.selected = NoDevice /\ p.log.addr # Nowhere
              /\ Writes(k, p.log.addr, {})
           \/ /\ IF p.selected = NoDevice THEN p.log.addr = Nowhere
                 ELSE ~(p.selected.from = "scan" /\ p.selected.addr \in cache)
              /\ save' = [save EXCEPT ![k].at = "asking"]
              /\ UNCHANGED picker
  /\ UNCHANGED <<paired, cache, files, scan, tally>>

\* Mutant: a picked device that is gone is treated as if none had been picked.
Missing_FallsBack(k, list) ==
  LET p == save[k].payload
      bands == list \cap Bands
  IN IF p.log.addr # Nowhere THEN Writes(k, p.log.addr, {})
     ELSE IF Cardinality(bands) = 1 THEN Writes(k, CHOOSE b \in bands : TRUE, list) ELSE SaveEnds(k)

\* The picked device is in neither list: the save ends with an error, rather
\* than with another band.
Missing(k, list) == SaveEnds(k)

\* Without a choice, a single paired band is taken for the one meant.
OnlyOne(k, list) ==
  LET bands == list \cap Bands IN
  IF Cardinality(bands) = 1 THEN Writes(k, CHOOSE b \in bands : TRUE, list) ELSE SaveEnds(k)

\* The list of paired devices has come, or could not be had and counts as empty.
Listed(k) ==
  /\ save[k].at = "asking" /\ MainIsFree
  /\ \E list \in {paired, {}} :
       LET p == save[k].payload IN
       IF p.selected = NoDevice THEN OnlyOne(k, list)
       ELSE IF p.selected.from = "pnp" /\ p.selected.addr \in list
            THEN Writes(k, p.selected.addr, list)
            ELSE Missing(k, list)
  /\ UNCHANGED <<paired, cache, files, scan, tally>>

Config(k, whole) == [addr |-> save[k].addr, whole |-> whole, meant |-> save[k].meant]

\* The new configuration goes to a temporary file, which then replaces the old
\* one in one step; a kill in between leaves the old one. Either may fail.
WriteTmp(k) ==
  /\ save[k].at = "write"
  /\ \/ /\ files' = [files EXCEPT !.tmp = Config(k, TRUE)]
        /\ save' = [save EXCEPT ![k].at = "rename"] /\ UNCHANGED picker
     \/ UNCHANGED files /\ SaveEnds(k)
  /\ UNCHANGED <<paired, cache, scan, tally>>

Rename(k) ==
  /\ save[k].at = "rename"
  /\ \/ files' = [config |-> files.tmp, tmp |-> NoFile]
     \/ files' = [files EXCEPT !.tmp = NoFile]
  /\ SaveEnds(k)
  /\ UNCHANGED <<paired, cache, scan, tally>>

\* The program is killed, while a file is being written or not.
KilledConfig ==
  /\ tally.crashes < MaxCrashes
  /\ tally' = [tally EXCEPT !.crashes = @ + 1]
  /\ \/ UNCHANGED files
     \/ \E k \in Saves : save[k].at = "write" /\ files' = [files EXCEPT !.tmp = Config(k, FALSE)]
  /\ cache' = {} /\ save' = [k \in Saves |-> IdleSave]
  /\ picker' = BlankPage /\ scan' = NoScan
  /\ UNCHANGED paired

-----------------------------------------------------------------------------
\* LogImportStep.

\* The page asks for the configuration and the paired devices, and picks the
\* first band, or else the first device.
PageLoads ==
  /\ ~picker.loaded /\ MainIsFree
  /\ \E list \in {paired, {}} :
       \E first \in IF list \cap Bands # {} THEN {DeviceId("pnp", d) : d \in list \cap Bands}
                    ELSE IF list # {} THEN {DeviceId("pnp", d) : d \in list} ELSE {NoDevice} :
         picker' = [BlankPage EXCEPT !.loaded = TRUE, !.list = {DeviceId("pnp", d) : d \in list},
                                   !.selected = first]
  /\ UNCHANGED <<paired, cache, files, save, scan, tally>>

\* The user goes to another step of the wizard: what the page began goes on.
PageLeaves ==
  /\ picker.loaded
  /\ picker' = BlankPage
  /\ save' = [k \in Saves |-> [save[k] EXCEPT !.mine = FALSE]]
  /\ scan' = [scan EXCEPT !.mine = FALSE]
  /\ UNCHANGED <<paired, cache, files, tally>>

PickDevice ==
  /\ picker.loaded /\ tally.picks < MaxPicks
  /\ \E id \in picker.list \cup picker.found :
       picker' = [picker EXCEPT !.selected = id, !.manual = "nothing"]
  /\ tally' = [tally EXCEPT !.picks = @ + 1]
  /\ UNCHANGED <<paired, cache, files, save, scan>>

TypeAddress ==
  /\ picker.loaded /\ tally.picks < MaxPicks
  /\ \E t \in Typed :
       picker' = [picker EXCEPT !.manual = t,
                            !.selected = IF t = "nothing" THEN @ ELSE NoDevice]
  /\ tally' = [tally EXCEPT !.picks = @ + 1]
  /\ UNCHANGED <<paired, cache, files, save, scan>>

\* handleScan keeps the selection and the list it saw when it was called.
ClickScan ==
  /\ picker.loaded /\ ~scan.on /\ tally.scans < MaxScans
  /\ scan' = [on |-> TRUE, mine |-> TRUE, selected |-> picker.selected, manual |-> picker.manual,
              known |-> {id.addr : id \in picker.list}]
  /\ tally' = [tally EXCEPT !.scans = @ + 1]
  /\ UNCHANGED <<paired, cache, files, save, picker>>

\* The scan ends: the service keeps what it found; the page shows what it did
\* not list already, and picks the first if nothing was chosen when it began.
ScanEnds ==
  /\ scan.on /\ MainIsFree
  /\ \E found \in SUBSET Bands :
       LET fresh == {DeviceId("scan", b) : b \in found \ scan.known} IN
       /\ cache' = found
       /\ \E first \in IF scan.selected = NoDevice /\ scan.manual = "nothing" /\ fresh # {}
                       THEN fresh ELSE {picker.selected} :
            picker' = IF scan.mine THEN [picker EXCEPT !.found = fresh, !.selected = first] ELSE picker
  /\ scan' = NoScan
  /\ UNCHANGED <<paired, files, save, tally>>

\* handleSaveNewConfig; any log may have been dropped on the page.
ClickSave ==
  /\ picker.loaded /\ ~picker.saving /\ tally.saves < MaxSaves
  /\ \E k \in Saves, log \in Logs :
       /\ save[k] = IdleSave
       /\ save' = [save EXCEPT ![k] = [IdleSave EXCEPT !.at = "called", !.mine = TRUE,
                     !.payload = Payload(log, picker.selected, picker.manual)]]
  /\ picker' = [picker EXCEPT !.saving = TRUE]
  /\ tally' = [tally EXCEPT !.saves = @ + 1]
  /\ UNCHANGED <<paired, cache, files, scan>>

ConfigNext ==
  \/ \E k \in Saves : Choose(k) \/ Listed(k) \/ WriteTmp(k) \/ Rename(k)
  \/ PageLoads \/ PageLeaves \/ PickDevice \/ TypeAddress \/ ClickScan \/ ScanEnds \/ ClickSave
  \/ KilledConfig

-----------------------------------------------------------------------------

\* device.json is never half written, whenever the program is killed, and names
\* the band the user meant when he saved it, never another one because a scan
\* has gone out of date or a list could not be had
\* (device-config-service.ts, saveDeviceConfig).
SavedIsChosen ==
  /\ files.config.whole
  /\ Has(files.config) => files.config.addr \in files.config.meant
=============================================================================
